---------------------------- MODULE GenerationStore ----------------------------
(***************************************************************************)
(* Publication, recovery and compaction of store generations               *)
(* (src/massivedoc_generation*.inc).  On disk there are a journal of       *)
(* PREPARE and COMMIT records and one manifest file per generation.  What  *)
(* is taken out of use (a corrupt, uncommitted or stale manifest, an       *)
(* invalid journal tail) is moved to a quarantine directory that nothing   *)
(* reads again; here it is gone.                                           *)
(*                                                                         *)
(* generation_transaction_mutex lets one operation run at a time in the    *)
(* process, so "op" is the operation that holds it.  Each step below is    *)
(* one durable effect: the write together with the fsync of the file and   *)
(* of its directory that the code does before it goes on.  Interrupted,    *)
(* possible before every step, stands for a crash as well as for an I/O    *)
(* error that makes the call return false; whether the effect of the step  *)
(* being done survived is the choice between the state before and after    *)
(* it, and an append may also leave a torn record.  A manifest and the     *)
(* fingerprint (CRC and size) that names it in the journal are the same    *)
(* value here: checksums do not collide.                                   *)
(***************************************************************************)
EXTENDS Integers, Sequences, SequencesExt

CONSTANTS Generations,  \* generation numbers; zero is invalid in the code
          Contents,     \* serialized manifests, told apart by their CRC
          NoContent,    \* no manifest file
          Damaged,      \* a manifest file that fails its checks: its bytes, or
                        \* the size of a segment file it lists, are wrong
          Retains,      \* config.retain_committed_generations
          MaxRecords,   \* bound: records in the journal
          MaxFaults     \* bound: faults of the medium

ASSUME StoreAssumption == /\ Generations \subseteq Nat \ {0}
                          /\ Retains \subseteq Nat \ {0}
                          /\ NoContent \notin Contents
                          /\ Damaged \notin Contents
                          /\ MaxRecords \in Nat
                          /\ MaxFaults \in Nat

VARIABLES journal,      \* generation.journal
          manifest,     \* manifest[g]: the file generation-<g>.zmg
          op,           \* the operation under way and its locals
          told,         \* the authority last returned to a caller (history)
          faults        \* how often the medium has failed

disk == <<journal, manifest>>
vars == <<disk, op, told, faults>>

Kept(g, c) == [gen |-> g, content |-> c]
Nothing == Kept(0, NoContent)

Record(kind, g, c) == [kind |-> kind, gen |-> g, content |-> c]
Torn == Record("torn", 0, NoContent)
Records == {Record(kind, g, c) : kind \in {"prepare", "commit"},
                                 g \in Generations, c \in Contents} \cup {Torn}

Idle(result) == [at |-> "idle", kind |-> "none", target |-> Nothing, retain |-> 0,
                 second |-> FALSE, authority |-> Nothing, retained |-> {},
                 result |-> result]

Places == {"idle", "load", "scan", "clear", "prepare", "link", "commit",
           "replace", "sweep"}

Targets == [gen : Generations, content : Contents] \cup {Nothing}

(* Journal, manifests and the locals of the operation under way have their *)
(* types; retries and compactions leave the journal within its bound.      *)
StoreTypeOK ==
    /\ journal \in Seq(Records)
    /\ Len(journal) <= MaxRecords
    /\ manifest \in [Generations -> Contents \cup {NoContent, Damaged}]
    /\ op.at \in Places
    /\ op.kind \in {"none", "publish", "recover", "compact"}
    /\ op.target \in Targets
    /\ op.retained \subseteq Generations
    /\ op.result \in {"none", "success", "failure", "interrupted"}
    /\ faults \in 0..MaxFaults

Init == /\ journal = <<>>
        /\ manifest = [g \in Generations |-> NoContent]
        /\ op = Idle("none")
        /\ told = Nothing
        /\ faults = 0
--------------------------------------------------------------------------------
(* Wrong on purpose: a PREPARE repeated by a retry is not admitted.        *)
WellFormedOnce(j, i) ==
    LET Before == {j[k] : k \in {n \in 1..(i - 1) : j[n].gen = j[i].gen}} IN
    /\ j[i] # Torn
    /\ \A r \in Before : r.content = j[i].content
    /\ IF j[i].kind = "prepare" THEN Before = {} ELSE \E r \in Before : r.kind = "prepare"

(* generation_load_journal: a record is admitted if it parses and fits the *)
(* admitted ones before it.                                                *)
WellFormed(j, i) ==
    LET Before == {j[k] : k \in {n \in 1..(i - 1) : j[n].gen = j[i].gen}} IN
    /\ j[i] # Torn
    /\ \A r \in Before : r.content = j[i].content
    /\ IF j[i].kind = "prepare"
       THEN \A r \in Before : r.kind = "prepare"
       ELSE \E r \in Before : r.kind = "prepare"

ValidLength(j) == CHOOSE n \in 0..Len(j) : /\ n = Len(j) \/ ~WellFormed(j, n + 1)
                                          /\ \A i \in 1..n : WellFormed(j, i)
ValidPrefix(j) == SubSeq(j, 1, ValidLength(j))
InvalidTail(j) == SubSeq(j, ValidLength(j) + 1, Len(j))

Committed(j) == {Kept(j[i].gen, j[i].content) :
                    i \in {n \in 1..ValidLength(j) : j[n].kind = "commit"}}

(* Wrong on purpose: any manifest at the final path is believed.           *)
PresentIsIntact(k) == manifest[k.gen] # NoContent

(* generation_parse_manifest_file accepts the manifest the journal names.  *)
Intact(k) == manifest[k.gen] = k.content

Newest(S) == IF S = {} THEN Nothing ELSE CHOOSE k \in S : \A o \in S : o.gen <= k.gen

Candidates == {k \in Committed(journal) : manifest[k.gen] # NoContent}
Retainable == {k \in Candidates : Intact(k)}

Quarantine(g) == manifest' = [manifest EXCEPT ![g] = NoContent]

Goto(place) == op' = [op EXCEPT !.at = place]
Return(result) == op' = Idle(result)
--------------------------------------------------------------------------------
BeginPublish(g, c) ==
    /\ op.at = "idle"
    /\ Len(journal) + 2 <= MaxRecords
    /\ op' = [Idle("none") EXCEPT !.at = "load", !.kind = "publish", !.target = Kept(g, c)]
    /\ UNCHANGED <<disk, told, faults>>

BeginRecover ==
    /\ op.at = "idle"
    /\ op' = [Idle("none") EXCEPT !.at = "load", !.kind = "recover"]
    /\ UNCHANGED <<disk, told, faults>>

BeginCompact(n) ==
    /\ op.at = "idle"
    /\ op' = [Idle("none") EXCEPT !.at = "load", !.kind = "compact", !.retain = n]
    /\ UNCHANGED <<disk, told, faults>>

(* recover_store_generation, which publication and compaction run before   *)
(* they start and again after they are done.  An invalid tail is copied to *)
(* the quarantine, and then the journal is replaced by its valid prefix.   *)
LoadClean ==
    /\ op.at = "load"
    /\ InvalidTail(journal) = <<>>
    /\ Goto("scan")
    /\ UNCHANGED <<disk, told, faults>>

RepairJournal ==
    /\ op.at = "load"
    /\ InvalidTail(journal) # <<>>
    /\ journal' = ValidPrefix(journal)
    /\ Goto("scan")
    /\ UNCHANGED <<manifest, told, faults>>

(* The scan goes down from the newest committed generation that has a      *)
(* manifest; one that fails its checks is taken out of the way.            *)
QuarantineCorrupt ==
    LET newest == Newest(Candidates) IN
    /\ op.at = "scan"
    /\ newest # Nothing
    /\ ~Intact(newest)
    /\ Quarantine(newest.gen)
    /\ UNCHANGED <<journal, op, told, faults>>

ScanEnds(kind, second) ==
    /\ op.at = "scan"
    /\ op.kind = kind
    /\ op.second = second
    /\ Newest(Candidates) # Nothing => Intact(Newest(Candidates))

Found == Newest(Candidates)

RecoverReturns ==
    /\ ScanEnds("recover", FALSE)
    /\ told' = Found
    /\ Return("success")
    /\ UNCHANGED <<disk, faults>>
--------------------------------------------------------------------------------
(* publish_store_generation.                                               *)
PublishNotNewer ==
    /\ ScanEnds("publish", FALSE)
    /\ op.target.gen <= Found.gen
    /\ Return("failure")
    /\ UNCHANGED <<disk, told, faults>>

(* Wrong on purpose: a generation is published that is not newer.          *)
PublishGoesOnAnyway ==
    /\ ScanEnds("publish", FALSE)
    /\ Goto("clear")
    /\ UNCHANGED <<disk, told, faults>>

PublishGoesOn ==
    /\ ScanEnds("publish", FALSE)
    /\ op.target.gen > Found.gen
    /\ Goto("clear")
    /\ UNCHANGED <<disk, told, faults>>

(* What an interrupted publication left at the final path is evidence.     *)
QuarantineUncommitted ==
    /\ op.at = "clear"
    /\ IF manifest[op.target.gen] = NoContent
       THEN UNCHANGED manifest
       ELSE Quarantine(op.target.gen)
    /\ Goto("prepare")
    /\ UNCHANGED <<journal, told, faults>>

AppendRecord(kind) ==
    journal' = Append(journal, Record(kind, op.target.gen, op.target.content))

AppendPrepare ==
    /\ op.at = "prepare"
    /\ AppendRecord("prepare")
    /\ Goto("link")
    /\ UNCHANGED <<manifest, told, faults>>

(* The manifest is written to a temporary file and linked to its final     *)
(* path, which must not exist.                                             *)
LinkManifest ==
    /\ op.at = "link"
    /\ manifest[op.target.gen] = NoContent
    /\ manifest' = [manifest EXCEPT ![op.target.gen] = op.target.content]
    /\ Goto("commit")
    /\ UNCHANGED <<journal, told, faults>>

AppendCommit ==
    /\ op.at = "commit"
    /\ AppendRecord("commit")
    /\ op' = [op EXCEPT !.at = "load", !.second = TRUE]
    /\ UNCHANGED <<manifest, told, faults>>

PublishVerified ==
    /\ ScanEnds("publish", TRUE)
    /\ Found = op.target
    /\ told' = op.target
    /\ Return("success")
    /\ UNCHANGED <<disk, faults>>

PublishMismatch ==
    /\ ScanEnds("publish", TRUE)
    /\ Found # op.target
    /\ Return("failure")
    /\ UNCHANGED <<disk, told, faults>>
--------------------------------------------------------------------------------
(* compact_store_generation_metadata.                                      *)
CompactWithoutAuthority ==
    /\ ScanEnds("compact", FALSE)
    /\ Found = Nothing
    /\ Return("failure")
    /\ UNCHANGED <<disk, told, faults>>

CompactGoesOn ==
    /\ ScanEnds("compact", FALSE)
    /\ Found # Nothing
    /\ op' = [op EXCEPT !.at = "replace", !.authority = Found]
    /\ UNCHANGED <<disk, told, faults>>

NewestOf(S, n) == {k \in S : Cardinality({o \in S : o.gen > k.gen}) < n}

(* The n-th of S; the oldest is the first.                                 *)
Ranked(S, n) == CHOOSE k \in S : Cardinality({o \in S : o.gen <= k.gen}) = n

CompactedRecords(S) ==
    [i \in 1..(2 * Cardinality(S)) |->
        LET entry == Ranked(S, (i + 1) \div 2) IN
        Record(IF i % 2 = 1 THEN "prepare" ELSE "commit", entry.gen, entry.content)]

JournalOf(S) == CompactedRecords(S)

ReplaceJournal ==
    LET retained == NewestOf(Retainable, op.retain) IN
    /\ op.at = "replace"
    /\ Newest(retained) = op.authority
    /\ journal' = JournalOf(retained)
    /\ op' = [op EXCEPT !.at = "sweep", !.retained = {k.gen : k \in retained}]
    /\ UNCHANGED <<manifest, told, faults>>

(* Compaction loads the journal itself, and so may repair it once more.    *)
CannotRetainAuthority ==
    /\ op.at = "replace"
    /\ Newest(NewestOf(Retainable, op.retain)) # op.authority
    /\ journal' = ValidPrefix(journal)
    /\ Return("failure")
    /\ UNCHANGED <<manifest, told, faults>>

(* The directory is listed in no particular order.                         *)
QuarantineStale(g) ==
    /\ op.at = "sweep"
    /\ g \notin op.retained
    /\ manifest[g] # NoContent
    /\ Quarantine(g)
    /\ UNCHANGED <<journal, op, told, faults>>

(* Wrong on purpose: not going through the whole directory.                *)
SweepEndsEarly ==
    /\ op.at = "sweep"
    /\ op' = [op EXCEPT !.at = "load", !.second = TRUE]
    /\ UNCHANGED <<disk, told, faults>>

SweepEnds ==
    /\ op.at = "sweep"
    /\ \A g \in Generations \ op.retained : manifest[g] = NoContent
    /\ op' = [op EXCEPT !.at = "load", !.second = TRUE]
    /\ UNCHANGED <<disk, told, faults>>

CompactReturns ==
    /\ ScanEnds("compact", TRUE)
    /\ Return(IF Found = op.authority THEN "success" ELSE "failure")
    /\ UNCHANGED <<disk, told, faults>>
--------------------------------------------------------------------------------
Interrupted ==
    /\ op.at # "idle"
    /\ Return("interrupted")
    /\ UNCHANGED <<disk, told, faults>>

AppendTorn ==
    /\ op.at \in {"prepare", "commit"}
    /\ journal' = Append(journal, Torn)
    /\ Return("interrupted")
    /\ UNCHANGED <<manifest, told, faults>>

(* The medium may spoil a manifest or a journal record, but not within one *)
(* recovery pass, whose reads are taken to see one state of the disk.      *)
MediumFails ==
    /\ faults < MaxFaults
    /\ op.at # "scan"
    /\ faults' = faults + 1
    /\ \/ \E g \in Generations : /\ manifest[g] \in Contents
                                 /\ manifest' = [manifest EXCEPT ![g] = Damaged]
                                 /\ UNCHANGED journal
       \/ \E i \in 1..Len(journal) : /\ journal[i] # Torn
                                     /\ journal' = [journal EXCEPT ![i] = Torn]
                                     /\ UNCHANGED manifest
    /\ UNCHANGED <<op, told>>

RecoverStep == LoadClean \/ RepairJournal \/ QuarantineCorrupt \/ RecoverReturns

PublishStep == \/ PublishNotNewer \/ PublishGoesOn \/ QuarantineUncommitted
               \/ AppendPrepare \/ LinkManifest \/ AppendCommit
               \/ PublishVerified \/ PublishMismatch

CompactStep == \/ CompactWithoutAuthority \/ CompactGoesOn
               \/ ReplaceJournal \/ CannotRetainAuthority
               \/ \E g \in Generations : QuarantineStale(g)
               \/ SweepEnds \/ CompactReturns

Next == \/ \E g \in Generations, c \in Contents : BeginPublish(g, c)
        \/ BeginRecover
        \/ \E n \in Retains : BeginCompact(n)
        \/ RecoverStep \/ PublishStep \/ CompactStep
        \/ Interrupted \/ AppendTorn \/ MediumFails

Spec == Init /\ [][Next]_vars
--------------------------------------------------------------------------------
(* The committed generations whose manifest is there and sound.            *)
Recoverable == {k \in Committed(journal) : manifest[k.gen] = k.content}

Register == INSTANCE GenerationRegister WITH
                kept <- Recoverable,
                attempt <- IF op.kind = "publish" THEN op.target ELSE Nothing

(* What can be recovered from the disk, whoever looks and whenever, is a   *)
(* register of generations: an interrupted publication never becomes the   *)
(* authority later, recovery and compaction never change the authority,    *)
(* and a publication that returns true is the authority.                   *)
ImplementsRegister == Register!Spec

(* "durable PREPARE/temp/final pre-COMMIT states cannot permanently poison *)
(* an exact same-generation retry": on a sound medium a publication of a   *)
(* newer generation that is not interrupted fails only if the journal      *)
(* remembers another content for that very generation.                     *)
RetryNotPoisoned ==
    [][faults = 0 /\ op.kind = "publish" /\ op'.result = "failure" /\ op.second
          => \E r \in ToSet(journal) : r.gen = op.target.gen
                                       /\ r.content # op.target.content]_vars

(* "rerunning compaction must finish quarantining the remaining stale      *)
(* manifests": when it returns true nothing but the retained generations   *)
(* is left, whatever interrupted attempts left behind.                     *)
CompactionComplete ==
    [][faults = 0 /\ op.kind = "compact" /\ op'.result = "success" =>
          /\ {g \in Generations : manifest[g] # NoContent} = op.retained
          /\ {k.gen : k \in Recoverable} = op.retained
          /\ Len(journal) = 2 * Cardinality(op.retained)]_vars

(* What its comments promise of publication and compaction on a sound      *)
(* medium, whatever was interrupted before.                                *)
KeepsItsPromises == RetryNotPoisoned /\ CompactionComplete
================================================================================
