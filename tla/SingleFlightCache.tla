----------------------------- MODULE SingleFlightCache -----------------------------
(***************************************************************************)
(* The caches of verified fonts and of prepared font faces: one mutex, a   *)
(* list of entries, a list of keys being built, and one condition.  The    *)
(* slow work is done outside the mutex by one thread per key, the others   *)
(* that want the key sleep until it is done, and look again.               *)
(* The epochs that order entries by use are the order of the sequence.     *)
(***************************************************************************)
EXTENDS Naturals, Sequences, SequencesExt

CONSTANTS Threads, Keys,
          Contents,        \* what the bytes of a font can be
          Size,            \* Size[c]: bytes retained for content c
          Limit,           \* retention_hard_limit
          MaxEntries,
          LookupCompares,  \* whether a call that may not build has bytes to compare
          Calls            \* bound: calls of one thread

CacheAssumption == /\ Limit \in Nat \ {0} /\ MaxEntries \in Nat \ {0} /\ Calls \in Nat
                   /\ Size \in [Contents -> 1..Limit] /\ LookupCompares \in BOOLEAN

VARIABLES entries,   \* least recently used first: [key, content]
          building,  \* inflight: [key, thread]
          retained,  \* the ledger's bytes
          at,        \* at[t]: "idle", "looks", "sleeps", "builds" or "notifies"
          call,      \* call[t]: [key, content, build]
          got,       \* got[t]: content of the last answer, or None
          callsLeft  \* callsLeft[t]: calls t may still make

cacheVars == <<entries, building, retained, at, call, got, callsLeft>>

None == "none"
NoCall == [key |-> None, content |-> None, build |-> FALSE]

CacheInit == /\ entries = <<>> /\ building = {} /\ retained = 0
             /\ at = [t \in Threads |-> "idle"]
             /\ call = [t \in Threads |-> NoCall]
             /\ got = [t \in Threads |-> None]
             /\ callsLeft = [t \in Threads |-> Calls]
-----------------------------------------------------------------------------
Call(t, k, c, build) ==
    /\ at[t] = "idle" /\ callsLeft[t] > 0
    /\ at' = [at EXCEPT ![t] = "looks"]
    /\ call' = [call EXCEPT ![t] = [key |-> k, content |-> c, build |-> build]]
    /\ got' = [got EXCEPT ![t] = None]
    /\ callsLeft' = [callsLeft EXCEPT ![t] = @ - 1]
    /\ UNCHANGED <<entries, building, retained>>

Resident(k) == \E i \in DOMAIN entries : entries[i].key = k
InFlight(k) == \E b \in building : b.key = k
Place(k) == CHOOSE i \in DOMAIN entries : entries[i].key = k
Entry(k) == entries[Place(k)]
UsedLast(k) == Append(RemoveAt(entries, Place(k)), Entry(k))

(* Bytes that the key does not identify are a collision, not a hit.        *)
Collides(t) == /\ call[t].build \/ LookupCompares
               /\ Entry(call[t].key).content # call[t].content

Hit(t) ==
    /\ at[t] = "looks" /\ Resident(call[t].key)
    /\ at' = [at EXCEPT ![t] = "idle"]
    /\ IF Collides(t) THEN UNCHANGED <<entries, got>>
       ELSE /\ entries' = UsedLast(call[t].key)
            /\ got' = [got EXCEPT ![t] = Entry(call[t].key).content]
    /\ UNCHANGED <<building, retained, call, callsLeft>>

Miss(t) ==
    /\ at[t] = "looks" /\ ~Resident(call[t].key) /\ ~call[t].build
    /\ at' = [at EXCEPT ![t] = "idle"]
    /\ UNCHANGED <<entries, building, retained, call, got, callsLeft>>

MustWaitNever(k) == FALSE   \* wrong on purpose
MustWait(k) == InFlight(k)

Sleep(t) ==
    /\ at[t] = "looks" /\ ~Resident(call[t].key) /\ call[t].build
    /\ MustWait(call[t].key)
    /\ at' = [at EXCEPT ![t] = "sleeps"]
    /\ UNCHANGED <<entries, building, retained, call, got, callsLeft>>

(* recorded: the list of builds could grow.                                *)
StartBuild(t, recorded) ==
    /\ at[t] = "looks" /\ ~Resident(call[t].key) /\ call[t].build
    /\ ~MustWait(call[t].key)
    /\ at' = [at EXCEPT ![t] = IF recorded THEN "builds" ELSE "idle"]
    /\ building' = IF recorded THEN building \cup {[key |-> call[t].key, thread |-> t]}
                   ELSE building
    /\ UNCHANGED <<entries, retained, call, got, callsLeft>>
-----------------------------------------------------------------------------
Bytes(es) == FoldSeq(LAMBDA e, n : n + Size[e.content], 0, es)

(* One more entry of this size fits, by number and by bytes.               *)
Fits(kept, size) == Len(kept) < MaxEntries /\ Bytes(kept) + size <= Limit

(* So many entries are given up, the least recently used first, until it   *)
(* does.                                                                   *)
Without(n) == SubSeq(entries, n + 1, Len(entries))
Evicts(n, size) == /\ Fits(Without(n), size)
                   /\ \A m \in 0..(n - 1) : ~Fits(Without(m), size)

(* The build is over: its key leaves the list whatever came of it.  grows: *)
(* the entry list could take the entry, else its bytes are given back.     *)
Done(t, ok) == {b \in building : b.thread # t}

ChargedForGood(before, kept, size, grows) ==   \* wrong on purpose
    before - Bytes(entries) + Bytes(kept) + size
Charged(before, kept, size, grows) ==
    before - Bytes(entries) + Bytes(kept) + (IF grows THEN size ELSE 0)

EndBuild(t, ok, grows) ==
    /\ at[t] = "builds"
    /\ at' = [at EXCEPT ![t] = "notifies"]
    /\ building' = Done(t, ok)
    /\ IF ok
       THEN LET c == call[t].content IN
            \E n \in 0..Len(entries) :
                /\ Evicts(n, Size[c])
                /\ entries' = IF grows THEN Append(Without(n), [key |-> call[t].key, content |-> c])
                              ELSE Without(n)
                /\ retained' = Charged(retained, Without(n), Size[c], grows)
                /\ got' = IF grows THEN [got EXCEPT ![t] = c] ELSE got
       ELSE UNCHANGED <<entries, retained, got>>
    /\ UNCHANGED <<call, callsLeft>>

(* The mutex is free again before the sleepers are woken.                  *)
WokenOne(s) == {CHOOSE t \in s : TRUE}   \* wrong on purpose
Woken(s) == s

Notify(t) ==
    /\ at[t] = "notifies"
    /\ LET asleep == {u \in Threads : at[u] = "sleeps"}
           woken == IF asleep = {} THEN {} ELSE Woken(asleep)
       IN at' = [u \in Threads |-> IF u = t THEN "idle" ELSE IF u \in woken THEN "looks" ELSE at[u]]
    /\ UNCHANGED <<entries, building, retained, call, got, callsLeft>>

Clear == /\ entries' = <<>>
         /\ retained' = retained - Bytes(entries)
         /\ UNCHANGED <<building, at, call, got, callsLeft>>

Goes(t) == \/ Hit(t) \/ Miss(t) \/ Sleep(t) \/ Notify(t)
           \/ \E b \in BOOLEAN : StartBuild(t, b)
           \/ \E ok, grows \in BOOLEAN : EndBuild(t, ok, grows)

CacheNext ==
    \/ \E t \in Threads, k \in Keys, c \in Contents, build \in BOOLEAN : Call(t, k, c, build)
    \/ \E t \in Threads : Goes(t)
    \/ Clear

CacheSpec == CacheInit /\ [][CacheNext]_cacheVars

(* A thread in a call goes on; a build ends.                               *)
CacheFairSpec == CacheSpec /\ \A t \in Threads : WF_cacheVars(Goes(t))
-----------------------------------------------------------------------------
CacheTypeOK ==
    /\ entries \in Seq([key : Keys, content : Contents])
    /\ building \subseteq [key : Keys, thread : Threads]
    /\ retained \in 0..Limit
    /\ at \in [Threads -> {"idle", "looks", "sleeps", "builds", "notifies"}]
    /\ \A t \in Threads : at[t] = "builds" <=> [key |-> call[t].key, thread |-> t] \in building

(* No key has two entries or two builders, and none is built while it is   *)
(* resident: entries are appended without looking for the key.             *)
OneOfEachKey == /\ \A i, j \in DOMAIN entries : entries[i].key = entries[j].key => i = j
                /\ \A a, b \in building : a.key = b.key => a = b
                /\ \A b \in building : ~Resident(b.key)

(* The ledger holds exactly what the entries retain, within both limits.   *)
RetentionExact == /\ retained = Bytes(entries)
                  /\ Len(entries) <= MaxEntries

(* Who brings the bytes gets a font of these bytes or an error.            *)
AnswersMatch == \A t \in Threads : got[t] # None /\ (call[t].build \/ LookupCompares)
                                      => got[t] = call[t].content

(* Who sleeps, sleeps for a build that still runs or is about to wake it.  *)
NoLostSleeper == \A t \in Threads : at[t] = "sleeps" =>
                    InFlight(call[t].key) \/ \E u \in Threads : at[u] = "notifies"

(* One builder and one entry for a font, the font that was asked for, and  *)
(* nobody asleep for a build that is over.                                 *)
FontsSharedRightly == OneOfEachKey /\ AnswersMatch /\ NoLostSleeper

(* Whoever wants a font is answered.                                       *)
CallsReturn == \A t \in Threads : []<>(at[t] = "idle")
================================================================================
