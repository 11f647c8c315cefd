------------------------------ MODULE CompactArena ------------------------------
(***************************************************************************)
(* The arena of a store keeps the order of the records, as immutable       *)
(* generation files, and their heights, as three files that must agree: a  *)
(* height per record, a sum per block, the total in the header.  Every     *)
(* reader holds a copy of all that; one mutex of the process is held by    *)
(* whoever opens, moves or updates.  The process may end at any step.      *)
(***************************************************************************)
EXTENDS Integers, FiniteSetsExt, SequencesExt

CONSTANTS Readers,
          NumRecords,     \* logical_records
          PerBlock,       \* records_per_block
          Heights,        \* heights the layout may measure
          MaxGeneration,  \* bound on the generations of the order
          Faults          \* what may go wrong besides

FaultKinds == {"crash", "publication", "height", "rollback"}

ArenaAssumption == /\ NumRecords \in Nat \ {0} /\ PerBlock \in Nat \ {0}
                   /\ Heights \subseteq Nat \ {0} /\ Heights # {}
                   /\ MaxGeneration \in Nat
                   /\ Faults \subseteq FaultKinds

Sources == 1..NumRecords                     \* physical source records
Block(s) == (s - 1) \div PerBlock
Blocks == {Block(s) : s \in Sources}
Identity == [k \in Sources |-> k]

VARIABLES heights,    \* record-heights.idx
          blocks,     \* height-blocks.idx
          total,      \* total_height_q8 of arena.meta; TornHeader when it is truncated
          committed,  \* the generation files: an order for each generation
          durable,    \* generations whose directory entry has been synced
          reported,   \* the newest generation whose move was reported done
          reader,     \* what each reader holds in memory
          job         \* what the holder of the mutex is doing

arenaVars == <<heights, blocks, total, committed, durable, reported, reader, job>>

TornHeader == -1
Closed == [open |-> FALSE]
Free == [step |-> "free"]

HeightOf(h, S) == MapThenSumSet(LAMBDA s : h[s], S)
InBlock(b) == {s \in Sources : Block(s) = b}
BlockSums(h) == [b \in Blocks |-> HeightOf(h, InBlock(b))]
Total(h) == HeightOf(h, Sources)

NewestOrder == Max(DOMAIN committed \cup {0})
OrderOf(g) == IF g = 0 THEN Identity ELSE committed[g]

ArenaInit ==
    /\ heights \in [Sources -> Heights]
    /\ blocks = BlockSums(heights)
    /\ total = Total(heights)
    /\ committed = <<>>
    /\ durable = {}
    /\ reported = 0
    /\ reader = [r \in Readers |-> Closed]
    /\ job = Free
--------------------------------------------------------------------------------
(* open: the three files are compared, the newest order is loaded.         *)
Open(r) ==
    /\ job = Free
    /\ blocks = BlockSums(heights)
    /\ total = Total(heights)
    /\ reader' = [reader EXCEPT ![r] = [open |-> TRUE, height |-> heights,
                                        order |-> OrderOf(NewestOrder),
                                        generation |-> NewestOrder]]
    /\ UNCHANGED <<heights, blocks, total, committed, durable, reported, job>>

(* open that fails, or a reader that is dropped.                           *)
Close(r) ==
    /\ job = Free
    /\ reader' = [reader EXCEPT ![r] = Closed]
    /\ UNCHANGED <<heights, blocks, total, committed, durable, reported, job>>

Moved(order, i, j) == InsertAt(RemoveAt(order, i), j, order[i])

(* move_logical_record takes the mutex and forks the sequence; publishing  *)
(* an order that is not newer than the files closes the reader.            *)
BeginMove(r, i, j) ==
    LET g == reader[r].generation + 1 IN
    /\ job = Free /\ reader[r].open /\ i # j /\ g <= MaxGeneration
    /\ IF g > NewestOrder
       THEN /\ job' = [step |-> "link", by |-> r, generation |-> g,
                       order |-> Moved(reader[r].order, i, j)]
            /\ UNCHANGED reader
       ELSE /\ reader' = [reader EXCEPT ![r] = Closed]
            /\ UNCHANGED job
    /\ UNCHANGED <<heights, blocks, total, committed, durable, reported>>

(* The temporary file is complete and flushed; it gets its final name.     *)
Link ==
    /\ job.step = "link"
    /\ committed' = [g \in DOMAIN committed \cup {job.generation} |->
                       IF g = job.generation THEN job.order ELSE committed[g]]
    /\ job' = [job EXCEPT !.step = "sync"]
    /\ UNCHANGED <<heights, blocks, total, durable, reported, reader>>

SyncDirectory ==
    /\ job.step = "sync"
    /\ durable' = DOMAIN committed
    /\ job' = [job EXCEPT !.step = "verify"]
    /\ UNCHANGED <<heights, blocks, total, committed, reported, reader>>

(* The committed generation is read back and the candidate goes live.      *)
Adopt ==
    /\ job.step = "verify"
    /\ NewestOrder = job.generation /\ committed[NewestOrder] = job.order
    /\ reader' = [reader EXCEPT ![job.by].order = job.order,
                                ![job.by].generation = job.generation]
    /\ reported' = job.generation
    /\ job' = Free
    /\ UNCHANGED <<heights, blocks, total, committed, durable>>

(* A failure at any step of the publication, before or after the link.     *)
MoveFails ==
    /\ "publication" \in Faults
    /\ job.step \in {"link", "sync", "verify"}
    /\ reader' = [reader EXCEPT ![job.by] = Closed]
    /\ job' = Free
    /\ UNCHANGED <<heights, blocks, total, committed, durable, reported>>
--------------------------------------------------------------------------------
(* update_height: the record is found by the reader's order; only its own  *)
(* height is compared with the file.                                       *)
BeginUpdate(r, i, h) ==
    /\ job = Free /\ reader[r].open
    /\ LET s == reader[r].order[i] IN
       /\ reader[r].height[s] = heights[s]
       /\ job' = [step |-> "record", by |-> r, source |-> s, new |-> h,
                  old |-> heights[s]]
    /\ UNCHANGED <<heights, blocks, total, committed, durable, reported, reader>>

Mine == reader[job.by].height
Uncorrected == Mine   \* wrong on purpose
Corrected == [Mine EXCEPT ![job.source] = job.new]

WriteRecord ==
    /\ job.step = "record"
    /\ heights' = [heights EXCEPT ![job.source] = job.new]
    /\ job' = [job EXCEPT !.step = "block"]
    /\ UNCHANGED <<blocks, total, committed, durable, reported, reader>>

(* The sum of the block is corrected from the reader's own copy of it.     *)
WriteBlock ==
    /\ job.step = "block"
    /\ blocks' = [blocks EXCEPT ![Block(job.source)] =
                    BlockSums(Corrected)[Block(job.source)]]
    /\ job' = [job EXCEPT !.step = "truncate"]
    /\ UNCHANGED <<heights, total, committed, durable, reported, reader>>

(* The header is opened with truncation ...                                *)
TruncateHeader ==
    /\ job.step = "truncate"
    /\ total' = TornHeader
    /\ job' = [job EXCEPT !.step = "header"]
    /\ UNCHANGED <<heights, blocks, committed, durable, reported, reader>>

(* ... and written; then the sequence and the copies are updated.          *)
WriteHeader ==
    /\ job.step = "header"
    /\ total' = Total(Corrected)
    /\ reader' = [reader EXCEPT ![job.by].height = Corrected]
    /\ job' = Free
    /\ UNCHANGED <<heights, blocks, committed, durable, reported>>

(* A write fails: what was written before it is written back, the header   *)
(* is not; the writing back may fail as well.                              *)
UpdateFails ==
    /\ "height" \in Faults
    /\ job.step \in {"record", "block", "truncate", "header"}
    /\ \E undone \in SUBSET {"block", "height"} :
         /\ undone = {"block", "height"} \/ "rollback" \in Faults
         /\ heights' = IF "height" \in undone
                       THEN [heights EXCEPT ![job.source] = job.old]
                       ELSE heights
         /\ blocks' = IF job.step \in {"truncate", "header"} /\ "block" \in undone
                      THEN [blocks EXCEPT ![Block(job.source)] =
                              BlockSums(Mine)[Block(job.source)]]
                      ELSE blocks
    /\ job' = Free
    /\ UNCHANGED <<total, committed, durable, reported, reader>>

(* The process ends; a name that was not synced may be gone.               *)
Crash ==
    /\ "crash" \in Faults
    /\ \E lost \in SUBSET (DOMAIN committed \ durable) :
         committed' = [g \in DOMAIN committed \ lost |-> committed[g]]
    /\ reader' = [r \in Readers |-> Closed]
    /\ job' = Free
    /\ UNCHANGED <<heights, blocks, total, durable, reported>>

ArenaNext ==
    \/ \E r \in Readers : Open(r) \/ Close(r)
    \/ \E r \in Readers, i, j \in Sources : BeginMove(r, i, j)
    \/ \E r \in Readers, i \in Sources, h \in Heights : BeginUpdate(r, i, h)
    \/ Link \/ SyncDirectory \/ Adopt \/ MoveFails
    \/ WriteRecord \/ WriteBlock \/ TruncateHeader \/ WriteHeader
    \/ UpdateFails \/ Crash

ArenaSpec == ArenaInit /\ [][ArenaNext]_arenaVars
--------------------------------------------------------------------------------
(* Files and copies are well formed, every order names every record once.  *)
Orders == {f \in [Sources -> Sources] : IsInjective(f)}
Copies == [open : {TRUE}, height : [Sources -> Heights], order : Orders,
           generation : 0..MaxGeneration]
ArenaTypeOK ==
    /\ heights \in [Sources -> Heights]
    /\ blocks \in [Blocks -> Nat]
    /\ total \in Nat \cup {TornHeader}
    /\ DOMAIN committed \subseteq 1..MaxGeneration
    /\ \A g \in DOMAIN committed : committed[g] \in Orders
    /\ durable \subseteq DOMAIN committed
    /\ reported \in 0..MaxGeneration
    /\ reader \in [Readers -> Copies \cup {Closed}]
    /\ job = Free \/ job.by \in Readers

(* An open reader holds the order of its generation, as its file says: a   *)
(* publication that failed or was overtaken does not leave a reader with   *)
(* an order of its own (docs/M2_SESSION_LOGICAL_MOVE.md, "Publication").   *)
OrderIsCommitted ==
    \A r \in Readers : reader[r].open =>
       /\ reader[r].generation \in DOMAIN committed \cup {0}
       /\ reader[r].order = OrderOf(reader[r].generation)

(* A move that was reported done outlives the process.                     *)
DoneIsDurable == reported = 0 \/ reported \in durable

(* The three files agree when nobody writes them; a header may be torn,    *)
(* never wrong (docs/M2_DYNAMIC_HEIGHT_INDEX.md, "Required invariants").   *)
HeightsAgree ==
    job = Free => /\ blocks = BlockSums(heights)
                  /\ total \in {TornHeader, Total(heights)}

(* A reader holds the order it says it holds, what was reported done       *)
(* survives, and as long as one reader measures, its process does not end  *)
(* and what it writes back arrives, the files of heights agree.            *)
OneWriter == /\ \A r, s \in Readers : r = s
             /\ Faults \cap {"crash", "rollback"} = {}
FilesAgree == /\ ArenaTypeOK /\ OrderIsCommitted /\ DoneIsDurable
              /\ OneWriter => HeightsAgree

(* No move is lost: a new generation is one move of the newest there is,   *)
(* whatever the reader that publishes it had seen.                         *)
EachMoveBuildsOnTheLast ==
    [][\A g \in DOMAIN committed' \ DOMAIN committed :
          /\ g = NewestOrder + 1
          /\ \E i, j \in Sources : committed'[g] = Moved(OrderOf(NewestOrder), i, j)]_arenaVars
================================================================================
