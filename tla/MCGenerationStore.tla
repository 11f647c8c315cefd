-------------------------- MODULE MCGenerationStore --------------------------
(* What is kept on disk, side by side: three stores of generations, the      *)
(* arena with one reader and with two, and the sequence of its records. In a *)
(* behaviour one of them moves.                                              *)
EXTENDS GenerationStore, CompactArena

CONSTANTS a, b

VARIABLE part   \* the component that moves; the others stay as they begin
(* Three generations of one content, of which compaction keeps two.          *)
VARIABLES tJournal, tManifest, tOp, tTold, tFaults
Three == INSTANCE GenerationStore
    WITH Generations <- 1..3, Contents <- {a}, Retains <- {2},
         MaxRecords <- 6, MaxFaults <- 0, journal <- tJournal,
         manifest <- tManifest, op <- tOp, told <- tTold, faults <- tFaults
ASSUME Three!StoreAssumption

(* A medium that damages or loses one file.                                  *)
VARIABLES fJournal, fManifest, fOp, fTold, fFaults
Faulty == INSTANCE GenerationStore
    WITH Generations <- 1..2, Contents <- {a, b}, Retains <- {1, 2},
         MaxRecords <- 5, MaxFaults <- 1, journal <- fJournal,
         manifest <- fManifest, op <- fOp, told <- fTold, faults <- fFaults
ASSUME Faulty!StoreAssumption

(* Two readers that move records, in a process that may end.                 *)
VARIABLES sHeights, sBlocks, sTotal, sCommitted, sDurable, sTold, sReader,
          sJob
Several == INSTANCE CompactArena
    WITH Readers <- {"r1", "r2"}, NumRecords <- 3, PerBlock <- 2,
         Heights <- {1}, MaxGeneration <- 2,
         Faults <- {"publication", "crash"}, heights <- sHeights,
         blocks <- sBlocks, total <- sTotal, committed <- sCommitted,
         durable <- sDurable, reported <- sTold, reader <- sReader, job <- sJob
ASSUME ArenaAssumption /\ Several!ArenaAssumption

(* Six records in chunks of at most two.                                     *)
VARIABLES qRoot, qPlain
Tree == INSTANCE OrderSequence
    WITH Heights <- {1, 2}, MaxChunk <- 2, MaxLength <- 6, root <- qRoot,
         plain <- qPlain
ASSUME Tree!SequenceAssumption

TwoVars == vars
ThreeVars == <<tJournal, tManifest, tOp, tTold, tFaults>>
FaultyVars == <<fJournal, fManifest, fOp, fTold, fFaults>>
SeveralVars == <<sHeights, sBlocks, sTotal, sCommitted, sDurable, sTold,
                 sReader, sJob>>
TreeVars == <<qRoot, qPlain>>
all == <<part, TwoVars, ThreeVars, FaultyVars, arenaVars, SeveralVars,
         TreeVars>>

Start == /\ part \in {"two", "three", "faulty", "arena", "readers", "sequence"}
         /\ Init
         /\ Three!Init
         /\ Faulty!Init
         /\ ArenaInit
         /\ part = "arena" \/ \A s \in 1..3 : heights[s] = 1
         /\ Several!ArenaInit
         /\ Tree!Init

TwoMoves == /\ part = "two" /\ Next
            /\ UNCHANGED <<part, ThreeVars, FaultyVars, arenaVars,
                           SeveralVars, TreeVars>>
ThreeMoves == /\ part = "three" /\ Three!Next
              /\ UNCHANGED <<part, TwoVars, FaultyVars, arenaVars,
                             SeveralVars, TreeVars>>
FaultyMoves == /\ part = "faulty" /\ Faulty!Next
               /\ UNCHANGED <<part, TwoVars, ThreeVars, arenaVars,
                              SeveralVars, TreeVars>>
ArenaMoves == /\ part = "arena" /\ ArenaNext
              /\ UNCHANGED <<part, TwoVars, ThreeVars, FaultyVars,
                             SeveralVars, TreeVars>>
SeveralMoves == /\ part = "readers" /\ Several!ArenaNext
                /\ UNCHANGED <<part, TwoVars, ThreeVars, FaultyVars,
                               arenaVars, TreeVars>>
TreeMoves == /\ part = "sequence" /\ Tree!Next
             /\ UNCHANGED <<part, TwoVars, ThreeVars, FaultyVars, arenaVars,
                            SeveralVars>>

Moves == TwoMoves \/ ThreeMoves \/ FaultyMoves \/ ArenaMoves \/
         SeveralMoves \/ TreeMoves

SumSpec == Start /\ [][Moves]_all
--------------------------------------------------------------------------------
(* Whatever is interrupted, repeated or lost, the other stores are         *)
(* registers of generations as well and keep the same promises (three      *)
(* generations; a medium that fails); every order of the arena is one move *)
(* of the order before it, with two readers as well, whose files agree as  *)
(* far as they can; the tree answers as the plain sequence.                *)
OthersKeepPromises ==
    /\ Three!ImplementsRegister /\ Faulty!ImplementsRegister
    /\ Three!KeepsItsPromises /\ Faulty!KeepsItsPromises
    /\ EachMoveBuildsOnTheLast /\ Several!EachMoveBuildsOnTheLast
    /\ [](StoreTypeOK /\ Three!StoreTypeOK /\ Faulty!StoreTypeOK)
    /\ [](Several!FilesAgree /\ Tree!SequenceTypeOK /\ Tree!AnswersAsSequence)
================================================================================
