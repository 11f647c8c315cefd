----------------------------- MODULE MCBackground -----------------------------
(* The threads that work in the background, side by side: the compaction     *)
(* worker, the single prefetch worker, the shared prefetch pool twice, the   *)
(* memory poller and the threads that wait for each other in a font cache.   *)
(* In a behaviour one of them moves.                                         *)
EXTENDS CompactionWorker, MemoryPressure, SourcePrefetchPool

(* The compaction worker has clients to call it.  The pool has one session *)
(* that is closed and opened again, hidden and shown, on two threads; a    *)
(* result fits or is too large.  The memory is eight shares: two below     *)
(* critical, the hysteresis bands, and room between.                       *)
CONSTANTS c1, c2, c3, s1, s2, o1, o2, w1, w2

ThreeClients == {c1, c2, c3}
OneSession == {s1}
TwoOpenings == {o1, o2}
TwoThreads == {w1, w2}
TwoCallers == {c1, c2}
FontSizes == [f \in {"large", "small"} |-> IF f = "large" THEN 4 ELSE 2]

ASSUME SourcePoolAssumption
ASSUME ConfigAssumption

VARIABLE part   \* the component that moves; the others stay as they begin

(* Three callers: one can stop while a second waits and a third requests.  *)
VARIABLES sAuthority, sPending, sReady, sStopping, sThread, sInHand, sCaller
Single == INSTANCE SourcePrefetch
    WITH Callers <- {c1, c2, c3}, Windows <- {"near", "far"},
         authority <- sAuthority, pending <- sPending, ready <- sReady,
         stopping <- sStopping, thread <- sThread, inHand <- sInHand,
         caller <- sCaller
ASSUME Single!SourcePrefetchAssumption

(* Two sessions share one thread and one byte budget.                      *)
VARIABLES pObject, pRegistered, pQueue, pTally, pStopping, pThread, pCaller
Shared == INSTANCE SourcePrefetchPool
    WITH Sessions <- {s1, s2}, Threads <- {w1}, Callers <- {c1},
         MaxEpoch <- 1, Windows <- {1, 2}, Charges <- {1, 2},
         object <- pObject, registered <- pRegistered, queue <- pQueue,
         tally <- pTally, stopping <- pStopping, thread <- pThread,
         caller <- pCaller
ASSUME Shared!SourcePoolAssumption

(* Three threads ask for one font; calls that may not build compare the bytes. *)
VARIABLES fEntries, fBuilding, fRetained, fAt, fCall, fGot, fLeft
Fonts == INSTANCE SingleFlightCache
    WITH Threads <- {c1, c2, c3}, Keys <- {"x"},
         Contents <- {"large", "small"}, Size <- FontSizes, Limit <- 4,
         MaxEntries <- 2, LookupCompares <- TRUE, Calls <- 1,
         entries <- fEntries, building <- fBuilding, retained <- fRetained,
         at <- fAt, call <- fCall, got <- fGot, callsLeft <- fLeft
ASSUME Fonts!CacheAssumption

SingleVars == <<sAuthority, sPending, sReady, sStopping, sThread, sInHand,
                sCaller>>
SharedVars == <<pObject, pRegistered, pQueue, pTally, pStopping, pThread,
                pCaller>>
FontsVars == <<fEntries, fBuilding, fRetained, fAt, fCall, fGot, fLeft>>
all == <<part, workerVars, vars, pressureVars, SingleVars, SharedVars, FontsVars>>

Start == /\ part \in {"compaction", "single", "pool", "shared", "memory", "fonts"}
         /\ WorkerInit
         /\ Single!Init
         /\ Init
         /\ Shared!Init
         /\ PressureInit
         /\ Fonts!CacheInit

CompactionMoves == /\ part = "compaction" /\ WorkerNext
                   /\ UNCHANGED <<part, SingleVars, vars, SharedVars,
                                  pressureVars, FontsVars>>
SingleMoves == /\ part = "single" /\ Single!Next
               /\ UNCHANGED <<part, workerVars, vars, SharedVars,
                              pressureVars, FontsVars>>
PoolMoves == /\ part = "pool" /\ Next
             /\ UNCHANGED <<part, workerVars, SingleVars, SharedVars,
                            pressureVars, FontsVars>>
SharedMoves == /\ part = "shared" /\ Shared!Next
               /\ UNCHANGED <<part, workerVars, SingleVars, vars,
                              pressureVars, FontsVars>>
MemoryMoves == /\ part = "memory" /\ PressureNext
               /\ UNCHANGED <<part, workerVars, SingleVars, vars,
                              SharedVars, FontsVars>>
FontsMoves == /\ part = "fonts" /\ Fonts!CacheNext
              /\ UNCHANGED <<part, workerVars, SingleVars, vars,
                             SharedVars, pressureVars>>

Moves == CompactionMoves \/ SingleMoves \/ PoolMoves \/ SharedMoves \/
         MemoryMoves \/ FontsMoves

SumSpec == /\ Start /\ [][Moves]_all
           /\ WF_workerVars(part = "compaction" /\ WorkerStep)
           /\ \A c \in Clients : WF_workerVars(part = "compaction" /\ ClientStep(c))
           /\ WF_SingleVars(part = "single" /\ Single!ThreadStep)
           /\ \A c \in ThreeClients : WF_SingleVars(part = "single" /\ Single!CallGoesOn(c))
           /\ \A w \in Threads : WF_vars(part = "pool" /\ ThreadStep(w))
           /\ \A c \in Callers : WF_vars(part = "pool" /\ CallGoesOn(c))
           /\ WF_SharedVars(part = "shared" /\ Shared!ThreadStep(w1))
           /\ WF_SharedVars(part = "shared" /\ Shared!CallGoesOn(c1))
           /\ WF_pressureVars(part = "memory" /\ Throttled)
           /\ SF_pressureVars(part = "memory" /\ \E s \in Samples : Sampled(s))
           /\ \A t \in ThreeClients : WF_FontsVars(part = "fonts" /\ Fonts!Goes(t))
--------------------------------------------------------------------------------
(* Whatever was taken, queued or is short is served in the end: a          *)
(* compaction that was asked for, a session in the queue however noisy the *)
(* other is, a critical shortage of memory.                                *)
EverythingServed == RequestServed /\ Shared!NoStarvation /\ ShortageReachesTabs

(* Beside the pool of one session, whose counters and pending requests are *)
(* invariants of their own, every worker is throughout what it should be:  *)
(* the pool of two counts exactly what its sessions hold, and no pending   *)
(* request is left behind a sleeping thread.                               *)
EachIsSound ==
    /\ PoolTypeOK /\ WorkerTypeOK /\ PressureTypeOK /\ Fonts!CacheTypeOK
    /\ Single!WorkerTypeOK /\ Single!NothingForgotten
    /\ Shared!PoolTypeOK /\ Shared!CountersExact /\ Shared!NothingForgotten

(* Nobody is stuck in a call: stop joins its threads, whoever waits for    *)
(* idleness notices it, whoever waits for a font is answered; and a call   *)
(* for a prefetched window is not answered with that of an earlier ticket. *)
CallsAreAnswered == /\ []EachIsSound
                    /\ WaiterNoticesIdle /\ StopEnds
                    /\ Single!StopEnds /\ StopReturns /\ Shared!StopReturns
                    /\ Fonts!CallsReturn
                    /\ Single!PrefetchKeepsPromise /\ Shared!PrefetchKeepsPromise
================================================================================
