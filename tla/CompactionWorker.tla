---------------------------- MODULE CompactionWorker ----------------------------
(***************************************************************************)
(* GenerationCompactionWorker (src/massivedoc_generation_background.cpp):  *)
(* one background thread that compacts the generation metadata of a store  *)
(* when it is asked to, one mutex and two condition variables.  A request  *)
(* that finds one pending is coalesced with it; one that arrives while a   *)
(* compaction runs is kept for another run.  Unlike the other workers of   *)
(* the repository this one notifies after it has released the mutex, so    *)
(* the notifications are steps of their own.                               *)
(***************************************************************************)
EXTENDS Naturals

CONSTANT Clients   \* threads that call the worker

VARIABLES pending, running, stop_requested,   \* of State
          worker,    \* where the worker thread is
          client,    \* where each client thread is in its call
          asked      \* what became of each client's last request (history)

state == <<pending, running, stop_requested>>
workerVars == <<state, worker, client, asked>>

(* "asleep" is the wait on work_cv; "idle" on the way to its predicate.    *)
WorkerPlaces == {"idle", "asleep", "run", "exited"}

(* "waitAsleep" is the wait on idle_cv; the two notify places are behind   *)
(* the unlock of request and cancel_pending.                               *)
ClientPlaces == {"idle", "notifyWork", "notifyIdle", "waitCheck", "waitAsleep",
                 "stopNotify", "join"}

(* A request that was accepted or coalesced waits until a run starts after *)
(* it and is served when that run ends; cancelling and stopping drop it.        *)
Fates == {"none", "waits", "inRun"}

(* The worker and its callers have the places and flags the code gives     *)
(* them, and a compaction is marked running exactly while one runs.        *)
WorkerTypeOK == /\ pending \in BOOLEAN
                /\ running \in BOOLEAN
                /\ stop_requested \in BOOLEAN
                /\ worker \in WorkerPlaces
                /\ client \in [Clients -> ClientPlaces]
                /\ asked \in [Clients -> Fates]
                /\ running <=> worker = "run"

WorkerInit ==
    /\ pending = FALSE
    /\ running = FALSE
    /\ stop_requested = FALSE
    /\ worker = "idle"
    /\ client = [c \in Clients |-> "idle"]
    /\ asked = [c \in Clients |-> "none"]
--------------------------------------------------------------------------------
WakeWorker == worker' = IF worker = "asleep" THEN "idle" ELSE worker

WakeWaiters(cs) ==
    [c \in Clients |-> IF cs[c] = "waitAsleep" THEN "waitCheck" ELSE cs[c]]

ClientGoes(c, place) == client' = [client EXCEPT ![c] = place]

(* All requests of one fate get another.                                   *)
Become(from, to) == asked' = [c \in Clients |-> IF asked[c] = from THEN to ELSE asked[c]]

CompactionAccepted(c) ==
    /\ client[c] = "idle"
    /\ ~stop_requested
    /\ ~pending
    /\ pending' = TRUE
    /\ asked' = [asked EXCEPT ![c] = "waits"]
    /\ ClientGoes(c, "notifyWork")
    /\ UNCHANGED <<running, stop_requested, worker>>

CompactionCoalesced(c) ==
    /\ client[c] = "idle"
    /\ ~stop_requested
    /\ pending
    /\ asked' = [asked EXCEPT ![c] = "waits"]
    /\ UNCHANGED <<state, worker, client>>

NotifyWork(c) ==
    /\ client[c] = "notifyWork"
    /\ WakeWorker
    /\ ClientGoes(c, "idle")
    /\ UNCHANGED <<state, asked>>

CancelPending(c) ==
    /\ client[c] = "idle"
    /\ pending
    /\ pending' = FALSE
    /\ Become("waits", "none")
    /\ ClientGoes(c, "notifyIdle")
    /\ UNCHANGED <<running, stop_requested, worker>>

NotifyIdle(c) ==
    /\ client[c] = "notifyIdle"
    /\ client' = WakeWaiters([client EXCEPT ![c] = "idle"])
    /\ UNCHANGED <<state, worker, asked>>
--------------------------------------------------------------------------------
(* wait_idle_for: the predicate does not look at stop_requested.           *)
Busy == running \/ pending

WaitBegin(c) ==
    /\ client[c] = "idle"
    /\ ClientGoes(c, "waitCheck")
    /\ UNCHANGED <<state, worker, asked>>

WaitSleep(c) ==
    /\ client[c] = "waitCheck"
    /\ Busy
    /\ ClientGoes(c, "waitAsleep")
    /\ UNCHANGED <<state, worker, asked>>

WaitReturns(c) ==
    /\ client[c] = "waitCheck"
    /\ ~Busy
    /\ ClientGoes(c, "idle")
    /\ UNCHANGED <<state, worker, asked>>

WaitTimesOut(c) ==
    /\ client[c] = "waitAsleep"
    /\ ClientGoes(c, "idle")
    /\ UNCHANGED <<state, worker, asked>>

(* stop may be called again, by the destructor for one, but not by two     *)
(* threads at a time: both would join the same std::thread.                *)
RequestStop(c) ==
    /\ client[c] = "idle"
    /\ \A d \in Clients : client[d] \notin {"stopNotify", "join"}
    /\ stop_requested' = TRUE
    /\ pending' = FALSE
    /\ Become("waits", "none")
    /\ ClientGoes(c, "stopNotify")
    /\ UNCHANGED <<running, worker>>

NotifyStop(c) ==
    /\ client[c] = "stopNotify"
    /\ WakeWorker
    /\ client' = WakeWaiters([client EXCEPT ![c] = "join"])
    /\ UNCHANGED <<state, asked>>

JoinWorker(c) ==
    /\ client[c] = "join"
    /\ worker = "exited"
    /\ ClientGoes(c, "idle")
    /\ UNCHANGED <<state, worker, asked>>
--------------------------------------------------------------------------------
(* State::run.                                                             *)
WaitForWork ==
    /\ worker = "idle"
    /\ ~stop_requested /\ ~pending
    /\ worker' = "asleep"
    /\ UNCHANGED <<state, client, asked>>

WorkerStops ==
    /\ worker = "idle"
    /\ stop_requested
    /\ pending' = FALSE
    /\ worker' = "exited"
    /\ client' = WakeWaiters(client)
    /\ UNCHANGED <<running, stop_requested, asked>>

StartCompaction ==
    /\ worker = "idle"
    /\ ~stop_requested
    /\ pending
    /\ pending' = FALSE
    /\ running' = TRUE
    /\ worker' = "run"
    /\ Become("waits", "inRun")
    /\ UNCHANGED <<stop_requested, client>>

(* Wrong on purpose: clearing pending when the run is over.                *)
EndCompactionClearingPending ==
    /\ worker = "run"
    /\ running' = FALSE
    /\ pending' = FALSE
    /\ worker' = IF stop_requested THEN "exited" ELSE "idle"
    /\ client' = WakeWaiters(client)
    /\ Become("inRun", "none")
    /\ UNCHANGED stop_requested

(* The executor returned or threw; the outcome is only recorded.           *)
EndCompaction ==
    /\ worker = "run"
    /\ running' = FALSE
    /\ pending' = (pending /\ ~stop_requested)
    /\ worker' = IF stop_requested THEN "exited" ELSE "idle"
    /\ client' = WakeWaiters(client)
    /\ Become("inRun", "none")
    /\ UNCHANGED stop_requested

(* The executor itself may call stop: then nothing is joined.              *)
StopFromExecutor ==
    /\ worker = "run"
    /\ stop_requested' = TRUE
    /\ pending' = FALSE
    /\ Become("waits", "none")
    /\ client' = WakeWaiters(client)
    /\ UNCHANGED <<running, worker>>

WorkerSpuriousWake ==
    /\ \/ WakeWorker /\ UNCHANGED client
       \/ \E c \in Clients : /\ client[c] = "waitAsleep"
                             /\ ClientGoes(c, "waitCheck")
                             /\ UNCHANGED worker
    /\ UNCHANGED <<state, asked>>
--------------------------------------------------------------------------------
ClientCall(c) == \/ CompactionAccepted(c) \/ CompactionCoalesced(c)
                 \/ CancelPending(c) \/ WaitBegin(c) \/ RequestStop(c)

ClientStep(c) == \/ NotifyWork(c) \/ NotifyIdle(c)
                 \/ WaitSleep(c) \/ WaitReturns(c)
                 \/ NotifyStop(c) \/ JoinWorker(c)

WorkerStep == WaitForWork \/ WorkerStops \/ StartCompaction \/ EndCompaction

WorkerNext ==
    \/ \E c \in Clients : ClientCall(c) \/ ClientStep(c) \/ WaitTimesOut(c)
    \/ WorkerStep
    \/ StopFromExecutor
    \/ WorkerSpuriousWake

WorkerSpec == WorkerInit /\ [][WorkerNext]_workerVars

(* Threads are scheduled and a compaction returns.  Nobody has to call, no *)
(* wait has to time out and nobody has to wake spuriously.                 *)
WorkerFairSpec == /\ WorkerSpec
                  /\ WF_workerVars(WorkerStep)
                  /\ \A c \in Clients : WF_workerVars(ClientStep(c))
--------------------------------------------------------------------------------
(* "single flight coalesces bounded pending work": coalescing loses        *)
(* nothing.  What wait_idle_for calls idle is idle: every request that was *)
(* taken, also one taken while a compaction was running, has had a whole   *)
(* compaction of its own after it, or was cancelled or stopped.            *)
IdleMeansServed == ~Busy => \A c \in Clients : asked[c] = "none"

(* A request that was taken does not wait for ever for its compaction.     *)
RequestServed == \A c \in Clients : []<>(asked[c] # "waits")

(* wait_idle_for does not sleep through idleness until it times out.       *)
WaiterNoticesIdle == \A c \in Clients : []<>~(client[c] = "waitAsleep" /\ ~Busy)

(* stop returns: the thread it joins is woken, and leaves.                 *)
StopEnds == \A c \in Clients : []<>(client[c] \notin {"stopNotify", "join"})
================================================================================
