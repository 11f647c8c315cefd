-------------------------- MODULE ForegroundLayoutPool --------------------------
(***************************************************************************)
(* SharedForegroundLayoutWorkerPool (src/foreground_layout_worker_pool.cpp)*)
(* composed with the mailbox of ForegroundHandoff.  The pool has a mutex   *)
(* of its own and two condition variables; a call that enters the pool,    *)
(* leaves it and enters the mailbox (or the other way round) is split      *)
(* where it holds neither lock, because another thread may run there.      *)
(* open_session and set_session_active call the mailbox with the pool's    *)
(* lock held, once, so they remain one step.                               *)
(***************************************************************************)
EXTENDS ForegroundHandoff, Sequences

CONSTANTS Clients,    \* threads that call the pool
          Workers,    \* the config.worker_count threads of the pool
          Serves,     \* Serves[c]: the sessions client thread c calls for
          NoSessionId,\* the identity no session has, zero in the code
          MaxOpens    \* bound: how often one identity is opened

ASSUME PoolAssumption == /\ NoSessionId \notin Sessions
                         /\ Serves \in [Clients -> SUBSET Sessions]
                         /\ MaxOpens \in Nat

VARIABLES pool,         \* State::sessions of the pool
          queue,        \* State::queue, session identities
          poolStopped,  \* State::stopped of the pool
          worker,       \* where each worker thread is, and what it holds
          client,       \* where each client thread is in its call
          opens         \* how often each identity has been opened (history)

poolVars == <<pool, queue, poolStopped>>
threadVars == <<worker, client>>
vars == <<handoffVars, poolVars, threadVars, opens>>

PoolSession == [open : BOOLEAN, active : BOOLEAN, queued : BOOLEAN,
                running : BOOLEAN, rerun : BOOLEAN, latest : MaybeId]

NoSession == [open |-> FALSE, active |-> FALSE, queued |-> FALSE,
              running |-> FALSE, rerun |-> FALSE, latest |-> 0]

(* "asleep" is the wait on work_cv; "idle" is on the way to its predicate. *)
WorkerPlaces == {"absent", "idle", "asleep", "claim", "execute", "finish", "exited"}

(* "closeAsleep" is the wait on idle_cv; "closeWait" on the way to its     *)
(* predicate.                                                              *)
ClientPlaces == {"idle", "enqueue", "closeHide", "closeWait", "closeAsleep",
                 "closeMailbox", "stopMailboxes", "join"}

(* The session and request a thread is at work on: the locals of its call. *)
Frame(Places) == [at : Places, session : Sessions \cup {NoSessionId}, id : MaybeId]
Resting(place) == [at |-> place, session |-> NoSessionId, id |-> 0]

(* The pool, its queue and its threads have the types of the code, and the *)
(* mailbox under the pool keeps its own, byte budget included.             *)
PoolTypeOK == /\ HandoffTypeOK
              /\ pool \in [Sessions -> PoolSession]
              /\ queue \in Seq(Sessions)
              /\ poolStopped \in BOOLEAN
              /\ worker \in [Workers -> Frame(WorkerPlaces)]
              /\ client \in [Clients -> Frame(ClientPlaces)]
              /\ opens \in [Sessions -> 0..MaxOpens]

PoolInit == /\ HandoffInit
            /\ pool = [s \in Sessions |-> NoSession]
            /\ queue = <<>>
            /\ poolStopped = FALSE
            /\ worker = [w \in Workers |-> Resting("absent")]
            /\ client = [c \in Clients |-> Resting("idle")]
            /\ opens = [s \in Sessions |-> 0]
--------------------------------------------------------------------------------
(* notify_one and notify_all of the two condition variables, on the        *)
(* threads as the step otherwise leaves them.                              *)
NotifyNoWorker(ws) == {ws}   \* wrong on purpose: no notify_one

NotifyOneWorker(ws) ==
    LET asleep == {w \in Workers : ws[w].at = "asleep"} IN
    IF asleep = {} THEN {ws} ELSE {[ws EXCEPT ![w] = Resting("idle")] : w \in asleep}

LeaveWorkersAsleep(ws) == ws   \* wrong on purpose: no notify_all in stop

NotifyAllWorkers(ws) ==
    [w \in Workers |-> IF ws[w].at = "asleep" THEN Resting("idle") ELSE ws[w]]

NotifyAllClients(cs) ==
    [c \in Clients |->
        IF cs[c].at = "closeAsleep" THEN [cs[c] EXCEPT !.at = "closeWait"] ELSE cs[c]]

(* Wrong on purpose: without the check of queued.                          *)
EnqueueAgain(s, ps, ws) ==
    IF ~ps[s].active \/ poolStopped
    THEN /\ pool' = ps
         /\ worker' = ws
         /\ UNCHANGED queue
    ELSE /\ pool' = [ps EXCEPT ![s].queued = TRUE]
         /\ queue' = Append(queue, s)
         /\ worker' \in NotifyOneWorker(ws)

(* enqueue_locked, on the pool and the workers as the caller leaves them.  *)
Enqueue(s, ps, ws) ==
    IF ps[s].queued \/ ~ps[s].active \/ poolStopped
    THEN /\ pool' = ps
         /\ worker' = ws
         /\ UNCHANGED queue
    ELSE /\ pool' = [ps EXCEPT ![s].queued = TRUE]
         /\ queue' = Append(queue, s)
         /\ worker' \in NotifyOneWorker(ws)

Runnable(s) == pool[s].open /\ pool[s].active /\ ~pool[s].running

Calling(c, s) == client[c].at = "idle" /\ s \in Serves[c]

Goto(c, place) == client' = [client EXCEPT ![c].at = place]
Return(c) == client' = [client EXCEPT ![c] = Resting("idle")]
--------------------------------------------------------------------------------
(* open_session starts the missing workers first; if a thread cannot be    *)
(* started the call fails, and the threads already started stay.           *)
Started(W) == [w \in Workers |->
                  IF w \in W /\ worker[w].at = "absent" THEN Resting("idle") ELSE worker[w]]

OpenSession(c, s, active) ==
    /\ Calling(c, s)
    /\ ~poolStopped
    /\ ~pool[s].open
    /\ opens[s] < MaxOpens
    /\ opens' = [opens EXCEPT ![s] = @ + 1]
    /\ OpenMailbox(s, active)
    /\ pool' = [pool EXCEPT ![s] = [NoSession EXCEPT !.open = TRUE, !.active = active]]
    /\ worker' = Started(Workers)
    /\ UNCHANGED <<queue, poolStopped, client>>

WorkerStartFails(c, s) ==
    /\ Calling(c, s)
    /\ ~poolStopped
    /\ ~pool[s].open
    /\ \E W \in SUBSET {w \in Workers : worker[w].at = "absent"} :
          /\ \E w \in Workers \ W : worker[w].at = "absent"
          /\ worker' = Started(W)
    /\ UNCHANGED <<handoffVars, poolVars, client, opens>>

ShowSession(c, s) ==
    /\ Calling(c, s)
    /\ ~poolStopped
    /\ pool[s].open
    /\ ShowMailbox(s)
    /\ pool' = [pool EXCEPT ![s].active = TRUE]
    /\ UNCHANGED <<queue, poolStopped, threadVars, opens>>

HideSession(c, s) ==
    /\ Calling(c, s)
    /\ ~poolStopped
    /\ pool[s].open
    /\ HideMailbox(s)
    /\ pool' = [pool EXCEPT ![s] = [@ EXCEPT !.active = FALSE, !.rerun = FALSE]]
    /\ UNCHANGED <<queue, poolStopped, threadVars, opens>>

(* request: the mailbox first, without the pool's lock ...                 *)
RequestSchedule(c, s, id) ==
    /\ Calling(c, s)
    /\ Schedule(s, id)
    /\ client' = [client EXCEPT ![c] = [at |-> "enqueue", session |-> s, id |-> id]]
    /\ UNCHANGED <<poolVars, worker, opens>>

(* Wrong on purpose: no rerun marker for a session that is running.        *)
RequestEnqueueNoRerun(c) ==
    LET s == client[c].session IN
    /\ client[c].at = "enqueue"
    /\ IF poolStopped \/ ~Runnable(s)
       THEN UNCHANGED <<pool, queue, worker>>
       ELSE Enqueue(s, [pool EXCEPT ![s].latest = client[c].id], worker)
    /\ Return(c)
    /\ UNCHANGED <<handoffVars, poolStopped, opens>>

(* ... then the pool, where the session may by now be closed, hidden or    *)
(* stopped (the call then reports so), running, or waiting for its turn.   *)
RequestEnqueue(c) ==
    LET s == client[c].session IN
    /\ client[c].at = "enqueue"
    /\ IF poolStopped \/ ~pool[s].open \/ ~pool[s].active
       THEN UNCHANGED <<pool, queue, worker>>
       ELSE LET ps == [pool EXCEPT ![s].latest = client[c].id] IN
            IF pool[s].running
            THEN /\ pool' = [ps EXCEPT ![s].rerun = TRUE]
                 /\ UNCHANGED <<queue, worker>>
            ELSE Enqueue(s, ps, worker)
    /\ Return(c)
    /\ UNCHANGED <<handoffVars, poolStopped, opens>>

(* try_take_ready goes straight to the mailbox.                            *)
CollectReady(c, s) ==
    /\ Calling(c, s)
    /\ TakeReady(s)
    /\ UNCHANGED <<poolVars, threadVars, opens>>
--------------------------------------------------------------------------------
(* close_session: suppress scheduling, hide the mailbox, wait until no     *)
(* worker runs the session, erase it, and only then close the mailbox.     *)
CloseBegin(c, s) ==
    /\ Calling(c, s)
    /\ pool[s].open
    /\ pool' = [pool EXCEPT ![s] = [@ EXCEPT !.active = FALSE, !.rerun = FALSE]]
    /\ client' = [client EXCEPT ![c] = [at |-> "closeHide", session |-> s, id |-> 0]]
    /\ UNCHANGED <<handoffVars, queue, poolStopped, worker, opens>>

CloseHide(c) ==
    LET s == client[c].session IN
    /\ client[c].at = "closeHide"
    /\ IF mail[s].open /\ ~handoffStopped THEN HideMailbox(s) ELSE UNCHANGED handoffVars
    /\ Goto(c, "closeWait")
    /\ UNCHANGED <<poolVars, worker, opens>>

CloseSleep(c) ==
    LET s == client[c].session IN
    /\ client[c].at = "closeWait"
    /\ pool[s].open /\ pool[s].running
    /\ Goto(c, "closeAsleep")
    /\ UNCHANGED <<handoffVars, poolVars, worker, opens>>

(* Wrong on purpose: the executor is erased under a run.                   *)
CloseEraseAtOnce(c) ==
    LET s == client[c].session IN
    /\ client[c].at = "closeWait"
    /\ pool[s].open
    /\ pool' = [pool EXCEPT ![s] = NoSession]
    /\ client' = NotifyAllClients([client EXCEPT ![c].at = "closeMailbox"])
    /\ UNCHANGED <<handoffVars, queue, poolStopped, worker, opens>>

CloseErase(c) ==
    LET s == client[c].session IN
    /\ client[c].at = "closeWait"
    /\ pool[s].open /\ ~pool[s].running
    /\ pool' = [pool EXCEPT ![s] = NoSession]
    /\ client' = NotifyAllClients([client EXCEPT ![c].at = "closeMailbox"])
    /\ UNCHANGED <<handoffVars, queue, poolStopped, worker, opens>>

(* Another thread closed or cleared the session while this one waited.     *)
CloseFindsNothing(c) ==
    /\ client[c].at = "closeWait"
    /\ ~pool[client[c].session].open
    /\ Return(c)
    /\ UNCHANGED <<handoffVars, poolVars, worker, opens>>

CloseMailboxLast(c) ==
    LET s == client[c].session IN
    /\ client[c].at = "closeMailbox"
    /\ IF mail[s].open THEN CloseMailbox(s) ELSE UNCHANGED handoffVars
    /\ Return(c)
    /\ UNCHANGED <<poolVars, worker, opens>>

(* stop: a second stop returns at once, even while the first still joins.  *)
StopBegin(c) ==
    /\ client[c].at = "idle"
    /\ ~poolStopped
    /\ poolStopped' = TRUE
    /\ queue' = <<>>
    /\ pool' = [s \in Sessions |->
                  [pool[s] EXCEPT !.active = FALSE, !.queued = FALSE, !.rerun = FALSE]]
    /\ worker' = NotifyAllWorkers(worker)
    /\ Goto(c, "stopMailboxes")
    /\ UNCHANGED <<handoffVars, opens>>

StopHandoff(c) ==
    /\ client[c].at = "stopMailboxes"
    /\ StopMailboxes
    /\ Goto(c, "join")
    /\ UNCHANGED <<poolVars, worker, opens>>

StopJoined(c) ==
    /\ client[c].at = "join"
    /\ \A w \in Workers : worker[w].at \in {"absent", "exited"}
    /\ pool' = [s \in Sessions |-> NoSession]
    /\ client' = NotifyAllClients([client EXCEPT ![c] = Resting("idle")])
    /\ UNCHANGED <<handoffVars, queue, poolStopped, worker, opens>>
--------------------------------------------------------------------------------
(* worker_loop.                                                            *)
WaitForWork(w) ==
    /\ worker[w].at = "idle"
    /\ ~poolStopped /\ queue = <<>>
    /\ worker' = [worker EXCEPT ![w] = Resting("asleep")]
    /\ UNCHANGED <<handoffVars, poolVars, client, opens>>

WorkerExit(w) ==
    /\ worker[w].at = "idle"
    /\ poolStopped /\ queue = <<>>
    /\ worker' = [worker EXCEPT ![w] = Resting("exited")]
    /\ UNCHANGED <<handoffVars, poolVars, client, opens>>

(* An entry may outlive its session, or find it hidden or already running. *)
SkipEntry(w) ==
    LET s == Head(queue) IN
    /\ worker[w].at = "idle"
    /\ queue # <<>>
    /\ ~Runnable(s)
    /\ queue' = Tail(queue)
    /\ pool' = [pool EXCEPT ![s].queued = FALSE]
    /\ client' = NotifyAllClients(client)
    /\ UNCHANGED <<handoffVars, poolStopped, worker, opens>>

StartRun(w) ==
    LET s == Head(queue) IN
    /\ worker[w].at = "idle"
    /\ queue # <<>>
    /\ Runnable(s)
    /\ queue' = Tail(queue)
    /\ pool' = [pool EXCEPT ![s] = [@ EXCEPT !.queued = FALSE, !.running = TRUE]]
    /\ worker' = [worker EXCEPT ![w] = [at |-> "claim", session |-> s, id |-> 0]]
    /\ UNCHANGED <<handoffVars, poolStopped, client, opens>>

ClaimPending(w) ==
    LET s == worker[w].session IN
    /\ worker[w].at = "claim"
    /\ IF CanTake(s)
       THEN /\ TakePending(s)
            /\ worker' = [worker EXCEPT ![w] = [@ EXCEPT !.at = "execute",
                                                         !.id = mail[s].pending]]
       ELSE /\ UNCHANGED handoffVars
            /\ worker' = [worker EXCEPT ![w].at = "finish"]
    /\ UNCHANGED <<poolVars, client, opens>>

(* The executor returns, with success or without, and its envelope of the  *)
(* given size is offered to the mailbox.                                   *)
PublishRun(w, size) ==
    LET s == worker[w].session
        id == worker[w].id
    IN
    /\ worker[w].at = "execute"
    /\ IF ClaimHeld(s, id) THEN PublishReady(s, id, size) ELSE UNCHANGED handoffVars
    /\ worker' = [worker EXCEPT ![w].at = "finish"]
    /\ UNCHANGED <<poolVars, client, opens>>

(* Wrong on purpose: requeueing for a request this run has claimed, and     *)
(* testing rerun_requested after it was cleared.                           *)
RerunWaits(s, claimed) == pool[s].rerun /\ pool[s].active /\ ~poolStopped
NothingWaits(s, claimed) == FALSE   \* wrong on purpose

(* finish_run: back to the queue only for a request newer than the claimed *)
(* one.                                                                    *)
NewerRequestWaits(s, claimed) == /\ pool[s].rerun
                                 /\ pool[s].active
                                 /\ ~poolStopped
                                 /\ pool[s].latest > claimed

FinishRun(w) ==
    LET s == worker[w].session
        ps == [pool EXCEPT ![s] = [@ EXCEPT !.running = FALSE, !.rerun = FALSE]]
        ws == [worker EXCEPT ![w] = Resting("idle")]
    IN
    /\ worker[w].at = "finish"
    /\ IF pool[s].open /\ NewerRequestWaits(s, worker[w].id)
       THEN Enqueue(s, ps, ws)
       ELSE /\ pool' = ps
            /\ worker' = ws
            /\ UNCHANGED queue
    /\ client' = NotifyAllClients(client)
    /\ UNCHANGED <<handoffVars, poolStopped, opens>>

(* A condition variable may also return without having been notified.      *)
SpuriousWake ==
    /\ \/ \E w \in Workers : /\ worker[w].at = "asleep"
                             /\ worker' = [worker EXCEPT ![w] = Resting("idle")]
                             /\ UNCHANGED client
       \/ \E c \in Clients : /\ client[c].at = "closeAsleep"
                             /\ Goto(c, "closeWait")
                             /\ UNCHANGED worker
    /\ UNCHANGED <<handoffVars, poolVars, opens>>
--------------------------------------------------------------------------------
(* A call the environment decides to make, and the rest of a call under    *)
(* way.                                                                    *)
ClientCall(c) ==
    \/ \E s \in Sessions :
          \/ \E active \in BOOLEAN : OpenSession(c, s, active)
          \/ WorkerStartFails(c, s)
          \/ ShowSession(c, s)
          \/ HideSession(c, s)
          \/ \E id \in RequestIds : RequestSchedule(c, s, id)
          \/ CollectReady(c, s)
          \/ CloseBegin(c, s)
    \/ StopBegin(c)

ClientStep(c) == \/ RequestEnqueue(c)
                 \/ CloseHide(c) \/ CloseSleep(c) \/ CloseErase(c)
                 \/ CloseFindsNothing(c) \/ CloseMailboxLast(c)
                 \/ StopHandoff(c) \/ StopJoined(c)

WorkerStep(w) == \/ WaitForWork(w) \/ WorkerExit(w)
                 \/ SkipEntry(w) \/ StartRun(w)
                 \/ ClaimPending(w)
                 \/ \E size \in Charges : PublishRun(w, size)
                 \/ FinishRun(w)

PoolNext == \/ \E c \in Clients : ClientCall(c) \/ ClientStep(c)
            \/ \E w \in Workers : WorkerStep(w)
            \/ SpuriousWake

PoolSpec == PoolInit /\ [][PoolNext]_vars

(* Every started thread is scheduled, a mutex that keeps being released is *)
(* eventually had, and an executor returns.  Nobody has to make a call, a  *)
(* thread need not wake spuriously, and the UI need not collect a result.  *)
PoolFairness == /\ \A c \in Clients : WF_vars(ClientStep(c))
                /\ \A w \in Workers : WF_vars(WorkerStep(w))

FairPoolSpec == PoolSpec /\ PoolFairness
--------------------------------------------------------------------------------
Busy(w) == worker[w].at \in {"claim", "execute", "finish"}

(* "permits at most one running layout per session", and close_session     *)
(* destroys the executor only when no worker is inside it: a busy worker   *)
(* has the open, running session to itself, and the request it executes is *)
(* the one the mailbox says is running until the mailboxes are stopped.    *)
RunOwnsSession ==
    /\ \A w \in Workers : Busy(w) =>
          LET s == worker[w].session IN
          /\ pool[s].open /\ pool[s].running
          /\ \A v \in Workers \ {w} : Busy(v) => worker[v].session # s
          /\ mail[s].running = IF worker[w].at = "execute" /\ ~handoffStopped
                               THEN worker[w].id ELSE 0
    /\ \A s \in Sessions : pool[s].running \/ mail[s].running # 0 =>
          \E w \in Workers : Busy(w) /\ worker[w].session = s

(* Some step that is bound to happen will look at the pending request of   *)
(* session s: its queue entry, a worker that has yet to claim, the rerun   *)
(* at the end of an older run, or the second half of its own request.      *)
WillBeLookedAt(s) ==
    \/ pool[s].queued /\ \E i \in 1..Len(queue) : queue[i] = s
    \/ \E w \in Workers : /\ worker[w].session = s
                          /\ \/ worker[w].at = "claim"
                             \/ Busy(w) /\ NewerRequestWaits(s, worker[w].id)
    \/ \E c \in Clients : /\ client[c].at = "enqueue" /\ client[c].session = s
                          /\ client[c].id = mail[s].pending

(* No lost request: a pending request of a session that is not being shut  *)
(* down is never left with nobody to claim it, in particular not between   *)
(* the two locks of request and the two locks of the worker loop.          *)
NoStrandedRequest ==
    \A s \in Sessions : mail[s].pending # 0 /\ pool[s].active => WillBeLookedAt(s)

(* No lost wakeup: as long as a worker sleeps, every entry of the queue    *)
(* has another worker on its way to it, though an entry wakes only one.    *)
NoLostWakeup ==
    LET At(place) == {w \in Workers : worker[w].at = place} IN
    At("asleep") # {} => Cardinality(At("idle")) >= Len(queue)

(* "exactly one requeue occurs only when a strictly newer request is still *)
(* pending".                                                               *)
RequeueOnlyForPending ==
    [][\A w \in Workers :
          worker[w].at = "finish" /\ worker'[w].at # "finish"
              /\ Len(queue') > Len(queue)
          => LET s == worker[w].session
             IN  mail[s].pending > worker[w].id]_vars

(* "a session is queued at most once".                                     *)
QueuedAtMostOnce ==
    \A i, j \in 1..Len(queue) : queue[i] = queue[j] => i = j

(* To the entries that its closed openings have left behind, an identity   *)
(* that is opened again adds one at the most.                              *)
QueuedOncePerOpening ==
    \A s \in Sessions : Cardinality({i \in 1..Len(queue) : queue[i] = s}) <= opens[s]

(* The newest request is answered, dropped for want of room, or obsoleted  *)
(* by a newer one, a hide, a close or a stop; it is not owed for ever.     *)
RequestSettled ==
    \A s \in Sessions, id \in RequestIds :
        Owed(mail[s]) /\ mail[s].latest = id
            ~> ~Owed(mail[s]) \/ mail[s].latest # id

(* Every call returns: close_session is woken when the run it waits for    *)
(* ends, and stop is not kept waiting by a worker that sleeps.             *)
CallsReturn == \A c \in Clients : client[c].at # "idle" ~> client[c].at = "idle"
================================================================================
