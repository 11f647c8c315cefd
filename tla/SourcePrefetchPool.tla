---------------------------- MODULE SourcePrefetchPool ----------------------------
(***************************************************************************)
(* SharedSourcePrefetchPool (src/shared_source_prefetch_pool_o1_*.inc):    *)
(* few threads read source windows ahead for many pages.  A session object *)
(* outlives its registration while a thread runs it, so that an identity   *)
(* that is closed and opened again has two objects for a while; openings   *)
(* are therefore numbered, and registered[s] says which one is current.    *)
(* Everything but the notifications of request and stop happens under one  *)
(* mutex; the work itself, outside of it.                                  *)
(***************************************************************************)
EXTENDS Naturals, Sequences, FiniteSetsExt

CONSTANTS Sessions,     \* session identities
          Openings,     \* bound: session objects, at most one per open_session
          Threads,      \* the worker threads, config.worker_count of them
          Callers,      \* threads that call the pool
          MaxEpoch,     \* bound: tickets are the epochs 0..MaxEpoch
          Still,        \* the tickets whose direction is 0
          Windows,      \* source windows a request may name
          Charges,      \* bytes a result may take
          MaxReady,     \* config.max_ready_bytes
          MaxQueue      \* bound: requests are made while the queue is shorter

Tickets == 0..MaxEpoch
Requests == [ticket : Tickets, window : Windows]
None == "none"

SourcePoolAssumption ==
    /\ MaxEpoch \in Nat /\ Still \subseteq Tickets
    /\ Charges \subseteq Nat /\ MaxReady \in Nat /\ MaxQueue \in Nat
    /\ IsFiniteSet(Openings) /\ None \notin Openings \cup Sessions

VARIABLES object,      \* the SessionState objects
          registered,  \* State::sessions: the object of each open session
          queue,       \* State::queue
          tally,       \* the counters that status() reports, and ready_bytes
          stopping,    \* State::stop_requested
          thread,      \* where each worker thread is, with the locals of run()
          caller       \* where each calling thread is

pool == <<object, registered, queue, tally>>
vars == <<pool, stopping, thread, caller>>

NoObject == [session |-> None, authority |-> 0, active |-> FALSE, closed |-> FALSE,
             queued |-> FALSE, running |-> FALSE, counted |-> FALSE,
             pending |-> {}, ready |-> {}, charge |-> 0]
NewObject(s, t, active) == [NoObject EXCEPT !.session = s, !.authority = t,
                                            !.active = active, !.counted = TRUE]

AtPlace(place) == [at |-> place, object |-> None, request |-> {}]

Init == /\ object = [o \in Openings |-> NoObject]
        /\ registered = [s \in Sessions |-> None]
        /\ queue = <<>>
        /\ tally = [active |-> 0, queued |-> 0, running |-> 0, ready |-> 0, bytes |-> 0]
        /\ stopping = FALSE
        /\ thread = [w \in Threads |-> AtPlace("unborn")]
        /\ caller = [c \in Callers |-> "idle"]
--------------------------------------------------------------------------------
(* Counters are decremented unless they are zero already.                  *)
Less(n, b) == IF b /\ n # 0 THEN n - 1 ELSE n
More(n, b) == IF b THEN n + 1 ELSE n

ThreadsWoken(ts) == [w \in Threads |-> IF ts[w].at = "asleep" THEN AtPlace("awake") ELSE ts[w]]
CallersWoken(cs) == [c \in Callers |-> IF cs[c] = "waitAsleep" THEN "waitCheck" ELSE cs[c]]

(* An entry carries the epoch its session had when it was queued; only     *)
(* whether that epoch is still the session's matters, and is kept here.    *)
Outdated(q, o) == [i \in DOMAIN q |-> [q[i] EXCEPT !.live = @ /\ q[i].object # o]]
PushedFront(q, o) == <<[object |-> o, live |-> TRUE]>> \o Outdated(q, o)   \* wrong on purpose
Pushed(q, o) == Append(Outdated(q, o), [object |-> o, live |-> TRUE])

Open(s, o) == /\ registered[s] = o
              /\ o # None
              /\ ~object[o].closed

(* The memory of an object is free once nothing points to it.              *)
Unreferenced(o) == /\ \A s \in Sessions : registered[s] # o
                   /\ \A w \in Threads : thread[w].object # o
                   /\ \A i \in DOMAIN queue : queue[i].object # o

OpenSession(s, o, t, active) ==
    /\ ~stopping
    /\ registered[s] = None
    /\ Unreferenced(o)
    /\ registered' = [registered EXCEPT ![s] = o]
    /\ object' = [object EXCEPT ![o] = NewObject(s, t, active)]
    /\ tally' = [tally EXCEPT !.active = More(@, active)]
    /\ UNCHANGED <<queue, stopping, thread, caller>>

(* What closing a session, or stopping, leaves of it and of the counters.  *)
Shut(x) == [x EXCEPT !.closed = TRUE, !.active = FALSE, !.queued = FALSE,
                     !.counted = FALSE, !.pending = {}, !.ready = {}, !.charge = 0]
ReleasedKeepingRunning(n, x) ==   \* wrong on purpose: the running count is left to the run
    [active |-> Less(n.active, x.counted /\ x.active),
     queued |-> Less(n.queued, x.counted /\ x.queued),
     running |-> n.running,
     ready |-> Less(n.ready, x.counted /\ x.ready # {}),
     bytes |-> IF x.charge <= n.bytes THEN n.bytes - x.charge ELSE 0]
Released(n, x) ==
    [active |-> Less(n.active, x.counted /\ x.active),
     queued |-> Less(n.queued, x.counted /\ x.queued),
     running |-> Less(n.running, x.counted /\ x.running),
     ready |-> Less(n.ready, x.counted /\ x.ready # {}),
     bytes |-> IF x.charge <= n.bytes THEN n.bytes - x.charge ELSE 0]

CloseSession(s, o) ==
    /\ registered[s] = o
    /\ object' = [object EXCEPT ![o] = Shut(@)]
    /\ tally' = Released(tally, object[o])
    /\ queue' = IF object[o].queued THEN Outdated(queue, o) ELSE queue
    /\ registered' = [registered EXCEPT ![s] = None]
    /\ thread' = ThreadsWoken(thread)
    /\ caller' = CallersWoken(caller)
    /\ UNCHANGED stopping

(* What the pool asks of its callers, and FrameBudgetScheduler keeps:      *)
(* epochs only grow, and a page that is shown again has a fresh ticket.    *)
FreshTicket(x, t, active) ==
    /\ t >= x.authority
    /\ active /\ ~x.active => t > x.authority \/ t \in Still

SetAuthority(s, o, t, active) ==
    LET x == object[o]
        kept(S) == {r \in S : active /\ r.ticket = t}
        unqueued == x.queued /\ (~active \/ kept(x.pending) # x.pending)
        dropped == kept(x.ready) # x.ready
    IN /\ Open(s, o)
       /\ FreshTicket(x, t, active)
       /\ object' = [object EXCEPT ![o] =
                       [x EXCEPT !.authority = t, !.active = active,
                                 !.pending = kept(@), !.ready = kept(@),
                                 !.queued = @ /\ ~unqueued,
                                 !.charge = IF dropped THEN 0 ELSE @]]
       /\ tally' = [tally EXCEPT
                      !.active = Less(More(@, active /\ ~x.active), x.active /\ ~active),
                      !.queued = Less(@, unqueued),
                      !.ready = Less(@, dropped),
                      !.bytes = IF dropped THEN @ - x.charge ELSE @]
       /\ queue' = IF unqueued THEN Outdated(queue, o) ELSE queue
       /\ thread' = ThreadsWoken(thread)
       /\ caller' = CallersWoken(caller)
       /\ UNCHANGED <<registered, stopping>>

Admissible(s, o, r) == /\ ~stopping
                       /\ Open(s, o)
                       /\ object[o].active
                       /\ r.ticket \notin Still /\ r.ticket = object[o].authority
                       /\ r \notin object[o].ready \cup object[o].pending

(* A pending request is replaced and keeps its place in the queue.         *)
RequestReplaced(s, o, r) ==
    /\ Admissible(s, o, r)
    /\ object[o].pending # {}
    /\ object' = [object EXCEPT ![o].pending = {r}]
    /\ UNCHANGED <<registered, queue, tally, stopping, thread, caller>>

(* A request for a session that runs is queued when the run ends.          *)
QueuedNow(x) == ~x.running /\ ~x.queued

(* Some of the missing threads may fail to start; one is enough.           *)
RequestAccepted(c, s, o, r) ==
    LET unborn == {w \in Threads : thread[w].at = "unborn"}
        enqueued == QueuedNow(object[o])
    IN /\ Admissible(s, o, r)
       /\ object[o].pending = {}
       /\ Len(queue) < MaxQueue
       /\ caller[c] = "idle"
       /\ \E started \in SUBSET unborn :
            /\ started # {} \/ unborn # Threads
            /\ thread' = [w \in Threads |-> IF w \in started THEN AtPlace("awake")
                                            ELSE thread[w]]
       /\ object' = [object EXCEPT ![o].pending = {r}, ![o].queued = @ \/ enqueued]
       /\ queue' = IF enqueued THEN Pushed(queue, o) ELSE queue
       /\ tally' = [tally EXCEPT !.queued = More(@, enqueued)]
       /\ caller' = [caller EXCEPT ![c] = "notify"]
       /\ UNCHANGED <<registered, stopping>>

(* notify_one, after the unlock.                                           *)
NotifyOne(c) ==
    LET asleep == {w \in Threads : thread[w].at = "asleep"}
    IN /\ caller[c] = "notify"
       /\ caller' = [caller EXCEPT ![c] = "idle"]
       /\ thread' \in IF asleep = {} THEN {thread}
                      ELSE {[thread EXCEPT ![w] = AtPlace("awake")] : w \in asleep}
       /\ UNCHANGED <<pool, stopping>>

TakeReady(s, o) ==
    /\ registered[s] = o
    /\ o # None
    /\ object[o].ready # {}
    /\ object' = [object EXCEPT ![o].ready = {}, ![o].charge = 0]
    /\ tally' = [tally EXCEPT !.ready = Less(@, TRUE), !.bytes = @ - object[o].charge]
    /\ UNCHANGED <<registered, queue, stopping, thread, caller>>

Idle == \/ stopping
        \/ \A s \in Sessions : LET o == registered[s]
                               IN o # None => /\ ~object[o].running /\ ~object[o].queued
                                              /\ object[o].pending = {}

Goto(c, from, to) == caller[c] = from /\ caller' = [caller EXCEPT ![c] = to]

WaitIdle(c) == /\ \/ Goto(c, "idle", "waitCheck")
                  \/ ~Idle /\ Goto(c, "waitCheck", "waitAsleep")
                  \/ Idle /\ Goto(c, "waitCheck", "idle")
               /\ UNCHANGED <<pool, stopping, thread>>

(* A timeout, or a wakeup nobody sent.                                     *)
WaitDisturbed(c) == /\ \/ Goto(c, "waitAsleep", "idle")
                       \/ Goto(c, "waitAsleep", "waitCheck")
                    /\ UNCHANGED <<pool, stopping, thread>>

(* A second stop finds the threads taken and returns at once.  A stop from *)
(* a pool thread would join itself and is left out.                        *)
StopBegin(c) ==
    LET current == {registered[s] : s \in Sessions} \ {None}
    IN /\ ~stopping
       /\ Goto(c, "idle", "stopNotify")
       /\ stopping' = TRUE
       /\ object' = [o \in Openings |-> IF o \in current THEN Shut(object[o]) ELSE object[o]]
       /\ tally' = FoldSet(LAMBDA o, n : Released(n, object[o]), tally, current)
       /\ queue' = <<>>
       /\ UNCHANGED <<registered, thread>>

StopNotify(c) == /\ caller[c] = "stopNotify"
                 /\ caller' = CallersWoken([caller EXCEPT ![c] = "join"])
                 /\ thread' = ThreadsWoken(thread)
                 /\ UNCHANGED <<pool, stopping>>

StopJoined(c) == /\ caller[c] = "join"
                 /\ \A w \in Threads : thread[w].at \in {"unborn", "exited"}
                 /\ registered' = [s \in Sessions |-> None]
                 /\ tally' = [k \in DOMAIN tally |-> 0]
                 /\ caller' = CallersWoken([caller EXCEPT ![c] = "idle"])
                 /\ UNCHANGED <<object, queue, stopping, thread>>
--------------------------------------------------------------------------------
(* State::run.                                                             *)
Sleep(w) == /\ thread[w].at = "awake"
            /\ ~stopping /\ queue = <<>>
            /\ thread' = [thread EXCEPT ![w] = AtPlace("asleep")]
            /\ UNCHANGED <<pool, stopping, caller>>

Exit(w) == /\ thread[w].at = "awake"
           /\ stopping
           /\ thread' = [thread EXCEPT ![w] = AtPlace("exited")]
           /\ caller' = CallersWoken(caller)
           /\ UNCHANGED <<pool, stopping>>

CurrentAnyEpoch(e) == ~object[e.object].closed /\ object[e.object].queued   \* wrong on purpose
Current(e) == e.live /\ ~object[e.object].closed /\ object[e.object].queued
Runnable(e) == /\ Current(e)
               /\ object[e.object].active
               /\ object[e.object].pending # {}

(* Entries before the first runnable one are thrown away; those that were  *)
(* current leave their session unqueued.                                   *)
Unqueue(n) == {queue[i].object : i \in {j \in 1..n : Current(queue[j])}}
UnqueuedTally(S) == [tally EXCEPT !.queued = @ - Cardinality({o \in S : object[o].counted})]

SkipAll(w) ==
    LET gone == Unqueue(Len(queue))
    IN /\ thread[w].at = "awake"
       /\ ~stopping /\ queue # <<>>
       /\ \A i \in DOMAIN queue : ~Runnable(queue[i])
       /\ queue' = <<>>
       /\ object' = [o \in Openings |-> [object[o] EXCEPT !.queued = @ /\ o \notin gone]]
       /\ tally' = UnqueuedTally(gone)
       /\ caller' = CallersWoken(caller)
       /\ UNCHANGED <<registered, stopping, thread>>

StartRun(w, n) ==
    LET gone == Unqueue(n)
        o == queue[n].object
        x == object[o]
    IN /\ thread[w].at = "awake"
       /\ ~stopping
       /\ Runnable(queue[n])
       /\ \A i \in 1..(n - 1) : ~Runnable(queue[i])
       /\ queue' = SubSeq(queue, n + 1, Len(queue))
       /\ object' = [p \in Openings |->
                       [object[p] EXCEPT !.queued = @ /\ p \notin gone,
                                         !.pending = IF p = o THEN {} ELSE @,
                                         !.running = @ \/ p = o]]
       /\ tally' = [UnqueuedTally(gone) EXCEPT !.running = More(@, x.counted)]
       /\ thread' = [thread EXCEPT ![w] = [at |-> "run", object |-> o, request |-> x.pending]]
       /\ UNCHANGED <<registered, stopping, caller>>

(* Wrong on purpose: a result is kept whatever happened to ticket and page.*)
StillWantedUnlessClosed(o, r) == registered[object[o].session] = o /\ ~object[o].closed

StillWanted(o, r) == LET x == object[o]
                     IN /\ registered[x.session] = o /\ ~x.closed
                        /\ x.active
                        /\ r.ticket \notin Still /\ r.ticket = x.authority

Fits(o, charge) == /\ charge <= MaxReady
                   /\ tally.bytes - object[o].charge <= MaxReady - charge

(* The read yields a result for the request or for a part of it before the *)
(* end of the record, a failure, which is a result of no bytes, or nothing *)
(* at all past the end of the record.                                      *)
Covered == [r \in Requests |-> {a \in Requests : a.ticket = r.ticket /\ a.window <= r.window}]
Results(r) == [request : Covered[r], charge : Charges]

(* The result is kept if it is wanted and fits; then a request that came   *)
(* during the run goes to the end of the queue.                            *)
EndRun(w, outcomes) ==
    LET o == thread[w].object
        x == object[o]
        keep == {out \in outcomes : StillWanted(o, out.request) /\ Fits(o, out.charge)}
        again == /\ registered[x.session] = o /\ ~x.closed /\ x.active
                 /\ x.pending # {} /\ ~x.queued
    IN /\ object' = [object EXCEPT ![o] =
              [x EXCEPT !.running = FALSE,
                        !.ready = IF keep = {} THEN @ ELSE {out.request : out \in keep},
                        !.charge = IF keep = {} THEN @ ELSE (CHOOSE out \in keep : TRUE).charge,
                        !.queued = @ \/ again]]
       /\ tally' = [tally EXCEPT
              !.running = Less(@, x.running /\ x.counted),
              !.ready = More(Less(@, keep # {} /\ x.ready # {}), keep # {}),
              !.bytes = IF keep = {} THEN @
                        ELSE @ - x.charge + (CHOOSE out \in keep : TRUE).charge,
              !.queued = More(@, again)]
       /\ queue' = IF again THEN Pushed(queue, o) ELSE queue
       /\ thread' = ThreadsWoken([thread EXCEPT ![w] = AtPlace("awake")])
       /\ caller' = CallersWoken(caller)
       /\ UNCHANGED <<registered, stopping>>

Suppressed(w) == thread[w].at = "run" /\ EndRun(w, {})
Finished(w) == /\ thread[w].at = "run"
               /\ \E r \in thread[w].request : \E out \in Results(r) : EndRun(w, {out})

SpuriousWake(w) == /\ thread[w].at = "asleep"
                   /\ thread' = [thread EXCEPT ![w] = AtPlace("awake")]
                   /\ UNCHANGED <<pool, stopping, caller>>
--------------------------------------------------------------------------------
ThreadStep(w) == \/ Sleep(w) \/ Exit(w) \/ SkipAll(w)
                 \/ \E n \in DOMAIN queue : StartRun(w, n)
                 \/ Suppressed(w) \/ Finished(w)

CallGoesOn(c) == \/ NotifyOne(c) \/ StopNotify(c) \/ StopJoined(c)
                 \/ caller[c] = "waitCheck" /\ WaitIdle(c)

SessionCall(s, o) ==
    \/ \E t \in Tickets, a \in BOOLEAN : OpenSession(s, o, t, a) \/ SetAuthority(s, o, t, a)
    \/ CloseSession(s, o) \/ TakeReady(s, o)
    \/ \E r \in Requests : \/ RequestReplaced(s, o, r)
                           \/ \E c \in Callers : RequestAccepted(c, s, o, r)

Next == \/ \E s \in Sessions, o \in Openings : SessionCall(s, o)
        \/ \E c \in Callers : \/ NotifyOne(c) \/ WaitIdle(c) \/ WaitDisturbed(c)
                              \/ StopBegin(c) \/ StopNotify(c) \/ StopJoined(c)
        \/ \E w \in Threads : ThreadStep(w) \/ SpuriousWake(w)

Spec == Init /\ [][Next]_vars

(* Threads are scheduled and a read returns; nobody has to call.           *)
FairSpec == /\ Spec
            /\ \A w \in Threads : WF_vars(ThreadStep(w))
            /\ \A c \in Callers : WF_vars(CallGoesOn(c))
--------------------------------------------------------------------------------
Registered == {o \in Openings : \E s \in Sessions : registered[s] = o}

(* Objects, threads and callers are well formed; what a session holds is   *)
(* of the ticket in force and only while it is shown; an object runs       *)
(* exactly while one thread has it, also after it was closed.              *)
PoolTypeOK ==
    /\ object \in [Openings -> [session : Sessions \cup {None}, authority : Tickets,
                     active : BOOLEAN, closed : BOOLEAN, queued : BOOLEAN, running : BOOLEAN,
                     counted : BOOLEAN, pending : SUBSET Requests, ready : SUBSET Requests,
                     charge : Charges \cup {0}]]
    /\ registered \in [Sessions -> Openings \cup {None}]
    /\ \A o \in Openings : \A r \in object[o].pending \cup object[o].ready :
         object[o].active /\ r.ticket = object[o].authority
    /\ \A o \in Openings : Cardinality({w \in Threads : thread[w].object = o})
                           = IF object[o].running THEN 1 ELSE 0

(* The counters that status() reports, incremented and decremented in a    *)
(* dozen places, are what a scan of the sessions would find, and the bytes *)
(* retained are within the budget.                                         *)
CountersExact ==
    LET count(P(_)) == Cardinality({o \in Registered : object[o].counted /\ P(object[o])})
    IN /\ tally.active = count(LAMBDA x : x.active)
       /\ tally.queued = count(LAMBDA x : x.queued)
       /\ tally.running = count(LAMBDA x : x.running)
       /\ tally.ready = count(LAMBDA x : x.ready # {})
       /\ tally.bytes = FoldSet(LAMBDA o, n : object[o].charge + n, 0, Registered)
       /\ tally.bytes <= MaxReady

(* A session is queued exactly when one entry is current, however often it *)
(* was queued and invalidated before, and what is pending is queued, or    *)
(* will be when the run under way ends.                                    *)
QueuedOnce ==
    \A o \in Registered : LET x == object[o]
                          IN /\ Cardinality({i \in DOMAIN queue : queue[i].object = o /\ Current(queue[i])})
                                = IF x.queued THEN 1 ELSE 0
                             /\ x.pending # {} => x.queued \/ x.running

(* Nobody in wait_idle_for sleeps on when there is nothing to wait for,    *)
(* but for the moment in which stop has yet to notify.                     *)
NoSleepThroughIdle ==
    Idle /\ (\E c \in Callers : caller[c] = "waitAsleep")
      => \E c \in Callers : caller[c] = "stopNotify"

(* Neither a request nor a waiting caller is left behind.                  *)
NothingForgotten == QueuedOnce /\ NoSleepThroughIdle

(* "This prevents one noisy tab from monopolizing speculative I/O": a      *)
(* queued session is run, or leaves the queue, whatever the others ask.    *)
NoStarvation == \A o \in Openings : []<>~object[o].queued

(* stop returns: every thread it joins is woken, and leaves.               *)
StopReturns == \A c \in Callers : []<>(caller[c] \notin {"stopNotify", "join"})

(* The pool keeps the promise: no result of an earlier opening, of an      *)
(* earlier ticket, or of before the page was hidden reaches the page.      *)
Here(s) == registered[s] # None /\ ~object[registered[s]].closed
Shown == {s \in Sessions : Here(s) /\ object[registered[s]].active}
InForce == [s \in Sessions |-> IF Here(s) THEN object[registered[s]].authority ELSE 0]
Owed(s) == LET o == registered[s]
           IN object[o].pending \cup
              {r \in UNION {thread[w].request : w \in {v \in Threads : thread[v].object = o}} :
                 r.ticket = object[o].authority}
Promise == INSTANCE PrefetchPromise
             WITH Pages <- Sessions,
                  shown <- Shown,
                  ticket <- InForce,
                  owed <- [s \in Sessions |-> IF s \in Shown THEN Owed(s) ELSE {}],
                  answer <- [s \in Sessions |-> IF s \in Shown THEN object[registered[s]].ready ELSE {}]
PrefetchKeepsPromise == Promise!Spec
================================================================================
