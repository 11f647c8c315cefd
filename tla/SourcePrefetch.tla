------------------------------ MODULE SourcePrefetch ------------------------------
(***************************************************************************)
(* SourceWindowPrefetchWorker (src/hot_scroll_source_prefetch.cpp): one    *)
(* thread, started by the first request it accepts, that reads the source  *)
(* window a page is scrolling towards.  A request carries the page's       *)
(* ticket; a result whose ticket is no longer in force is dropped.  Calls  *)
(* change the state under one mutex and notify after they released it.     *)
(***************************************************************************)
EXTENDS Naturals

CONSTANTS Callers,    \* threads that call the worker
          MaxEpoch,   \* bound: tickets are the epochs 0..MaxEpoch
          Still,      \* the tickets whose direction is 0
          Windows     \* source windows a request may name

Tickets == 0..MaxEpoch
Requests == [ticket : Tickets, window : Windows]

SourcePrefetchAssumption == MaxEpoch \in Nat /\ Still \subseteq Tickets

VARIABLES authority,   \* State::authority
          pending,     \* State::pending, a set of at most one request
          ready,       \* State::ready, a set of at most one request
          stopping,    \* State::stop_requested
          thread,      \* where the worker thread is
          inHand,      \* run's request_value, a set of at most one request
          caller       \* where each calling thread is

held == <<authority, pending, ready, stopping>>
vars == <<held, thread, inHand, caller>>

ThreadPlaces == {"unborn", "awake", "asleep", "run", "exited"}
CallerPlaces == {"idle", "notifyWork", "notifyIdle", "waitCheck", "waitAsleep",
                 "stopNotify", "join"}

AtMostOne(S) == \A x, y \in S : x = y

Init == /\ authority = 0
        /\ pending = {} /\ ready = {} /\ inHand = {}
        /\ stopping = FALSE
        /\ thread = "unborn"
        /\ caller = [c \in Callers |-> "idle"]
--------------------------------------------------------------------------------
Goto(c, from, to) == caller[c] = from /\ caller' = [caller EXCEPT ![c] = to]

Woken(cs) ==
    [c \in Callers |-> IF cs[c] = "waitAsleep" THEN "waitCheck" ELSE cs[c]]

ThreadWoken == IF thread = "asleep" THEN "awake" ELSE thread

OfTicket(S, t) == {r \in S : r.ticket = t}

(* Epochs only grow: what FrameBudgetScheduler hands out.                  *)
SetAuthority(c, t) ==
    /\ t > authority
    /\ Goto(c, "idle", "notifyIdle")
    /\ authority' = t
    /\ pending' = OfTicket(pending, t)
    /\ ready' = OfTicket(ready, t)
    /\ UNCHANGED <<stopping, thread, inHand>>

Admissible(r) == /\ ~stopping
                 /\ r.ticket = authority /\ r.ticket \notin Still
                 /\ r \notin ready \cup pending

(* Accepted, or replacing what is pending; the first one starts the thread.*)
Request(c, r) ==
    /\ Admissible(r)
    /\ Goto(c, "idle", "notifyWork")
    /\ pending' = {r}
    /\ thread' = IF thread = "unborn" THEN "awake" ELSE thread
    /\ UNCHANGED <<authority, ready, stopping, inHand>>

TakeReady == /\ ready # {}
             /\ ready' = {}
             /\ UNCHANGED <<authority, pending, stopping, thread, inHand, caller>>

NotifyWork(c) == /\ Goto(c, "notifyWork", "idle")
                 /\ thread' = ThreadWoken
                 /\ UNCHANGED <<held, inHand>>

NotifyIdle(c) == /\ caller[c] = "notifyIdle"
                 /\ caller' = Woken([caller EXCEPT ![c] = "idle"])
                 /\ UNCHANGED <<held, thread, inHand>>

Busy == inHand # {} \/ pending # {}

WaitIdle(c) == /\ \/ Goto(c, "idle", "waitCheck")
                  \/ Busy /\ Goto(c, "waitCheck", "waitAsleep")
                  \/ ~Busy /\ Goto(c, "waitCheck", "idle")
               /\ UNCHANGED <<held, thread, inHand>>

(* A timeout, or a wakeup nobody sent.                                     *)
WaitDisturbed(c) == /\ \/ Goto(c, "waitAsleep", "idle")
                       \/ Goto(c, "waitAsleep", "waitCheck")
                    /\ UNCHANGED <<held, thread, inHand>>

(* A second stop returns at once, also while the first one still joins.    *)
Stop(c) == /\ ~stopping
           /\ Goto(c, "idle", "stopNotify")
           /\ stopping' = TRUE
           /\ pending' = {}
           /\ UNCHANGED <<authority, ready, thread, inHand>>

StopNotify(c) == /\ caller[c] = "stopNotify"
                 /\ caller' = Woken([caller EXCEPT ![c] = "join"])
                 /\ thread' = ThreadWoken
                 /\ UNCHANGED <<held, inHand>>

StopJoined(c) == /\ Goto(c, "join", "idle")
                 /\ thread \in {"unborn", "exited"}
                 /\ UNCHANGED <<held, thread, inHand>>
--------------------------------------------------------------------------------
(* State::run.                                                             *)
Sleep == /\ thread = "awake"
         /\ ~stopping /\ pending = {}
         /\ thread' = "asleep"
         /\ UNCHANGED <<held, inHand, caller>>

StartRun == /\ thread = "awake"
            /\ ~stopping /\ pending # {}
            /\ inHand' = pending
            /\ pending' = {}
            /\ thread' = "run"
            /\ UNCHANGED <<authority, ready, stopping, caller>>

Deliverable(r) == ~stopping /\ r.ticket \notin Still /\ r.ticket = authority

(* The executor returned or threw: a failure is delivered like a success.  *)
EndRun == /\ thread = "run"
          /\ inHand' = {}
          /\ ready' = IF \A r \in inHand : Deliverable(r) THEN inHand ELSE ready
          /\ pending' = IF stopping THEN {} ELSE pending
          /\ thread' = IF stopping THEN "exited" ELSE "awake"
          /\ caller' = Woken(caller)
          /\ UNCHANGED <<authority, stopping>>

Exit == /\ thread = "awake"
        /\ stopping
        /\ pending' = {}
        /\ thread' = "exited"
        /\ caller' = Woken(caller)
        /\ UNCHANGED <<authority, ready, stopping, inHand>>

SpuriousWake == /\ thread = "asleep"
                /\ thread' = "awake"
                /\ UNCHANGED <<held, inHand, caller>>
--------------------------------------------------------------------------------
ThreadStep == Sleep \/ StartRun \/ EndRun \/ Exit
CallGoesOn(c) == \/ NotifyWork(c) \/ NotifyIdle(c) \/ StopNotify(c) \/ StopJoined(c)
                 \/ caller[c] = "waitCheck" /\ WaitIdle(c)

Next == \/ ThreadStep \/ SpuriousWake \/ TakeReady
        \/ \E c \in Callers : \/ NotifyWork(c) \/ NotifyIdle(c)
                              \/ WaitIdle(c) \/ WaitDisturbed(c)
                              \/ Stop(c) \/ StopNotify(c) \/ StopJoined(c)
                              \/ \E t \in Tickets : SetAuthority(c, t)
                              \/ \E r \in Requests : Request(c, r)

Spec == Init /\ [][Next]_vars
FairSpec == Spec /\ WF_vars(ThreadStep) /\ \A c \in Callers : WF_vars(CallGoesOn(c))
--------------------------------------------------------------------------------
(* One thread, one request in each place, and what is pending or ready is  *)
(* of the ticket in force: a change of ticket leaves nothing behind.       *)
WorkerTypeOK == /\ authority \in Tickets /\ stopping \in BOOLEAN
                /\ thread \in ThreadPlaces
                /\ caller \in [Callers -> CallerPlaces]
                /\ \A S \in {pending, ready, inHand} : S \subseteq Requests /\ AtMostOne(S)
                /\ \A r \in pending \cup ready : r.ticket = authority
                /\ inHand # {} <=> thread = "run"

(* Docs promise that no thread exists before the first accepted request,   *)
(* and that it serves all the later ones: no request is left pending       *)
(* behind a thread that sleeps on without a notification on its way.       *)
NoRequestForgotten ==
    pending # {} => \/ thread \in {"awake", "run"}
                    \/ thread = "asleep" /\ \E c \in Callers : caller[c] = "notifyWork"

(* wait_idle_for sleeps only while there is something to wait for, or the  *)
(* call that ended it is about to notify.                                  *)
NoSleepThroughIdle ==
    (\E c \in Callers : caller[c] = "waitAsleep") /\ ~Busy =>
        \E c \in Callers : caller[c] \in {"notifyIdle", "stopNotify"}

(* Neither a request nor a waiting caller is left behind.                  *)
NothingForgotten == NoRequestForgotten /\ NoSleepThroughIdle

(* Stopping ends: the thread it joins is woken, and a run that was under   *)
(* way does not start another one.                                         *)
StopEnds == \A c \in Callers : []<>(caller[c] \notin {"stopNotify", "join"})

(* Results are those the page was promised: a request is owed while it is  *)
(* pending, or runs under the ticket still in force.                       *)
Owed == IF stopping THEN {} ELSE pending \cup OfTicket(inHand, authority)
Promise == INSTANCE PrefetchPromise
             WITH Pages <- {"page"}, Covered <- [r \in Requests |-> {r}],
                  shown <- IF stopping THEN {} ELSE {"page"},
                  ticket <- [p \in {"page"} |-> authority],
                  owed <- [p \in {"page"} |-> Owed],
                  answer <- [p \in {"page"} |-> ready]
PrefetchKeepsPromise == Promise!Spec
================================================================================
