-------------------------- MODULE SourcePrefetchProofs --------------------------
(***************************************************************************)
(* Proofs about both ways of reading ahead.  SourcePrefetchPool, for any   *)
(* number of sessions, openings, worker threads and calling threads: an    *)
(* object is run by one thread at a time, a session is queued once, nobody *)
(* sleeps through an idle pool, and no result of an earlier opening,       *)
(* ticket or visibility reaches a page; and what the pool counts by hand   *)
(* is what its open sessions are.  SourcePrefetch, the single worker, at   *)
(* the end: the promise of its one page.                                   *)
(***************************************************************************)
EXTENDS SourcePrefetchPool, SetFolds, FiniteSetTheorems, TLAPS

ObjectStates ==
    [session : Sessions \cup {None}, authority : Tickets, active : BOOLEAN,
     closed : BOOLEAN, queued : BOOLEAN, running : BOOLEAN, counted : BOOLEAN,
     pending : SUBSET Requests, ready : SUBSET Requests, charge : Charges \cup {0}]

Entries == [object : Openings, live : BOOLEAN]
ThreadPlaces == {"unborn", "awake", "asleep", "run", "exited"}
Frames == [at : ThreadPlaces, object : Openings \cup {None}, request : SUBSET Requests]
CallerPlaces == {"idle", "notify", "waitCheck", "waitAsleep", "stopNotify", "join"}

Typed == /\ object \in [Openings -> ObjectStates]
         /\ registered \in [Sessions -> Openings \cup {None}]
         /\ queue \in Seq(Entries)
         /\ thread \in [Threads -> Frames]
         /\ caller \in [Callers -> CallerPlaces]
         /\ stopping \in BOOLEAN
------------------------------------------------------------------------------
(* What the operators of the pool return.                                  *)

LEMMA NoObjectIs ==
    ASSUME SourcePoolAssumption
    PROVE  NoObject \in ObjectStates
BY DEF SourcePoolAssumption, NoObject, ObjectStates, Tickets

LEMMA NewObjectIs ==
    ASSUME SourcePoolAssumption, NEW s \in Sessions, NEW t \in Tickets, NEW active \in BOOLEAN
    PROVE  /\ NewObject(s, t, active) \in ObjectStates
           /\ NewObject(s, t, active).session = s
           /\ NewObject(s, t, active).authority = t
           /\ NewObject(s, t, active).active = active
           /\ ~NewObject(s, t, active).closed
           /\ ~NewObject(s, t, active).queued
           /\ ~NewObject(s, t, active).running
           /\ NewObject(s, t, active).pending = {}
           /\ NewObject(s, t, active).ready = {}
BY NoObjectIs DEF NewObject, NoObject, ObjectStates

LEMMA ShutIs ==
    ASSUME NEW x \in ObjectStates
    PROVE  /\ Shut(x) \in ObjectStates
           /\ Shut(x).session = x.session
           /\ Shut(x).authority = x.authority
           /\ Shut(x).running = x.running
           /\ Shut(x).closed
           /\ ~Shut(x).active
           /\ ~Shut(x).queued
           /\ Shut(x).pending = {}
           /\ Shut(x).ready = {}
BY DEF Shut, ObjectStates

LEMMA AtPlaceIs ==
    ASSUME NEW place \in ThreadPlaces
    PROVE  /\ AtPlace(place) \in Frames
           /\ AtPlace(place).at = place
           /\ AtPlace(place).object = None
           /\ AtPlace(place).request = {}
BY DEF AtPlace, Frames

(* Waking threads and callers leaves those alone that are busy.            *)
LEMMA ThreadsWokenIs ==
    ASSUME NEW ts \in [Threads -> Frames]
    PROVE  /\ ThreadsWoken(ts) \in [Threads -> Frames]
           /\ \A w \in Threads : \/ ThreadsWoken(ts)[w] = ts[w]
                                 \/ /\ ts[w].at = "asleep"
                                    /\ ThreadsWoken(ts)[w] = AtPlace("awake")
<1>1. AtPlace("awake") \in Frames
  BY AtPlaceIs DEF ThreadPlaces
<1> QED
  BY <1>1 DEF ThreadsWoken

LEMMA CallersWokenIs ==
    ASSUME NEW cs \in [Callers -> CallerPlaces]
    PROVE  /\ CallersWoken(cs) \in [Callers -> CallerPlaces]
           /\ \A c \in Callers : /\ CallersWoken(cs)[c] # "waitAsleep"
                                 /\ cs[c] # "waitAsleep" => CallersWoken(cs)[c] = cs[c]
BY DEF CallersWoken, CallerPlaces

LEMMA EntryIs ==
    ASSUME NEW q \in Seq(Entries)
    PROVE  \A i \in 1..Len(q) : q[i] \in Entries /\ q[i].object \in Openings /\ q[i].live \in BOOLEAN
<1>1. \A i \in 1..Len(q) : q[i] \in Entries
  OBVIOUS
<1> QED
  BY <1>1 DEF Entries

(* An entry of another session keeps its place and stays as it is.         *)
LEMMA OutdatedIs ==
    ASSUME NEW q \in Seq(Entries), NEW o
    PROVE  /\ Outdated(q, o) \in Seq(Entries)
           /\ Len(Outdated(q, o)) = Len(q)
           /\ \A i \in 1..Len(q) : /\ Outdated(q, o)[i] \in Entries
                                   /\ Outdated(q, o)[i].object = q[i].object
                                   /\ Outdated(q, o)[i].live = (q[i].live /\ q[i].object # o)
<1> DEFINE e(i) == [q[i] EXCEPT !.live = q[i].live /\ q[i].object # o]
<1>1. ASSUME NEW i \in 1..Len(q)
      PROVE  e(i) \in Entries /\ e(i).object = q[i].object /\ e(i).live = (q[i].live /\ q[i].object # o)
  <2> DEFINE b == q[i].live /\ q[i].object # o
  <2>1. q[i] \in Entries /\ b \in BOOLEAN
    OBVIOUS
  <2>2. e(i) = [q[i] EXCEPT !.live = b]
    OBVIOUS
  <2> HIDE DEF b, e
  <2>3. e(i) \in Entries /\ e(i).object = q[i].object /\ e(i).live = b
    BY <2>1, <2>2 DEF Entries
  <2> QED
    BY <2>3 DEF b
<1>2. Outdated(q, o) = [i \in 1..Len(q) |-> e(i)]
  BY DEF Outdated, Entries
<1> HIDE DEF e
<1>3. Outdated(q, o) \in Seq(Entries) /\ Len(Outdated(q, o)) = Len(q)
  BY <1>1, <1>2
<1> QED
  BY <1>1, <1>2, <1>3

LEMMA PushedIs ==
    ASSUME NEW q \in Seq(Entries), NEW o \in Openings
    PROVE  /\ Pushed(q, o) \in Seq(Entries)
           /\ Len(Pushed(q, o)) = Len(q) + 1
           /\ \A i \in 1..Len(q) : /\ Pushed(q, o)[i].object = q[i].object
                                   /\ Pushed(q, o)[i].live = (q[i].live /\ q[i].object # o)
           /\ Pushed(q, o)[Len(q) + 1].object = o
           /\ Pushed(q, o)[Len(q) + 1].live
<1> DEFINE e == [object |-> o, live |-> TRUE]
           d == Outdated(q, o)
<1>1. e \in Entries /\ e.object = o /\ e.live
  BY DEF Entries
<1>2. /\ d \in Seq(Entries) /\ Len(d) = Len(q)
      /\ \A i \in 1..Len(q) : /\ d[i].object = q[i].object
                              /\ d[i].live = (q[i].live /\ q[i].object # o)
  BY OutdatedIs
<1>3. Pushed(q, o) = Append(d, e)
  BY DEF Pushed
<1> HIDE DEF d, e
<1>4. /\ Pushed(q, o) \in Seq(Entries) /\ Len(Pushed(q, o)) = Len(q) + 1
      /\ \A i \in 1..Len(q) : Pushed(q, o)[i] = d[i]
      /\ Pushed(q, o)[Len(q) + 1] = e
  BY <1>1, <1>2, <1>3
<1> QED
  BY <1>1, <1>2, <1>4
------------------------------------------------------------------------------
(* What each operation does to the objects and to the queue.               *)

Others(o) == \A p \in Openings : p # o => object'[p] = object[p]

(* Fields that no operation on a session but its opening changes.          *)
SameObject(o) == object'[o].session = object[o].session

LEMMA OpenSessionDoes ==
    ASSUME SourcePoolAssumption, Typed, NEW s \in Sessions, NEW o \in Openings,
           NEW t \in Tickets, NEW active \in BOOLEAN, OpenSession(s, o, t, active)
    PROVE  /\ object' \in [Openings -> ObjectStates] /\ Others(o)
           /\ object'[o] = NewObject(s, t, active)
           /\ registered' = [registered EXCEPT ![s] = o] /\ registered[s] = None
           /\ UNCHANGED <<queue, stopping, thread, caller>> /\ ~stopping
<1>1. object' = [object EXCEPT ![o] = NewObject(s, t, active)]
  BY DEF OpenSession
<1>2. NewObject(s, t, active) \in ObjectStates
  BY NewObjectIs
<1> QED
  BY <1>1, <1>2 DEF Typed, OpenSession, Others

LEMMA CloseSessionDoes ==
    ASSUME Typed, NEW s \in Sessions, NEW o \in Openings, CloseSession(s, o)
    PROVE  /\ object' \in [Openings -> ObjectStates] /\ Others(o)
           /\ object'[o] = Shut(object[o])
           /\ registered' = [registered EXCEPT ![s] = None] /\ registered[s] = o
           /\ queue' = IF object[o].queued THEN Outdated(queue, o) ELSE queue
           /\ thread' = ThreadsWoken(thread) /\ caller' = CallersWoken(caller)
           /\ UNCHANGED stopping
<1>1. object' = [object EXCEPT ![o] = Shut(object[o])]
  BY DEF CloseSession
<1>2. Shut(object[o]) \in ObjectStates
  BY ShutIs DEF Typed
<1> QED
  BY <1>1, <1>2 DEF Typed, CloseSession, Others

LEMMA SetAuthorityDoes ==
    ASSUME Typed, NEW s \in Sessions, NEW o \in Openings,
           NEW t \in Tickets, NEW active \in BOOLEAN, SetAuthority(s, o, t, active)
    PROVE  /\ object' \in [Openings -> ObjectStates] /\ Others(o) /\ SameObject(o)
           /\ object'[o].authority = t /\ object'[o].active = active
           /\ object'[o].closed = object[o].closed /\ ~object[o].closed
           /\ object'[o].running = object[o].running
           /\ object'[o].pending = {r \in object[o].pending : active /\ r.ticket = t}
           /\ object'[o].ready = {r \in object[o].ready : active /\ r.ticket = t}
           /\ \/ /\ object'[o].queued = object[o].queued /\ queue' = queue
                 /\ object[o].queued => object'[o].pending = object[o].pending
              \/ /\ ~object'[o].queued /\ queue' = Outdated(queue, o)
                 /\ active => object'[o].pending # object[o].pending
           /\ registered[s] = o /\ UNCHANGED <<registered, stopping>>
           /\ thread' = ThreadsWoken(thread) /\ caller' = CallersWoken(caller)
           /\ FreshTicket(object[o], t, active)
<1> DEFINE x == object[o]
           kp == {r \in x.pending : active /\ r.ticket = t}
           kr == {r \in x.ready : active /\ r.ticket = t}
           unqueued == x.queued /\ (~active \/ kp # x.pending)
           q == x.queued /\ ~unqueued
           ch == IF kr # x.ready THEN 0 ELSE x.charge
           y == [x EXCEPT !.authority = t, !.active = active, !.pending = kp, !.ready = kr,
                          !.queued = q, !.charge = ch]
<1>1. object' = [object EXCEPT ![o] = y]
  BY DEF SetAuthority
<1>2. queue' = IF unqueued THEN Outdated(queue, o) ELSE queue
  BY DEF SetAuthority
<1>3. x \in ObjectStates
  BY DEF Typed
<1>4. kp \in SUBSET Requests /\ kr \in SUBSET Requests /\ ch \in Charges \cup {0}
  BY <1>3 DEF ObjectStates
<1>5. q \in BOOLEAN /\ x.queued \in BOOLEAN
  BY <1>3 DEF ObjectStates
<1>6. unqueued => ~q /\ (active => kp # x.pending)
  OBVIOUS
<1>7. ~unqueued => q = x.queued /\ (x.queued => kp = x.pending)
  BY <1>5
<1> HIDE DEF kp, kr, unqueued, q, ch, x
<1>8. /\ y \in ObjectStates
      /\ y.session = x.session /\ y.authority = t /\ y.active = active
      /\ y.closed = x.closed /\ y.running = x.running
      /\ y.pending = kp /\ y.ready = kr /\ y.queued = q
  BY <1>3, <1>4, <1>5 DEF ObjectStates
<1> HIDE DEF y
<1>9. object' \in [Openings -> ObjectStates] /\ Others(o) /\ object'[o] = y
  BY <1>1, <1>8 DEF Typed, Others
<1>10. /\ ~object[o].closed /\ registered[s] = o /\ UNCHANGED <<registered, stopping>>
       /\ thread' = ThreadsWoken(thread) /\ caller' = CallersWoken(caller)
       /\ FreshTicket(object[o], t, active)
  BY DEF SetAuthority, Open
<1>11. \/ /\ object'[o].queued = object[o].queued /\ queue' = queue
          /\ object[o].queued => object'[o].pending = object[o].pending
       \/ /\ ~object'[o].queued /\ queue' = Outdated(queue, o)
          /\ active => object'[o].pending # object[o].pending
  BY <1>2, <1>6, <1>7, <1>8, <1>9 DEF x
<1> QED
  BY <1>8, <1>9, <1>10, <1>11 DEF x, kp, kr, SameObject

LEMMA RequestReplacedDoes ==
    ASSUME Typed, NEW s \in Sessions, NEW o \in Openings, NEW r \in Requests,
           RequestReplaced(s, o, r)
    PROVE  /\ object' \in [Openings -> ObjectStates] /\ Others(o) /\ SameObject(o)
           /\ object'[o].authority = object[o].authority /\ object'[o].active = object[o].active
           /\ object'[o].closed = object[o].closed /\ object'[o].running = object[o].running
           /\ object'[o].queued = object[o].queued
           /\ object'[o].pending = {r} /\ object[o].pending # {}
           /\ object'[o].ready = object[o].ready
           /\ UNCHANGED <<registered, queue, stopping, thread, caller>>
           /\ Admissible(s, o, r)
<1>1. object' = [object EXCEPT ![o] = [object[o] EXCEPT !.pending = {r}]]
  BY DEF RequestReplaced
<1>2. object[o] \in ObjectStates
  BY DEF Typed
<1> DEFINE y == [object[o] EXCEPT !.pending = {r}]
<1>3. /\ y \in ObjectStates
      /\ y.session = object[o].session /\ y.authority = object[o].authority
      /\ y.active = object[o].active /\ y.closed = object[o].closed
      /\ y.running = object[o].running /\ y.queued = object[o].queued
      /\ y.pending = {r} /\ y.ready = object[o].ready
  BY <1>2 DEF ObjectStates
<1> HIDE DEF y
<1>4. object' = [object EXCEPT ![o] = y]
  BY <1>1 DEF y
<1>5. object' \in [Openings -> ObjectStates] /\ Others(o) /\ object'[o] = y
  BY <1>3, <1>4 DEF Typed, Others
<1> QED
  BY <1>3, <1>5 DEF RequestReplaced, SameObject

LEMMA RequestAcceptedDoes ==
    ASSUME Typed, NEW s \in Sessions, NEW o \in Openings, NEW r \in Requests,
           NEW c \in Callers, RequestAccepted(c, s, o, r)
    PROVE  /\ object' \in [Openings -> ObjectStates] /\ Others(o) /\ SameObject(o)
           /\ object'[o].authority = object[o].authority /\ object'[o].active = object[o].active
           /\ object'[o].closed = object[o].closed /\ object'[o].running = object[o].running
           /\ object'[o].pending = {r} /\ object[o].pending = {}
           /\ object'[o].ready = object[o].ready
           /\ \/ /\ ~object[o].running /\ ~object[o].queued
                 /\ object'[o].queued /\ queue' = Pushed(queue, o)
              \/ /\ object[o].running \/ object[o].queued
                 /\ object'[o].queued = object[o].queued /\ queue' = queue
           /\ UNCHANGED <<registered, stopping>>
           /\ \A w \in Threads : \/ thread'[w] = thread[w]
                                 \/ thread[w].at = "unborn" /\ thread'[w] = AtPlace("awake")
           /\ thread' \in [Threads -> Frames]
           /\ caller[c] = "idle" /\ caller' = [caller EXCEPT ![c] = "notify"]
           /\ Admissible(s, o, r)
<1> DEFINE enq == QueuedNow(object[o])
           q == object[o].queued \/ enq
           y == [object[o] EXCEPT !.pending = {r}, !.queued = q]
<1>1. object' = [object EXCEPT ![o] = y]
  BY DEF RequestAccepted
<1>2. object[o] \in ObjectStates /\ q \in BOOLEAN
  BY DEF Typed
<1>3. queue' = IF enq THEN Pushed(queue, o) ELSE queue
  BY DEF RequestAccepted
<1>4. enq = (~object[o].running /\ ~object[o].queued) /\ object[o].queued \in BOOLEAN
  BY <1>2 DEF QueuedNow, ObjectStates
<1>5. IF enq THEN q ELSE q = object[o].queued
  BY <1>4
<1> HIDE DEF q, enq
<1>6. /\ y \in ObjectStates
      /\ y.session = object[o].session /\ y.authority = object[o].authority
      /\ y.active = object[o].active /\ y.closed = object[o].closed
      /\ y.running = object[o].running /\ y.queued = q
      /\ y.pending = {r} /\ y.ready = object[o].ready
  BY <1>2 DEF ObjectStates
<1> HIDE DEF y
<1>7. object' \in [Openings -> ObjectStates] /\ Others(o) /\ object'[o] = y
  BY <1>1, <1>6 DEF Typed, Others
<1>8. /\ thread' \in [Threads -> Frames]
      /\ \A w \in Threads : \/ thread'[w] = thread[w]
                            \/ thread[w].at = "unborn" /\ thread'[w] = AtPlace("awake")
  <2>1. PICK started \in SUBSET {w \in Threads : thread[w].at = "unborn"} :
           thread' = [w \in Threads |-> IF w \in started THEN AtPlace("awake") ELSE thread[w]]
    BY DEF RequestAccepted
  <2>2. AtPlace("awake") \in Frames
    BY AtPlaceIs DEF ThreadPlaces
  <2> QED
    BY <2>1, <2>2 DEF Typed
<1>9. \/ /\ ~object[o].running /\ ~object[o].queued
         /\ object'[o].queued /\ queue' = Pushed(queue, o)
      \/ /\ object[o].running \/ object[o].queued
         /\ object'[o].queued = object[o].queued /\ queue' = queue
  BY <1>3, <1>4, <1>5, <1>6, <1>7
<1>10. /\ UNCHANGED <<registered, stopping>> /\ object[o].pending = {}
       /\ caller[c] = "idle" /\ caller' = [caller EXCEPT ![c] = "notify"]
       /\ Admissible(s, o, r)
  BY DEF RequestAccepted
<1>11. /\ SameObject(o)
       /\ object'[o].authority = object[o].authority /\ object'[o].active = object[o].active
       /\ object'[o].closed = object[o].closed /\ object'[o].running = object[o].running
       /\ object'[o].pending = {r} /\ object'[o].ready = object[o].ready
  BY <1>6, <1>7 DEF SameObject
<1> QED
  BY <1>7, <1>8, <1>9, <1>10, <1>11

LEMMA TakeReadyDoes ==
    ASSUME Typed, NEW s \in Sessions, NEW o \in Openings, TakeReady(s, o)
    PROVE  /\ object' \in [Openings -> ObjectStates] /\ Others(o) /\ SameObject(o)
           /\ object'[o].authority = object[o].authority /\ object'[o].active = object[o].active
           /\ object'[o].closed = object[o].closed /\ object'[o].running = object[o].running
           /\ object'[o].queued = object[o].queued
           /\ object'[o].pending = object[o].pending
           /\ object'[o].ready = {}
           /\ registered[s] = o
           /\ UNCHANGED <<registered, queue, stopping, thread, caller>>
<1> DEFINE y == [object[o] EXCEPT !.ready = {}, !.charge = 0]
<1>1. object' = [object EXCEPT ![o] = y]
  BY DEF TakeReady
<1>2. object[o] \in ObjectStates
  BY DEF Typed
<1>3. /\ y \in ObjectStates
      /\ y.session = object[o].session /\ y.authority = object[o].authority
      /\ y.active = object[o].active /\ y.closed = object[o].closed
      /\ y.running = object[o].running /\ y.queued = object[o].queued
      /\ y.pending = object[o].pending /\ y.ready = {}
  BY <1>2 DEF ObjectStates
<1> HIDE DEF y
<1>4. object' \in [Openings -> ObjectStates] /\ Others(o) /\ object'[o] = y
  BY <1>1, <1>3 DEF Typed, Others
<1> QED
  BY <1>3, <1>4 DEF TakeReady, SameObject

LEMMA StopBeginDoes ==
    ASSUME SourcePoolAssumption, Typed, NEW c \in Callers, StopBegin(c)
    PROVE  /\ object' \in [Openings -> ObjectStates]
           /\ \A p \in Openings :
                object'[p] = IF \E s \in Sessions : registered[s] = p THEN Shut(object[p])
                             ELSE object[p]
           /\ queue' = <<>> /\ stopping' /\ UNCHANGED <<registered, thread>>
           /\ caller[c] = "idle" /\ caller' = [caller EXCEPT ![c] = "stopNotify"]
<1> DEFINE current == {registered[s] : s \in Sessions} \ {None}
<1>1. object' = [o \in Openings |-> IF o \in current THEN Shut(object[o]) ELSE object[o]]
  BY DEF StopBegin
<1>2. \A p \in Openings : object[p] \in ObjectStates /\ Shut(object[p]) \in ObjectStates
  BY ShutIs DEF Typed
<1>3. ASSUME NEW p \in Openings
      PROVE  p \in current <=> \E s \in Sessions : registered[s] = p
  BY DEF SourcePoolAssumption
<1>4. /\ queue' = <<>> /\ stopping' /\ UNCHANGED <<registered, thread>>
      /\ caller[c] = "idle" /\ caller' = [caller EXCEPT ![c] = "stopNotify"]
  BY DEF StopBegin, Goto
<1> HIDE DEF current
<1> QED
  BY <1>1, <1>2, <1>3, <1>4

(* Every field but the mark of the queue.                                  *)
SameButQueued(p) == /\ object'[p].session = object[p].session
                    /\ object'[p].authority = object[p].authority
                    /\ object'[p].active = object[p].active
                    /\ object'[p].closed = object[p].closed
                    /\ object'[p].ready = object[p].ready

LEMMA SkipAllDoes ==
    ASSUME Typed, NEW w \in Threads, SkipAll(w)
    PROVE  /\ object' \in [Openings -> ObjectStates]
           /\ \A p \in Openings : /\ SameButQueued(p)
                                  /\ object'[p].running = object[p].running
                                  /\ object'[p].pending = object[p].pending
                                  /\ object'[p].queued
                                       = (object[p].queued /\ p \notin Unqueue(Len(queue)))
           /\ queue' = <<>> /\ ~stopping /\ UNCHANGED <<registered, stopping, thread>>
           /\ \A i \in DOMAIN queue : ~Runnable(queue[i])
           /\ caller' = CallersWoken(caller)
<1> DEFINE gone == Unqueue(Len(queue))
           q(p) == object[p].queued /\ p \notin gone
           y(p) == [object[p] EXCEPT !.queued = q(p)]
<1>1. object' = [p \in Openings |-> y(p)]
  BY DEF SkipAll
<1>2. ASSUME NEW p \in Openings
      PROVE  /\ y(p) \in ObjectStates
             /\ y(p).session = object[p].session /\ y(p).authority = object[p].authority
             /\ y(p).active = object[p].active /\ y(p).closed = object[p].closed
             /\ y(p).running = object[p].running /\ y(p).pending = object[p].pending
             /\ y(p).ready = object[p].ready /\ y(p).queued = q(p)
  <2>1. object[p] \in ObjectStates /\ q(p) \in BOOLEAN
    BY DEF Typed
  <2> HIDE DEF q
  <2> QED
    BY <2>1 DEF ObjectStates
<1> HIDE DEF y
<1>3. /\ queue' = <<>> /\ ~stopping /\ UNCHANGED <<registered, stopping, thread>>
      /\ \A i \in DOMAIN queue : ~Runnable(queue[i])
      /\ caller' = CallersWoken(caller)
  BY DEF SkipAll
<1> QED
  BY <1>1, <1>2, <1>3 DEF SameButQueued

LEMMA StartRunDoes ==
    ASSUME Typed, NEW w \in Threads, NEW n \in DOMAIN queue, StartRun(w, n)
    PROVE  LET o == queue[n].object
           IN /\ o \in Openings
              /\ object' \in [Openings -> ObjectStates]
              /\ \A p \in Openings : /\ SameButQueued(p)
                                     /\ object'[p].running = (object[p].running \/ p = o)
                                     /\ object'[p].pending = IF p = o THEN {} ELSE object[p].pending
                                     /\ object'[p].queued = (object[p].queued /\ p \notin Unqueue(n))
              /\ queue' = SubSeq(queue, n + 1, Len(queue))
              /\ thread[w].at = "awake"
              /\ thread' \in [Threads -> Frames]
              /\ thread' = [thread EXCEPT ![w] = [at |-> "run", object |-> o,
                                                  request |-> object[o].pending]]
              /\ ~stopping /\ UNCHANGED <<registered, stopping, caller>>
              /\ Runnable(queue[n]) /\ \A i \in 1..(n - 1) : ~Runnable(queue[i])
<1> DEFINE o == queue[n].object
           q(p) == object[p].queued /\ p \notin Unqueue(n)
           r(p) == object[p].running \/ p = o
           d(p) == IF p = o THEN {} ELSE object[p].pending
           y(p) == [object[p] EXCEPT !.queued = q(p), !.pending = d(p), !.running = r(p)]
           f == [at |-> "run", object |-> o, request |-> object[o].pending]
<1>1. object' = [p \in Openings |-> y(p)]
  BY DEF StartRun
<1>2. ASSUME NEW p \in Openings
      PROVE  /\ y(p) \in ObjectStates
             /\ y(p).session = object[p].session /\ y(p).authority = object[p].authority
             /\ y(p).active = object[p].active /\ y(p).closed = object[p].closed
             /\ y(p).running = r(p) /\ y(p).pending = d(p)
             /\ y(p).ready = object[p].ready /\ y(p).queued = q(p)
  <2>1. object[p] \in ObjectStates /\ q(p) \in BOOLEAN /\ r(p) \in BOOLEAN
    BY DEF Typed
  <2>2. d(p) \in SUBSET Requests
    BY <2>1 DEF ObjectStates
  <2> HIDE DEF q, r, d
  <2> QED
    BY <2>1, <2>2 DEF ObjectStates
<1> HIDE DEF y
<1>3. o \in Openings /\ object[o] \in ObjectStates
  <2>1. queue[n] \in Entries
    BY DEF Typed
  <2> QED
    BY <2>1 DEF Entries, Typed
<1>4. thread' = [thread EXCEPT ![w] = f]
  BY DEF StartRun
<1>5. f \in Frames
  BY <1>3 DEF Frames, ThreadPlaces, ObjectStates
<1> HIDE DEF f
<1>6. thread' \in [Threads -> Frames]
  BY <1>4, <1>5 DEF Typed
<1>7. /\ queue' = SubSeq(queue, n + 1, Len(queue))
      /\ thread[w].at = "awake"
      /\ ~stopping /\ UNCHANGED <<registered, stopping, caller>>
      /\ Runnable(queue[n]) /\ \A i \in 1..(n - 1) : ~Runnable(queue[i])
  BY DEF StartRun
<1> HIDE DEF o
<1>8. object' \in [Openings -> ObjectStates]
  BY <1>1, <1>2
<1>9. \A p \in Openings : /\ SameButQueued(p)
                          /\ object'[p].running = (object[p].running \/ p = o)
                          /\ object'[p].pending = IF p = o THEN {} ELSE object[p].pending
                          /\ object'[p].queued = (object[p].queued /\ p \notin Unqueue(n))
  BY <1>1, <1>2 DEF SameButQueued
<1> QED
  BY <1>3, <1>4, <1>6, <1>7, <1>8, <1>9 DEF o, f

Again(o) == LET x == object[o]
            IN registered[x.session] = o /\ ~x.closed /\ x.active /\ x.pending # {} /\ ~x.queued

LEMMA EndRunDoes ==
    ASSUME Typed, NEW w \in Threads, NEW outcomes, thread[w].object \in Openings,
           EndRun(w, outcomes),
           \A a \in outcomes : a.request \in Requests /\ a.charge \in Charges,
           \A a, b \in outcomes : a = b
    PROVE  LET o == thread[w].object
           IN /\ object' \in [Openings -> ObjectStates] /\ Others(o) /\ SameObject(o)
              /\ object'[o].authority = object[o].authority /\ object'[o].active = object[o].active
              /\ object'[o].closed = object[o].closed /\ ~object'[o].running
              /\ object'[o].pending = object[o].pending
              /\ \/ object'[o].ready = object[o].ready
                 \/ \E a \in outcomes : /\ StillWanted(o, a.request)
                                        /\ object'[o].ready = {a.request}
              /\ object'[o].queued = (object[o].queued \/ Again(o))
              /\ queue' = IF Again(o) THEN Pushed(queue, o) ELSE queue
              /\ thread' = ThreadsWoken([thread EXCEPT ![w] = AtPlace("awake")])
              /\ caller' = CallersWoken(caller)
              /\ UNCHANGED <<registered, stopping>>
<1> DEFINE o == thread[w].object
           x == object[o]
           keep == {out \in outcomes : StillWanted(o, out.request) /\ Fits(o, out.charge)}
           rd == IF keep = {} THEN x.ready ELSE {out.request : out \in keep}
           ch == IF keep = {} THEN x.charge ELSE (CHOOSE out \in keep : TRUE).charge
           q == x.queued \/ Again(o)
           y == [x EXCEPT !.running = FALSE, !.ready = rd, !.charge = ch, !.queued = q]
<1>1. object' = [object EXCEPT ![o] = y]
  BY DEF EndRun, Again
<1>2. x \in ObjectStates
  BY DEF Typed
<1>3. q \in BOOLEAN
  OBVIOUS
<1>4. /\ rd \in SUBSET Requests /\ ch \in Charges \cup {0}
      /\ rd = x.ready \/ \E a \in outcomes : StillWanted(o, a.request) /\ rd = {a.request}
  <2>1. CASE keep = {}
    BY <2>1, <1>2 DEF ObjectStates
  <2>2. CASE keep # {}
    <3>1. PICK a \in keep : TRUE
      BY <2>2
    <3>2. keep = {a} /\ a \in outcomes /\ StillWanted(o, a.request)
      BY <3>1
    <3> QED
      BY <2>2, <3>2
  <2> QED
    BY <2>1, <2>2
<1>5. queue' = IF Again(o) THEN Pushed(queue, o) ELSE queue
  BY DEF EndRun, Again
<1>6. /\ thread' = ThreadsWoken([thread EXCEPT ![w] = AtPlace("awake")])
      /\ caller' = CallersWoken(caller)
      /\ UNCHANGED <<registered, stopping>>
  BY DEF EndRun
<1> HIDE DEF q, ch, rd, keep, x, o
<1>7. /\ y \in ObjectStates
      /\ y.session = x.session /\ y.authority = x.authority /\ y.active = x.active
      /\ y.closed = x.closed /\ ~y.running /\ y.pending = x.pending
      /\ y.ready = rd /\ y.queued = q
  BY <1>2, <1>3, <1>4 DEF ObjectStates
<1> HIDE DEF y
<1>8. object' \in [Openings -> ObjectStates] /\ Others(o) /\ object'[o] = y
  BY <1>1, <1>7 DEF Typed, Others, o
<1> QED
  BY <1>4, <1>5, <1>6, <1>7, <1>8 DEF x, o, q, SameObject
------------------------------------------------------------------------------
(* What holds between the objects, their sessions, the queue and the       *)
(* threads.                                                                *)
AtMostOne(S) == \A a, b \in S : a = b

(* A session holds one request and one result at most, both of the ticket  *)
(* in force; it is not queued while it runs, and nothing is left of it     *)
(* when it is closed.                                                      *)
Fit(x) == /\ AtMostOne(x.pending) /\ AtMostOne(x.ready)
          /\ \A r \in x.pending \cup x.ready :
               x.active /\ r.ticket = x.authority /\ r.ticket \notin Still
          /\ x.closed => ~x.active /\ ~x.queued
          /\ x.queued => ~x.running
ObjectsFit == \A o \in Openings : Fit(object[o])

OwnersKnown ==
    /\ \A s \in Sessions : registered[s] # None => object[registered[s]].session = s
    /\ \A o \in Openings : object[o].active \/ object[o].queued
         => object[o].session \in Sessions /\ registered[object[o].session] = o

RunsOwned ==
    /\ \A w \in Threads : /\ thread[w].at = "run" <=> thread[w].object # None
                          /\ thread[w].at # "run" => thread[w].request = {}
                          /\ AtMostOne(thread[w].request)
    /\ \A w \in Threads : \A r \in thread[w].request :
         r.ticket <= object[thread[w].object].authority /\ r.ticket \notin Still
    /\ \A w, v \in Threads : thread[w].object = thread[v].object /\ thread[w].object # None
         => w = v
    /\ \A o \in Openings : object[o].running <=> \E w \in Threads : thread[w].object = o

(* A queued session has one live entry, and live entries are of queued ones.*)
EntriesMatch(q, obj) ==
    /\ \A i, j \in 1..Len(q) : q[i].live /\ q[j].live /\ q[i].object = q[j].object => i = j
    /\ \A i \in 1..Len(q) : q[i].live => obj[q[i].object].queued
    /\ \A o \in Openings : obj[o].queued => \E i \in 1..Len(q) : q[i].live /\ q[i].object = o

PendingTended ==
    \A o \in Openings : object[o].pending # {} => object[o].queued \/ object[o].running

StopCloses ==
    /\ stopping => queue = <<>>
    /\ \A s \in Sessions : registered[s] # None => (object[registered[s]].closed <=> stopping)
    /\ \A c \in Callers : caller[c] \in {"stopNotify", "join"} => stopping

Sound == /\ Typed
         /\ ObjectsFit
         /\ OwnersKnown
         /\ RunsOwned
         /\ EntriesMatch(queue, object)
         /\ PendingTended
         /\ StopCloses

LEMMA SoundAtFirst == ASSUME SourcePoolAssumption, Init PROVE Sound
<1>1. Typed
  <2>1. NoObject \in ObjectStates /\ AtPlace("unborn") \in Frames
    BY NoObjectIs, AtPlaceIs DEF ThreadPlaces
  <2>2. object \in [Openings -> ObjectStates] /\ thread \in [Threads -> Frames]
    BY <2>1 DEF Init
  <2>3. caller \in [Callers -> CallerPlaces] /\ queue \in Seq(Entries)
    BY DEF Init, CallerPlaces
  <2> QED
    BY <2>2, <2>3 DEF Init, Typed
<1>2. ObjectsFit /\ PendingTended
  BY DEF Init, ObjectsFit, PendingTended, Fit, AtMostOne, NoObject
<1>3. OwnersKnown /\ StopCloses
  BY DEF Init, OwnersKnown, StopCloses, NoObject
<1>4. RunsOwned
  BY AtPlaceIs DEF Init, RunsOwned, AtMostOne, NoObject, ThreadPlaces, SourcePoolAssumption
<1>5. EntriesMatch(queue, object)
  BY DEF Init, EntriesMatch, NoObject
<1> QED
  BY <1>1, <1>2, <1>3, <1>4, <1>5 DEF Sound
------------------------------------------------------------------------------
(* The queue: nothing changes, a session leaves, a session enters, and the *)
(* first n entries are taken off.                                          *)

LEMMA SameMarks ==
    ASSUME NEW q, NEW obj, NEW new, EntriesMatch(q, obj), q \in Seq(Entries),
           \A p \in Openings : new[p].queued = obj[p].queued
    PROVE  EntriesMatch(q, new)
<1>1. \A i \in 1..Len(q) : q[i].object \in Openings
  BY EntryIs
<1> QED
  BY <1>1 DEF EntriesMatch

LEMMA OutdatedMatches ==
    ASSUME NEW q, NEW obj, NEW new, NEW o \in Openings, EntriesMatch(q, obj), q \in Seq(Entries),
           \A p \in Openings : p # o => new[p].queued = obj[p].queued,
           ~new[o].queued
    PROVE  EntriesMatch(Outdated(q, o), new)
<1> DEFINE e == Outdated(q, o)
           n == Len(q)
<1>1. \A i \in 1..n : q[i].object \in Openings /\ q[i].live \in BOOLEAN
  BY EntryIs
<1>2. /\ Len(e) = n
      /\ \A i \in 1..n : e[i].object = q[i].object /\ e[i].live = (q[i].live /\ q[i].object # o)
  BY OutdatedIs
<1>3. \A i, j \in 1..n : q[i].live /\ q[j].live /\ q[i].object = q[j].object => i = j
  BY DEF EntriesMatch
<1>4. \A i \in 1..n : q[i].live => obj[q[i].object].queued
  BY DEF EntriesMatch
<1>5. \A p \in Openings : obj[p].queued => \E i \in 1..n : q[i].live /\ q[i].object = p
  BY DEF EntriesMatch
<1> HIDE DEF e, n
<1>6. \A i, j \in 1..n : e[i].live /\ e[j].live /\ e[i].object = e[j].object => i = j
  <2> SUFFICES ASSUME NEW i \in 1..n, NEW j \in 1..n, e[i].live, e[j].live, e[i].object = e[j].object
               PROVE  i = j
    OBVIOUS
  <2>1. q[i].live /\ q[j].live /\ q[i].object = q[j].object
    BY <1>2
  <2> QED
    BY <2>1, <1>3
<1>7. \A i \in 1..n : e[i].live => new[e[i].object].queued
  BY <1>1, <1>2, <1>4
<1>8. \A p \in Openings : new[p].queued => \E i \in 1..n : e[i].live /\ e[i].object = p
  <2> SUFFICES ASSUME NEW p \in Openings, new[p].queued
               PROVE  \E i \in 1..n : e[i].live /\ e[i].object = p
    OBVIOUS
  <2>1. p # o /\ obj[p].queued
    OBVIOUS
  <2>2. PICK i \in 1..n : q[i].live /\ q[i].object = p
    BY <2>1, <1>5
  <2> QED
    BY <2>1, <2>2, <1>2
<1> QED
  BY <1>2, <1>6, <1>7, <1>8 DEF EntriesMatch, e

LEMMA PushedMatches ==
    ASSUME NEW q, NEW obj, NEW new, NEW o \in Openings, EntriesMatch(q, obj), q \in Seq(Entries),
           \A p \in Openings : p # o => new[p].queued = obj[p].queued,
           new[o].queued
    PROVE  EntriesMatch(Pushed(q, o), new)
<1> DEFINE e == Pushed(q, o)
           n == Len(q)
<1>1. \A i \in 1..n : q[i].object \in Openings
  BY EntryIs
<1>2. /\ Len(e) = n + 1 /\ n \in Nat
      /\ \A i \in 1..n : /\ e[i].object = q[i].object
                         /\ e[i].live = (q[i].live /\ q[i].object # o)
      /\ e[n + 1].object = o /\ e[n + 1].live
  BY PushedIs
<1> HIDE DEF e, n
<1>3. \A i \in 1..Len(e) : i \in 1..n \/ i = n + 1
  BY <1>2
<1>4. 1..n \subseteq 1..Len(e) /\ n + 1 \in 1..Len(e)
  BY <1>2
<1>5. \A i, j \in 1..n : q[i].live /\ q[j].live /\ q[i].object = q[j].object => i = j
  BY DEF EntriesMatch, n
<1>6. \A i \in 1..n : q[i].live => obj[q[i].object].queued
  BY DEF EntriesMatch, n
<1>7. \A p \in Openings : obj[p].queued => \E i \in 1..n : q[i].live /\ q[i].object = p
  BY DEF EntriesMatch, n
<1>8. \A i, j \in 1..Len(e) : e[i].live /\ e[j].live /\ e[i].object = e[j].object => i = j
  BY <1>2, <1>3, <1>5
<1>9. \A i \in 1..Len(e) : e[i].live => new[e[i].object].queued
  BY <1>1, <1>2, <1>3, <1>6
<1>10. \A p \in Openings : new[p].queued => \E i \in 1..Len(e) : e[i].live /\ e[i].object = p
  <2> SUFFICES ASSUME NEW p \in Openings, new[p].queued
               PROVE  \E i \in 1..Len(e) : e[i].live /\ e[i].object = p
    OBVIOUS
  <2>1. CASE p = o
    BY <2>1, <1>2, <1>4
  <2>2. CASE p # o
    <3>1. PICK i \in 1..n : q[i].live /\ q[i].object = p
      BY <2>2, <1>7
    <3>2. i \in 1..Len(e)
      BY <1>4
    <3>3. e[i].object = p /\ e[i].live
      BY <3>1, <2>2, <1>2
    <3> QED
      BY <3>2, <3>3
  <2> QED
    BY <2>1, <2>2
<1> QED
  BY <1>8, <1>9, <1>10 DEF EntriesMatch, e

LEMMA ShortenedMatches ==
    ASSUME NEW q, NEW obj, NEW new, NEW n \in 1..Len(q), EntriesMatch(q, obj), q \in Seq(Entries),
           \A p \in Openings : new[p].queued
              = (obj[p].queued /\ p \notin {q[i].object : i \in {j \in 1..n : q[j].live}})
    PROVE  EntriesMatch(SubSeq(q, n + 1, Len(q)), new)
<1> DEFINE e == SubSeq(q, n + 1, Len(q))
           m == Len(q)
<1>1. m \in Nat /\ n \in Nat /\ 1 <= n /\ n <= m /\ \A i \in 1..m : q[i].object \in Openings
  BY EntryIs
<1>2. Len(e) = m - n /\ \A i \in 1..(m - n) : e[i] = q[n + i]
  BY <1>1
<1> HIDE DEF e, m
<1>3. \A i \in 1..Len(e) : n + i \in 1..m /\ e[i] = q[n + i]
  BY <1>1, <1>2
<1>4. \A k \in 1..m : k \notin 1..n => k - n \in 1..Len(e) /\ e[k - n] = q[k]
  BY <1>1, <1>2
<1>5. \A i, j \in 1..m : q[i].live /\ q[j].live /\ q[i].object = q[j].object => i = j
  BY DEF EntriesMatch, m
<1>6. \A i \in 1..m : q[i].live => obj[q[i].object].queued
  BY DEF EntriesMatch, m
<1>7. \A p \in Openings : obj[p].queued => \E i \in 1..m : q[i].live /\ q[i].object = p
  BY DEF EntriesMatch, m
<1>8. \A i, j \in 1..Len(e) : e[i].live /\ e[j].live /\ e[i].object = e[j].object => i = j
  <2> SUFFICES ASSUME NEW i \in 1..Len(e), NEW j \in 1..Len(e),
                      e[i].live, e[j].live, e[i].object = e[j].object
               PROVE  i = j
    OBVIOUS
  <2>1. n + i = n + j
    BY <1>3, <1>5
  <2> QED
    BY <2>1, <1>1, <1>2
<1>9. \A i \in 1..Len(e) : e[i].live => new[e[i].object].queued
  <2> SUFFICES ASSUME NEW i \in 1..Len(e), e[i].live
               PROVE  new[e[i].object].queued
    OBVIOUS
  <2>1. n + i \in 1..m /\ e[i] = q[n + i] /\ obj[q[n + i].object].queued /\ q[n + i].object \in Openings
    BY <1>1, <1>3, <1>6
  <2>2. ASSUME NEW j \in 1..n, q[j].live, q[j].object = q[n + i].object
        PROVE  FALSE
    <3>1. j \in 1..m
      BY <1>1
    <3>2. j = n + i
      BY <2>1, <2>2, <3>1, <1>5
    <3> QED
      BY <3>2, <1>1, <1>2
  <2> QED
    BY <2>1, <2>2
<1>10. \A p \in Openings : new[p].queued => \E i \in 1..Len(e) : e[i].live /\ e[i].object = p
  <2> SUFFICES ASSUME NEW p \in Openings, new[p].queued
               PROVE  \E i \in 1..Len(e) : e[i].live /\ e[i].object = p
    OBVIOUS
  <2>1. PICK k \in 1..m : q[k].live /\ q[k].object = p
    BY <1>7
  <2>2. k \notin 1..n
    BY <2>1
  <2> QED
    BY <2>1, <2>2, <1>4
<1> QED
  BY <1>8, <1>9, <1>10 DEF EntriesMatch, e
------------------------------------------------------------------------------
(* Threads that are woken, started, sent to sleep or ended hold what they  *)
(* held before: nothing.                                                   *)
ThreadsStay == /\ thread' \in [Threads -> Frames]
               /\ \A w \in Threads : /\ thread'[w].object = thread[w].object
                                     /\ thread'[w].request = thread[w].request
                                     /\ thread'[w].at = "run" <=> thread[w].at = "run"

LEMMA StayingKeepsRuns ==
    ASSUME Typed, RunsOwned, ThreadsStay, object' \in [Openings -> ObjectStates],
           SourcePoolAssumption,
           \A p \in Openings : /\ object'[p].running = object[p].running
                               /\ object'[p].authority >= object[p].authority
    PROVE  RunsOwned'
<1>1. \A w \in Threads : thread[w] \in Frames /\ thread'[w] \in Frames
  BY DEF Typed, ThreadsStay
<1>2. \A w \in Threads : /\ thread'[w].at = "run" <=> thread'[w].object # None
                         /\ thread'[w].at # "run" => thread'[w].request = {}
                         /\ AtMostOne(thread'[w].request)
  BY DEF RunsOwned, ThreadsStay
<1>3. \A w \in Threads : \A r \in thread'[w].request :
        r.ticket <= object'[thread'[w].object].authority /\ r.ticket \notin Still
  <2> SUFFICES ASSUME NEW w \in Threads, NEW r \in thread'[w].request
               PROVE  r.ticket <= object'[thread'[w].object].authority /\ r.ticket \notin Still
    OBVIOUS
  <2> DEFINE o == thread[w].object
  <2>1. /\ r \in thread[w].request /\ thread'[w].object = o
        /\ r.ticket <= object[o].authority /\ r.ticket \notin Still
    BY DEF RunsOwned, ThreadsStay
  <2>2. o \in Openings /\ r \in Requests
    BY <1>1, <2>1 DEF RunsOwned, Frames
  <2>3. /\ r.ticket \in Nat /\ object[o].authority \in Nat /\ object'[o].authority \in Nat
        /\ object'[o].authority >= object[o].authority
    BY <2>2 DEF Typed, ObjectStates, Requests, Tickets, SourcePoolAssumption
  <2> QED
    BY <2>1, <2>3
<1>4. \A w, v \in Threads : thread'[w].object = thread'[v].object /\ thread'[w].object # None
        => w = v
  BY DEF RunsOwned, ThreadsStay
<1>5. \A o \in Openings : object'[o].running <=> \E w \in Threads : thread'[w].object = o
  BY DEF RunsOwned, ThreadsStay
<1> QED
  BY <1>2, <1>3, <1>4, <1>5 DEF RunsOwned

LEMMA WakingStays ==
    ASSUME Typed, RunsOwned, thread' = ThreadsWoken(thread)
    PROVE  ThreadsStay
<1>1. AtPlace("awake").object = None /\ AtPlace("awake").request = {} /\ AtPlace("awake").at = "awake"
  BY DEF AtPlace
<1>2. /\ thread' \in [Threads -> Frames]
      /\ \A w \in Threads : \/ thread'[w] = thread[w]
                            \/ thread[w].at = "asleep" /\ thread'[w] = AtPlace("awake")
  BY ThreadsWokenIs DEF Typed
<1>3. \A w \in Threads : thread[w].at = "asleep" => thread[w].object = None /\ thread[w].request = {}
  BY DEF RunsOwned
<1> QED
  BY <1>1, <1>2, <1>3 DEF ThreadsStay

LEMMA CallersTyped ==
    ASSUME Typed, StopCloses, caller' = CallersWoken(caller)
    PROVE  /\ caller' \in [Callers -> CallerPlaces]
           /\ \A c \in Callers : caller'[c] \in {"stopNotify", "join"} => stopping
<1>1. caller \in [Callers -> CallerPlaces]
  BY DEF Typed
<1>2. \A c \in Callers : caller'[c] = caller[c] \/ caller'[c] = "waitCheck"
  BY <1>1 DEF CallersWoken
<1> QED
  BY <1>1, <1>2, CallersWokenIs DEF StopCloses

(* Only the session's own object changes.                                  *)
LEMMA OnlyOneChanges ==
    ASSUME ObjectsFit, PendingTended, NEW o \in Openings, Others(o),
           Fit(object'[o]), object'[o].pending # {} => object'[o].queued \/ object'[o].running
    PROVE  ObjectsFit' /\ PendingTended'
BY DEF ObjectsFit, PendingTended, Others

LEMMA OpenSessionKeeps ==
    ASSUME SourcePoolAssumption, Sound, NEW s \in Sessions, NEW o \in Openings,
           NEW t \in Tickets, NEW active \in BOOLEAN, OpenSession(s, o, t, active)
    PROVE  Sound'
<1> USE DEF Sound
<1> DEFINE x == NewObject(s, t, active)
<1>1. /\ object' \in [Openings -> ObjectStates] /\ Others(o)
      /\ object'[o] = x
      /\ registered' = [registered EXCEPT ![s] = o] /\ registered[s] = None
      /\ UNCHANGED <<queue, stopping, thread, caller>> /\ ~stopping
  BY OpenSessionDoes
<1>2. /\ x.session = s /\ x.authority = t /\ x.active = active /\ ~x.closed /\ ~x.queued
      /\ ~x.running /\ x.pending = {} /\ x.ready = {}
  BY NewObjectIs
<1> HIDE DEF x
<1>3. Unreferenced(o)
  BY DEF OpenSession
<1>4. Typed'
  BY <1>1 DEF Typed
<1>5. ObjectsFit' /\ PendingTended'
  <2>1. Fit(x)
    BY <1>2 DEF Fit, AtMostOne
  <2> QED
    BY <2>1, <1>1, <1>2, OnlyOneChanges
<1>6. OwnersKnown'
  <2>1. \A r \in Sessions : registered'[r] = IF r = s THEN o ELSE registered[r]
    BY <1>1 DEF Typed
  <2>2. \A r \in Sessions : registered'[r] # None => object'[registered'[r]].session = r
    BY <1>1, <1>2, <1>3, <2>1 DEF OwnersKnown, Unreferenced, Others, Typed
  <2>3. \A p \in Openings : object'[p].active \/ object'[p].queued
          => object'[p].session \in Sessions /\ registered'[object'[p].session] = p
    <3> SUFFICES ASSUME NEW p \in Openings, object'[p].active \/ object'[p].queued
                 PROVE  object'[p].session \in Sessions /\ registered'[object'[p].session] = p
      OBVIOUS
    <3>1. CASE p = o
      BY <3>1, <1>1, <1>2, <2>1
    <3>2. CASE p # o
      <4>1. object'[p] = object[p] /\ object[p].session \in Sessions /\ registered[object[p].session] = p
        BY <3>2, <1>1 DEF Others, OwnersKnown
      <4>2. object[p].session # s
        BY <4>1, <1>1 DEF SourcePoolAssumption
      <4> QED
        BY <4>1, <4>2, <2>1
    <3> QED
      BY <3>1, <3>2
  <2> QED
    BY <2>2, <2>3 DEF OwnersKnown
<1>7. RunsOwned'
  <2>1. \A w \in Threads : thread[w].object # o
    BY <1>3 DEF Unreferenced
  <2>2. \A w \in Threads : thread[w] \in Frames
    BY DEF Typed
  <2>3. \A w \in Threads : thread[w].object # None
          => thread[w].object \in Openings /\ object'[thread[w].object] = object[thread[w].object]
    BY <2>1, <2>2, <1>1 DEF Frames, Others
  <2>4. \A w \in Threads : \A r \in thread[w].request :
          r.ticket <= object'[thread[w].object].authority /\ r.ticket \notin Still
    BY <2>3 DEF RunsOwned
  <2>5. \A p \in Openings : object'[p].running <=> \E w \in Threads : thread[w].object = p
    BY <2>1, <1>1, <1>2 DEF RunsOwned, Others
  <2> QED
    BY <2>4, <2>5, <1>1 DEF RunsOwned
<1>8. EntriesMatch(queue, object)'
  <2>1. \A i \in 1..Len(queue) : queue[i].object # o
    <3>1. DOMAIN queue = 1..Len(queue)
      BY DEF Typed
    <3> QED
      BY <3>1, <1>3 DEF Unreferenced
  <2>2. ~object[o].queued
    BY <2>1 DEF EntriesMatch
  <2>3. \A p \in Openings : object'[p].queued = object[p].queued
    <3>1. object[o].queued \in BOOLEAN /\ object'[o].queued \in BOOLEAN
      BY <1>1 DEF Typed, ObjectStates
    <3> QED
      BY <3>1, <2>2, <1>1, <1>2 DEF Others
  <2> QED
    BY <2>3, <1>1, SameMarks DEF Typed
<1>9. StopCloses'
  <2>1. \A r \in Sessions : registered'[r] = IF r = s THEN o ELSE registered[r]
    BY <1>1 DEF Typed
  <2>2. \A r \in Sessions : r # s /\ registered[r] # None
           => registered[r] \in Openings /\ registered[r] # o
    BY <1>3 DEF Unreferenced, Typed
  <2> QED
    BY <2>1, <2>2, <1>1, <1>2 DEF StopCloses, Others
<1> QED
  BY <1>4, <1>5, <1>6, <1>7, <1>8, <1>9

LEMMA AuthorityStays ==
    ASSUME SourcePoolAssumption, Typed, NEW o \in Openings, Others(o),
           object'[o].authority = object[o].authority, object'[o].running = object[o].running
    PROVE  \A p \in Openings : /\ object'[p].running = object[p].running
                               /\ object'[p].authority >= object[p].authority
<1>1. \A p \in Openings : object[p].authority \in Nat /\ object'[p].authority = object[p].authority
  BY DEF Typed, ObjectStates, Tickets, SourcePoolAssumption, Others
<1> QED
  BY <1>1 DEF Others

LEMMA CloseSessionKeeps ==
    ASSUME SourcePoolAssumption, Sound, NEW s \in Sessions, NEW o \in Openings,
           CloseSession(s, o)
    PROVE  Sound'
<1> USE DEF Sound
<1> DEFINE x == Shut(object[o])
<1>1. /\ object' \in [Openings -> ObjectStates] /\ Others(o)
      /\ object'[o] = x
      /\ registered' = [registered EXCEPT ![s] = None] /\ registered[s] = o
      /\ queue' = IF object[o].queued THEN Outdated(queue, o) ELSE queue
      /\ thread' = ThreadsWoken(thread) /\ caller' = CallersWoken(caller)
      /\ UNCHANGED stopping
  BY CloseSessionDoes
<1>2. /\ x.session = object[o].session /\ x.authority = object[o].authority
      /\ x.running = object[o].running /\ x.closed /\ ~x.active /\ ~x.queued
      /\ x.pending = {} /\ x.ready = {}
  BY ShutIs DEF Typed
<1> HIDE DEF x
<1>3. \A r \in Sessions : registered'[r] = IF r = s THEN None ELSE registered[r]
  BY <1>1 DEF Typed
<1>4. ThreadsStay
  BY <1>1, WakingStays
<1>5. Typed'
  <2>1. queue' \in Seq(Entries)
    BY <1>1, OutdatedIs DEF Typed
  <2>2. registered' \in [Sessions -> Openings \cup {None}]
    BY <1>1 DEF Typed
  <2> QED
    BY <1>1, <1>4, <2>1, <2>2, CallersTyped DEF Typed, ThreadsStay
<1>6. ObjectsFit' /\ PendingTended'
  <2>1. Fit(x)
    BY <1>2 DEF Fit, AtMostOne
  <2> QED
    BY <2>1, <1>1, <1>2, OnlyOneChanges
<1>7. OwnersKnown'
  <2>1. \A p \in Openings : object'[p].session = object[p].session
    BY <1>1, <1>2 DEF Others
  <2>2. \A r \in Sessions : registered'[r] # None => object'[registered'[r]].session = r
    BY <1>3, <2>1 DEF OwnersKnown, Typed
  <2>3. \A p \in Openings : object'[p].active \/ object'[p].queued
          => object'[p].session \in Sessions /\ registered'[object'[p].session] = p
    <3> SUFFICES ASSUME NEW p \in Openings, object'[p].active \/ object'[p].queued
                 PROVE  object'[p].session \in Sessions /\ registered'[object'[p].session] = p
      OBVIOUS
    <3>1. p # o
      BY <1>1, <1>2
    <3>2. object'[p] = object[p] /\ object[p].session \in Sessions /\ registered[object[p].session] = p
      BY <3>1, <1>1 DEF Others, OwnersKnown
    <3>3. object[p].session # s
      BY <3>1, <3>2, <1>1
    <3> QED
      BY <3>2, <3>3, <1>3
  <2> QED
    BY <2>2, <2>3 DEF OwnersKnown
<1>8. RunsOwned'
  <2>1. object'[o].authority = object[o].authority /\ object'[o].running = object[o].running
    BY <1>1, <1>2
  <2> QED
    BY <2>1, <1>1, <1>4, AuthorityStays, StayingKeepsRuns
<1>9. EntriesMatch(queue, object)'
  <2>1. CASE object[o].queued
    BY <2>1, <1>1, <1>2, OutdatedMatches DEF Others, Typed
  <2>2. CASE ~object[o].queued
    <3>1. \A p \in Openings : object'[p].queued = object[p].queued
      <4>1. object[o].queued \in BOOLEAN /\ object'[o].queued \in BOOLEAN
        BY <1>1 DEF Typed, ObjectStates
      <4> QED
        BY <4>1, <2>2, <1>1, <1>2 DEF Others
    <3> QED
      BY <2>2, <3>1, <1>1, SameMarks DEF Typed
  <2> QED
    BY <2>1, <2>2
<1>10. StopCloses'
  <2>1. stopping' => queue' = <<>>
    <3>1. registered[s] # None /\ (stopping => object[o].closed)
      BY <1>1 DEF SourcePoolAssumption, StopCloses
    <3>2. stopping => ~object[o].queued
      BY <3>1 DEF ObjectsFit, Fit
    <3> QED
      BY <3>2, <1>1 DEF StopCloses
  <2>2. ASSUME NEW r \in Sessions, registered'[r] # None
        PROVE  object'[registered'[r]].closed <=> stopping'
    <3>1. r # s /\ registered'[r] = registered[r]
      BY <2>2, <1>3
    <3>2. registered[r] \in Openings /\ registered[r] # o
      BY <2>2, <3>1, <1>1 DEF OwnersKnown, Typed
    <3> QED
      BY <3>1, <3>2, <2>2, <1>1 DEF StopCloses, Others
  <2> QED
    BY <2>1, <2>2, <1>1, CallersTyped DEF StopCloses
<1> QED
  BY <1>5, <1>6, <1>7, <1>8, <1>9, <1>10

(* An operation on one open session that leaves its identity alone.        *)
LEMMA OwnersStay ==
    ASSUME Typed, OwnersKnown, ObjectsFit, NEW o \in Openings, Others(o), SameObject(o),
           UNCHANGED registered,
           object'[o].active \/ object'[o].queued
             => object[o].session \in Sessions /\ registered[object[o].session] = o
    PROVE  OwnersKnown'
<1>1. \A p \in Openings : object'[p].session = object[p].session
  BY DEF Others, SameObject
<1>2. \A r \in Sessions : registered[r] # None => object'[registered[r]].session = r
  BY <1>1 DEF OwnersKnown, Typed
<1>3. \A p \in Openings : object'[p].active \/ object'[p].queued
        => object'[p].session \in Sessions /\ registered[object'[p].session] = p
  BY <1>1 DEF OwnersKnown, Others
<1> QED
  BY <1>2, <1>3 DEF OwnersKnown

LEMMA SetAuthorityKeeps ==
    ASSUME SourcePoolAssumption, Sound, NEW s \in Sessions, NEW o \in Openings,
           NEW t \in Tickets, NEW active \in BOOLEAN, SetAuthority(s, o, t, active)
    PROVE  Sound'
<1> USE DEF Sound
<1>1. /\ object' \in [Openings -> ObjectStates] /\ Others(o) /\ SameObject(o)
      /\ object'[o].authority = t /\ object'[o].active = active
      /\ object'[o].closed = object[o].closed /\ ~object[o].closed
      /\ object'[o].running = object[o].running
      /\ object'[o].pending = {r \in object[o].pending : active /\ r.ticket = t}
      /\ object'[o].ready = {r \in object[o].ready : active /\ r.ticket = t}
      /\ \/ /\ object'[o].queued = object[o].queued /\ queue' = queue
            /\ object[o].queued => object'[o].pending = object[o].pending
         \/ /\ ~object'[o].queued /\ queue' = Outdated(queue, o)
            /\ active => object'[o].pending # object[o].pending
      /\ registered[s] = o /\ UNCHANGED <<registered, stopping>>
      /\ thread' = ThreadsWoken(thread) /\ caller' = CallersWoken(caller)
      /\ FreshTicket(object[o], t, active)
  BY SetAuthorityDoes
<1>2. object[o] \in ObjectStates /\ object'[o] \in ObjectStates /\ Fit(object[o])
  BY <1>1 DEF Typed, ObjectsFit
<1>3. ThreadsStay
  BY <1>1, WakingStays
<1>4. Typed'
  <2>1. queue' \in Seq(Entries)
    BY <1>1, OutdatedIs DEF Typed
  <2> QED
    BY <1>1, <1>3, <2>1, CallersTyped DEF Typed, ThreadsStay
<1>5. ObjectsFit' /\ PendingTended'
  <2>1. object'[o].queued => object[o].queued
    BY <1>1, <1>2 DEF ObjectStates
  <2>2. Fit(object'[o])
    BY <1>1, <1>2, <2>1 DEF Fit, AtMostOne
  <2>3. object'[o].pending # {} => object'[o].queued \/ object'[o].running
    <3>1. object'[o].pending # {} => active /\ object'[o].pending = object[o].pending
      BY <1>1, <1>2 DEF Fit, AtMostOne
    <3>2. object[o].pending # {} => object[o].queued \/ object[o].running
      BY DEF PendingTended
    <3> QED
      BY <3>1, <3>2, <1>1
  <2> QED
    BY <2>2, <2>3, <1>1, OnlyOneChanges
<1>6. OwnersKnown'
  <2>1. object[o].session = s
    BY <1>1 DEF OwnersKnown, SourcePoolAssumption
  <2> QED
    BY <2>1, <1>1, OwnersStay
<1>7. RunsOwned'
  <2>1. \A p \in Openings : object[p].authority \in Nat /\ t \in Nat /\ t >= object[o].authority
    BY <1>1 DEF Typed, ObjectStates, Tickets, SourcePoolAssumption, FreshTicket
  <2>2. \A p \in Openings : /\ object'[p].running = object[p].running
                            /\ object'[p].authority >= object[p].authority
    BY <2>1, <1>1 DEF Others
  <2> QED
    BY <2>2, <1>1, <1>3, StayingKeepsRuns
<1>8. EntriesMatch(queue, object)'
  <2>1. CASE object'[o].queued = object[o].queued /\ queue' = queue
    BY <2>1, <1>1, SameMarks DEF Others, Typed
  <2>2. CASE ~object'[o].queued /\ queue' = Outdated(queue, o)
    BY <2>2, <1>1, OutdatedMatches DEF Others, Typed
  <2> QED
    BY <2>1, <2>2, <1>1
<1>9. StopCloses'
  <2>1. ~stopping
    BY <1>1 DEF StopCloses, SourcePoolAssumption
  <2>2. \A p \in Openings : object'[p].closed = object[p].closed
    BY <1>1 DEF Others
  <2> QED
    BY <2>1, <2>2, <1>1, CallersTyped DEF StopCloses, Typed
<1> QED
  BY <1>4, <1>5, <1>6, <1>7, <1>8, <1>9

LEMMA RequestReplacedKeeps ==
    ASSUME SourcePoolAssumption, Sound, NEW s \in Sessions, NEW o \in Openings,
           NEW r \in Requests, RequestReplaced(s, o, r)
    PROVE  Sound'
<1> USE DEF Sound
<1>1. /\ object' \in [Openings -> ObjectStates] /\ Others(o) /\ SameObject(o)
      /\ object'[o].authority = object[o].authority /\ object'[o].active = object[o].active
      /\ object'[o].closed = object[o].closed /\ object'[o].running = object[o].running
      /\ object'[o].queued = object[o].queued
      /\ object'[o].pending = {r} /\ object[o].pending # {}
      /\ object'[o].ready = object[o].ready
      /\ UNCHANGED <<registered, queue, stopping, thread, caller>>
      /\ Admissible(s, o, r)
  BY RequestReplacedDoes
<1>2. Fit(object[o])
  BY DEF ObjectsFit
<1>3. ObjectsFit' /\ PendingTended'
  <2>1. Fit(object'[o])
    BY <1>1, <1>2 DEF Fit, AtMostOne, Admissible
  <2> QED
    BY <2>1, <1>1, OnlyOneChanges DEF PendingTended
<1>4. OwnersKnown'
  BY <1>1, OwnersStay DEF OwnersKnown
<1>5. RunsOwned'
  BY <1>1, AuthorityStays, StayingKeepsRuns DEF ThreadsStay, Typed
<1>6. EntriesMatch(queue, object)'
  BY <1>1, SameMarks DEF Others, Typed
<1>7. StopCloses'
  BY <1>1 DEF StopCloses, Others, Typed
<1> QED
  BY <1>1, <1>3, <1>4, <1>5, <1>6, <1>7 DEF Typed

LEMMA TakeReadyKeeps ==
    ASSUME SourcePoolAssumption, Sound, NEW s \in Sessions, NEW o \in Openings, TakeReady(s, o)
    PROVE  Sound'
<1> USE DEF Sound
<1>1. /\ object' \in [Openings -> ObjectStates] /\ Others(o) /\ SameObject(o)
      /\ object'[o].authority = object[o].authority /\ object'[o].active = object[o].active
      /\ object'[o].closed = object[o].closed /\ object'[o].running = object[o].running
      /\ object'[o].queued = object[o].queued
      /\ object'[o].pending = object[o].pending
      /\ object'[o].ready = {}
      /\ registered[s] = o
      /\ UNCHANGED <<registered, queue, stopping, thread, caller>>
  BY TakeReadyDoes
<1>2. Fit(object[o])
  BY DEF ObjectsFit
<1>3. ObjectsFit' /\ PendingTended'
  <2>1. Fit(object'[o])
    BY <1>1, <1>2 DEF Fit, AtMostOne
  <2> QED
    BY <2>1, <1>1, OnlyOneChanges DEF PendingTended
<1>4. OwnersKnown'
  BY <1>1, OwnersStay DEF OwnersKnown
<1>5. RunsOwned'
  BY <1>1, AuthorityStays, StayingKeepsRuns DEF ThreadsStay, Typed
<1>6. EntriesMatch(queue, object)'
  BY <1>1, SameMarks DEF Others, Typed
<1>7. StopCloses'
  BY <1>1 DEF StopCloses, Others, Typed
<1> QED
  BY <1>1, <1>3, <1>4, <1>5, <1>6, <1>7 DEF Typed

LEMMA RequestAcceptedKeeps ==
    ASSUME SourcePoolAssumption, Sound, NEW s \in Sessions, NEW o \in Openings,
           NEW r \in Requests, NEW c \in Callers, RequestAccepted(c, s, o, r)
    PROVE  Sound'
<1> USE DEF Sound
<1>1. /\ object' \in [Openings -> ObjectStates] /\ Others(o) /\ SameObject(o)
      /\ object'[o].authority = object[o].authority /\ object'[o].active = object[o].active
      /\ object'[o].closed = object[o].closed /\ object'[o].running = object[o].running
      /\ object'[o].pending = {r} /\ object[o].pending = {}
      /\ object'[o].ready = object[o].ready
      /\ \/ /\ ~object[o].running /\ ~object[o].queued
            /\ object'[o].queued /\ queue' = Pushed(queue, o)
         \/ /\ object[o].running \/ object[o].queued
            /\ object'[o].queued = object[o].queued /\ queue' = queue
      /\ UNCHANGED <<registered, stopping>>
      /\ \A w \in Threads : \/ thread'[w] = thread[w]
                            \/ thread[w].at = "unborn" /\ thread'[w] = AtPlace("awake")
      /\ thread' \in [Threads -> Frames]
      /\ caller[c] = "idle" /\ caller' = [caller EXCEPT ![c] = "notify"]
      /\ Admissible(s, o, r)
  BY RequestAcceptedDoes
<1>2. Fit(object[o]) /\ ~object[o].closed /\ object[o].active /\ ~stopping
  BY <1>1 DEF ObjectsFit, Admissible, Open
<1>3. Typed'
  <2>1. queue' \in Seq(Entries)
    BY <1>1, PushedIs DEF Typed
  <2>2. caller' \in [Callers -> CallerPlaces]
    BY <1>1 DEF Typed, CallerPlaces
  <2> QED
    BY <1>1, <2>1, <2>2 DEF Typed
<1>4. ObjectsFit' /\ PendingTended'
  <2>1. Fit(object'[o])
    BY <1>1, <1>2 DEF Fit, AtMostOne, Admissible
  <2>2. object'[o].queued \/ object'[o].running
    BY <1>1
  <2> QED
    BY <2>1, <2>2, <1>1, OnlyOneChanges
<1>5. OwnersKnown'
  BY <1>1, <1>2, OwnersStay DEF OwnersKnown
<1>6. RunsOwned'
  <2>1. /\ AtPlace("awake").object = None /\ AtPlace("awake").request = {}
        /\ AtPlace("awake").at = "awake"
    BY DEF AtPlace
  <2>2. \A w \in Threads : thread[w].at = "unborn" => thread[w].object = None /\ thread[w].request = {}
    BY DEF RunsOwned
  <2>3. ThreadsStay
    BY <2>1, <2>2, <1>1 DEF ThreadsStay
  <2> QED
    BY <2>3, <1>1, AuthorityStays, StayingKeepsRuns
<1>7. EntriesMatch(queue, object)'
  <2>1. CASE object'[o].queued /\ queue' = Pushed(queue, o)
    BY <2>1, <1>1, PushedMatches DEF Others, Typed
  <2>2. CASE object'[o].queued = object[o].queued /\ queue' = queue
    BY <2>2, <1>1, SameMarks DEF Others, Typed
  <2> QED
    BY <2>1, <2>2, <1>1
<1>8. StopCloses'
  <2>1. \A p \in Openings : object'[p].closed = object[p].closed
    BY <1>1 DEF Others
  <2>2. \A d \in Callers : caller'[d] = caller[d] \/ caller'[d] = "notify"
    BY <1>1 DEF Typed
  <2> QED
    BY <2>1, <2>2, <1>1, <1>2 DEF StopCloses, Typed
<1> QED
  BY <1>3, <1>4, <1>5, <1>6, <1>7, <1>8

LEMMA StopBeginKeeps ==
    ASSUME SourcePoolAssumption, Sound, NEW c \in Callers, StopBegin(c)
    PROVE  Sound'
<1> USE DEF Sound
<1> DEFINE known(p) == \E s \in Sessions : registered[s] = p
<1>1. /\ object' \in [Openings -> ObjectStates]
      /\ \A p \in Openings : object'[p] = IF known(p) THEN Shut(object[p]) ELSE object[p]
      /\ queue' = <<>> /\ stopping' /\ UNCHANGED <<registered, thread>>
      /\ caller[c] = "idle" /\ caller' = [caller EXCEPT ![c] = "stopNotify"]
  BY StopBeginDoes
<1>2. \A p \in Openings :
         LET x == Shut(object[p])
         IN /\ x.session = object[p].session /\ x.authority = object[p].authority
            /\ x.running = object[p].running /\ x.closed /\ ~x.active /\ ~x.queued
            /\ x.pending = {} /\ x.ready = {}
  BY ShutIs DEF Typed
<1>3. \A s \in Sessions : registered[s] # None => registered[s] \in Openings /\ known(registered[s])
  BY DEF Typed
<1>4. \A p \in Openings : object[p].active \/ object[p].queued => known(p)
  BY DEF OwnersKnown
<1> HIDE DEF known
<1>5. \A p \in Openings : /\ object'[p].session = object[p].session
                          /\ object'[p].authority = object[p].authority
                          /\ object'[p].running = object[p].running
                          /\ ~object'[p].active /\ ~object'[p].queued
                          /\ known(p) => object'[p].closed
                          /\ object'[p].pending \in {{}, object[p].pending}
                          /\ object'[p].ready \in {{}, object[p].ready}
                          /\ known(p) => object'[p].pending = {} /\ object'[p].ready = {}
  BY ZenonT(60), <1>1, <1>2, <1>4
<1>6. Typed'
  BY <1>1 DEF Typed, CallerPlaces
<1>7. \A p \in Openings : object'[p].pending = {} /\ object'[p].ready = {}
  <2> SUFFICES ASSUME NEW p \in Openings, ~known(p)
               PROVE  object'[p].pending = {} /\ object'[p].ready = {}
    BY <1>5
  <2>1. Fit(object[p]) /\ ~object[p].active
    BY <1>4 DEF ObjectsFit
  <2>2. object[p].pending = {} /\ object[p].ready = {}
    BY <2>1 DEF Fit
  <2> QED
    BY <2>2, <1>1
<1>8. ObjectsFit' /\ PendingTended'
  BY <1>5, <1>7 DEF ObjectsFit, PendingTended, Fit, AtMostOne
<1>9. OwnersKnown'
  BY <1>1, <1>3, <1>5 DEF OwnersKnown
<1>10. RunsOwned'
  <2>1. ThreadsStay
    BY <1>1 DEF ThreadsStay, Typed
  <2>2. \A p \in Openings : object[p].authority \in Nat
    BY DEF Typed, ObjectStates, Tickets, SourcePoolAssumption
  <2>3. \A p \in Openings : object'[p].authority >= object[p].authority
    BY <2>2, <1>5
  <2> QED
    BY <2>1, <2>3, <1>1, <1>5, StayingKeepsRuns
<1>11. EntriesMatch(queue, object)'
  BY <1>1, <1>5 DEF EntriesMatch
<1>12. StopCloses'
  <2>1. \A s \in Sessions : registered'[s] # None => object'[registered'[s]].closed
    BY <1>1, <1>3, <1>5
  <2> QED
    BY <2>1, <1>1 DEF StopCloses
<1> QED
  BY <1>6, <1>8, <1>9, <1>10, <1>11, <1>12

(* The current entries are the live ones.                                  *)
LEMMA UnqueuedAreLive ==
    ASSUME Sound, NEW n \in 1..Len(queue)
    PROVE  /\ Unqueue(n) = {queue[i].object : i \in {j \in 1..n : queue[j].live}}
           /\ \A i \in 1..n : queue[i].live => Current(queue[i])
<1>1. Len(queue) \in Nat /\ queue \in Seq(Entries)
  BY DEF Sound, Typed
<1>2. \A i \in 1..n : i \in 1..Len(queue)
  BY <1>1
<1>3. \A i \in 1..n : queue[i].object \in Openings
  BY <1>1, <1>2, EntryIs
<1>4. \A i \in 1..n : queue[i].live => object[queue[i].object].queued
  BY <1>2 DEF Sound, EntriesMatch
<1>5. \A i \in 1..n : queue[i].live => Current(queue[i])
  BY <1>3, <1>4 DEF Sound, ObjectsFit, Fit, Current
<1>6. {j \in 1..n : Current(queue[j])} = {j \in 1..n : queue[j].live}
  BY <1>5 DEF Current
<1> QED
  BY <1>5, <1>6 DEF Unqueue

LEMMA SkipAllKeeps ==
    ASSUME SourcePoolAssumption, Sound, NEW w \in Threads, SkipAll(w)
    PROVE  Sound'
<1> USE DEF Sound
<1> DEFINE n == Len(queue)
<1>1. /\ object' \in [Openings -> ObjectStates]
      /\ \A p \in Openings : /\ SameButQueued(p)
                             /\ object'[p].running = object[p].running
                             /\ object'[p].pending = object[p].pending
                             /\ object'[p].queued = (object[p].queued /\ p \notin Unqueue(n))
      /\ queue' = <<>> /\ ~stopping /\ UNCHANGED <<registered, stopping, thread>>
      /\ \A i \in DOMAIN queue : ~Runnable(queue[i])
      /\ caller' = CallersWoken(caller)
  BY SkipAllDoes
<1>2. n \in 1..Len(queue) /\ DOMAIN queue = 1..n
  BY DEF SkipAll, Typed
<1>3. Unqueue(n) = {queue[i].object : i \in {j \in 1..n : queue[j].live}}
  BY <1>2, UnqueuedAreLive
<1>4. \A i \in 1..n : queue[i].live => Current(queue[i])
  BY <1>2, UnqueuedAreLive
<1>5. \A p \in Openings : object[p].queued => \E i \in 1..n : queue[i].live /\ queue[i].object = p
  BY DEF EntriesMatch
<1> HIDE DEF n
<1>6. \A p \in Openings : ~object'[p].queued
  BY <1>1, <1>3, <1>5
<1>7. \A p \in Openings : object[p].queued => object[p].pending = {}
  <2> SUFFICES ASSUME NEW p \in Openings, object[p].queued
               PROVE  object[p].pending = {}
    OBVIOUS
  <2>1. PICK i \in 1..n : queue[i].live /\ queue[i].object = p
    BY <1>5
  <2>2. Current(queue[i]) /\ ~Runnable(queue[i])
    BY <2>1, <1>1, <1>2, <1>4
  <2>3. ~object[p].active \/ object[p].pending = {}
    BY <2>1, <2>2 DEF Runnable
  <2> QED
    BY <2>3 DEF ObjectsFit, Fit
<1>8. Typed'
  BY <1>1, CallersTyped DEF Typed
<1>9. ObjectsFit'
  BY <1>1, <1>6 DEF ObjectsFit, Fit, SameButQueued
<1>10. PendingTended'
  BY <1>1, <1>6, <1>7 DEF PendingTended
<1>11. OwnersKnown'
  BY <1>1, <1>6 DEF OwnersKnown, SameButQueued, Typed
<1>12. RunsOwned'
  <2>1. ThreadsStay
    BY <1>1 DEF ThreadsStay, Typed
  <2>2. \A p \in Openings : object[p].authority \in Nat
    BY DEF Typed, ObjectStates, Tickets, SourcePoolAssumption
  <2>3. \A p \in Openings : object'[p].authority >= object[p].authority
    BY <2>2, <1>1 DEF SameButQueued
  <2> QED
    BY <2>1, <2>3, <1>1, StayingKeepsRuns
<1>13. EntriesMatch(queue, object)'
  BY <1>1, <1>6 DEF EntriesMatch
<1>14. StopCloses'
  BY <1>1, CallersTyped DEF StopCloses, SameButQueued, Typed
<1> QED
  BY <1>8, <1>9, <1>10, <1>11, <1>12, <1>13, <1>14

LEMMA StartRunKeeps ==
    ASSUME SourcePoolAssumption, Sound, NEW w \in Threads, NEW n \in DOMAIN queue,
           StartRun(w, n)
    PROVE  Sound'
<1> USE DEF Sound
<1> DEFINE o == queue[n].object
           f == [at |-> "run", object |-> o, request |-> object[o].pending]
<1>1. /\ o \in Openings
      /\ object' \in [Openings -> ObjectStates]
      /\ \A p \in Openings : /\ SameButQueued(p)
                             /\ object'[p].running = (object[p].running \/ p = o)
                             /\ object'[p].pending = IF p = o THEN {} ELSE object[p].pending
                             /\ object'[p].queued = (object[p].queued /\ p \notin Unqueue(n))
      /\ queue' = SubSeq(queue, n + 1, Len(queue))
      /\ thread[w].at = "awake"
      /\ thread' \in [Threads -> Frames]
      /\ thread' = [thread EXCEPT ![w] = f]
      /\ ~stopping /\ UNCHANGED <<registered, stopping, caller>>
      /\ Runnable(queue[n]) /\ \A i \in 1..(n - 1) : ~Runnable(queue[i])
  BY StartRunDoes
<1>2. n \in 1..Len(queue) /\ n \in Nat /\ Len(queue) \in Nat /\ queue \in Seq(Entries)
  BY DEF Typed
<1>3. Unqueue(n) = {queue[i].object : i \in {j \in 1..n : queue[j].live}}
  BY <1>2, UnqueuedAreLive
<1>4. \A i \in 1..n : queue[i].live => Current(queue[i])
  BY <1>2, UnqueuedAreLive
<1>5. queue[n].live /\ object[o].queued /\ object[o].active
  BY <1>1 DEF Runnable, Current
<1>6. o \in Unqueue(n)
  BY <1>2, <1>3, <1>5
<1>7. Fit(object[o]) /\ ~object[o].running
  BY <1>1, <1>5 DEF ObjectsFit, Fit
<1>8. f.at = "run" /\ f.object = o /\ f.request = object[o].pending
  OBVIOUS
<1> HIDE DEF f, o
<1>9. \A p \in Openings : object'[p].queued => object[p].queued /\ p # o
  BY <1>1, <1>6
<1>10. Typed'
  <2>1. queue' \in Seq(Entries)
    BY <1>1, <1>2
  <2> QED
    BY <2>1, <1>1 DEF Typed
<1>11. ObjectsFit'
  <2> SUFFICES ASSUME NEW p \in Openings
               PROVE  Fit(object'[p])
    BY DEF ObjectsFit
  <2>1. Fit(object[p])
    BY DEF ObjectsFit
  <2>2. object'[p].pending = {} \/ object'[p].pending = object[p].pending
    BY <1>1
  <2>3. /\ object'[p].authority = object[p].authority /\ object'[p].active = object[p].active
        /\ object'[p].closed = object[p].closed /\ object'[p].ready = object[p].ready
    BY <1>1 DEF SameButQueued
  <2>4. object'[p].queued => object[p].queued /\ ~object'[p].running
    BY <1>1, <1>9, <2>1 DEF Fit
  <2>5. AtMostOne(object'[p].pending)
    BY <2>1, <2>2 DEF Fit, AtMostOne
  <2> QED
    BY <2>1, <2>2, <2>3, <2>4, <2>5 DEF Fit
<1>12. PendingTended'
  <2> SUFFICES ASSUME NEW p \in Openings, object'[p].pending # {}, ~object'[p].queued
               PROVE  object'[p].running
    BY DEF PendingTended
  <2>1. p # o /\ object[p].pending # {}
    BY <1>1
  <2>2. CASE object[p].queued
    <3>1. PICK i \in 1..n : queue[i].live /\ queue[i].object = p
      BY <2>2, <1>1, <1>3
    <3>2. i # n
      BY <3>1, <2>1 DEF o
    <3>3. i \in 1..(n - 1)
      BY <3>2, <1>2
    <3>4. Current(queue[i]) /\ ~Runnable(queue[i])
      BY <3>1, <3>3, <1>1, <1>4
    <3>5. ~object[p].active
      BY <3>1, <3>4, <2>1 DEF Runnable
    <3> QED
      BY <3>5, <2>1 DEF ObjectsFit, Fit
  <2>3. CASE ~object[p].queued
    BY <2>1, <2>3, <1>1 DEF PendingTended
  <2> QED
    BY <2>2, <2>3
<1>13. OwnersKnown'
  <2>1. \A p \in Openings : /\ object'[p].session = object[p].session
                            /\ object'[p].active \/ object'[p].queued
                                 => object[p].active \/ object[p].queued
    BY <1>1, <1>9 DEF SameButQueued
  <2>2. \A s \in Sessions : registered[s] # None => object'[registered[s]].session = s
    BY <2>1 DEF OwnersKnown, Typed
  <2>3. \A p \in Openings : object'[p].active \/ object'[p].queued
          => object'[p].session \in Sessions /\ registered[object'[p].session] = p
    BY <2>1 DEF OwnersKnown
  <2> QED
    BY <2>2, <2>3, <1>1 DEF OwnersKnown
<1>14. RunsOwned'
  <2>1. \A v \in Threads : thread'[v] = IF v = w THEN f ELSE thread[v]
    BY <1>1 DEF Typed
  <2>2. \A v \in Threads : thread[v].object # o
    BY <1>1, <1>7 DEF RunsOwned
  <2>3. o # None
    BY <1>1 DEF SourcePoolAssumption
  <2>4. \A v \in Threads : /\ thread'[v].at = "run" <=> thread'[v].object # None
                           /\ thread'[v].at # "run" => thread'[v].request = {}
                           /\ AtMostOne(thread'[v].request)
    BY <2>1, <2>3, <1>7, <1>8 DEF RunsOwned, Fit
  <2>5. ASSUME NEW v \in Threads, NEW r \in thread'[v].request
        PROVE  r.ticket <= object'[thread'[v].object].authority /\ r.ticket \notin Still
    <3>1. CASE v = w
      <4>1. r \in object[o].pending /\ thread'[v].object = o
        BY <3>1, <2>1, <2>5, <1>8
      <4>2. r.ticket = object[o].authority /\ r.ticket \notin Still
        BY <4>1, <1>7 DEF Fit
      <4>3. object'[o].authority = object[o].authority /\ object[o].authority \in Nat
        BY <1>1 DEF SameButQueued, Typed, ObjectStates, Tickets, SourcePoolAssumption
      <4> QED
        BY <4>1, <4>2, <4>3
    <3>2. CASE v # w
      <4>1. r \in thread[v].request /\ thread'[v].object = thread[v].object
        BY <3>2, <2>1, <2>5
      <4>2. thread[v] \in Frames /\ thread[v].object # None
        BY <4>1 DEF RunsOwned, Typed
      <4>3. thread[v].object \in Openings
        BY <4>2 DEF Frames
      <4>4. object'[thread[v].object].authority = object[thread[v].object].authority
        BY <4>3, <1>1 DEF SameButQueued
      <4> QED
        BY <4>1, <4>4 DEF RunsOwned
    <3> QED
      BY <3>1, <3>2
  <2>6. \A u, v \in Threads : thread'[u].object = thread'[v].object /\ thread'[u].object # None
          => u = v
    BY <2>1, <2>2, <1>8 DEF RunsOwned
  <2>7. \A p \in Openings : object'[p].running <=> \E v \in Threads : thread'[v].object = p
    <3> SUFFICES ASSUME NEW p \in Openings
                 PROVE  object'[p].running <=> \E v \in Threads : thread'[v].object = p
      OBVIOUS
    <3>1. CASE p = o
      BY <3>1, <2>1, <1>1, <1>8
    <3>2. CASE p # o
      <4>1. object'[p].running = object[p].running
        <5>1. object'[p].running \in BOOLEAN /\ object[p].running \in BOOLEAN
          BY <1>1 DEF Typed, ObjectStates
        <5> QED
          BY <5>1, <3>2, <1>1
      <4>2. thread[w].object = None
        BY <1>1 DEF RunsOwned
      <4>3. p # None
        BY DEF SourcePoolAssumption
      <4>4. \A v \in Threads : thread'[v].object = p <=> thread[v].object = p
        BY <3>2, <4>2, <4>3, <2>1, <1>8
      <4> QED
        BY <4>1, <4>4 DEF RunsOwned
    <3> QED
      BY <3>1, <3>2
  <2> QED
    BY <2>4, <2>5, <2>6, <2>7 DEF RunsOwned
<1>15. EntriesMatch(queue, object)'
  <2>1. \A p \in Openings : object'[p].queued
           = (object[p].queued /\ p \notin {queue[i].object : i \in {j \in 1..n : queue[j].live}})
    BY <1>1, <1>3
  <2>2. EntriesMatch(SubSeq(queue, n + 1, Len(queue)), object')
    BY <1>2, <2>1, ShortenedMatches
  <2> QED
    BY <2>2, <1>1
<1>16. StopCloses'
  BY <1>1 DEF StopCloses, SameButQueued, Typed
<1> QED
  BY <1>10, <1>11, <1>12, <1>13, <1>14, <1>15, <1>16

LEMMA EndRunKeeps ==
    ASSUME SourcePoolAssumption, Sound, NEW w \in Threads, NEW outcomes,
           thread[w].at = "run", EndRun(w, outcomes),
           \A a \in outcomes : a.request \in Requests /\ a.charge \in Charges,
           \A a, b \in outcomes : a = b
    PROVE  Sound'
<1> USE DEF Sound
<1> DEFINE o == thread[w].object
<1>1. o # None /\ o \in Openings
  <2>1. o # None /\ thread[w] \in Frames
    BY DEF RunsOwned, Typed
  <2> QED
    BY <2>1 DEF Frames
<1>2. /\ object' \in [Openings -> ObjectStates] /\ Others(o) /\ SameObject(o)
      /\ object'[o].authority = object[o].authority /\ object'[o].active = object[o].active
      /\ object'[o].closed = object[o].closed /\ ~object'[o].running
      /\ object'[o].pending = object[o].pending
      /\ \/ object'[o].ready = object[o].ready
         \/ \E a \in outcomes : /\ StillWanted(o, a.request)
                                /\ object'[o].ready = {a.request}
      /\ object'[o].queued = (object[o].queued \/ Again(o))
      /\ queue' = IF Again(o) THEN Pushed(queue, o) ELSE queue
      /\ thread' = ThreadsWoken([thread EXCEPT ![w] = AtPlace("awake")])
      /\ caller' = CallersWoken(caller)
      /\ UNCHANGED <<registered, stopping>>
  BY <1>1, EndRunDoes
<1>3. Fit(object[o]) /\ ~object[o].queued /\ object[o] \in ObjectStates
  BY <1>1 DEF ObjectsFit, Fit, RunsOwned, Typed
<1>4. /\ thread' \in [Threads -> Frames]
      /\ thread'[w].at # "run" /\ thread'[w].object = None /\ thread'[w].request = {}
      /\ \A v \in Threads : v # w => /\ thread'[v].object = thread[v].object
                                     /\ thread'[v].request = thread[v].request
                                     /\ thread'[v].at = "run" <=> thread[v].at = "run"
  <2> DEFINE a == AtPlace("awake")
             ts == [thread EXCEPT ![w] = a]
  <2>1. a \in Frames /\ a.at = "awake" /\ a.object = None /\ a.request = {}
    BY AtPlaceIs DEF ThreadPlaces
  <2> HIDE DEF a
  <2>2. ts \in [Threads -> Frames] /\ \A v \in Threads : ts[v] = IF v = w THEN a ELSE thread[v]
    BY <2>1 DEF Typed
  <2> HIDE DEF ts
  <2>3. thread' = ThreadsWoken(ts)
    BY <1>2 DEF ts, a
  <2>4. /\ thread' \in [Threads -> Frames]
        /\ \A v \in Threads : \/ thread'[v] = ts[v]
                              \/ ts[v].at = "asleep" /\ thread'[v] = a
    BY <2>2, <2>3, ThreadsWokenIs DEF a
  <2>5. thread'[w] = a
    BY <2>1, <2>2, <2>4
  <2>6. \A v \in Threads : thread[v].at = "asleep" => thread[v].object = None /\ thread[v].request = {}
    BY DEF RunsOwned
  <2>7. \A v \in Threads : v # w => thread'[v] = thread[v] \/ (thread[v].at = "asleep" /\ thread'[v] = a)
    BY <2>2, <2>4
  <2> QED
    BY <2>1, <2>4, <2>5, <2>6, <2>7
<1> HIDE DEF o
<1>5. Typed'
  <2>1. queue' \in Seq(Entries)
    BY <1>1, <1>2, PushedIs DEF Typed
  <2> QED
    BY <2>1, <1>2, <1>4, CallersTyped DEF Typed
<1>6. ObjectsFit'
  <2>1. Fit(object'[o])
    <3>1. AtMostOne(object'[o].ready)
      BY <1>2, <1>3 DEF Fit, AtMostOne
    <3>2. \A r \in object'[o].ready :
             object'[o].active /\ r.ticket = object'[o].authority /\ r.ticket \notin Still
      BY <1>2, <1>3 DEF Fit, StillWanted
    <3>3. object'[o].queued => Again(o)
      BY <1>2, <1>3
    <3> QED
      BY <3>1, <3>2, <3>3, <1>2, <1>3 DEF Fit, Again
  <2> QED
    BY <2>1, <1>2 DEF ObjectsFit, Others
<1>7. PendingTended'
  <2>1. object[o].pending # {} => Again(o)
    <3>1. object[o].pending # {} => object[o].active /\ ~object[o].closed
      BY <1>3 DEF Fit
    <3>2. object[o].active => registered[object[o].session] = o
      BY <1>1 DEF OwnersKnown
    <3> QED
      BY <3>1, <3>2, <1>3 DEF Again
  <2> QED
    BY <2>1, <1>2 DEF PendingTended, Others
<1>8. OwnersKnown'
  <2>1. object'[o].active \/ object'[o].queued => object[o].active
    BY <1>2, <1>3 DEF Again
  <2>2. object'[o].active \/ object'[o].queued
          => object[o].session \in Sessions /\ registered[object[o].session] = o
    BY <2>1, <1>1 DEF OwnersKnown
  <2> QED
    BY <2>2, <1>1, <1>2, OwnersStay
<1>9. RunsOwned'
  <2>1. \A v \in Threads : /\ thread'[v].at = "run" <=> thread'[v].object # None
                           /\ thread'[v].at # "run" => thread'[v].request = {}
                           /\ AtMostOne(thread'[v].request)
    BY <1>4 DEF RunsOwned, AtMostOne
  <2>2. ASSUME NEW v \in Threads, NEW r \in thread'[v].request
        PROVE  r.ticket <= object'[thread'[v].object].authority /\ r.ticket \notin Still
    <3>1. v # w /\ r \in thread[v].request /\ thread'[v].object = thread[v].object
      BY <2>2, <1>4
    <3>2. thread[v] \in Frames /\ thread[v].object # None
      BY <3>1 DEF RunsOwned, Typed
    <3>3. thread[v].object \in Openings /\ thread[v].object # o
      BY <3>1, <3>2, <1>1 DEF Frames, RunsOwned, o
    <3> QED
      BY <3>1, <3>3, <1>2 DEF RunsOwned, Others
  <2>3. \A u, v \in Threads : thread'[u].object = thread'[v].object /\ thread'[u].object # None
          => u = v
    BY <1>4 DEF RunsOwned
  <2>4. \A p \in Openings : object'[p].running <=> \E v \in Threads : thread'[v].object = p
    <3> SUFFICES ASSUME NEW p \in Openings
                 PROVE  object'[p].running <=> \E v \in Threads : thread'[v].object = p
      OBVIOUS
    <3>1. p # None
      BY DEF SourcePoolAssumption
    <3>2. CASE p = o
      <4>1. \A v \in Threads : thread[v].object = o => v = w
        BY <1>1 DEF RunsOwned, o
      <4>2. \A v \in Threads : thread'[v].object # o
        BY <4>1, <1>1, <1>4
      <4> QED
        BY <3>2, <4>2, <1>2
    <3>3. CASE p # o
      <4>1. \A v \in Threads : thread'[v].object = p <=> thread[v].object = p
        BY <3>1, <3>3, <1>4 DEF o
      <4> QED
        BY ZenonT(60), <3>3, <4>1, <1>2 DEF RunsOwned, Others
    <3> QED
      BY <3>2, <3>3
  <2> QED
    BY <2>1, <2>2, <2>3, <2>4 DEF RunsOwned
<1>10. EntriesMatch(queue, object)'
  <2>1. CASE Again(o)
    <3>1. object'[o].queued
      BY <2>1, <1>2
    <3> QED
      BY <2>1, <3>1, <1>1, <1>2, PushedMatches DEF Others, Typed
  <2>2. CASE ~Again(o)
    <3>1. \A p \in Openings : object'[p].queued = object[p].queued
      BY <2>2, <1>2, <1>3 DEF Others, ObjectStates
    <3> QED
      BY <2>2, <3>1, <1>2, SameMarks DEF Typed
  <2> QED
    BY <2>1, <2>2
<1>11. StopCloses'
  <2>1. \A p \in Openings : object'[p].closed = object[p].closed
    BY <1>2 DEF Others
  <2>2. stopping => ~Again(o)
    <3>1. ASSUME Again(o)
          PROVE  ~stopping
      <4>1. object[o].active /\ ~object[o].closed
        BY <3>1 DEF Again
      <4>2. object[o].session \in Sessions /\ registered[object[o].session] = o
        BY <4>1, <1>1 DEF OwnersKnown
      <4> QED
        BY <4>1, <4>2, <1>1 DEF StopCloses
    <3> QED
      BY <3>1
  <2> QED
    BY <2>1, <2>2, <1>2, CallersTyped DEF StopCloses, Typed
<1> QED
  BY <1>5, <1>6, <1>7, <1>8, <1>9, <1>10, <1>11

(* Notifying, waiting, sleeping and leaving change no session.             *)
LEMMA QuietKeeps ==
    ASSUME SourcePoolAssumption, Sound, UNCHANGED <<object, registered, queue, stopping>>,
           ThreadsStay, caller' \in [Callers -> CallerPlaces],
           \A c \in Callers : caller'[c] \in {"stopNotify", "join"} => stopping
    PROVE  Sound'
<1> USE DEF Sound
<1>1. RunsOwned'
  <2>1. \A p \in Openings : object[p].authority \in Nat
    BY DEF Typed, ObjectStates, Tickets, SourcePoolAssumption
  <2> QED
    BY <2>1, StayingKeepsRuns DEF Typed
<1> QED
  BY <1>1 DEF Typed, ThreadsStay, ObjectsFit, OwnersKnown, PendingTended, StopCloses

LEMMA ThreadMovesStay ==
    ASSUME Typed, RunsOwned, NEW w \in Threads, NEW place \in ThreadPlaces,
           thread[w].at # "run", place # "run", thread' = [thread EXCEPT ![w] = AtPlace(place)]
    PROVE  ThreadsStay
<1> DEFINE a == AtPlace(place)
<1>1. a \in Frames /\ a.at = place /\ a.object = None /\ a.request = {}
  BY AtPlaceIs
<1> HIDE DEF a
<1>2. thread' \in [Threads -> Frames] /\ \A v \in Threads : thread'[v] = IF v = w THEN a ELSE thread[v]
  BY <1>1 DEF Typed, a
<1>3. thread[w].object = None /\ thread[w].request = {}
  BY DEF RunsOwned
<1> QED
  BY <1>1, <1>2, <1>3 DEF ThreadsStay

LEMMA CallerMovesAre ==
    ASSUME Typed, StopCloses, NEW c \in Callers, NEW from, NEW to \in CallerPlaces,
           Goto(c, from, to)
    PROVE  /\ caller' \in [Callers -> CallerPlaces]
           /\ to \notin {"stopNotify", "join"} \/ stopping
                => \A d \in Callers : caller'[d] \in {"stopNotify", "join"} => stopping
BY DEF Typed, StopCloses, Goto

LEMMA CallerStepStays ==
    ASSUME Sound, NEW c \in Callers, NotifyOne(c) \/ WaitIdle(c) \/ WaitDisturbed(c) \/ StopNotify(c)
    PROVE  ThreadsStay
<1> USE DEF Sound
<1>1. CASE NotifyOne(c)
  <2>1. \/ thread' = thread
        \/ \E w \in Threads : thread[w].at = "asleep" /\ thread' = [thread EXCEPT ![w] = AtPlace("awake")]
    BY <1>1 DEF NotifyOne
  <2>2. CASE thread' = thread
    BY <2>2 DEF ThreadsStay, Typed
  <2>3. ASSUME NEW w \in Threads, thread[w].at = "asleep",
               thread' = [thread EXCEPT ![w] = AtPlace("awake")]
        PROVE  ThreadsStay
    BY <2>3, ThreadMovesStay DEF ThreadPlaces
  <2> QED
    BY <2>1, <2>2, <2>3
<1>2. CASE WaitIdle(c) \/ WaitDisturbed(c)
  BY <1>2 DEF WaitIdle, WaitDisturbed, ThreadsStay, Typed
<1>3. CASE StopNotify(c)
  BY <1>3, WakingStays DEF StopNotify
<1> QED
  BY <1>1, <1>2, <1>3

LEMMA CallerStepKeeps ==
    ASSUME SourcePoolAssumption, Sound, NEW c \in Callers,
           NotifyOne(c) \/ WaitIdle(c) \/ WaitDisturbed(c) \/ StopNotify(c)
    PROVE  Sound'
<1> USE DEF Sound
<1>1. ThreadsStay
  BY CallerStepStays
<1>2. /\ caller' \in [Callers -> CallerPlaces]
      /\ \A d \in Callers : caller'[d] \in {"stopNotify", "join"} => stopping
  <2>1. CASE NotifyOne(c)
    <3>1. caller' = [caller EXCEPT ![c] = "idle"]
      BY <2>1 DEF NotifyOne
    <3> QED
      BY <3>1 DEF Typed, CallerPlaces, StopCloses
  <2>2. CASE WaitIdle(c) \/ WaitDisturbed(c)
    <3>1. \E from, to \in {"idle", "waitCheck", "waitAsleep"} : Goto(c, from, to)
      BY <2>2 DEF WaitIdle, WaitDisturbed
    <3>2. PICK from, to \in {"idle", "waitCheck", "waitAsleep"} : Goto(c, from, to)
      BY <3>1
    <3>3. to \in CallerPlaces /\ to \notin {"stopNotify", "join"}
      BY DEF CallerPlaces
    <3> QED
      BY <3>2, <3>3, CallerMovesAre
  <2>3. CASE StopNotify(c)
    <3> DEFINE cs == [caller EXCEPT ![c] = "join"]
    <3>1. caller' = CallersWoken(cs) /\ caller[c] = "stopNotify"
      BY <2>3 DEF StopNotify
    <3>2. stopping
      BY <3>1 DEF StopCloses
    <3>3. cs \in [Callers -> CallerPlaces]
      BY DEF Typed, CallerPlaces
    <3> HIDE DEF cs
    <3> QED
      BY <3>1, <3>2, <3>3, CallersWokenIs
  <2> QED
    BY <2>1, <2>2, <2>3
<1> QED
  BY <1>1, <1>2, QuietKeeps DEF NotifyOne, WaitIdle, WaitDisturbed, StopNotify, pool

LEMMA ThreadMoveStays ==
    ASSUME Sound, NEW w \in Threads, Sleep(w) \/ Exit(w) \/ SpuriousWake(w)
    PROVE  ThreadsStay
<1>1. \E place \in {"asleep", "exited", "awake"} : thread' = [thread EXCEPT ![w] = AtPlace(place)]
  BY DEF Sleep, Exit, SpuriousWake
<1>2. thread[w].at # "run"
  BY DEF Sleep, Exit, SpuriousWake
<1> QED
  BY <1>1, <1>2, ThreadMovesStay DEF ThreadPlaces, Sound

LEMMA ThreadMoveKeeps ==
    ASSUME SourcePoolAssumption, Sound, NEW w \in Threads,
           Sleep(w) \/ Exit(w) \/ SpuriousWake(w)
    PROVE  Sound'
<1> USE DEF Sound
<1>1. ThreadsStay
  BY ThreadMoveStays
<1>2. caller' = caller \/ caller' = CallersWoken(caller)
  BY DEF Sleep, Exit, SpuriousWake
<1>3. /\ caller' \in [Callers -> CallerPlaces]
      /\ \A d \in Callers : caller'[d] \in {"stopNotify", "join"} => stopping
  BY <1>2, CallersTyped DEF Typed, StopCloses
<1> QED
  BY <1>1, <1>3, QuietKeeps DEF Sleep, Exit, SpuriousWake, pool

LEMMA StopJoinedKeeps ==
    ASSUME SourcePoolAssumption, Sound, NEW c \in Callers, StopJoined(c)
    PROVE  Sound'
<1> USE DEF Sound
<1> DEFINE cs == [caller EXCEPT ![c] = "idle"]
<1>1. /\ UNCHANGED <<object, queue, stopping, thread>>
      /\ registered' = [s \in Sessions |-> None]
      /\ caller' = CallersWoken(cs) /\ caller[c] = "join"
  BY DEF StopJoined
<1>2. stopping
  BY <1>1 DEF StopCloses
<1>3. cs \in [Callers -> CallerPlaces]
  BY DEF Typed, CallerPlaces
<1> HIDE DEF cs
<1>4. caller' \in [Callers -> CallerPlaces]
  BY <1>1, <1>3, CallersWokenIs
<1>5. \A p \in Openings : ~object[p].active /\ ~object[p].queued
  <2> SUFFICES ASSUME NEW p \in Openings, object[p].active \/ object[p].queued
               PROVE  FALSE
    OBVIOUS
  <2>1. object[p].session \in Sessions /\ registered[object[p].session] = p /\ p # None
    BY DEF OwnersKnown, SourcePoolAssumption
  <2>2. object[p].closed
    BY <2>1, <1>2 DEF StopCloses
  <2> QED
    BY <2>2 DEF ObjectsFit, Fit
<1>6. OwnersKnown'
  BY <1>1, <1>5 DEF OwnersKnown
<1>7. StopCloses'
  BY <1>1, <1>2 DEF StopCloses
<1> QED
  BY <1>1, <1>4, <1>6, <1>7 DEF Typed, ObjectsFit, RunsOwned, PendingTended

(* What a read may yield.                                                  *)
LEMMA ResultsAre ==
    ASSUME NEW r \in Requests, NEW out \in Results(r)
    PROVE  out.request \in Requests /\ out.request.ticket = r.ticket /\ out.charge \in Charges
           /\ out.request \in Covered[r]
BY DEF Results, Covered

LEMMA RunEndIs ==
    ASSUME Sound, NEW w \in Threads, Suppressed(w) \/ Finished(w)
    PROVE  /\ thread[w].at = "run"
           /\ \E outcomes : /\ EndRun(w, outcomes)
                            /\ \A a \in outcomes :
                                 /\ a.request \in Requests /\ a.charge \in Charges
                                 /\ \E r \in thread[w].request : a.request \in Covered[r]
                            /\ \A a, b \in outcomes : a = b
<1>1. CASE Suppressed(w)
  BY <1>1 DEF Suppressed
<1>2. CASE Finished(w)
  <2>1. PICK r \in thread[w].request : \E out \in Results(r) : EndRun(w, {out})
    BY <1>2 DEF Finished
  <2>2. PICK out \in Results(r) : EndRun(w, {out})
    BY <2>1
  <2>3. r \in Requests
    BY DEF Sound, Typed, Frames
  <2>4. out.request \in Requests /\ out.charge \in Charges /\ out.request \in Covered[r]
    BY <2>3, ResultsAre
  <2> QED
    BY <2>1, <2>2, <2>4, <1>2 DEF Finished
<1> QED
  BY <1>1, <1>2

LEMMA NextKeepsSound ==
    ASSUME SourcePoolAssumption, Sound, [Next]_vars
    PROVE  Sound'
<1>1. ASSUME NEW s \in Sessions, NEW o \in Openings, SessionCall(s, o)
      PROVE  Sound'
  BY <1>1, OpenSessionKeeps, SetAuthorityKeeps, CloseSessionKeeps, TakeReadyKeeps,
     RequestReplacedKeeps, RequestAcceptedKeeps DEF SessionCall
<1>2. ASSUME NEW c \in Callers,
             \/ NotifyOne(c) \/ WaitIdle(c) \/ WaitDisturbed(c)
             \/ StopBegin(c) \/ StopNotify(c) \/ StopJoined(c)
      PROVE  Sound'
  BY <1>2, CallerStepKeeps, StopBeginKeeps, StopJoinedKeeps
<1>3. ASSUME NEW w \in Threads, ThreadStep(w) \/ SpuriousWake(w)
      PROVE  Sound'
  <2>1. ASSUME Suppressed(w) \/ Finished(w)
        PROVE  Sound'
    BY <2>1, RunEndIs, EndRunKeeps
  <2> QED
    BY <1>3, <2>1, ThreadMoveKeeps, SkipAllKeeps, StartRunKeeps DEF ThreadStep
<1>4. CASE UNCHANGED vars
  <2>1. ThreadsStay
    BY <1>4 DEF Sound, Typed, ThreadsStay, vars
  <2> QED
    BY <2>1, <1>4, QuietKeeps DEF vars, pool, Sound, Typed, StopCloses
<1> QED
  BY <1>1, <1>2, <1>3, <1>4 DEF Next

(* What the theorems below rest on holds in every reachable state: what    *)
(* the queue, the threads and the session objects say of each other.       *)
THEOREM SoundAlways == ASSUME SourcePoolAssumption PROVE Spec => []Sound
<1>1. Init => Sound
  BY SoundAtFirst
<1>2. Sound /\ [Next]_vars => Sound'
  BY NextKeepsSound
<1> QED
  BY <1>1, <1>2, PTL DEF Spec
------------------------------------------------------------------------------
LEMMA NoneOrOne ==
    ASSUME NEW S, AtMostOne(S)
    PROVE  Cardinality(S) = IF S = {} THEN 0 ELSE 1
<1>1. CASE S = {}
  BY <1>1, FS_EmptySet
<1>2. CASE S # {}
  <2>1. PICK a \in S : TRUE
    BY <1>2
  <2>2. S = {a}
    BY <2>1 DEF AtMostOne
  <2> QED
    BY <2>2, FS_Singleton
<1> QED
  BY <1>1, <1>2

LEMMA SoundIsWellFormed ==
    ASSUME SourcePoolAssumption, Sound
    PROVE  PoolTypeOK
<1> USE DEF Sound
<1>1. /\ object \in [Openings -> [session : Sessions \cup {None}, authority : Tickets,
           active : BOOLEAN, closed : BOOLEAN, queued : BOOLEAN, running : BOOLEAN,
           counted : BOOLEAN, pending : SUBSET Requests, ready : SUBSET Requests,
           charge : Charges \cup {0}]]
      /\ registered \in [Sessions -> Openings \cup {None}]
  BY DEF Typed, ObjectStates
<1>2. \A o \in Openings : \A r \in object[o].pending \cup object[o].ready :
         object[o].active /\ r.ticket = object[o].authority
  BY DEF ObjectsFit, Fit
<1>3. ASSUME NEW o \in Openings
      PROVE  Cardinality({w \in Threads : thread[w].object = o}) = IF object[o].running THEN 1 ELSE 0
  <2> DEFINE S == {w \in Threads : thread[w].object = o}
  <2>1. o # None
    BY DEF SourcePoolAssumption
  <2>2. AtMostOne(S)
    BY <2>1 DEF AtMostOne, RunsOwned
  <2>3. object[o].running <=> S # {}
    BY DEF RunsOwned
  <2> HIDE DEF S
  <2>4. Cardinality(S) = IF S = {} THEN 0 ELSE 1
    BY <2>2, NoneOrOne
  <2> QED
    BY <2>3, <2>4 DEF S
<1> QED
  BY <1>1, <1>2, <1>3 DEF PoolTypeOK

LEMMA SoundIsQueuedOnce ==
    ASSUME SourcePoolAssumption, Sound
    PROVE  QueuedOnce
<1> USE DEF Sound
<1> SUFFICES ASSUME NEW o \in Openings
             PROVE  /\ Cardinality({i \in DOMAIN queue : queue[i].object = o /\ Current(queue[i])})
                         = IF object[o].queued THEN 1 ELSE 0
                    /\ object[o].pending # {} => object[o].queued \/ object[o].running
  BY DEF QueuedOnce, Registered
<1> DEFINE S == {i \in DOMAIN queue : queue[i].object = o /\ Current(queue[i])}
<1>1. DOMAIN queue = 1..Len(queue)
  BY DEF Typed
<1>2. AtMostOne(S)
  BY <1>1 DEF AtMostOne, EntriesMatch, Current
<1>3. S # {} => object[o].queued
  BY DEF Current
<1>4. ASSUME object[o].queued
      PROVE  S # {}
  <2>1. PICK i \in 1..Len(queue) : queue[i].live /\ queue[i].object = o
    BY <1>4 DEF EntriesMatch
  <2>2. ~object[o].closed
    BY <1>4 DEF ObjectsFit, Fit
  <2>3. i \in S
    BY <1>1, <1>4, <2>1, <2>2 DEF Current
  <2> QED
    BY <2>3
<1> HIDE DEF S
<1>5. Cardinality(S) = IF S = {} THEN 0 ELSE 1
  BY <1>2, NoneOrOne
<1>6. object[o].pending # {} => object[o].queued \/ object[o].running
  BY DEF PendingTended
<1> QED
  BY <1>3, <1>4, <1>5, <1>6 DEF S

(* Objects, threads and sessions stay well formed: what a session holds is *)
(* of the ticket in force, and an object runs exactly while one thread has *)
(* it, however often identities are closed and opened again.               *)
THEOREM PoolTypeCorrect ==
    ASSUME SourcePoolAssumption
    PROVE  Spec => []PoolTypeOK
<1>1. Sound => PoolTypeOK
  BY SoundIsWellFormed
<1> QED
  BY <1>1, SoundAlways, PTL

(* A queued session has exactly one entry that will run, and a request is  *)
(* never left behind: its session is queued or runs.                       *)
THEOREM QueuedOnceAlways ==
    ASSUME SourcePoolAssumption
    PROVE  Spec => []QueuedOnce
<1>1. Sound => QueuedOnce
  BY SoundIsQueuedOnce
<1> QED
  BY <1>1, SoundAlways, PTL
------------------------------------------------------------------------------
(* Waiting for the pool to be idle.                                        *)

Asleep == \E c \in Callers : caller[c] = "waitAsleep"

LEMMA WokenAreAwake ==
    ASSUME NEW cs \in [Callers -> CallerPlaces], caller' = CallersWoken(cs)
    PROVE  ~Asleep'
BY CallersWokenIs DEF Asleep

LEMMA BusyIsNotIdle ==
    ASSUME NEW s \in Sessions, registered[s] # None, ~stopping,
           \/ object[registered[s]].running \/ object[registered[s]].queued
           \/ object[registered[s]].pending # {}
    PROVE  ~Idle
BY DEF Idle

LEMMA NextKeepsWaking ==
    ASSUME SourcePoolAssumption, Sound, Sound', NoSleepThroughIdle, [Next]_vars
    PROVE  NoSleepThroughIdle'
<1> USE DEF Sound
<1> SUFFICES ASSUME Idle', Asleep'
             PROVE  \E c \in Callers : caller'[c] = "stopNotify"
  BY DEF NoSleepThroughIdle, Asleep
<1>1. ASSUME NEW s \in Sessions, NEW o \in Openings, NEW t \in Tickets, NEW a \in BOOLEAN,
             OpenSession(s, o, t, a)
      PROVE  Idle /\ caller' = caller
  <2>1. /\ registered' = [registered EXCEPT ![s] = o] /\ registered[s] = None
        /\ Others(o) /\ UNCHANGED <<caller, stopping>> /\ ~stopping /\ Unreferenced(o)
    BY <1>1, OpenSessionDoes DEF OpenSession
  <2>2. ASSUME NEW r \in Sessions, registered[r] # None
        PROVE  registered'[r] = registered[r] /\ object'[registered[r]] = object[registered[r]]
    BY <2>1, <2>2 DEF Typed, Unreferenced, Others
  <2> QED
    BY <2>1, <2>2 DEF Idle
<1>2. ASSUME NEW s \in Sessions, NEW o \in Openings, NEW r \in Requests,
             RequestReplaced(s, o, r) \/ \E c \in Callers : RequestAccepted(c, s, o, r)
      PROVE  FALSE
  <2>1. object'[o].pending = {r} /\ registered' = registered /\ stopping' = stopping /\ Admissible(s, o, r)
    BY <1>2, RequestReplacedDoes, RequestAcceptedDoes
  <2>2. registered[s] = o /\ o # None /\ ~stopping
    BY <2>1 DEF Admissible, Open
  <2> QED
    BY <2>1, <2>2 DEF Idle
<1>3. ASSUME NEW s \in Sessions, NEW o \in Openings, TakeReady(s, o)
      PROVE  Idle /\ caller' = caller
  <2>1. /\ Others(o) /\ object'[o].pending = object[o].pending
        /\ object'[o].queued = object[o].queued /\ object'[o].running = object[o].running
        /\ UNCHANGED <<registered, stopping, caller>>
    BY <1>3, TakeReadyDoes
  <2>2. \A p \in Openings : /\ object'[p].pending = object[p].pending
                            /\ object'[p].queued = object[p].queued
                            /\ object'[p].running = object[p].running
    BY <2>1 DEF Others
  <2> QED
    BY <2>1, <2>2 DEF Idle, Typed
<1>4. ASSUME NEW w \in Threads, NEW n \in DOMAIN queue, StartRun(w, n)
      PROVE  FALSE
  <2>1. LET o == queue[n].object
        IN /\ o \in Openings /\ object'[o].running /\ object[o].active
           /\ registered' = registered /\ ~stopping /\ stopping' = stopping
    BY <1>4, StartRunDoes DEF Runnable
  <2>2. registered[object[queue[n].object].session] = queue[n].object
        /\ object[queue[n].object].session \in Sessions /\ queue[n].object # None
    BY <2>1 DEF OwnersKnown, SourcePoolAssumption
  <2> QED
    BY <2>1, <2>2 DEF Idle
<1>5. ASSUME caller' = CallersWoken(caller)
      PROVE  FALSE
  BY <1>5, WokenAreAwake DEF Typed
<1>6. ASSUME NEW c \in Callers, StopNotify(c) \/ StopJoined(c)
      PROVE  FALSE
  <2>1. PICK place \in {"join", "idle"} : caller' = CallersWoken([caller EXCEPT ![c] = place])
    BY <1>6 DEF StopNotify, StopJoined
  <2>2. [caller EXCEPT ![c] = place] \in [Callers -> CallerPlaces]
    BY DEF Typed, CallerPlaces
  <2> QED
    BY <2>1, <2>2, WokenAreAwake
<1>7. ASSUME NEW c \in Callers, NotifyOne(c) \/ WaitIdle(c) \/ WaitDisturbed(c)
      PROVE  \E d \in Callers : caller'[d] = "stopNotify"
  <2>1. /\ Idle
        /\ \A d \in Callers : d # c => caller'[d] = caller[d]
        /\ caller[c] # "stopNotify"
        /\ caller'[c] # "waitAsleep"
    <3>1. Idle
      BY <1>7 DEF NotifyOne, WaitIdle, WaitDisturbed, pool, Idle
    <3> QED
      BY <3>1, <1>7 DEF NotifyOne, WaitIdle, WaitDisturbed, Goto, Typed
  <2>2. Asleep
    BY <2>1 DEF Asleep
  <2> QED
    BY <2>1, <2>2 DEF NoSleepThroughIdle, Asleep
<1>8. ASSUME Idle, caller' = caller
      PROVE  \E d \in Callers : caller'[d] = "stopNotify"
  BY <1>8 DEF NoSleepThroughIdle, Asleep
<1>9. ASSUME NEW s \in Sessions, NEW o \in Openings, SessionCall(s, o)
      PROVE  \E d \in Callers : caller'[d] = "stopNotify"
  <2>1. ASSUME NEW t \in Tickets, NEW a \in BOOLEAN, SetAuthority(s, o, t, a)
        PROVE  caller' = CallersWoken(caller)
    BY <2>1 DEF SetAuthority
  <2>2. CloseSession(s, o) => caller' = CallersWoken(caller)
    BY DEF CloseSession
  <2> QED
    BY <1>9, <2>1, <2>2, <1>1, <1>2, <1>3, <1>5, <1>8 DEF SessionCall
<1>10. ASSUME NEW c \in Callers, StopBegin(c)
       PROVE  \E d \in Callers : caller'[d] = "stopNotify"
  BY <1>10, StopBeginDoes DEF Typed
<1>11. ASSUME NEW w \in Threads, ThreadStep(w) \/ SpuriousWake(w)
       PROVE  \E d \in Callers : caller'[d] = "stopNotify"
  <2>1. CASE Sleep(w) \/ SpuriousWake(w)
    <3>1. Idle /\ caller' = caller
      BY <2>1 DEF Sleep, SpuriousWake, pool, Idle
    <3> QED
      BY <3>1, <1>8
  <2>2. CASE Exit(w) \/ SkipAll(w) \/ Suppressed(w) \/ Finished(w)
    <3>1. caller' = CallersWoken(caller)
      BY <2>2 DEF Exit, SkipAll, Suppressed, Finished, EndRun
    <3> QED
      BY <3>1, <1>5
  <2> QED
    BY <1>11, <2>1, <2>2, <1>4 DEF ThreadStep
<1>12. CASE UNCHANGED vars
  <2>1. Idle /\ caller' = caller
    BY <1>12 DEF vars, pool, Idle
  <2> QED
    BY <2>1, <1>8
<1> QED
  BY <1>6, <1>7, <1>9, <1>10, <1>11, <1>12 DEF Next

(* A caller that waits for the pool to be idle is never asleep when there  *)
(* is nothing left to wait for, but for the moment before stop notifies:   *)
(* every operation that may make the pool idle wakes it.                   *)
THEOREM NobodySleepsThroughIdle ==
    ASSUME SourcePoolAssumption
    PROVE  Spec => []NoSleepThroughIdle
<1>1. Init => NoSleepThroughIdle
  BY DEF Init, NoSleepThroughIdle
<1>2. Sound /\ Sound' /\ NoSleepThroughIdle /\ [Next]_vars => NoSleepThroughIdle'
  BY NextKeepsWaking
<1> QED
  BY <1>1, <1>2, SoundAlways, PTL DEF Spec

(* Neither a request nor a waiting caller is left behind by the pool.      *)
THEOREM NothingForgottenAlways ==
    ASSUME SourcePoolAssumption
    PROVE  Spec => []NothingForgotten
<1>1. QueuedOnce /\ NoSleepThroughIdle => NothingForgotten
  BY DEF NothingForgotten
<1> QED
  BY <1>1, QueuedOnceAlways, NobodySleepsThroughIdle, PTL
------------------------------------------------------------------------------
(* The pool keeps the promise, page by page.                               *)

InHand(o) == UNION {thread[w].request : w \in {v \in Threads : thread[v].object = o}}

OwedAll == [s \in Sessions |-> IF s \in Shown THEN Owed(s) ELSE {}]
AnswerAll == [s \in Sessions |-> IF s \in Shown THEN object[registered[s]].ready ELSE {}]

SamePage(u) == /\ (u \in Shown)' <=> u \in Shown
               /\ InForce'[u] = InForce[u]
               /\ OwedAll'[u] = OwedAll[u]
               /\ AnswerAll'[u] = AnswerAll[u]

LEMMA PageIs ==
    ASSUME NEW u \in Sessions
    PROVE  /\ u \in Shown <=> Here(u) /\ object[registered[u]].active
           /\ InForce[u] = IF Here(u) THEN object[registered[u]].authority ELSE 0
           /\ OwedAll[u] = IF u \in Shown
                           THEN object[registered[u]].pending \cup
                                {r \in InHand(registered[u]) : r.ticket = object[registered[u]].authority}
                           ELSE {}
           /\ AnswerAll[u] = IF u \in Shown THEN object[registered[u]].ready ELSE {}
BY DEF Shown, InForce, OwedAll, AnswerAll, Owed, InHand

LEMMA PageWillBe ==
    ASSUME NEW u \in Sessions
    PROVE  /\ (u \in Shown)' <=> Here(u)' /\ object'[registered'[u]].active
           /\ InForce'[u] = IF Here(u)' THEN object'[registered'[u]].authority ELSE 0
           /\ OwedAll'[u] = IF (u \in Shown)'
                            THEN object'[registered'[u]].pending \cup
                                 {r \in InHand(registered[u])' : r.ticket = object'[registered'[u]].authority}
                            ELSE {}
           /\ AnswerAll'[u] = IF (u \in Shown)' THEN object'[registered'[u]].ready ELSE {}
BY DEF Shown, InForce, OwedAll, AnswerAll, Owed, InHand

LEMMA InHandIs ==
    ASSUME NEW o
    PROVE  \A r : r \in InHand(o) <=> \E w \in Threads : thread[w].object = o /\ r \in thread[w].request
BY DEF InHand

LEMMA InHandWillBe ==
    ASSUME NEW o
    PROVE  \A r : r \in InHand(o)' <=> \E w \in Threads : thread'[w].object = o' /\ r \in thread'[w].request
BY DEF InHand

(* A page whose session stays, and whose object keeps what matters to it.  *)
LEMMA PageStays ==
    ASSUME NEW u \in Sessions, registered'[u] = registered[u],
           registered[u] # None =>
             LET x == object[registered[u]]
                 y == object'[registered[u]]
             IN /\ y.closed = x.closed /\ y.active = x.active /\ y.authority = x.authority
                /\ y.ready = x.ready
                /\ ~x.closed /\ x.active =>
                     y.pending \cup {r \in InHand(registered[u])' : r.ticket = y.authority}
                       = x.pending \cup {r \in InHand(registered[u]) : r.ticket = x.authority}
    PROVE  SamePage(u)
<1>1. Here(u)' <=> Here(u)
  BY DEF Here
<1>2. Here(u) => registered[u] # None /\ ~object[registered[u]].closed
  BY DEF Here
<1>3. CASE ~Here(u)
  BY <1>1, <1>3, PageIs, PageWillBe DEF SamePage
<1>4. CASE Here(u) /\ ~object[registered[u]].active
  BY <1>1, <1>2, <1>4, PageIs, PageWillBe DEF SamePage
<1>5. CASE Here(u) /\ object[registered[u]].active
  <2> DEFINE x == object[registered[u]]
             y == object'[registered[u]]
             now == x.pending \cup {r \in InHand(registered[u]) : r.ticket = x.authority}
             then == y.pending \cup {r \in InHand(registered[u])' : r.ticket = y.authority}
  <2>1. u \in Shown /\ InForce[u] = x.authority /\ OwedAll[u] = now /\ AnswerAll[u] = x.ready
    BY <1>5, PageIs
  <2>2. y.active = x.active /\ y.authority = x.authority /\ y.ready = x.ready /\ then = now
    BY <1>2, <1>5
  <2>3. (u \in Shown)'
    BY <1>1, <1>5, <2>2, PageWillBe
  <2>4. InForce'[u] = y.authority /\ OwedAll'[u] = then /\ AnswerAll'[u] = y.ready
    BY <1>1, <1>5, <2>3, PageWillBe
  <2> HIDE DEF x, y, now, then
  <2> QED
    BY <2>1, <2>2, <2>3, <2>4 DEF SamePage
<1> QED
  BY <1>3, <1>4, <1>5

LEMMA PagesAre ==
    ASSUME SourcePoolAssumption, Sound
    PROVE  /\ Shown \subseteq Sessions
           /\ InForce \in [Sessions -> Tickets]
           /\ OwedAll = [u \in Sessions |-> OwedAll[u]]
           /\ AnswerAll = [u \in Sessions |-> AnswerAll[u]]
           /\ InForce = [u \in Sessions |-> InForce[u]]
<1>1. 0 \in Tickets
  BY DEF SourcePoolAssumption, Tickets
<1>2. \A u \in Sessions : Here(u) => object[registered[u]].authority \in Tickets
  BY DEF Sound, Typed, Here, ObjectStates
<1> QED
  BY <1>1, <1>2 DEF Shown, InForce, OwedAll, AnswerAll

LEMMA PagesWillBe ==
    ASSUME SourcePoolAssumption, Sound'
    PROVE  /\ Shown' \subseteq Sessions
           /\ InForce' \in [Sessions -> Tickets]
           /\ OwedAll' = [u \in Sessions |-> OwedAll'[u]]
           /\ AnswerAll' = [u \in Sessions |-> AnswerAll'[u]]
           /\ InForce' = [u \in Sessions |-> InForce'[u]]
<1>1. 0 \in Tickets
  BY DEF SourcePoolAssumption, Tickets
<1>2. \A u \in Sessions : Here(u)' => object'[registered'[u]].authority \in Tickets
  BY DEF Sound, Typed, Here, ObjectStates
<1> QED
  BY <1>1, <1>2 DEF Shown, InForce, OwedAll, AnswerAll

pages == <<Shown, InForce, OwedAll, AnswerAll>>

LEMMA NothingByPages ==
    ASSUME SourcePoolAssumption, Sound, Sound', \A u \in Sessions : SamePage(u)
    PROVE  UNCHANGED pages
<1>1. Shown' = Shown
  BY PagesAre, PagesWillBe DEF SamePage
<1>2. InForce' = InForce /\ OwedAll' = OwedAll /\ AnswerAll' = AnswerAll
  BY PagesAre, PagesWillBe DEF SamePage
<1> QED
  BY <1>1, <1>2 DEF pages

LEMMA AuthorizeByPages ==
    ASSUME SourcePoolAssumption, Sound, Sound', NEW s \in Sessions, NEW t \in Tickets,
           NEW show \in BOOLEAN,
           \A u \in Sessions : u # s => SamePage(u),
           (s \in Shown)' <=> show,
           InForce'[s] = t,
           OwedAll'[s] = IF show /\ s \in Shown THEN {r \in OwedAll[s] : r.ticket = t} ELSE {},
           AnswerAll'[s] = IF show /\ s \in Shown THEN {r \in AnswerAll[s] : r.ticket = t} ELSE {}
    PROVE  Promise!Authorize(s, t, show)
<1> DEFINE kept(S) == IF show /\ s \in Shown THEN {r \in S : r.ticket = t} ELSE {}
<1>1. Shown' = IF show THEN Shown \cup {s} ELSE Shown \ {s}
  BY PagesAre, PagesWillBe DEF SamePage
<1>2. InForce' = [InForce EXCEPT ![s] = t]
  BY PagesAre, PagesWillBe DEF SamePage
<1>3. OwedAll' = [OwedAll EXCEPT ![s] = kept(OwedAll[s])]
  <2> DEFINE v == kept(OwedAll[s])
  <2>1. OwedAll'[s] = v
    OBVIOUS
  <2> HIDE DEF v, kept
  <2>2. OwedAll' = [OwedAll EXCEPT ![s] = v]
    BY <2>1, PagesAre, PagesWillBe DEF SamePage
  <2> QED
    BY <2>2 DEF v
<1>4. AnswerAll' = [AnswerAll EXCEPT ![s] = kept(AnswerAll[s])]
  <2> DEFINE v == kept(AnswerAll[s])
  <2>1. AnswerAll'[s] = v
    OBVIOUS
  <2> HIDE DEF v, kept
  <2>2. AnswerAll' = [AnswerAll EXCEPT ![s] = v]
    BY <2>1, PagesAre, PagesWillBe DEF SamePage
  <2> QED
    BY <2>2 DEF v
<1> QED
  BY <1>1, <1>2, <1>3, <1>4 DEF Promise!Authorize, OwedAll, AnswerAll

LEMMA AskByPages ==
    ASSUME SourcePoolAssumption, Sound, Sound', NEW s \in Sessions, NEW r \in Requests,
           NEW replaced \in SUBSET OwedAll[s],
           \A u \in Sessions : u # s => SamePage(u),
           s \in Shown, (s \in Shown)', r.ticket = InForce[s], InForce'[s] = InForce[s],
           OwedAll'[s] = (OwedAll[s] \ replaced) \cup {r},
           AnswerAll'[s] = AnswerAll[s]
    PROVE  Promise!Ask(s, r)
<1>1. Shown' = Shown
  BY PagesAre, PagesWillBe DEF SamePage
<1>2. InForce' = InForce /\ AnswerAll' = AnswerAll
  BY PagesAre, PagesWillBe DEF SamePage
<1>3. OwedAll' = [OwedAll EXCEPT ![s] = (OwedAll[s] \ replaced) \cup {r}]
  BY PagesAre, PagesWillBe DEF SamePage
<1> QED
  BY <1>1, <1>2, <1>3 DEF Promise!Ask, OwedAll, AnswerAll

LEMMA CollectByPages ==
    ASSUME SourcePoolAssumption, Sound, Sound', NEW s \in Sessions,
           \A u \in Sessions : u # s => SamePage(u),
           (s \in Shown)' <=> s \in Shown, InForce'[s] = InForce[s], OwedAll'[s] = OwedAll[s],
           AnswerAll'[s] = {}
    PROVE  Promise!Collect(s)
<1>1. Shown' = Shown
  BY PagesAre, PagesWillBe DEF SamePage
<1>2. InForce' = InForce /\ OwedAll' = OwedAll
  BY PagesAre, PagesWillBe DEF SamePage
<1>3. AnswerAll' = [AnswerAll EXCEPT ![s] = {}]
  BY PagesAre, PagesWillBe DEF SamePage
<1> QED
  BY <1>1, <1>2, <1>3 DEF Promise!Collect, OwedAll, AnswerAll

LEMMA AnswerByPages ==
    ASSUME SourcePoolAssumption, Sound, Sound', NEW s \in Sessions, NEW r \in Requests,
           NEW a \in Covered[r],
           \A u \in Sessions : u # s => SamePage(u),
           s \in Shown, (s \in Shown)', r.ticket = InForce[s], InForce'[s] = InForce[s],
           r \in OwedAll[s],
           OwedAll'[s] = OwedAll[s] \/ OwedAll'[s] = OwedAll[s] \ {r},
           AnswerAll'[s] = {a}
    PROVE  Promise!Answer(s, r)
<1>1. Shown' = Shown
  BY SMTT(60), PagesAre, PagesWillBe DEF SamePage
<1>2. InForce' = InForce
  BY PagesAre, PagesWillBe DEF SamePage
<1>3. AnswerAll' = [AnswerAll EXCEPT ![s] = {a}]
  BY PagesAre, PagesWillBe DEF SamePage
<1>4. OwedAll' \in {OwedAll, [OwedAll EXCEPT ![s] = OwedAll[s] \ {r}]}
  BY PagesAre, PagesWillBe DEF SamePage
<1> QED
  BY <1>1, <1>2, <1>3, <1>4 DEF Promise!Answer, OwedAll, AnswerAll

LEMMA GiveUpByPages ==
    ASSUME SourcePoolAssumption, Sound, Sound', NEW s \in Sessions, NEW r \in Requests,
           \A u \in Sessions : u # s => SamePage(u),
           (s \in Shown)' <=> s \in Shown, InForce'[s] = InForce[s],
           OwedAll'[s] = OwedAll[s] \ {r},
           AnswerAll'[s] = AnswerAll[s]
    PROVE  Promise!GiveUp(s, r)
<1>1. Shown' = Shown
  BY PagesAre, PagesWillBe DEF SamePage
<1>2. InForce' = InForce /\ AnswerAll' = AnswerAll
  BY PagesAre, PagesWillBe DEF SamePage
<1>3. OwedAll' = [OwedAll EXCEPT ![s] = OwedAll[s] \ {r}]
  BY PagesAre, PagesWillBe DEF SamePage
<1> QED
  BY <1>1, <1>2, <1>3 DEF Promise!GiveUp, OwedAll, AnswerAll

LEMMA InHandStays ==
    ASSUME ThreadsStay
    PROVE  \A o \in Openings : InHand(o)' = InHand(o)
<1> SUFFICES ASSUME NEW o \in Openings
             PROVE  InHand(o)' = InHand(o)
  OBVIOUS
<1>1. {w \in Threads : thread'[w].object = o} = {w \in Threads : thread[w].object = o}
  BY DEF ThreadsStay
<1>2. {thread'[w].request : w \in {v \in Threads : thread'[v].object = o}}
        = {thread[w].request : w \in {v \in Threads : thread[v].object = o}}
  BY <1>1 DEF ThreadsStay
<1> QED
  BY <1>2 DEF InHand

LEMMA OtherPagesStay ==
    ASSUME Sound, NEW s \in Sessions, NEW o \in Openings, Others(o),
           \A u \in Sessions : u # s => registered'[u] = registered[u] /\ registered[u] # o,
           \A p \in Openings : p # o => InHand(p)' = InHand(p)
    PROVE  \A u \in Sessions : u # s => SamePage(u)
<1> SUFFICES ASSUME NEW u \in Sessions, u # s
             PROVE  SamePage(u)
  OBVIOUS
<1>1. registered'[u] = registered[u]
  OBVIOUS
<1>2. CASE registered[u] = None
  BY <1>1, <1>2, PageStays
<1>3. CASE registered[u] # None
  <2>1. PICK p \in Openings : registered[u] = p /\ p # o
    BY <1>3 DEF Sound, Typed
  <2>2. object'[p] = object[p] /\ InHand(p)' = InHand(p)
    BY <2>1 DEF Others
  <2>3. InHand(registered[u])' = InHand(registered[u])
    BY <2>1, <2>2, <1>1
  <2> QED
    BY <1>1, <2>1, <2>2, <2>3, PageStays
<1> QED
  BY <1>2, <1>3

(* An object belongs to one session.                                       *)
LEMMA OneOwner ==
    ASSUME SourcePoolAssumption, Sound, NEW s \in Sessions, NEW o \in Openings, registered[s] = o
    PROVE  /\ o # None /\ object[o].session = s
           /\ \A u \in Sessions : u # s => registered[u] # o
BY DEF Sound, OwnersKnown, SourcePoolAssumption

(* A session's page, before and after a step.                              *)
LEMMA ThisPageIs ==
    ASSUME SourcePoolAssumption, NEW s \in Sessions, NEW o \in Openings, registered[s] = o
    PROVE  LET x == object[o]
           IN /\ Here(s) <=> ~x.closed
              /\ s \in Shown <=> ~x.closed /\ x.active
              /\ InForce[s] = IF x.closed THEN 0 ELSE x.authority
              /\ OwedAll[s] = IF s \in Shown
                              THEN x.pending \cup {r \in InHand(o) : r.ticket = x.authority}
                              ELSE {}
              /\ AnswerAll[s] = IF s \in Shown THEN x.ready ELSE {}
<1>1. Here(s) <=> ~object[o].closed
  BY DEF Here, SourcePoolAssumption
<1> QED
  BY <1>1, PageIs

LEMMA ThisPageWillBe ==
    ASSUME SourcePoolAssumption, NEW s \in Sessions, NEW o \in Openings, registered'[s] = o
    PROVE  LET x == object'[o]
           IN /\ Here(s)' <=> ~x.closed
              /\ (s \in Shown)' <=> ~x.closed /\ x.active
              /\ InForce'[s] = IF x.closed THEN 0 ELSE x.authority
              /\ OwedAll'[s] = IF (s \in Shown)'
                               THEN x.pending \cup {r \in InHand(o)' : r.ticket = x.authority}
                               ELSE {}
              /\ AnswerAll'[s] = IF (s \in Shown)' THEN x.ready ELSE {}
<1>1. Here(s)' <=> ~object'[o].closed
  BY DEF Here, SourcePoolAssumption
<1>2. InHand(registered[s])' = InHand(o)'
  OBVIOUS
<1> QED
  BY <1>1, <1>2, PageWillBe

LEMMA NoPageIs ==
    ASSUME NEW s \in Sessions
    PROVE  /\ registered[s] = None => /\ s \notin Shown /\ InForce[s] = 0
                                      /\ OwedAll[s] = {} /\ AnswerAll[s] = {}
           /\ registered'[s] = None => /\ ~(s \in Shown)' /\ InForce'[s] = 0
                                       /\ OwedAll'[s] = {} /\ AnswerAll'[s] = {}
BY PageIs, PageWillBe DEF Here

LEMMA OpenSessionPromises ==
    ASSUME SourcePoolAssumption, Sound, Sound', NEW s \in Sessions, NEW o \in Openings,
           NEW t \in Tickets, NEW active \in BOOLEAN, OpenSession(s, o, t, active)
    PROVE  Promise!Authorize(s, t, active)
<1> DEFINE x == NewObject(s, t, active)
<1>1. /\ Others(o) /\ object'[o] = x
      /\ registered' = [registered EXCEPT ![s] = o] /\ registered[s] = None
      /\ UNCHANGED thread
  BY OpenSessionDoes DEF Sound
<1>2. x.authority = t /\ x.active = active /\ ~x.closed /\ x.pending = {} /\ x.ready = {}
  BY NewObjectIs
<1> HIDE DEF x
<1>3. Unreferenced(o)
  BY DEF OpenSession
<1>4. \A u \in Sessions : registered'[u] = IF u = s THEN o ELSE registered[u]
  BY <1>1 DEF Sound, Typed
<1>5. \A p \in Openings : InHand(p)' = InHand(p)
  BY <1>1, InHandStays DEF ThreadsStay, Sound, Typed
<1>6. \A u \in Sessions : u # s => SamePage(u)
  BY <1>1, <1>3, <1>4, <1>5, OtherPagesStay DEF Unreferenced
<1>7. s \notin Shown
  BY <1>1, NoPageIs
<1>8. InHand(o) = {}
  BY <1>3, InHandIs DEF Unreferenced
<1>9. /\ (s \in Shown)' <=> active
      /\ InForce'[s] = t /\ OwedAll'[s] = {} /\ AnswerAll'[s] = {}
  BY <1>1, <1>2, <1>4, <1>5, <1>8, ThisPageWillBe
<1> QED
  BY <1>6, <1>7, <1>9, AuthorizeByPages

LEMMA CloseSessionPromises ==
    ASSUME SourcePoolAssumption, Sound, Sound', NEW s \in Sessions, NEW o \in Openings,
           CloseSession(s, o)
    PROVE  Promise!Authorize(s, 0, FALSE)
<1>1. /\ Others(o) /\ registered' = [registered EXCEPT ![s] = None] /\ registered[s] = o
      /\ thread' = ThreadsWoken(thread)
  BY CloseSessionDoes DEF Sound
<1>2. \A u \in Sessions : registered'[u] = IF u = s THEN None ELSE registered[u]
  BY <1>1 DEF Sound, Typed
<1>3. \A p \in Openings : InHand(p)' = InHand(p)
  BY <1>1, WakingStays, InHandStays DEF Sound
<1>4. \A u \in Sessions : u # s => SamePage(u)
  BY <1>1, <1>2, <1>3, OneOwner, OtherPagesStay
<1>5. ~(s \in Shown)' /\ InForce'[s] = 0 /\ OwedAll'[s] = {} /\ AnswerAll'[s] = {}
  BY <1>2, NoPageIs
<1>6. 0 \in Tickets
  BY DEF SourcePoolAssumption, Tickets
<1> QED
  BY <1>4, <1>5, <1>6, AuthorizeByPages

LEMMA SetAuthorityPromises ==
    ASSUME SourcePoolAssumption, Sound, Sound', NEW s \in Sessions, NEW o \in Openings,
           NEW t \in Tickets, NEW active \in BOOLEAN, SetAuthority(s, o, t, active)
    PROVE  Promise!Authorize(s, t, active)
<1> DEFINE x == object[o]
           y == object'[o]
           H == InHand(o)
<1>1. /\ Others(o)
      /\ y.authority = t /\ y.active = active
      /\ ~x.closed /\ ~y.closed
      /\ y.pending = {r \in x.pending : active /\ r.ticket = t}
      /\ y.ready = {r \in x.ready : active /\ r.ticket = t}
      /\ registered[s] = o /\ UNCHANGED registered
      /\ thread' = ThreadsWoken(thread)
      /\ FreshTicket(x, t, active)
  BY SetAuthorityDoes DEF Sound
<1>2. \A p \in Openings : InHand(p)' = InHand(p)
  BY <1>1, WakingStays, InHandStays DEF Sound
<1>3. \A u \in Sessions : u # s => SamePage(u)
  BY <1>1, <1>2, OneOwner, OtherPagesStay
<1>4. Fit(x)
  BY DEF Sound, ObjectsFit
<1>5. \A r \in H : r.ticket <= x.authority /\ r.ticket \notin Still /\ r.ticket \in Nat
  <2> SUFFICES ASSUME NEW r \in H
               PROVE  r.ticket <= x.authority /\ r.ticket \notin Still /\ r.ticket \in Nat
    OBVIOUS
  <2>1. PICK w \in Threads : thread[w].object = o /\ r \in thread[w].request
    BY InHandIs
  <2>2. r \in Requests
    BY <2>1 DEF Sound, Typed, Frames
  <2> QED
    BY <2>1, <2>2 DEF Sound, RunsOwned, Requests, Tickets, SourcePoolAssumption
<1>6. /\ s \in Shown <=> x.active
      /\ OwedAll[s] = IF s \in Shown THEN x.pending \cup {r \in H : r.ticket = x.authority} ELSE {}
      /\ AnswerAll[s] = IF s \in Shown THEN x.ready ELSE {}
  BY <1>1, ThisPageIs
<1>7. /\ (s \in Shown)' <=> active
      /\ InForce'[s] = t
      /\ OwedAll'[s] = IF active THEN y.pending \cup {r \in H : r.ticket = t} ELSE {}
      /\ AnswerAll'[s] = IF active THEN y.ready ELSE {}
  <2>1. registered'[s] = o /\ InHand(o)' = H
    BY <1>1, <1>2
  <2>2. /\ (s \in Shown)' <=> ~y.closed /\ y.active
        /\ InForce'[s] = IF y.closed THEN 0 ELSE y.authority
        /\ OwedAll'[s] = IF (s \in Shown)'
                         THEN y.pending \cup {r \in InHand(o)' : r.ticket = y.authority} ELSE {}
        /\ AnswerAll'[s] = IF (s \in Shown)' THEN y.ready ELSE {}
    BY <2>1, ThisPageWillBe
  <2> HIDE DEF x, y, H
  <2> QED
    BY <2>1, <2>2, <1>1
<1>8. x.authority \in Nat /\ t \in Nat /\ t >= x.authority
  BY <1>1 DEF Sound, Typed, ObjectStates, Tickets, SourcePoolAssumption, FreshTicket
<1>9. active /\ ~x.active => t > x.authority \/ t \in Still
  BY <1>1 DEF FreshTicket
<1> HIDE DEF x, y, H
<1>10. ~x.active => x.pending = {} /\ x.ready = {}
  BY <1>4 DEF Fit
<1>11. \A r \in H : r.ticket = t => r.ticket = x.authority
  BY <1>5, <1>8
<1>12. active /\ ~x.active => {r \in H : r.ticket = t} = {}
  BY <1>5, <1>8, <1>9
<1>13. OwedAll'[s] = IF active /\ s \in Shown THEN {r \in OwedAll[s] : r.ticket = t} ELSE {}
  <2>1. CASE ~active
    BY <2>1, <1>7
  <2>2. CASE active /\ ~x.active
    BY <2>2, <1>1, <1>6, <1>7, <1>10, <1>12
  <2>3. CASE active /\ x.active
    <3>1. {r \in H : r.ticket = t} = {r \in {r \in H : r.ticket = x.authority} : r.ticket = t}
      BY <1>11
    <3> QED
      BY <2>3, <3>1, <1>1, <1>6, <1>7
  <2> QED
    BY <2>1, <2>2, <2>3
<1>14. AnswerAll'[s] = IF active /\ s \in Shown THEN {r \in AnswerAll[s] : r.ticket = t} ELSE {}
  BY <1>1, <1>6, <1>7, <1>10
<1> QED
  BY <1>3, <1>7, <1>13, <1>14, AuthorizeByPages

LEMMA RequestPromises ==
    ASSUME SourcePoolAssumption, Sound, Sound', NEW s \in Sessions, NEW o \in Openings,
           NEW r \in Requests,
           RequestReplaced(s, o, r) \/ \E c \in Callers : RequestAccepted(c, s, o, r)
    PROVE  Promise!Ask(s, r)
<1> DEFINE x == object[o]
           y == object'[o]
           H == InHand(o)
<1>1. /\ Others(o) /\ Admissible(s, o, r) /\ UNCHANGED registered
      /\ y.authority = x.authority /\ y.active = x.active /\ y.closed = x.closed
      /\ y.pending = {r} /\ y.ready = x.ready
  BY RequestReplacedDoes, RequestAcceptedDoes DEF Sound
<1>2. registered[s] = o /\ ~x.closed /\ x.active /\ r.ticket = x.authority
  BY <1>1 DEF Admissible, Open
<1>3. ThreadsStay
  <2>1. CASE RequestReplaced(s, o, r)
    BY <2>1, RequestReplacedDoes DEF Sound, ThreadsStay, Typed
  <2>2. ASSUME NEW c \in Callers, RequestAccepted(c, s, o, r)
        PROVE  ThreadsStay
    <3>1. /\ thread' \in [Threads -> Frames]
          /\ \A w \in Threads : \/ thread'[w] = thread[w]
                                \/ thread[w].at = "unborn" /\ thread'[w] = AtPlace("awake")
      BY <2>2, RequestAcceptedDoes DEF Sound
    <3>2. AtPlace("awake").object = None /\ AtPlace("awake").request = {} /\ AtPlace("awake").at = "awake"
      BY DEF AtPlace
    <3>3. \A w \in Threads : thread[w].at = "unborn" => thread[w].object = None /\ thread[w].request = {}
      BY DEF Sound, RunsOwned
    <3> QED
      BY <3>1, <3>2, <3>3 DEF ThreadsStay
  <2> QED
    BY <2>1, <2>2
<1>4. \A p \in Openings : InHand(p)' = InHand(p)
  BY <1>3, InHandStays
<1>5. \A u \in Sessions : u # s => SamePage(u)
  BY <1>1, <1>2, <1>4, OneOwner, OtherPagesStay
<1>6. /\ s \in Shown /\ InForce[s] = x.authority
      /\ OwedAll[s] = x.pending \cup {q \in H : q.ticket = x.authority}
      /\ AnswerAll[s] = x.ready
  BY <1>2, ThisPageIs
<1>7. /\ (s \in Shown)' /\ InForce'[s] = x.authority
      /\ OwedAll'[s] = {r} \cup {q \in H : q.ticket = x.authority}
      /\ AnswerAll'[s] = x.ready
  <2>1. registered'[s] = o /\ InHand(o)' = H
    BY <1>1, <1>2, <1>4
  <2>2. /\ (s \in Shown)' <=> ~y.closed /\ y.active
        /\ InForce'[s] = IF y.closed THEN 0 ELSE y.authority
        /\ OwedAll'[s] = IF (s \in Shown)'
                         THEN y.pending \cup {q \in InHand(o)' : q.ticket = y.authority} ELSE {}
        /\ AnswerAll'[s] = IF (s \in Shown)' THEN y.ready ELSE {}
    BY <2>1, ThisPageWillBe
  <2>3. ~y.closed /\ y.active
    BY <1>1, <1>2
  <2> HIDE DEF x, y, H
  <2> QED
    BY <2>1, <2>2, <2>3, <1>1
<1> DEFINE kept == {q \in H : q.ticket = x.authority}
           replaced == x.pending \ kept
<1>8. replaced \in SUBSET OwedAll[s] /\ OwedAll'[s] = (OwedAll[s] \ replaced) \cup {r}
  <2> HIDE DEF x, H
  <2> QED
    BY <1>6, <1>7
<1> HIDE DEF x, y, H, kept, replaced
<1> QED
  BY <1>2, <1>5, <1>6, <1>7, <1>8, AskByPages

LEMMA TakeReadyPromises ==
    ASSUME SourcePoolAssumption, Sound, Sound', NEW s \in Sessions, NEW o \in Openings,
           TakeReady(s, o)
    PROVE  Promise!Collect(s)
<1> DEFINE x == object[o]
           y == object'[o]
           H == InHand(o)
<1>1. /\ Others(o) /\ UNCHANGED <<registered, thread>> /\ registered[s] = o
      /\ y.authority = x.authority /\ y.active = x.active /\ y.closed = x.closed
      /\ y.pending = x.pending /\ y.ready = {}
  BY TakeReadyDoes DEF Sound
<1>2. \A p \in Openings : InHand(p)' = InHand(p)
  BY <1>1, InHandStays DEF ThreadsStay, Sound, Typed
<1>3. \A u \in Sessions : u # s => SamePage(u)
  BY <1>1, <1>2, OneOwner, OtherPagesStay
<1>4. /\ s \in Shown <=> ~x.closed /\ x.active
      /\ InForce[s] = IF x.closed THEN 0 ELSE x.authority
      /\ OwedAll[s] = IF s \in Shown THEN x.pending \cup {q \in H : q.ticket = x.authority} ELSE {}
  BY <1>1, ThisPageIs
<1>5. registered'[s] = o /\ InHand(o)' = H
  BY <1>1, <1>2
<1>6. /\ (s \in Shown)' <=> ~y.closed /\ y.active
      /\ InForce'[s] = IF y.closed THEN 0 ELSE y.authority
      /\ OwedAll'[s] = IF (s \in Shown)'
                       THEN y.pending \cup {q \in InHand(o)' : q.ticket = y.authority} ELSE {}
      /\ AnswerAll'[s] = IF (s \in Shown)' THEN y.ready ELSE {}
  BY <1>5, ThisPageWillBe
<1> HIDE DEF x, y, H
<1>7. /\ (s \in Shown)' <=> s \in Shown
      /\ InForce'[s] = InForce[s] /\ OwedAll'[s] = OwedAll[s] /\ AnswerAll'[s] = {}
  BY <1>1, <1>4, <1>5, <1>6
<1> QED
  BY <1>3, <1>7, CollectByPages

LEMMA SkipAllPromises ==
    ASSUME SourcePoolAssumption, Sound, Sound', NEW w \in Threads, SkipAll(w)
    PROVE  UNCHANGED pages
<1>1. /\ \A p \in Openings : SameButQueued(p) /\ object'[p].pending = object[p].pending
      /\ UNCHANGED <<registered, thread>>
  BY SkipAllDoes DEF Sound
<1>2. \A p \in Openings : InHand(p)' = InHand(p)
  BY <1>1, InHandStays DEF ThreadsStay, Sound, Typed
<1>3. ASSUME NEW u \in Sessions
      PROVE  SamePage(u)
  <2>1. CASE registered[u] = None
    BY <1>1, <2>1, PageStays
  <2>2. CASE registered[u] # None
    <3>1. PICK p \in Openings : registered[u] = p
      BY <2>2 DEF Sound, Typed
    <3>2. InHand(registered[u])' = InHand(registered[u])
      BY <3>1, <1>1, <1>2
    <3> QED
      BY <3>1, <3>2, <1>1, PageStays DEF SameButQueued
  <2> QED
    BY <2>1, <2>2
<1> QED
  BY <1>3, NothingByPages

(* What was pending is in hand then, and nothing was in hand before.       *)
LEMMA StartRunPromises ==
    ASSUME SourcePoolAssumption, Sound, Sound', NEW w \in Threads, NEW n \in DOMAIN queue,
           StartRun(w, n)
    PROVE  UNCHANGED pages
<1>1. PICK o \in Openings : o = queue[n].object
  BY StartRunDoes DEF Sound
<1> DEFINE f == [at |-> "run", object |-> o, request |-> object[o].pending]
<1>2. /\ \A p \in Openings : /\ SameButQueued(p)
                             /\ object'[p].pending = IF p = o THEN {} ELSE object[p].pending
      /\ thread[w].at = "awake"
      /\ thread' = [thread EXCEPT ![w] = f]
      /\ UNCHANGED registered
      /\ Runnable(queue[n])
  BY <1>1, StartRunDoes DEF Sound
<1>3. f.object = o /\ f.request = object[o].pending
  OBVIOUS
<1>4. ~object[o].running /\ Fit(object[o])
  BY <1>1, <1>2 DEF Runnable, Current, Sound, ObjectsFit, Fit
<1> HIDE DEF f
<1>5. \A v \in Threads : thread'[v] = IF v = w THEN f ELSE thread[v]
  BY <1>2 DEF Sound, Typed
<1>6. \A v \in Threads : thread[v].object # o
  BY <1>4 DEF Sound, RunsOwned
<1>7. thread[w].object = None /\ thread[w].request = {}
  BY <1>2 DEF Sound, RunsOwned
<1>8. \A p \in Openings : p # o => InHand(p)' = InHand(p)
  <2> SUFFICES ASSUME NEW p \in Openings, p # o
               PROVE  InHand(p)' = InHand(p)
    OBVIOUS
  <2>1. p # None
    BY DEF SourcePoolAssumption
  <2>2. \A r : r \in InHand(p)' <=> r \in InHand(p)
    BY <2>1, <1>3, <1>5, <1>7, InHandIs, InHandWillBe
  <2> QED
    BY <2>2
<1>9. InHand(o) = {}
  BY <1>6, InHandIs
<1>10. InHand(o)' = object[o].pending
  <2>1. \A r : r \in InHand(o)' <=> r \in object[o].pending
    BY <1>3, <1>5, <1>6, InHandWillBe
  <2> QED
    BY <2>1
<1>11. ASSUME NEW u \in Sessions
       PROVE  SamePage(u)
  <2>1. CASE registered[u] = None
    BY <1>2, <2>1, PageStays
  <2>2. CASE registered[u] # None
    <3>1. PICK p \in Openings : registered[u] = p
      BY <2>2 DEF Sound, Typed
    <3> DEFINE x == object[p]
               y == object'[p]
    <3>2. /\ y.closed = x.closed /\ y.active = x.active /\ y.authority = x.authority
          /\ y.ready = x.ready
      BY <1>2 DEF SameButQueued
    <3>3. y.pending \cup {r \in InHand(p)' : r.ticket = y.authority}
            = x.pending \cup {r \in InHand(p) : r.ticket = x.authority}
      <4>1. CASE p # o
        BY <4>1, <3>2, <1>2, <1>8
      <4>2. CASE p = o
        <5>1. y.pending = {} /\ InHand(p)' = x.pending /\ InHand(p) = {}
          BY <4>2, <1>2, <1>9, <1>10
        <5>2. \A r \in x.pending : r.ticket = x.authority
          BY <4>2, <1>4 DEF Fit
        <5> HIDE DEF x, y
        <5> QED
          BY <5>1, <5>2, <3>2
      <4> QED
        BY <4>1, <4>2
    <3>4. registered'[u] = registered[u] /\ InHand(registered[u])' = InHand(p)'
      BY <3>1, <1>2
    <3> QED
      BY <3>1, <3>2, <3>3, <3>4, PageStays
  <2> QED
    BY <2>1, <2>2
<1> QED
  BY <1>11, NothingByPages

(* The end of a run answers what was asked, or gives it up; a run that     *)
(* belongs to no page any more changes no page.                            *)
LEMMA EndRunPromises ==
    ASSUME SourcePoolAssumption, Sound, Sound', NEW w \in Threads, NEW outcomes,
           thread[w].at = "run", EndRun(w, outcomes),
           \A a \in outcomes : /\ a.request \in Requests /\ a.charge \in Charges
                               /\ \E r \in thread[w].request : a.request \in Covered[r],
           \A a, b \in outcomes : a = b
    PROVE  \/ UNCHANGED pages
           \/ \E s \in Sessions, r \in Requests : Promise!Answer(s, r) \/ Promise!GiveUp(s, r)
<1>1. PICK o \in Openings : o = thread[w].object
  <2>1. thread[w].object # None /\ thread[w] \in Frames
    BY DEF Sound, RunsOwned, Typed
  <2> QED
    BY <2>1 DEF Frames
<1> DEFINE x == object[o]
           y == object'[o]
           R == thread[w].request
<1>2. /\ Others(o)
      /\ y.authority = x.authority /\ y.active = x.active /\ y.closed = x.closed
      /\ y.pending = x.pending
      /\ \/ y.ready = x.ready
         \/ \E a \in outcomes : StillWanted(o, a.request) /\ y.ready = {a.request}
      /\ UNCHANGED registered
  BY <1>1, EndRunDoes DEF Sound
<1>3. /\ thread'[w].object = None
      /\ \A v \in Threads : v # w => /\ thread'[v].object = thread[v].object
                                     /\ thread'[v].request = thread[v].request
  <2> DEFINE a == AtPlace("awake")
             ts == [thread EXCEPT ![w] = a]
  <2>1. a \in Frames /\ a.at = "awake" /\ a.object = None /\ a.request = {}
    BY AtPlaceIs DEF ThreadPlaces
  <2> HIDE DEF a
  <2>2. ts \in [Threads -> Frames] /\ \A v \in Threads : ts[v] = IF v = w THEN a ELSE thread[v]
    BY <2>1 DEF Sound, Typed
  <2> HIDE DEF ts
  <2>3. thread' = ThreadsWoken(ts)
    BY DEF EndRun, ts, a
  <2>4. \A v \in Threads : \/ thread'[v] = ts[v]
                           \/ ts[v].at = "asleep" /\ thread'[v] = a
    BY <2>2, <2>3, ThreadsWokenIs DEF a
  <2>5. \A v \in Threads : thread[v].at = "asleep" => thread[v].object = None /\ thread[v].request = {}
    BY DEF Sound, RunsOwned
  <2>6. \A v \in Threads : v # w => thread'[v] = thread[v] \/ (thread[v].at = "asleep" /\ thread'[v] = a)
    BY <2>2, <2>4
  <2>7. thread'[w] = a
    BY <2>1, <2>2, <2>4
  <2> QED
    BY <2>1, <2>5, <2>6, <2>7
<1>4. o # None /\ \A v \in Threads : thread[v].object = o => v = w
  BY <1>1 DEF Sound, RunsOwned, SourcePoolAssumption
<1>5. InHand(o) = R
  <2>1. \A r : r \in InHand(o) <=> r \in R
    BY <1>1, <1>4, InHandIs
  <2> QED
    BY <2>1
<1>6. InHand(o)' = {}
  BY <1>3, <1>4, InHandWillBe
<1>7. \A p \in Openings : p # o => InHand(p)' = InHand(p)
  <2> SUFFICES ASSUME NEW p \in Openings, p # o
               PROVE  InHand(p)' = InHand(p)
    OBVIOUS
  <2>1. p # None
    BY DEF SourcePoolAssumption
  <2>2. \A r : r \in InHand(p)' <=> r \in InHand(p)
    BY <2>1, <1>1, <1>3, InHandIs, InHandWillBe
  <2> QED
    BY <2>2
<1>8. AtMostOne(R) /\ R \subseteq Requests
  BY DEF Sound, RunsOwned, Typed, Frames
<1>9. ASSUME NEW s \in Sessions, registered[s] = o, s \in Shown
      PROVE  \/ UNCHANGED pages
             \/ \E r \in Requests : Promise!Answer(s, r) \/ Promise!GiveUp(s, r)
  <2> DEFINE now == {r \in R : r.ticket = x.authority}
  <2>1. \A u \in Sessions : u # s => SamePage(u)
    BY <1>2, <1>7, <1>9, OneOwner, OtherPagesStay
  <2>2. /\ ~x.closed /\ x.active /\ InForce[s] = x.authority
        /\ OwedAll[s] = x.pending \cup now /\ AnswerAll[s] = x.ready
    BY ZenonT(60), <1>5, <1>9, ThisPageIs
  <2>3. /\ (s \in Shown)' /\ InForce'[s] = x.authority
        /\ OwedAll'[s] = x.pending /\ AnswerAll'[s] = y.ready
    <3>1. registered'[s] = o
      BY <1>2, <1>9
    <3>2. /\ (s \in Shown)' <=> ~y.closed /\ y.active
          /\ InForce'[s] = IF y.closed THEN 0 ELSE y.authority
          /\ OwedAll'[s] = IF (s \in Shown)'
                           THEN y.pending \cup {q \in InHand(o)' : q.ticket = y.authority} ELSE {}
          /\ AnswerAll'[s] = IF (s \in Shown)' THEN y.ready ELSE {}
      BY <3>1, ThisPageWillBe
    <3> HIDE DEF x, y
    <3> QED
      BY <3>2, <2>2, <1>2, <1>6
  <2> HIDE DEF x, y, R
  <2>4. CASE y.ready = x.ready /\ now \subseteq x.pending
    <3>1. SamePage(s)
      BY <2>2, <2>3, <2>4, <1>9 DEF SamePage
    <3> QED
      BY <3>1, <2>1, NothingByPages
  <2>5. CASE y.ready = x.ready /\ ~(now \subseteq x.pending)
    <3>1. PICK r \in now : r \notin x.pending
      BY <2>5
    <3>2. now = {r} /\ r \in Requests
      BY <1>8, <3>1 DEF AtMostOne
    <3>3. OwedAll'[s] = OwedAll[s] \ {r}
      BY <3>1, <3>2, <2>2, <2>3
    <3>4. Promise!GiveUp(s, r)
      BY <3>2, <3>3, <2>1, <2>2, <2>3, <2>5, <1>9, GiveUpByPages
    <3> QED
      BY <3>2, <3>4
  <2>6. ASSUME NEW a \in outcomes, StillWanted(o, a.request), y.ready = {a.request}
        PROVE  \E r \in Requests : Promise!Answer(s, r)
    <3>1. PICK r \in R : a.request \in Covered[r]
      BY DEF R
    <3>2. r \in Requests
      BY <1>8
    <3>3. a.request.ticket = r.ticket
      BY <3>1, <3>2 DEF Covered
    <3>4. a.request.ticket = x.authority
      BY <2>6 DEF StillWanted, x
    <3>5. r \in now /\ \A q \in now : q = r
      BY <3>3, <3>4, <1>8 DEF AtMostOne
    <3>6. OwedAll'[s] = OwedAll[s] \/ OwedAll'[s] = OwedAll[s] \ {r}
      BY <3>5, <2>2, <2>3
    <3>7. r \in OwedAll[s] /\ r.ticket = InForce[s]
      BY <3>3, <3>4, <3>5, <2>2
    <3>8. Promise!Answer(s, r)
      BY ZenonT(60), <3>1, <3>2, <3>6, <3>7, <2>1, <2>2, <2>3, <2>6, <1>9, AnswerByPages
    <3> QED
      BY <3>2, <3>8
  <2> QED
    BY <2>4, <2>5, <2>6, <1>2 DEF x, y
<1>10. ASSUME \A s \in Sessions : ~(registered[s] = o /\ s \in Shown)
       PROVE  UNCHANGED pages
  <2>1. ASSUME NEW u \in Sessions
        PROVE  SamePage(u)
    <3>1. CASE registered[u] = o
      <4>1. ~(~x.closed /\ x.active)
        BY <1>10, <3>1, ThisPageIs
      <4>2. registered'[u] = o
        BY <3>1, <1>2
      <4>3. u \notin Shown /\ ~(u \in Shown)' /\ InForce'[u] = InForce[u]
        BY ZenonT(60), <4>1, <4>2, <3>1, <1>2, ThisPageIs, ThisPageWillBe
      <4> QED
        BY <4>3, PageIs, PageWillBe DEF SamePage
    <3>2. CASE registered[u] # o /\ registered[u] # None
      <4>1. PICK p \in Openings : registered[u] = p /\ p # o
        BY <3>2 DEF Sound, Typed
      <4>2. object'[p] = object[p] /\ InHand(p)' = InHand(p) /\ registered'[u] = registered[u]
        BY <4>1, <1>2, <1>7 DEF Others
      <4>3. InHand(registered[u])' = InHand(registered[u])
        BY <4>1, <4>2
      <4> QED
        BY <4>1, <4>2, <4>3, PageStays
    <3>3. CASE registered[u] = None
      BY <3>3, <1>2, PageStays
    <3> QED
      BY <3>1, <3>2, <3>3
  <2> QED
    BY <2>1, NothingByPages
<1> QED
  BY <1>9, <1>10

LEMMA QuietPromises ==
    ASSUME SourcePoolAssumption, Sound, Sound', UNCHANGED <<object, registered>>, ThreadsStay
    PROVE  UNCHANGED pages
<1>1. \A p \in Openings : InHand(p)' = InHand(p)
  BY InHandStays
<1>2. ASSUME NEW u \in Sessions
      PROVE  SamePage(u)
  <2>1. CASE registered[u] = None
    BY <2>1, PageStays
  <2>2. CASE registered[u] # None
    <3>1. PICK p \in Openings : registered[u] = p
      BY <2>2 DEF Sound, Typed
    <3>2. InHand(registered[u])' = InHand(registered[u])
      BY <3>1, <1>1
    <3> QED
      BY <3>2, PageStays
  <2> QED
    BY <2>1, <2>2
<1> QED
  BY <1>2, NothingByPages

LEMMA StopBeginPromises ==
    ASSUME SourcePoolAssumption, Sound, Sound', NEW c \in Callers, StopBegin(c)
    PROVE  Promise!Stop
<1>1. stopping'
  BY StopBeginDoes DEF Sound
<1>2. \A u \in Sessions : ~(u \in Shown)'
  <2>1. \A u \in Sessions : registered'[u] # None => object'[registered'[u]].closed
    BY <1>1 DEF Sound, StopCloses
  <2> QED
    BY <2>1, PageWillBe DEF Here
<1>3. Shown' = {}
  BY <1>2, PagesWillBe
<1>4. OwedAll' = [u \in Sessions |-> {}] /\ AnswerAll' = [u \in Sessions |-> {}]
  BY <1>3 DEF OwedAll, AnswerAll
<1>5. InForce' \in [Sessions -> Tickets]
  BY PagesWillBe
<1> QED
  BY <1>3, <1>4, <1>5 DEF Promise!Stop, Promise!Nothing, OwedAll, AnswerAll

(* The sessions stop forgets were closed when it began.                    *)
LEMMA StopJoinedPromises ==
    ASSUME SourcePoolAssumption, Sound, Sound', NEW c \in Callers, StopJoined(c)
    PROVE  UNCHANGED pages
<1>1. stopping /\ caller[c] = "join" /\ \A s \in Sessions : registered'[s] = None
  BY DEF StopJoined, Sound, StopCloses
<1>2. ASSUME NEW u \in Sessions
      PROVE  SamePage(u)
  <2>1. ~Here(u)
    BY <1>1 DEF Sound, StopCloses, Here
  <2>2. u \notin Shown /\ InForce[u] = 0 /\ OwedAll[u] = {} /\ AnswerAll[u] = {}
    BY <2>1, PageIs
  <2>3. ~(u \in Shown)' /\ InForce'[u] = 0 /\ OwedAll'[u] = {} /\ AnswerAll'[u] = {}
    BY <1>1, NoPageIs
  <2> QED
    BY <2>2, <2>3 DEF SamePage
<1> QED
  BY <1>2, NothingByPages

LEMMA InitPromises ==
    ASSUME SourcePoolAssumption, Init
    PROVE  Promise!Init
<1>1. \A u \in Sessions : registered[u] = None
  BY DEF Init
<1>2. Shown = {} /\ InForce = [u \in Sessions |-> 0]
  BY <1>1 DEF Shown, InForce, Here
<1>3. OwedAll = [u \in Sessions |-> {}] /\ AnswerAll = [u \in Sessions |-> {}]
  BY <1>2 DEF OwedAll, AnswerAll
<1>4. 0 \in Tickets
  BY DEF SourcePoolAssumption, Tickets
<1> QED
  BY <1>2, <1>3, <1>4 DEF Promise!Init, Promise!Nothing, OwedAll, AnswerAll

LEMMA NextPromises ==
    ASSUME SourcePoolAssumption, Sound, Sound', [Next]_vars
    PROVE  Promise!Next \/ UNCHANGED pages
<1>1. ASSUME NEW s \in Sessions, NEW o \in Openings, SessionCall(s, o)
      PROVE  Promise!Next
  <2>1. 0 \in Tickets /\ FALSE \in BOOLEAN
    BY DEF SourcePoolAssumption, Tickets
  <2>2. ASSUME NEW t \in Tickets, NEW a \in BOOLEAN, OpenSession(s, o, t, a) \/ SetAuthority(s, o, t, a)
        PROVE  Promise!Authorize(s, t, a)
    BY <2>2, OpenSessionPromises, SetAuthorityPromises
  <2>3. CloseSession(s, o) => Promise!Authorize(s, 0, FALSE)
    BY CloseSessionPromises
  <2>4. TakeReady(s, o) => Promise!Collect(s)
    BY TakeReadyPromises
  <2>5. ASSUME NEW r \in Requests,
               RequestReplaced(s, o, r) \/ \E c \in Callers : RequestAccepted(c, s, o, r)
        PROVE  Promise!Ask(s, r)
    BY <2>5, RequestPromises
  <2> QED
    BY <1>1, <2>1, <2>2, <2>3, <2>4, <2>5 DEF SessionCall, Promise!Next
<1>2. ASSUME NEW c \in Callers,
             \/ NotifyOne(c) \/ WaitIdle(c) \/ WaitDisturbed(c)
             \/ StopBegin(c) \/ StopNotify(c) \/ StopJoined(c)
      PROVE  Promise!Next \/ UNCHANGED pages
  <2>1. CASE NotifyOne(c) \/ WaitIdle(c) \/ WaitDisturbed(c) \/ StopNotify(c)
    <3>1. ThreadsStay
      BY <2>1, CallerStepStays
    <3>2. UNCHANGED <<object, registered>>
      BY <2>1 DEF NotifyOne, WaitIdle, WaitDisturbed, StopNotify, pool
    <3> QED
      BY <3>1, <3>2, QuietPromises
  <2>2. CASE StopBegin(c)
    BY <2>2, StopBeginPromises DEF Promise!Next
  <2>3. CASE StopJoined(c)
    BY <2>3, StopJoinedPromises
  <2> QED
    BY <1>2, <2>1, <2>2, <2>3
<1>3. ASSUME NEW w \in Threads, ThreadStep(w) \/ SpuriousWake(w)
      PROVE  Promise!Next \/ UNCHANGED pages
  <2>1. CASE Sleep(w) \/ Exit(w) \/ SpuriousWake(w)
    <3>1. ThreadsStay
      BY <2>1, ThreadMoveStays
    <3>2. UNCHANGED <<object, registered>>
      BY <2>1 DEF Sleep, Exit, SpuriousWake, pool
    <3> QED
      BY <3>1, <3>2, QuietPromises
  <2>2. CASE SkipAll(w)
    BY <2>2, SkipAllPromises
  <2>3. CASE \E n \in DOMAIN queue : StartRun(w, n)
    BY <2>3, StartRunPromises
  <2>4. CASE Suppressed(w) \/ Finished(w)
    BY <2>4, RunEndIs, EndRunPromises DEF Promise!Next
  <2> QED
    BY <1>3, <2>1, <2>2, <2>3, <2>4 DEF ThreadStep
<1>4. CASE UNCHANGED vars
  <2>1. ThreadsStay
    BY <1>4 DEF Sound, Typed, ThreadsStay, vars
  <2> QED
    BY <2>1, <1>4, QuietPromises DEF vars, pool
<1> QED
  BY <1>1, <1>2, <1>3, <1>4 DEF Next

(* The pool keeps the promise of speculative reading: no result of an      *)
(* earlier opening, of an earlier ticket, or of before the page was hidden *)
(* reaches a page, whatever is closed, opened again, shown, hidden or      *)
(* stopped while a thread reads.                                           *)
THEOREM PoolKeepsPrefetchPromise ==
    ASSUME SourcePoolAssumption
    PROVE  Spec => PrefetchKeepsPromise
<1>1. Init => Promise!Init
  BY InitPromises
<1>2. Sound /\ Sound' /\ [Next]_vars => [Promise!Next]_(Promise!vars)
  <2>1. UNCHANGED pages => UNCHANGED Promise!vars
    BY DEF pages, Promise!vars, OwedAll, AnswerAll
  <2> QED
    BY <2>1, NextPromises
<1> QED
  BY <1>1, <1>2, SoundAlways, PTL DEF Spec, PrefetchKeepsPromise, Promise!Spec
------------------------------------------------------------------------------
(* What the pool counts.  status() scans nothing: each path that opens,    *)
(* closes, queues, runs, drops or hands over counts up or down by itself.  *)
(* The counters are exact because of Accounted: they are sums over all     *)
(* objects, only the objects of open sessions are counted, and only a      *)
(* result that waits is charged for.                                       *)

(* What a session object adds to each counter.                             *)
One(b) == IF b THEN 1 ELSE 0
ActiveOnes == [o \in Openings |-> One(object[o].counted /\ object[o].active)]
QueuedOnes == [o \in Openings |-> One(object[o].counted /\ object[o].queued)]
RunningOnes == [o \in Openings |-> One(object[o].counted /\ object[o].running)]
ReadyOnes == [o \in Openings |-> One(object[o].counted /\ object[o].ready # {})]
ChargeOf == [o \in Openings |-> object[o].charge]

Tallies == [active : Nat, queued : Nat, running : Nat, ready : Nat, bytes : Nat]

Tallied == /\ tally \in Tallies
           /\ tally.active = SumOf(ActiveOnes, Openings)
           /\ tally.queued = SumOf(QueuedOnes, Openings)
           /\ tally.running = SumOf(RunningOnes, Openings)
           /\ tally.ready = SumOf(ReadyOnes, Openings)
           /\ tally.bytes = SumOf(ChargeOf, Openings)
           /\ tally.bytes <= MaxReady

(* The objects counted are those of the open sessions, and a charge is of  *)
(* a result that waits.                                                    *)
OpenAreCounted ==
    \A o \in Openings : object[o].counted <=> /\ ~object[o].closed
                                              /\ \E s \in Sessions : registered[s] = o
ChargesAreOfResults == \A o \in Openings : object[o].charge # 0 => object[o].ready # {}

Accounted == Tallied /\ OpenAreCounted /\ ChargesAreOfResults

LEMMA OneIs == \A b \in BOOLEAN : One(b) \in Nat /\ (b => One(b) = 1) /\ (~b => One(b) = 0)
BY DEF One

(* Counting down never meets a zero where something is counted.            *)
LEMMA LessIs ==
    ASSUME NEW n \in Nat, NEW b \in BOOLEAN, One(b) <= n
    PROVE  Less(n, b) = n - One(b) /\ Less(n, b) \in Nat
BY DEF Less, One

LEMMA MoreIs ==
    ASSUME NEW n \in Nat, NEW b \in BOOLEAN
    PROVE  More(n, b) = n + One(b) /\ More(n, b) \in Nat
BY DEF More, One

LEMMA FieldsAre ==
    ASSUME SourcePoolAssumption, NEW x \in ObjectStates
    PROVE  /\ x.charge \in Nat /\ x.counted \in BOOLEAN /\ x.active \in BOOLEAN
           /\ x.queued \in BOOLEAN /\ x.running \in BOOLEAN
<1>1. /\ x.charge \in Charges \cup {0} /\ x.counted \in BOOLEAN /\ x.active \in BOOLEAN
      /\ x.queued \in BOOLEAN /\ x.running \in BOOLEAN
  BY DEF ObjectStates
<1>2. \A c \in Charges \cup {0} : c \in Nat
  BY DEF SourcePoolAssumption
<1>3. x.charge \in Nat
  BY <1>1, <1>2
<1> QED
  BY <1>1, <1>3

LEMMA OnesAre ==
    ASSUME SourcePoolAssumption
    PROVE  Typed => /\ Counts(ActiveOnes, Openings) /\ Counts(QueuedOnes, Openings)
                    /\ Counts(RunningOnes, Openings) /\ Counts(ReadyOnes, Openings)
                    /\ Counts(ChargeOf, Openings)
<1> SUFFICES ASSUME Typed, NEW o \in Openings
             PROVE  /\ ActiveOnes[o] \in Nat /\ QueuedOnes[o] \in Nat /\ RunningOnes[o] \in Nat
                    /\ ReadyOnes[o] \in Nat /\ ChargeOf[o] \in Nat
  BY DEF Counts
<1>1. object[o] \in ObjectStates
  BY DEF Typed
<1>2. object[o].charge \in Nat
  BY <1>1, FieldsAre
<1> QED
  BY <1>2 DEF ActiveOnes, QueuedOnes, RunningOnes, ReadyOnes, ChargeOf, One

(* One object changes, and every counter by what it counts for.            *)
LEMMA OneObjectMoves ==
    ASSUME SourcePoolAssumption, Typed, Tallied, NEW o \in Openings,
           object' \in [Openings -> ObjectStates], Others(o)
    PROVE  /\ ActiveOnes[o] <= tally.active /\ QueuedOnes[o] <= tally.queued
           /\ RunningOnes[o] <= tally.running /\ ReadyOnes[o] <= tally.ready
           /\ ChargeOf[o] <= tally.bytes
           /\ SumOf(ActiveOnes', Openings) = (tally.active - ActiveOnes[o]) + ActiveOnes'[o]
           /\ SumOf(QueuedOnes', Openings) = (tally.queued - QueuedOnes[o]) + QueuedOnes'[o]
           /\ SumOf(RunningOnes', Openings) = (tally.running - RunningOnes[o]) + RunningOnes'[o]
           /\ SumOf(ReadyOnes', Openings) = (tally.ready - ReadyOnes[o]) + ReadyOnes'[o]
           /\ SumOf(ChargeOf', Openings) = (tally.bytes - ChargeOf[o]) + ChargeOf'[o]
<1>1. ASSUME NEW p \in Openings
      PROVE  object'[p].charge \in Nat
  BY FieldsAre
<1>2. /\ Counts(ActiveOnes', Openings) /\ Counts(QueuedOnes', Openings)
      /\ Counts(RunningOnes', Openings) /\ Counts(ReadyOnes', Openings)
      /\ Counts(ChargeOf', Openings)
  BY <1>1 DEF ActiveOnes, QueuedOnes, RunningOnes, ReadyOnes, ChargeOf, One, Counts
<1>3. /\ AgreeOn(ActiveOnes, ActiveOnes', Openings \ {o})
      /\ AgreeOn(QueuedOnes, QueuedOnes', Openings \ {o})
      /\ AgreeOn(RunningOnes, RunningOnes', Openings \ {o})
      /\ AgreeOn(ReadyOnes, ReadyOnes', Openings \ {o})
      /\ AgreeOn(ChargeOf, ChargeOf', Openings \ {o})
  BY DEF Others, AgreeOn, ActiveOnes, QueuedOnes, RunningOnes, ReadyOnes, ChargeOf
<1>4. /\ Counts(ActiveOnes, Openings) /\ Counts(QueuedOnes, Openings)
      /\ Counts(RunningOnes, Openings) /\ Counts(ReadyOnes, Openings)
      /\ Counts(ChargeOf, Openings)
  BY OnesAre
<1>5. IsFiniteSet(Openings)
  BY DEF SourcePoolAssumption
<1> DEFINE a == ActiveOnes'
           q == QueuedOnes'
           r == RunningOnes'
           d == ReadyOnes'
           c == ChargeOf'
<1> HIDE DEF a, q, r, d, c
<1>6. /\ ActiveOnes[o] <= SumOf(ActiveOnes, Openings)
      /\ SumOf(a, Openings) = (SumOf(ActiveOnes, Openings) - ActiveOnes[o]) + a[o]
  BY <1>2, <1>3, <1>4, <1>5, SumChange DEF a
<1>7. /\ QueuedOnes[o] <= SumOf(QueuedOnes, Openings)
      /\ SumOf(q, Openings) = (SumOf(QueuedOnes, Openings) - QueuedOnes[o]) + q[o]
  BY <1>2, <1>3, <1>4, <1>5, SumChange DEF q
<1>8. /\ RunningOnes[o] <= SumOf(RunningOnes, Openings)
      /\ SumOf(r, Openings) = (SumOf(RunningOnes, Openings) - RunningOnes[o]) + r[o]
  BY <1>2, <1>3, <1>4, <1>5, SumChange DEF r
<1>9. /\ ReadyOnes[o] <= SumOf(ReadyOnes, Openings)
      /\ SumOf(d, Openings) = (SumOf(ReadyOnes, Openings) - ReadyOnes[o]) + d[o]
  BY <1>2, <1>3, <1>4, <1>5, SumChange DEF d
<1>10. /\ ChargeOf[o] <= SumOf(ChargeOf, Openings)
       /\ SumOf(c, Openings) = (SumOf(ChargeOf, Openings) - ChargeOf[o]) + c[o]
  BY <1>2, <1>3, <1>4, <1>5, SumChange DEF c
<1> QED
  BY <1>6, <1>7, <1>8, <1>9, <1>10 DEF Tallied, a, q, r, d, c

(* The counters follow when one object changes and they by its weight.     *)
LEMMA OneObjectTallies ==
    ASSUME SourcePoolAssumption, Typed, Tallied, NEW o \in Openings,
           object' \in [Openings -> ObjectStates], Others(o), tally' \in Tallies,
           tally'.active = (tally.active - One(object[o].counted /\ object[o].active))
                           + One(object'[o].counted /\ object'[o].active),
           tally'.queued = (tally.queued - One(object[o].counted /\ object[o].queued))
                           + One(object'[o].counted /\ object'[o].queued),
           tally'.running = (tally.running - One(object[o].counted /\ object[o].running))
                            + One(object'[o].counted /\ object'[o].running),
           tally'.ready = (tally.ready - One(object[o].counted /\ object[o].ready # {}))
                          + One(object'[o].counted /\ object'[o].ready # {}),
           tally'.bytes = (tally.bytes - object[o].charge) + object'[o].charge,
           tally'.bytes <= MaxReady
    PROVE  Tallied'
<1>1. /\ ActiveOnes[o] = One(object[o].counted /\ object[o].active)
      /\ QueuedOnes[o] = One(object[o].counted /\ object[o].queued)
      /\ RunningOnes[o] = One(object[o].counted /\ object[o].running)
      /\ ReadyOnes[o] = One(object[o].counted /\ object[o].ready # {})
      /\ ChargeOf[o] = object[o].charge
  BY DEF ActiveOnes, QueuedOnes, RunningOnes, ReadyOnes, ChargeOf
<1>2. /\ ActiveOnes'[o] = One(object'[o].counted /\ object'[o].active)
      /\ QueuedOnes'[o] = One(object'[o].counted /\ object'[o].queued)
      /\ RunningOnes'[o] = One(object'[o].counted /\ object'[o].running)
      /\ ReadyOnes'[o] = One(object'[o].counted /\ object'[o].ready # {})
      /\ ChargeOf'[o] = object'[o].charge
  BY DEF ActiveOnes, QueuedOnes, RunningOnes, ReadyOnes, ChargeOf
<1>3. /\ SumOf(ActiveOnes', Openings) = (tally.active - ActiveOnes[o]) + ActiveOnes'[o]
      /\ SumOf(QueuedOnes', Openings) = (tally.queued - QueuedOnes[o]) + QueuedOnes'[o]
      /\ SumOf(RunningOnes', Openings) = (tally.running - RunningOnes[o]) + RunningOnes'[o]
      /\ SumOf(ReadyOnes', Openings) = (tally.ready - ReadyOnes[o]) + ReadyOnes'[o]
      /\ SumOf(ChargeOf', Openings) = (tally.bytes - ChargeOf[o]) + ChargeOf'[o]
  BY OneObjectMoves
<1> QED
  BY <1>1, <1>2, <1>3 DEF Tallied

(* No counter is less than what one object adds to it.                     *)
Within(n, x) == /\ One(x.counted /\ x.active) <= n.active
                /\ One(x.counted /\ x.queued) <= n.queued
                /\ One(x.counted /\ x.running) <= n.running
                /\ One(x.counted /\ x.ready # {}) <= n.ready
                /\ x.charge <= n.bytes

LEMMA EachWithin ==
    ASSUME SourcePoolAssumption, Typed, Tallied, NEW o \in Openings
    PROVE  Within(tally, object[o])
<1>1. /\ ActiveOnes[o] = One(object[o].counted /\ object[o].active)
      /\ QueuedOnes[o] = One(object[o].counted /\ object[o].queued)
      /\ RunningOnes[o] = One(object[o].counted /\ object[o].running)
      /\ ReadyOnes[o] = One(object[o].counted /\ object[o].ready # {})
      /\ ChargeOf[o] = object[o].charge
  BY DEF ActiveOnes, QueuedOnes, RunningOnes, ReadyOnes, ChargeOf
<1>2. /\ Counts(ActiveOnes, Openings) /\ Counts(QueuedOnes, Openings)
      /\ Counts(RunningOnes, Openings) /\ Counts(ReadyOnes, Openings)
      /\ Counts(ChargeOf, Openings) /\ IsFiniteSet(Openings)
  BY OnesAre DEF SourcePoolAssumption
<1>3. ASSUME NEW v, Counts(v, Openings)
      PROVE  v[o] <= SumOf(v, Openings)
  BY <1>2, <1>3, SumChange DEF AgreeOn
<1>4. /\ ActiveOnes[o] <= SumOf(ActiveOnes, Openings) /\ QueuedOnes[o] <= SumOf(QueuedOnes, Openings)
      /\ RunningOnes[o] <= SumOf(RunningOnes, Openings) /\ ReadyOnes[o] <= SumOf(ReadyOnes, Openings)
      /\ ChargeOf[o] <= SumOf(ChargeOf, Openings)
  BY <1>2, <1>3
<1> QED
  BY <1>1, <1>4 DEF Tallied, Within

LEMMA ReleasedIs ==
    ASSUME SourcePoolAssumption, NEW n \in Tallies, NEW x \in ObjectStates, Within(n, x)
    PROVE  /\ Released(n, x) \in Tallies
           /\ Released(n, x).active = n.active - One(x.counted /\ x.active)
           /\ Released(n, x).queued = n.queued - One(x.counted /\ x.queued)
           /\ Released(n, x).running = n.running - One(x.counted /\ x.running)
           /\ Released(n, x).ready = n.ready - One(x.counted /\ x.ready # {})
           /\ Released(n, x).bytes = n.bytes - x.charge
<1> DEFINE a == x.counted /\ x.active
           q == x.counted /\ x.queued
           r == x.counted /\ x.running
           d == x.counted /\ x.ready # {}
<1>1. /\ n.active \in Nat /\ n.queued \in Nat /\ n.running \in Nat /\ n.ready \in Nat
      /\ n.bytes \in Nat /\ x.charge \in Nat
  BY FieldsAre DEF Tallies
<1>2. a \in BOOLEAN /\ q \in BOOLEAN /\ r \in BOOLEAN /\ d \in BOOLEAN
  OBVIOUS
<1>3. One(a) <= n.active /\ One(q) <= n.queued /\ One(r) <= n.running /\ One(d) <= n.ready
      /\ x.charge <= n.bytes
  BY DEF Within
<1>4. Released(n, x) = [active |-> Less(n.active, a), queued |-> Less(n.queued, q),
                        running |-> Less(n.running, r), ready |-> Less(n.ready, d),
                        bytes |-> n.bytes - x.charge]
  BY <1>3 DEF Released
<1> HIDE DEF a, q, r, d
<1>5. /\ Less(n.active, a) = n.active - One(a) /\ Less(n.active, a) \in Nat
      /\ Less(n.queued, q) = n.queued - One(q) /\ Less(n.queued, q) \in Nat
      /\ Less(n.running, r) = n.running - One(r) /\ Less(n.running, r) \in Nat
      /\ Less(n.ready, d) = n.ready - One(d) /\ Less(n.ready, d) \in Nat
  BY <1>1, <1>2, <1>3, LessIs
<1>6. n.bytes - x.charge \in Nat
  BY <1>1, <1>3
<1>7. /\ Released(n, x) \in Tallies
      /\ Released(n, x).active = n.active - One(a)
      /\ Released(n, x).queued = n.queued - One(q)
      /\ Released(n, x).running = n.running - One(r)
      /\ Released(n, x).ready = n.ready - One(d)
      /\ Released(n, x).bytes = n.bytes - x.charge
  BY <1>4, <1>5, <1>6 DEF Tallies
<1> QED
  BY <1>7 DEF a, q, r, d

(* A session that is counted is open, and nobody else has its object.      *)
LEMMA OpenIsCounted ==
    ASSUME Sound, OpenAreCounted, NEW s \in Sessions, NEW o \in Openings, Open(s, o)
    PROVE  object[o].counted
BY DEF Open, OpenAreCounted

LEMMA HoldsAreCounted ==
    ASSUME Sound, OpenAreCounted, ChargesAreOfResults, NEW o \in Openings
    PROVE  /\ object[o].active \/ object[o].queued \/ object[o].ready # {} \/ object[o].charge # 0
                => object[o].counted
<1>1. Fit(object[o])
  BY DEF Sound, ObjectsFit
<1>2. object[o].ready # {} => object[o].active
  BY <1>1 DEF Fit
<1>3. object[o].charge # 0 => object[o].ready # {}
  BY DEF ChargesAreOfResults
<1>4. object[o].active \/ object[o].queued => ~object[o].closed
  BY <1>1 DEF Fit
<1>5. object[o].active \/ object[o].queued => \E s \in Sessions : registered[s] = o
  BY DEF Sound, OwnersKnown
<1> QED
  BY <1>2, <1>3, <1>4, <1>5 DEF OpenAreCounted

LEMMA TallyFields ==
    ASSUME Tallied
    PROVE  /\ tally.active \in Nat /\ tally.queued \in Nat /\ tally.running \in Nat
           /\ tally.ready \in Nat /\ tally.bytes \in Nat /\ tally.bytes <= MaxReady
BY DEF Tallied, Tallies

LEMMA OpenSessionAccounts ==
    ASSUME SourcePoolAssumption, Sound, Accounted, NEW s \in Sessions, NEW o \in Openings,
           NEW t \in Tickets, NEW active \in BOOLEAN, OpenSession(s, o, t, active)
    PROVE  Accounted'
<1> DEFINE x == object[o]
           y == NewObject(s, t, active)
<1>1. /\ object' \in [Openings -> ObjectStates] /\ Others(o) /\ object'[o] = y
      /\ registered' = [registered EXCEPT ![s] = o] /\ registered[s] = None
  BY OpenSessionDoes DEF Sound
<1>2. /\ y.counted /\ y.charge = 0 /\ y.active = active /\ ~y.closed /\ ~y.queued
      /\ ~y.running /\ y.ready = {}
  BY DEF NewObject, NoObject
<1>3. \A p \in Sessions : registered[p] # o
  BY DEF OpenSession, Unreferenced
<1>4. ~x.counted /\ x.charge = 0
  BY <1>3, HoldsAreCounted DEF Accounted, OpenAreCounted
<1>5. tally' = [tally EXCEPT !.active = More(@, active)]
  BY DEF OpenSession
<1>6. /\ More(tally.active, active) = tally.active + One(active)
      /\ More(tally.active, active) \in Nat
  BY MoreIs, TallyFields DEF Accounted
<1> HIDE DEF y
<1>7. /\ tally' \in Tallies /\ tally'.active = tally.active + One(active)
      /\ tally'.queued = tally.queued /\ tally'.running = tally.running
      /\ tally'.ready = tally.ready /\ tally'.bytes = tally.bytes
  BY <1>5, <1>6 DEF Accounted, Tallied, Tallies
<1>8. /\ One(x.counted /\ x.active) = 0 /\ One(x.counted /\ x.queued) = 0
      /\ One(x.counted /\ x.running) = 0 /\ One(x.counted /\ x.ready # {}) = 0
      /\ One(y.counted /\ y.active) = One(active) /\ One(y.counted /\ y.queued) = 0
      /\ One(y.counted /\ y.running) = 0 /\ One(y.counted /\ y.ready # {}) = 0
  BY <1>2, <1>4 DEF One
<1>9. Tallied'
  BY <1>1, <1>2, <1>4, <1>7, <1>8, TallyFields, OneObjectTallies DEF Accounted, Sound, One
<1>10. OpenAreCounted'
  <2> SUFFICES ASSUME NEW p \in Openings
               PROVE  object'[p].counted <=> /\ ~object'[p].closed
                                             /\ \E u \in Sessions : registered'[u] = p
    BY DEF OpenAreCounted
  <2>1. CASE p = o
    BY <2>1, <1>1, <1>2 DEF Sound, Typed
  <2>2. CASE p # o
    <3>1. object'[p] = object[p]
      BY <2>2, <1>1 DEF Others
    <3>2. \A u \in Sessions : registered'[u] = p <=> registered[u] = p
      BY <2>2, <1>1 DEF Sound, Typed, SourcePoolAssumption
    <3> QED
      BY <3>1, <3>2 DEF Accounted, OpenAreCounted
  <2> QED
    BY <2>1, <2>2
<1>11. ChargesAreOfResults'
  BY <1>1, <1>2 DEF Accounted, ChargesAreOfResults, Others
<1> QED
  BY <1>9, <1>10, <1>11 DEF Accounted

LEMMA CloseSessionAccounts ==
    ASSUME SourcePoolAssumption, Sound, Accounted, NEW s \in Sessions, NEW o \in Openings,
           CloseSession(s, o)
    PROVE  Accounted'
<1> DEFINE x == object[o]
           y == Shut(x)
<1>1. /\ object' \in [Openings -> ObjectStates] /\ Others(o) /\ object'[o] = y
      /\ registered' = [registered EXCEPT ![s] = None] /\ registered[s] = o
  BY CloseSessionDoes DEF Sound
<1>2. ~y.counted /\ y.closed /\ y.charge = 0 /\ y.ready = {}
  BY DEF Sound, Typed, Shut, ObjectStates
<1>3. tally' = Released(tally, x)
  BY DEF CloseSession
<1>4. x \in ObjectStates /\ tally \in Tallies /\ Within(tally, x)
  BY EachWithin DEF Sound, Typed, Accounted, Tallied
<1> HIDE DEF y
<1>5. /\ tally' \in Tallies
      /\ tally'.active = tally.active - One(x.counted /\ x.active)
      /\ tally'.queued = tally.queued - One(x.counted /\ x.queued)
      /\ tally'.running = tally.running - One(x.counted /\ x.running)
      /\ tally'.ready = tally.ready - One(x.counted /\ x.ready # {})
      /\ tally'.bytes = tally.bytes - x.charge
  BY <1>3, <1>4, ReleasedIs
<1>6. /\ One(y.counted /\ y.active) = 0 /\ One(y.counted /\ y.queued) = 0
      /\ One(y.counted /\ y.running) = 0 /\ One(y.counted /\ y.ready # {}) = 0
  BY <1>2 DEF One
<1>7. /\ tally.bytes \in Nat /\ tally.bytes <= MaxReady /\ x.charge \in Nat /\ MaxReady \in Nat
  BY <1>4, FieldsAre, TallyFields DEF Accounted, SourcePoolAssumption
<1>8. Tallied'
  <2>1. /\ tally'.active = (tally.active - One(x.counted /\ x.active)) + 0
        /\ tally'.queued = (tally.queued - One(x.counted /\ x.queued)) + 0
        /\ tally'.running = (tally.running - One(x.counted /\ x.running)) + 0
        /\ tally'.ready = (tally.ready - One(x.counted /\ x.ready # {})) + 0
        /\ tally'.bytes = (tally.bytes - x.charge) + 0
        /\ tally'.bytes <= MaxReady
    BY <1>5, <1>7, TallyFields DEF Accounted, One
  <2> QED
    BY <1>1, <1>2, <1>5, <1>6, <2>1, OneObjectTallies DEF Accounted, Sound
<1>9. OpenAreCounted'
  <2> SUFFICES ASSUME NEW p \in Openings
               PROVE  object'[p].counted <=> /\ ~object'[p].closed
                                             /\ \E u \in Sessions : registered'[u] = p
    BY DEF OpenAreCounted
  <2>1. CASE p = o
    BY <2>1, <1>1, <1>2
  <2>2. CASE p # o
    <3>1. object'[p] = object[p]
      BY <2>2, <1>1 DEF Others
    <3>2. \A u \in Sessions : registered'[u] = p <=> registered[u] = p
      BY <2>2, <1>1 DEF Sound, Typed, SourcePoolAssumption
    <3> QED
      BY <3>1, <3>2 DEF Accounted, OpenAreCounted
  <2> QED
    BY <2>1, <2>2
<1>10. ChargesAreOfResults'
  BY <1>1, <1>2 DEF Accounted, ChargesAreOfResults, Others
<1> QED
  BY <1>8, <1>9, <1>10 DEF Accounted

LEMMA SameOwnersAccount ==
    ASSUME OpenAreCounted, ChargesAreOfResults, NEW o \in Openings, Others(o),
           UNCHANGED registered, object'[o].counted = object[o].counted,
           object'[o].closed = object[o].closed,
           object'[o].charge # 0 => object'[o].ready # {}
    PROVE  OpenAreCounted' /\ ChargesAreOfResults'
<1>1. ASSUME NEW p \in Openings
      PROVE  /\ object'[p].counted = object[p].counted /\ object'[p].closed = object[p].closed
             /\ object'[p].charge # 0 => object'[p].ready # {}
  BY DEF Others, ChargesAreOfResults
<1>2. OpenAreCounted'
  BY <1>1 DEF OpenAreCounted
<1> QED
  BY <1>1, <1>2 DEF ChargesAreOfResults

LEMMA SetAuthorityAccounts ==
    ASSUME SourcePoolAssumption, Sound, Accounted, NEW s \in Sessions, NEW o \in Openings,
           NEW t \in Tickets, NEW active \in BOOLEAN, SetAuthority(s, o, t, active)
    PROVE  Accounted'
<1> DEFINE x == object[o]
           y == object'[o]
           kp == {r \in x.pending : active /\ r.ticket = t}
           kr == {r \in x.ready : active /\ r.ticket = t}
           unqueued == x.queued /\ (~active \/ kp # x.pending)
           dropped == kr # x.ready
           z == [x EXCEPT !.authority = t, !.active = active, !.pending = kp, !.ready = kr,
                          !.queued = x.queued /\ ~unqueued,
                          !.charge = IF dropped THEN 0 ELSE x.charge]
<1>1. /\ object' \in [Openings -> ObjectStates] /\ Others(o)
      /\ registered[s] = o /\ UNCHANGED registered
  BY SetAuthorityDoes DEF Sound
<1>2. object' = [object EXCEPT ![o] = z]
  BY DEF SetAuthority
<1>3. x \in ObjectStates /\ object \in [Openings -> ObjectStates]
  BY DEF Sound, Typed
<1>4. tally' = [tally EXCEPT !.active = Less(More(tally.active, active /\ ~x.active), x.active /\ ~active),
                             !.queued = Less(tally.queued, unqueued),
                             !.ready = Less(tally.ready, dropped),
                             !.bytes = IF dropped THEN tally.bytes - x.charge ELSE tally.bytes]
  BY DEF SetAuthority
<1>5. /\ x.counted /\ ~x.closed
  BY OpenIsCounted DEF SetAuthority, Accounted, Open
<1>6. AtMostOne(x.ready)
  BY DEF Sound, ObjectsFit, Fit
<1>7. dropped => x.ready # {} /\ kr = {}
  BY <1>6 DEF AtMostOne
<1>8. ~dropped => kr = x.ready
  OBVIOUS
<1>9. unqueued \in BOOLEAN /\ dropped \in BOOLEAN /\ (unqueued => x.queued)
  BY <1>3 DEF ObjectStates
<1> HIDE DEF kp, kr, unqueued, dropped
<1>10. /\ y.active = active /\ y.counted = x.counted /\ y.running = x.running
       /\ y.closed = x.closed /\ y.ready = kr /\ y.queued = (x.queued /\ ~unqueued)
       /\ y.charge = IF dropped THEN 0 ELSE x.charge
  <2>1. y = z
    BY <1>2, <1>3
  <2> QED
    BY <2>1, <1>3 DEF ObjectStates
<1> HIDE DEF x, y
<1>11. /\ tally.active \in Nat /\ tally.queued \in Nat /\ tally.running \in Nat
       /\ tally.ready \in Nat /\ tally.bytes \in Nat /\ tally.bytes <= MaxReady
       /\ tally \in Tallies
  BY TallyFields DEF Accounted, Tallied
<1>12. Within(tally, x) /\ x.charge \in Nat /\ x.active \in BOOLEAN /\ x.queued \in BOOLEAN
  BY <1>3, EachWithin, FieldsAre DEF Accounted, Sound, x
<1>13. /\ Less(More(tally.active, active /\ ~x.active), x.active /\ ~active) \in Nat
       /\ Less(More(tally.active, active /\ ~x.active), x.active /\ ~active)
            = (tally.active - One(x.counted /\ x.active)) + One(y.counted /\ y.active)
  BY <1>5, <1>10, <1>11, <1>12 DEF Less, More, One, Within
<1>14. /\ Less(tally.queued, unqueued) \in Nat
       /\ Less(tally.queued, unqueued)
            = (tally.queued - One(x.counted /\ x.queued)) + One(y.counted /\ y.queued)
  <2>1. CASE unqueued
    <3>1. x.queued /\ ~y.queued
      BY <2>1, <1>9, <1>10
    <3>2. One(x.counted /\ x.queued) = 1 /\ One(y.counted /\ y.queued) = 0
      BY <3>1, <1>5 DEF One
    <3>3. tally.queued >= 1 /\ Less(tally.queued, unqueued) = tally.queued - 1
      BY <2>1, <3>2, <1>11, <1>12 DEF Less, Within
    <3> QED
      BY <3>2, <3>3, <1>11
  <2>2. CASE ~unqueued
    <3>1. y.queued = x.queued
      BY <2>2, <1>10, <1>12
    <3>2. One(x.counted /\ x.queued) = One(y.counted /\ y.queued) /\ One(x.counted /\ x.queued) \in Nat
      BY <3>1, <1>10 DEF One
    <3>3. Less(tally.queued, unqueued) = tally.queued
      BY <2>2 DEF Less
    <3> QED
      BY <3>2, <3>3, <1>11
  <2> QED
    BY <2>1, <2>2
<1>15. /\ Less(tally.ready, dropped) \in Nat
       /\ Less(tally.ready, dropped)
            = (tally.ready - One(x.counted /\ x.ready # {})) + One(y.counted /\ y.ready # {})
  <2>1. CASE dropped
    BY <2>1, <1>5, <1>7, <1>10, <1>11, <1>12 DEF Less, One, Within
  <2>2. CASE ~dropped
    BY <2>2, <1>5, <1>8, <1>10, <1>11, <1>12 DEF Less, One, Within
  <2> QED
    BY <2>1, <2>2
<1>16. /\ (IF dropped THEN tally.bytes - x.charge ELSE tally.bytes) \in Nat
       /\ (IF dropped THEN tally.bytes - x.charge ELSE tally.bytes)
             = (tally.bytes - x.charge) + y.charge
       /\ (IF dropped THEN tally.bytes - x.charge ELSE tally.bytes) <= MaxReady
  BY <1>10, <1>11, <1>12 DEF Within, SourcePoolAssumption
<1>17. tally.running = (tally.running - One(x.counted /\ x.running)) + One(y.counted /\ y.running)
  BY <1>10, <1>11 DEF One
<1>18. /\ tally' \in Tallies
       /\ tally'.active = (tally.active - One(x.counted /\ x.active)) + One(y.counted /\ y.active)
       /\ tally'.queued = (tally.queued - One(x.counted /\ x.queued)) + One(y.counted /\ y.queued)
       /\ tally'.running = (tally.running - One(x.counted /\ x.running)) + One(y.counted /\ y.running)
       /\ tally'.ready = (tally.ready - One(x.counted /\ x.ready # {})) + One(y.counted /\ y.ready # {})
       /\ tally'.bytes = (tally.bytes - x.charge) + y.charge /\ tally'.bytes <= MaxReady
  <2> DEFINE a == Less(More(tally.active, active /\ ~x.active), x.active /\ ~active)
             q == Less(tally.queued, unqueued)
             d == Less(tally.ready, dropped)
             b == IF dropped THEN tally.bytes - x.charge ELSE tally.bytes
  <2>1. tally' = [tally EXCEPT !.active = a, !.queued = q, !.ready = d, !.bytes = b]
    BY <1>4 DEF x
  <2>2. a \in Nat /\ q \in Nat /\ d \in Nat /\ b \in Nat
    BY <1>13, <1>14, <1>15, <1>16
  <2> HIDE DEF a, q, d, b
  <2>3. /\ tally' \in Tallies /\ tally'.active = a /\ tally'.queued = q
        /\ tally'.running = tally.running /\ tally'.ready = d /\ tally'.bytes = b
    BY <2>1, <2>2, <1>11 DEF Tallies
  <2> QED
    BY <2>3, <1>13, <1>14, <1>15, <1>16, <1>17 DEF a, q, d, b
<1>19. Tallied'
  BY <1>1, <1>18, OneObjectTallies DEF Accounted, Sound, x, y
<1>20. OpenAreCounted' /\ ChargesAreOfResults'
  <2>1. y.charge # 0 => y.ready # {}
    BY <1>8, <1>10 DEF Accounted, ChargesAreOfResults, x
  <2> QED
    BY <1>1, <1>10, <2>1, SameOwnersAccount DEF Accounted, x, y
<1> QED
  BY <1>19, <1>20 DEF Accounted

LEMMA TakeReadyAccounts ==
    ASSUME SourcePoolAssumption, Sound, Accounted, NEW s \in Sessions, NEW o \in Openings,
           TakeReady(s, o)
    PROVE  Accounted'
<1> DEFINE x == object[o]
           y == object'[o]
<1>1. /\ object' \in [Openings -> ObjectStates] /\ Others(o)
      /\ registered[s] = o /\ UNCHANGED registered
  BY TakeReadyDoes DEF Sound
<1>2. x \in ObjectStates /\ object \in [Openings -> ObjectStates]
  BY DEF Sound, Typed
<1>3. /\ y.active = x.active /\ y.counted = x.counted /\ y.running = x.running
      /\ y.closed = x.closed /\ y.ready = {} /\ y.queued = x.queued /\ y.charge = 0
  <2>1. object' = [object EXCEPT ![o] = [x EXCEPT !.ready = {}, !.charge = 0]]
    BY DEF TakeReady
  <2>2. y = [x EXCEPT !.ready = {}, !.charge = 0]
    BY <2>1, <1>2
  <2> QED
    BY <2>2, <1>2 DEF ObjectStates
<1>4. x.ready # {} /\ x.counted
  BY HoldsAreCounted DEF TakeReady, Accounted
<1>5. tally' = [tally EXCEPT !.ready = Less(tally.ready, TRUE), !.bytes = tally.bytes - x.charge]
  BY DEF TakeReady
<1>6. Within(tally, x) /\ x.charge \in Nat
  BY <1>2, EachWithin, FieldsAre DEF Accounted, Sound
<1> HIDE DEF x, y
<1>7. tally \in Tallies /\ MaxReady \in Nat
  BY DEF Accounted, Tallied, SourcePoolAssumption
<1>8. /\ Less(tally.ready, TRUE) \in Nat
      /\ Less(tally.ready, TRUE) = (tally.ready - One(x.counted /\ x.ready # {}))
                                   + One(y.counted /\ y.ready # {})
      /\ tally.bytes - x.charge \in Nat
      /\ tally.bytes - x.charge = (tally.bytes - x.charge) + y.charge
      /\ tally.bytes - x.charge <= MaxReady
  BY <1>3, <1>4, <1>6, <1>7, TallyFields DEF Accounted, Less, One, Within
<1>9. /\ tally' \in Tallies /\ tally'.active = tally.active /\ tally'.queued = tally.queued
      /\ tally'.running = tally.running /\ tally'.ready = Less(tally.ready, TRUE)
      /\ tally'.bytes = tally.bytes - x.charge
  BY <1>5, <1>7, <1>8 DEF Tallies
<1>10. /\ tally.active = (tally.active - One(x.counted /\ x.active)) + One(y.counted /\ y.active)
       /\ tally.queued = (tally.queued - One(x.counted /\ x.queued)) + One(y.counted /\ y.queued)
       /\ tally.running = (tally.running - One(x.counted /\ x.running)) + One(y.counted /\ y.running)
  BY <1>3, TallyFields DEF Accounted, One
<1>11. Tallied'
  <2>1. /\ tally'.active = (tally.active - One(x.counted /\ x.active)) + One(y.counted /\ y.active)
        /\ tally'.queued = (tally.queued - One(x.counted /\ x.queued)) + One(y.counted /\ y.queued)
        /\ tally'.running = (tally.running - One(x.counted /\ x.running)) + One(y.counted /\ y.running)
        /\ tally'.ready = (tally.ready - One(x.counted /\ x.ready # {})) + One(y.counted /\ y.ready # {})
        /\ tally'.bytes = (tally.bytes - x.charge) + y.charge
        /\ tally'.bytes <= MaxReady
    BY <1>8, <1>9, <1>10
  <2>2. Typed /\ Tallied /\ tally' \in Tallies
    BY <1>9 DEF Accounted, Sound
  <2> QED
    BY <1>1, <2>1, <2>2, OneObjectTallies DEF x, y
<1>12. OpenAreCounted' /\ ChargesAreOfResults'
  BY <1>1, <1>3, SameOwnersAccount DEF Accounted, x, y
<1> QED
  BY <1>11, <1>12 DEF Accounted

LEMMA RequestReplacedAccounts ==
    ASSUME SourcePoolAssumption, Sound, Accounted, NEW s \in Sessions, NEW o \in Openings,
           NEW r \in Requests, RequestReplaced(s, o, r)
    PROVE  Accounted'
<1> DEFINE x == object[o]
           y == object'[o]
<1>1. /\ object' \in [Openings -> ObjectStates] /\ Others(o)
      /\ UNCHANGED <<registered, tally>>
  BY RequestReplacedDoes DEF Sound, RequestReplaced
<1>2. x \in ObjectStates /\ object \in [Openings -> ObjectStates]
  BY DEF Sound, Typed
<1>3. /\ y.active = x.active /\ y.counted = x.counted /\ y.running = x.running
      /\ y.closed = x.closed /\ y.ready = x.ready /\ y.queued = x.queued /\ y.charge = x.charge
  <2>1. object' = [object EXCEPT ![o] = [x EXCEPT !.pending = {r}]]
    BY DEF RequestReplaced
  <2>2. y = [x EXCEPT !.pending = {r}]
    BY <2>1, <1>2
  <2> QED
    BY <2>2, <1>2 DEF ObjectStates
<1>4. x.charge \in Nat /\ (x.charge # 0 => x.ready # {})
  BY <1>2, FieldsAre DEF Accounted, ChargesAreOfResults
<1> HIDE DEF x, y
<1>5. /\ tally.active = (tally.active - One(x.counted /\ x.active)) + One(y.counted /\ y.active)
      /\ tally.queued = (tally.queued - One(x.counted /\ x.queued)) + One(y.counted /\ y.queued)
      /\ tally.running = (tally.running - One(x.counted /\ x.running)) + One(y.counted /\ y.running)
      /\ tally.ready = (tally.ready - One(x.counted /\ x.ready # {})) + One(y.counted /\ y.ready # {})
      /\ tally.bytes = (tally.bytes - x.charge) + y.charge
  BY <1>3, <1>4, TallyFields DEF Accounted, One
<1>6. tally \in Tallies /\ tally.bytes <= MaxReady
  BY DEF Accounted, Tallied
<1>7. Tallied'
  BY <1>1, <1>5, <1>6, OneObjectTallies DEF Accounted, Sound, x, y
<1>8. OpenAreCounted' /\ ChargesAreOfResults'
  BY <1>1, <1>3, <1>4, SameOwnersAccount DEF Accounted, x, y
<1> QED
  BY <1>7, <1>8 DEF Accounted

LEMMA RequestAcceptedAccounts ==
    ASSUME SourcePoolAssumption, Sound, Accounted, NEW s \in Sessions, NEW o \in Openings,
           NEW r \in Requests, NEW c \in Callers, RequestAccepted(c, s, o, r)
    PROVE  Accounted'
<1> DEFINE x == object[o]
           y == object'[o]
           enq == QueuedNow(x)
<1>1. /\ object' \in [Openings -> ObjectStates] /\ Others(o)
      /\ UNCHANGED registered
  BY RequestAcceptedDoes DEF Sound
<1>2. x \in ObjectStates /\ object \in [Openings -> ObjectStates]
  BY DEF Sound, Typed
<1>3. /\ y.active = x.active /\ y.counted = x.counted /\ y.running = x.running
      /\ y.closed = x.closed /\ y.ready = x.ready /\ y.queued = (x.queued \/ enq)
      /\ y.charge = x.charge
  <2> DEFINE q == x.queued \/ enq
  <2>1. object' = [object EXCEPT ![o] = [x EXCEPT !.pending = {r}, !.queued = q]]
    BY DEF RequestAccepted
  <2> HIDE DEF q
  <2>2. y = [x EXCEPT !.pending = {r}, !.queued = q]
    BY <2>1, <1>2
  <2>3. /\ y.active = x.active /\ y.counted = x.counted /\ y.running = x.running
        /\ y.closed = x.closed /\ y.ready = x.ready /\ y.queued = q
        /\ y.charge = x.charge
    BY <2>2, <1>2 DEF ObjectStates
  <2> QED
    BY <2>3 DEF q
<1>4. x.charge \in Nat /\ (x.charge # 0 => x.ready # {}) /\ x.queued \in BOOLEAN
  BY <1>2, FieldsAre DEF Accounted, ChargesAreOfResults
<1>5. x.counted
  BY OpenIsCounted DEF RequestAccepted, Admissible, Accounted
<1>6. enq \in BOOLEAN /\ (enq => ~x.queued)
  BY DEF QueuedNow
<1>7. tally' = [tally EXCEPT !.queued = More(tally.queued, enq)]
  BY DEF RequestAccepted
<1> HIDE DEF x, y, enq
<1>8. /\ More(tally.queued, enq) \in Nat
      /\ More(tally.queued, enq)
           = (tally.queued - One(x.counted /\ x.queued)) + One(y.counted /\ y.queued)
  <2>0. tally.queued \in Nat
    BY TallyFields DEF Accounted
  <2>1. CASE enq
    <3>1. ~x.queued /\ y.queued
      BY <2>1, <1>3, <1>6
    <3>2. One(x.counted /\ x.queued) = 0 /\ One(y.counted /\ y.queued) = 1
      BY <3>1, <1>3, <1>5 DEF One
    <3>3. More(tally.queued, enq) = tally.queued + 1
      BY <2>1 DEF More
    <3> QED
      BY <2>0, <3>2, <3>3
  <2>2. CASE ~enq
    <3>1. y.queued = x.queued
      BY <2>2, <1>3, <1>4
    <3>2. One(x.counted /\ x.queued) = One(y.counted /\ y.queued) /\ One(x.counted /\ x.queued) \in Nat
      BY <3>1, <1>3 DEF One
    <3>3. More(tally.queued, enq) = tally.queued
      BY <2>2 DEF More
    <3> QED
      BY <2>0, <3>2, <3>3
  <2> QED
    BY <1>6, <2>1, <2>2
<1>9. /\ tally.active = (tally.active - One(x.counted /\ x.active)) + One(y.counted /\ y.active)
      /\ tally.running = (tally.running - One(x.counted /\ x.running)) + One(y.counted /\ y.running)
      /\ tally.ready = (tally.ready - One(x.counted /\ x.ready # {})) + One(y.counted /\ y.ready # {})
      /\ tally.bytes = (tally.bytes - x.charge) + y.charge
  BY <1>3, <1>4, TallyFields DEF Accounted, One
<1>10. tally \in Tallies /\ tally.bytes <= MaxReady
  BY DEF Accounted, Tallied
<1>11. /\ tally' \in Tallies /\ tally'.active = tally.active
       /\ tally'.queued = More(tally.queued, enq)
       /\ tally'.running = tally.running /\ tally'.ready = tally.ready
       /\ tally'.bytes = tally.bytes
  BY <1>7, <1>8, <1>10 DEF Tallies
<1>12. Tallied'
  BY <1>1, <1>8, <1>9, <1>10, <1>11, OneObjectTallies DEF Accounted, Sound, x, y
<1>13. OpenAreCounted' /\ ChargesAreOfResults'
  BY <1>1, <1>3, <1>4, SameOwnersAccount DEF Accounted, x, y
<1> QED
  BY <1>12, <1>13 DEF Accounted

LEMMA EndRunTouches ==
    ASSUME Sound, NEW w \in Threads, NEW outcomes,
           thread[w].object \in Openings, EndRun(w, outcomes),
           \A a \in outcomes : a.request \in Requests /\ a.charge \in Charges,
           \A a, b \in outcomes : a = b
    PROVE  /\ object' \in [Openings -> ObjectStates] /\ Others(thread[w].object)
           /\ UNCHANGED registered
<1> USE DEF Sound
<1> DEFINE o == thread[w].object
<1>1. /\ object' \in [Openings -> ObjectStates] /\ Others(o) /\ SameObject(o)
      /\ object'[o].authority = object[o].authority /\ object'[o].active = object[o].active
      /\ object'[o].closed = object[o].closed /\ ~object'[o].running
      /\ object'[o].pending = object[o].pending
      /\ \/ object'[o].ready = object[o].ready
         \/ \E a \in outcomes : /\ StillWanted(o, a.request)
                                /\ object'[o].ready = {a.request}
      /\ object'[o].queued = (object[o].queued \/ Again(o))
      /\ queue' = IF Again(o) THEN Pushed(queue, o) ELSE queue
      /\ thread' = ThreadsWoken([thread EXCEPT ![w] = AtPlace("awake")])
      /\ caller' = CallersWoken(caller)
      /\ UNCHANGED <<registered, stopping>>
  BY EndRunDoes
<1> QED
  BY <1>1

LEMMA EndRunAccounts ==
    ASSUME SourcePoolAssumption, Sound, Accounted, NEW w \in Threads, NEW outcomes,
           thread[w].object \in Openings, EndRun(w, outcomes),
           \A a \in outcomes : a.request \in Requests /\ a.charge \in Charges,
           \A a, b \in outcomes : a = b
    PROVE  Accounted'
<1> DEFINE o == thread[w].object
           x == object[o]
           y == object'[o]
           keep == {out \in outcomes : StillWanted(o, out.request) /\ Fits(o, out.charge)}
           rd == IF keep = {} THEN x.ready ELSE {out.request : out \in keep}
           ch == IF keep = {} THEN x.charge ELSE (CHOOSE out \in keep : TRUE).charge
           again == Again(o)
           kept == keep # {}
           full == keep # {} /\ x.ready # {}
           ran == x.running /\ x.counted
           bs == IF keep = {} THEN tally.bytes
                 ELSE tally.bytes - x.charge + (CHOOSE out \in keep : TRUE).charge
           rn == Less(tally.running, ran)
           dn == More(Less(tally.ready, full), kept)
           qn == More(tally.queued, again)
<1>1. /\ object' \in [Openings -> ObjectStates] /\ Others(o) /\ UNCHANGED registered
  BY EndRunTouches
<1>2. x \in ObjectStates /\ object \in [Openings -> ObjectStates]
  BY DEF Sound, Typed
<1>3. tally' = [tally EXCEPT !.running = rn, !.ready = dn, !.bytes = bs, !.queued = qn]
  BY DEF EndRun, Again
<1>4. /\ y.active = x.active /\ y.counted = x.counted /\ ~y.running
      /\ y.closed = x.closed /\ y.ready = rd /\ y.queued = (x.queued \/ again)
      /\ y.charge = ch
  <2> DEFINE q == x.queued \/ again
  <2>1. object' = [object EXCEPT ![o] = [x EXCEPT !.running = FALSE, !.ready = rd,
                                                  !.charge = ch, !.queued = q]]
    BY DEF EndRun, Again
  <2> HIDE DEF q, rd, ch, x, o
  <2>2. y = [x EXCEPT !.running = FALSE, !.ready = rd, !.charge = ch, !.queued = q]
    BY <2>1, <1>2 DEF x, o
  <2>3. /\ y.active = x.active /\ y.counted = x.counted /\ ~y.running
        /\ y.closed = x.closed /\ y.ready = rd /\ y.queued = q
        /\ y.charge = ch
    BY <2>2, <1>2 DEF ObjectStates
  <2> QED
    BY <2>3 DEF q
<1>5. /\ again \in BOOLEAN /\ ran \in BOOLEAN /\ full \in BOOLEAN /\ kept \in BOOLEAN
      /\ again => x.counted /\ ~x.queued
  <2>1. again => x.active /\ ~x.queued
    BY DEF Again
  <2> QED
    BY <2>1, HoldsAreCounted DEF Accounted, Again
<1>6. x.charge \in Nat /\ (x.charge # 0 => x.ready # {}) /\ x.queued \in BOOLEAN
      /\ x.running \in BOOLEAN /\ x.counted \in BOOLEAN
  BY <1>2, FieldsAre DEF Accounted, ChargesAreOfResults
<1>7. Within(tally, x)
  BY EachWithin DEF Accounted, Sound
<1>8. /\ tally.active \in Nat /\ tally.queued \in Nat /\ tally.running \in Nat
      /\ tally.ready \in Nat /\ tally.bytes \in Nat /\ tally.bytes <= MaxReady
      /\ tally \in Tallies /\ MaxReady \in Nat
  BY TallyFields DEF Accounted, Tallied, SourcePoolAssumption
<1>9. /\ dn \in Nat /\ bs \in Nat /\ bs <= MaxReady
      /\ dn = (tally.ready - One(x.counted /\ x.ready # {})) + One(y.counted /\ y.ready # {})
      /\ bs = (tally.bytes - x.charge) + y.charge
      /\ y.charge # 0 => y.ready # {}
  <2>1. CASE keep = {}
    <3>1. rd = x.ready /\ ch = x.charge /\ bs = tally.bytes /\ ~kept /\ ~full
      BY <2>1
    <3>2. dn = tally.ready
      BY <3>1 DEF Less, More
    <3> HIDE DEF dn, bs, rd, ch, keep, x, y
    <3>3. /\ One(x.counted /\ x.ready # {}) = One(y.counted /\ y.ready # {})
          /\ One(x.counted /\ x.ready # {}) \in Nat
      BY <1>4, <3>1 DEF One
    <3> QED
      BY <3>1, <3>2, <3>3, <1>4, <1>6, <1>8
  <2>2. CASE keep # {}
    <3>1. PICK a \in keep : TRUE
      BY <2>2
    <3>2. keep = {a} /\ a \in outcomes
      BY <3>1
    <3>3. StillWanted(o, a.request) /\ Fits(o, a.charge) /\ a.charge \in Charges
      BY <3>1
    <3>4. a.charge \in Nat
      BY <3>3 DEF SourcePoolAssumption
    <3>5. (CHOOSE out \in keep : TRUE) = a
      BY <3>2
    <3>6. ch = a.charge /\ bs = tally.bytes - x.charge + a.charge /\ rd = {a.request}
      BY <2>2, <3>2, <3>5
    <3>7. x.active
      BY <3>3 DEF StillWanted
    <3>8. x.counted
      BY <3>7, HoldsAreCounted DEF Accounted
    <3>9. a.charge <= MaxReady /\ tally.bytes - x.charge <= MaxReady - a.charge
      BY <3>3 DEF Fits
    <3>10. kept = TRUE /\ full = (x.ready # {})
      BY <2>2
    <3> HIDE DEF bs, rd, ch, keep, x, y, full, kept, o
    <3>11. bs \in Nat /\ bs <= MaxReady /\ bs = (tally.bytes - x.charge) + y.charge
      BY <3>4, <3>6, <3>9, <1>4, <1>6, <1>7, <1>8 DEF Within
    <3>12. y.ready # {} /\ y.counted
      BY <1>4, <3>6, <3>8
    <3>13. One(y.counted /\ y.ready # {}) = 1
      BY <3>12 DEF One
    <3>14. One(full) = One(x.counted /\ x.ready # {}) /\ One(full) <= tally.ready
      BY <3>8, <3>10, <1>7 DEF One, Within
    <3>15. Less(tally.ready, full) = tally.ready - One(full) /\ Less(tally.ready, full) \in Nat
      BY <3>14, <1>5, <1>8, LessIs
    <3>16. dn = Less(tally.ready, full) + 1
      BY <3>10 DEF More
    <3> QED
      BY <3>11, <3>12, <3>13, <3>14, <3>15, <3>16
  <2> QED
    BY <2>1, <2>2
<1> HIDE DEF bs, dn, rd, ch, keep, x, y, full, kept, again, o
<1>10. /\ rn \in Nat
       /\ rn = (tally.running - One(x.counted /\ x.running)) + One(y.counted /\ y.running)
  <2>1. One(y.counted /\ y.running) = 0
    BY <1>4 DEF One
  <2>2. One(ran) = One(x.counted /\ x.running) /\ One(ran) <= tally.running /\ One(ran) \in Nat
    BY <1>7 DEF One, Within
  <2>3. rn = tally.running - One(ran) /\ rn \in Nat
    BY <2>2, <1>5, <1>8, LessIs
  <2> HIDE DEF rn, ran
  <2> QED
    BY <2>1, <2>2, <2>3, <1>8
<1>11. /\ qn \in Nat
       /\ qn = (tally.queued - One(x.counted /\ x.queued)) + One(y.counted /\ y.queued)
  <2>1. CASE again
    <3>1. ~x.queued /\ y.queued /\ y.counted
      BY <2>1, <1>4, <1>5
    <3>2. One(x.counted /\ x.queued) = 0 /\ One(y.counted /\ y.queued) = 1
      BY <3>1 DEF One
    <3>3. qn = tally.queued + 1
      BY <2>1 DEF More
    <3> QED
      BY <1>8, <3>2, <3>3
  <2>2. CASE ~again
    <3>1. y.queued = x.queued
      BY <2>2, <1>4, <1>6
    <3>2. One(x.counted /\ x.queued) = One(y.counted /\ y.queued) /\ One(x.counted /\ x.queued) \in Nat
      BY <3>1, <1>4 DEF One
    <3>3. qn = tally.queued
      BY <2>2 DEF More
    <3> QED
      BY <1>8, <3>2, <3>3
  <2> QED
    BY <1>5, <2>1, <2>2
<1>12. tally.active = (tally.active - One(x.counted /\ x.active)) + One(y.counted /\ y.active)
  BY <1>4, <1>8 DEF One
<1> HIDE DEF rn, qn
<1>13. /\ tally' \in Tallies /\ tally'.active = tally.active /\ tally'.queued = qn
       /\ tally'.running = rn /\ tally'.ready = dn /\ tally'.bytes = bs
  <2>1. rn \in Nat /\ dn \in Nat /\ bs \in Nat /\ qn \in Nat /\ tally \in Tallies
    BY <1>8, <1>9, <1>10, <1>11
  <2> QED
    BY <1>3, <2>1 DEF Tallies
<1>14. o \in Openings
  BY DEF o
<1>15. Tallied'
  BY <1>1, <1>9, <1>10, <1>11, <1>12, <1>13, <1>14, OneObjectTallies DEF Accounted, Sound, x, y
<1>16. OpenAreCounted' /\ ChargesAreOfResults'
  BY <1>1, <1>4, <1>9, <1>14, SameOwnersAccount DEF Accounted, x, y
<1> QED
  BY <1>15, <1>16 DEF Accounted

(* Entries are taken off the queue: their objects keep what else they hold.*)
HoldsStay(p) == /\ object'[p].counted = object[p].counted
                /\ object'[p].active = object[p].active
                /\ object'[p].closed = object[p].closed
                /\ object'[p].ready = object[p].ready
                /\ object'[p].charge = object[p].charge

LEMMA HoldsStayTallied ==
    ASSUME SourcePoolAssumption, Typed, Tallied, \A p \in Openings : HoldsStay(p)
    PROVE  /\ SumOf(ActiveOnes', Openings) = tally.active
           /\ SumOf(ReadyOnes', Openings) = tally.ready
           /\ SumOf(ChargeOf', Openings) = tally.bytes
<1>1. IsFiniteSet(Openings)
  BY DEF SourcePoolAssumption
<1>2. /\ Counts(ActiveOnes, Openings) /\ Counts(ReadyOnes, Openings) /\ Counts(ChargeOf, Openings)
  BY OnesAre
<1>3. /\ AgreeOn(ActiveOnes, ActiveOnes', Openings)
      /\ AgreeOn(ReadyOnes, ReadyOnes', Openings)
      /\ AgreeOn(ChargeOf, ChargeOf', Openings)
  BY DEF HoldsStay, AgreeOn, ActiveOnes, ReadyOnes, ChargeOf
<1>4. /\ SumOf(ActiveOnes, Openings) = SumOf(ActiveOnes', Openings)
      /\ SumOf(ReadyOnes, Openings) = SumOf(ReadyOnes', Openings)
      /\ SumOf(ChargeOf, Openings) = SumOf(ChargeOf', Openings)
  <2> DEFINE a == ActiveOnes'
             d == ReadyOnes'
             c == ChargeOf'
  <2> HIDE DEF a, d, c
  <2>1. /\ SumOf(ActiveOnes, Openings) = SumOf(a, Openings)
        /\ SumOf(ReadyOnes, Openings) = SumOf(d, Openings)
        /\ SumOf(ChargeOf, Openings) = SumOf(c, Openings)
    BY <1>1, <1>2, <1>3, SumSame DEF a, d, c
  <2> QED
    BY <2>1 DEF a, d, c
<1> QED
  BY <1>4 DEF Tallied

LEMMA UnqueuedTallied ==
    ASSUME SourcePoolAssumption, Typed, Tallied, NEW G \in SUBSET Openings,
           \A p \in G : object[p].queued,
           \A p \in Openings : /\ object'[p].counted = object[p].counted
                               /\ object'[p].queued = (object[p].queued /\ p \notin G)
    PROVE  /\ Cardinality({p \in G : object[p].counted}) \in Nat
           /\ Cardinality({p \in G : object[p].counted}) <= tally.queued
           /\ SumOf(QueuedOnes', Openings)
                = tally.queued - Cardinality({p \in G : object[p].counted})
<1> DEFINE A == {p \in Openings : object[p].counted /\ object[p].queued}
           B == {p \in G : object[p].counted}
           C == {p \in Openings : object'[p].counted /\ object'[p].queued}
<1>1. IsFiniteSet(Openings)
  BY DEF SourcePoolAssumption
<1>2. B \subseteq A /\ C = A \ B
  OBVIOUS
<1>3. \A p \in Openings : QueuedOnes[p] = IF p \in A THEN 1 ELSE 0
  BY DEF QueuedOnes, One
<1>4. \A p \in Openings : QueuedOnes'[p] = IF p \in C THEN 1 ELSE 0
  BY DEF QueuedOnes, One
<1>5. A \in SUBSET Openings /\ C \in SUBSET Openings
  OBVIOUS
<1> DEFINE q == QueuedOnes'
<1> HIDE DEF A, B, C, q
<1>6. SumOf(QueuedOnes, Openings) = Cardinality(A) /\ SumOf(q, Openings) = Cardinality(C)
  BY <1>1, <1>3, <1>4, <1>5, SumCountsOnes DEF q
<1>7. IsFiniteSet(A) /\ IsFiniteSet(B)
  BY <1>1, <1>2, <1>5, FS_Subset
<1>8. /\ Cardinality(B) \in Nat /\ Cardinality(A) \in Nat /\ Cardinality(B) <= Cardinality(A)
  BY <1>2, <1>7, FS_CardinalityType, FS_Subset
<1>9. A \cap B = B
  BY <1>2
<1>10. Cardinality(C) = Cardinality(A) - Cardinality(B)
  <2>1. Cardinality(A \ B) = Cardinality(A) - Cardinality(A \cap B)
    BY <1>7, FS_Difference
  <2> QED
    BY <1>2, <1>9, <2>1
<1> QED
  BY <1>6, <1>8, <1>10 DEF Tallied, B, q

LEMMA UnqueueIs ==
    ASSUME Sound, NEW n \in 0..Len(queue)
    PROVE  /\ Unqueue(n) \in SUBSET Openings
           /\ \A p \in Unqueue(n) : object[p].queued
<1>1. \A i \in 1..Len(queue) : queue[i].object \in Openings
  BY EntryIs DEF Sound, Typed
<1>2. n \in Nat /\ n <= Len(queue) /\ Len(queue) \in Nat
  BY DEF Sound, Typed
<1> QED
  BY <1>1, <1>2 DEF Unqueue, Current

LEMMA HoldsStayAccounted ==
    ASSUME OpenAreCounted, ChargesAreOfResults, \A p \in Openings : HoldsStay(p),
           UNCHANGED registered
    PROVE  OpenAreCounted' /\ ChargesAreOfResults'
<1>1. OpenAreCounted'
  BY DEF OpenAreCounted, HoldsStay
<1> QED
  BY <1>1 DEF ChargesAreOfResults, HoldsStay

LEMMA SkipAllAccounts ==
    ASSUME SourcePoolAssumption, Sound, Accounted, NEW w \in Threads, SkipAll(w)
    PROVE  Accounted'
<1> DEFINE G == Unqueue(Len(queue))
           k == Cardinality({p \in G : object[p].counted})
           q(p) == object[p].queued /\ p \notin G
<1>1. G \in SUBSET Openings /\ \A p \in G : object[p].queued
  <2>1. Len(queue) \in 0..Len(queue)
    BY DEF Sound, Typed
  <2> QED
    BY <2>1, UnqueueIs
<1>2. object' = [p \in Openings |-> [object[p] EXCEPT !.queued = q(p)]]
  BY DEF SkipAll
<1>3. ASSUME NEW p \in Openings
      PROVE  /\ HoldsStay(p) /\ object'[p].running = object[p].running
             /\ object'[p].queued = (object[p].queued /\ p \notin G)
  <2>1. object[p] \in ObjectStates
    BY DEF Sound, Typed
  <2>2. object'[p] = [object[p] EXCEPT !.queued = q(p)]
    BY <1>2
  <2> HIDE DEF q
  <2>3. object'[p].queued = q(p) /\ HoldsStay(p) /\ object'[p].running = object[p].running
    BY <2>1, <2>2 DEF ObjectStates, HoldsStay
  <2> QED
    BY <2>3 DEF q
<1>4. tally' = [tally EXCEPT !.queued = tally.queued - k] /\ UNCHANGED registered
  BY DEF SkipAll, UnqueuedTally
<1>5. \A p \in Openings : /\ object'[p].counted = object[p].counted
                          /\ object'[p].queued = (object[p].queued /\ p \notin G)
  BY <1>3 DEF HoldsStay
<1>6. /\ k \in Nat /\ k <= tally.queued /\ SumOf(QueuedOnes', Openings) = tally.queued - k
  <2> HIDE DEF G
  <2> QED
    BY <1>1, <1>5, UnqueuedTallied DEF Sound, Accounted
<1> HIDE DEF G, k
<1>7. SumOf(RunningOnes', Openings) = tally.running
  <2>1. \A p \in Openings : RunningOnes'[p] = RunningOnes[p]
    BY <1>3 DEF RunningOnes, HoldsStay
  <2> DEFINE r == RunningOnes'
  <2> HIDE DEF r
  <2>2. Counts(RunningOnes, Openings) /\ AgreeOn(RunningOnes, r, Openings) /\ IsFiniteSet(Openings)
    BY <2>1, OnesAre DEF r, AgreeOn, SourcePoolAssumption, Sound
  <2> QED
    BY <2>2, SumSame DEF r, Accounted, Tallied
<1>8. /\ SumOf(ActiveOnes', Openings) = tally.active
      /\ SumOf(ReadyOnes', Openings) = tally.ready
      /\ SumOf(ChargeOf', Openings) = tally.bytes
  BY <1>3, HoldsStayTallied DEF Sound, Accounted
<1>9. /\ tally' \in Tallies /\ tally'.active = tally.active /\ tally'.queued = tally.queued - k
      /\ tally'.running = tally.running /\ tally'.ready = tally.ready /\ tally'.bytes = tally.bytes
  <2>1. tally \in Tallies /\ tally.queued - k \in Nat
    BY <1>6, TallyFields DEF Accounted, Tallied
  <2> QED
    BY <1>4, <2>1 DEF Tallies
<1>10. Tallied'
  BY <1>6, <1>7, <1>8, <1>9, TallyFields DEF Tallied, Accounted
<1> QED
  BY <1>3, <1>4, <1>10, HoldsStayAccounted DEF Accounted

LEMMA StartRunAccounts ==
    ASSUME SourcePoolAssumption, Sound, Accounted, NEW w \in Threads, NEW n \in DOMAIN queue,
           StartRun(w, n)
    PROVE  Accounted'
<1> DEFINE o == queue[n].object
           G == Unqueue(n)
           k == Cardinality({p \in G : object[p].counted})
           q(p) == object[p].queued /\ p \notin G
           r(p) == object[p].running \/ p = o
           d(p) == IF p = o THEN {} ELSE object[p].pending
<1>0. queue \in Seq(Entries) /\ n \in 1..Len(queue)
  BY DEF Sound, Typed
<1>1. G \in SUBSET Openings /\ \A p \in G : object[p].queued
  <2>1. n \in 0..Len(queue)
    BY <1>0
  <2> QED
    BY <2>1, UnqueueIs
<1>2. object' = [p \in Openings |-> [object[p] EXCEPT !.queued = q(p), !.pending = d(p),
                                                      !.running = r(p)]]
  BY DEF StartRun
<1>3. ASSUME NEW p \in Openings
      PROVE  /\ HoldsStay(p) /\ object'[p].running = (object[p].running \/ p = o)
             /\ object'[p].queued = (object[p].queued /\ p \notin G)
  <2>1. object[p] \in ObjectStates
    BY DEF Sound, Typed
  <2>2. object'[p] = [object[p] EXCEPT !.queued = q(p), !.pending = d(p), !.running = r(p)]
    BY <1>2
  <2> HIDE DEF q, r, d
  <2>3. object'[p].queued = q(p) /\ HoldsStay(p) /\ object'[p].running = r(p)
    BY <2>1, <2>2 DEF ObjectStates, HoldsStay
  <2> QED
    BY <2>3 DEF q, r
<1>4. /\ tally' = [tally EXCEPT !.queued = tally.queued - k,
                                !.running = More(tally.running, object[o].counted)]
      /\ UNCHANGED registered
  <2>1. tally \in Tallies
    BY DEF Accounted, Tallied
  <2>2. tally' = [[tally EXCEPT !.queued = tally.queued - k]
                    EXCEPT !.running = More(@, object[o].counted)]
    BY DEF StartRun, UnqueuedTally
  <2> HIDE DEF k, o
  <2> QED
    BY <2>1, <2>2 DEF StartRun, Tallies
<1>5. \A p \in Openings : /\ object'[p].counted = object[p].counted
                          /\ object'[p].queued = (object[p].queued /\ p \notin G)
  BY <1>3 DEF HoldsStay
<1>6. /\ k \in Nat /\ k <= tally.queued /\ SumOf(QueuedOnes', Openings) = tally.queued - k
  <2> HIDE DEF G
  <2> QED
    BY <1>1, <1>5, UnqueuedTallied DEF Sound, Accounted
<1>7. o \in Openings /\ object[o].queued
  <2>1. queue[n] \in Entries
    BY <1>0
  <2> QED
    BY <2>1 DEF Entries, StartRun, Runnable, Current
<1>8. object[o].counted /\ ~object[o].running
  BY <1>7, HoldsAreCounted DEF Accounted, Sound, ObjectsFit, Fit
<1> HIDE DEF G, k, o
<1>9. SumOf(RunningOnes', Openings) = tally.running + 1
  <2>1. RunningOnes[o] = 0 /\ RunningOnes'[o] = 1
    BY <1>3, <1>7, <1>8 DEF RunningOnes, One, HoldsStay
  <2>2. ASSUME NEW p \in Openings \ {o} PROVE RunningOnes'[p] = RunningOnes[p]
    <3>1. object'[p].running = object[p].running /\ object'[p].counted = object[p].counted
      BY <1>3 DEF HoldsStay, Sound, Typed, ObjectStates
    <3> QED
      BY <3>1 DEF RunningOnes
  <2> DEFINE rs == RunningOnes'
  <2>3. \A p \in Openings : rs[p] \in Nat
    BY <1>3 DEF RunningOnes, One
  <2> HIDE DEF rs
  <2>4. /\ Counts(RunningOnes, Openings) /\ AgreeOn(RunningOnes, rs, Openings \ {o})
        /\ Counts(rs, Openings) /\ IsFiniteSet(Openings)
    BY <2>2, <2>3, OnesAre DEF rs, AgreeOn, Counts, SourcePoolAssumption, Sound
  <2>5. SumOf(rs, Openings) = (SumOf(RunningOnes, Openings) - RunningOnes[o]) + rs[o]
    BY <1>7, <2>4, SumChange
  <2>6. SumOf(RunningOnes, Openings) = tally.running /\ tally.running \in Nat
    BY TallyFields DEF Accounted, Tallied
  <2> QED
    BY <2>1, <2>5, <2>6 DEF rs
<1>10. /\ SumOf(ActiveOnes', Openings) = tally.active
       /\ SumOf(ReadyOnes', Openings) = tally.ready
       /\ SumOf(ChargeOf', Openings) = tally.bytes
  BY <1>3, HoldsStayTallied DEF Sound, Accounted
<1>11. /\ tally' \in Tallies /\ tally'.active = tally.active /\ tally'.queued = tally.queued - k
       /\ tally'.running = tally.running + 1 /\ tally'.ready = tally.ready
       /\ tally'.bytes = tally.bytes
  <2>1. tally \in Tallies /\ tally.queued - k \in Nat /\ tally.running + 1 \in Nat
    BY <1>6, TallyFields DEF Accounted, Tallied
  <2>2. More(tally.running, object[o].counted) = tally.running + 1
    BY <1>8 DEF More
  <2> QED
    BY <1>4, <2>1, <2>2 DEF Tallies
<1>12. Tallied'
  BY <1>6, <1>9, <1>10, <1>11, TallyFields DEF Tallied, Accounted
<1> QED
  BY <1>3, <1>4, <1>12, HoldsStayAccounted DEF Accounted

(* A stop releases the open sessions one after the other, and what is left *)
(* of every counter is nothing.                                            *)
NoTally == [active |-> 0, queued |-> 0, running |-> 0, ready |-> 0, bytes |-> 0]

LEMMA ReleasedType ==
    ASSUME SourcePoolAssumption, NEW n \in Tallies, NEW x \in ObjectStates
    PROVE  Released(n, x) \in Tallies
<1>1. /\ n.active \in Nat /\ n.queued \in Nat /\ n.running \in Nat /\ n.ready \in Nat
      /\ n.bytes \in Nat /\ x.charge \in Nat
  BY FieldsAre DEF Tallies
<1>2. ASSUME NEW m \in Nat, NEW b PROVE Less(m, b) \in Nat
  BY DEF Less
<1> DEFINE e == IF x.charge <= n.bytes THEN n.bytes - x.charge ELSE 0
           a == Less(n.active, x.counted /\ x.active)
           q == Less(n.queued, x.counted /\ x.queued)
           r == Less(n.running, x.counted /\ x.running)
           d == Less(n.ready, x.counted /\ x.ready # {})
<1>3. e \in Nat
  BY <1>1
<1>4. a \in Nat /\ q \in Nat /\ r \in Nat /\ d \in Nat
  BY <1>1, <1>2
<1>5. Released(n, x) = [active |-> a, queued |-> q, running |-> r, ready |-> d, bytes |-> e]
  BY DEF Released
<1> HIDE DEF a, q, r, d, e
<1> QED
  BY <1>3, <1>4, <1>5 DEF Tallies

(* What is left to release when the sessions of s are released already.    *)
LeftOf(open, s) == [active |-> SumOf(ActiveOnes, open \ s), queued |-> SumOf(QueuedOnes, open \ s),
                    running |-> SumOf(RunningOnes, open \ s), ready |-> SumOf(ReadyOnes, open \ s),
                    bytes |-> SumOf(ChargeOf, open \ s)]

LEMMA ReleasingOne ==
    ASSUME SourcePoolAssumption, Typed, NEW open \in SUBSET Openings,
           NEW s \in SUBSET open, NEW p \in s
    PROVE  /\ LeftOf(open, s \ {p}) \in Tallies
           /\ Released(LeftOf(open, s \ {p}), object[p]) = LeftOf(open, s)
<1> DEFINE R == open \ (s \ {p})
           Q == open \ s
           n == LeftOf(open, s \ {p})
           x == object[p]
<1>1. IsFiniteSet(R) /\ IsFiniteSet(Q) /\ p \in R /\ R \ {p} = Q /\ R \in SUBSET Openings
      /\ Q \in SUBSET Openings
  BY FS_Subset DEF SourcePoolAssumption
<1>2. /\ Counts(ActiveOnes, Openings) /\ Counts(QueuedOnes, Openings)
      /\ Counts(RunningOnes, Openings) /\ Counts(ReadyOnes, Openings)
      /\ Counts(ChargeOf, Openings)
  BY OnesAre
<1> HIDE DEF R, Q
<1>3. ASSUME NEW v, Counts(v, Openings)
      PROVE  /\ SumOf(v, R) \in Nat /\ SumOf(v, Q) \in Nat /\ v[p] \in Nat
             /\ SumOf(v, R) = v[p] + SumOf(v, Q)
  <2>1. Counts(v, R) /\ Counts(v, Q)
    BY <1>1, <1>3, CountsOfPart
  <2>2. v[p] \in Nat
    BY <1>1, <2>1 DEF Counts
  <2> QED
    BY <1>1, <2>1, <2>2, SumType, SumRemove
<1>4. /\ ActiveOnes[p] = One(x.counted /\ x.active)
      /\ QueuedOnes[p] = One(x.counted /\ x.queued)
      /\ RunningOnes[p] = One(x.counted /\ x.running)
      /\ ReadyOnes[p] = One(x.counted /\ x.ready # {})
      /\ ChargeOf[p] = x.charge
  BY DEF ActiveOnes, QueuedOnes, RunningOnes, ReadyOnes, ChargeOf
<1>5. /\ n.active = SumOf(ActiveOnes, R) /\ n.queued = SumOf(QueuedOnes, R)
      /\ n.running = SumOf(RunningOnes, R) /\ n.ready = SumOf(ReadyOnes, R)
      /\ n.bytes = SumOf(ChargeOf, R)
  BY DEF LeftOf, R
<1>6. n \in Tallies
  <2>1. /\ SumOf(ActiveOnes, R) \in Nat /\ SumOf(QueuedOnes, R) \in Nat
        /\ SumOf(RunningOnes, R) \in Nat /\ SumOf(ReadyOnes, R) \in Nat
        /\ SumOf(ChargeOf, R) \in Nat
    BY <1>2, <1>3
  <2> QED
    BY <2>1 DEF LeftOf, Tallies, R
<1> HIDE DEF n
<1>7. /\ SumOf(ActiveOnes, R) = ActiveOnes[p] + SumOf(ActiveOnes, Q)
      /\ SumOf(QueuedOnes, R) = QueuedOnes[p] + SumOf(QueuedOnes, Q)
      /\ SumOf(RunningOnes, R) = RunningOnes[p] + SumOf(RunningOnes, Q)
      /\ SumOf(ReadyOnes, R) = ReadyOnes[p] + SumOf(ReadyOnes, Q)
      /\ SumOf(ChargeOf, R) = ChargeOf[p] + SumOf(ChargeOf, Q)
      /\ ActiveOnes[p] \in Nat /\ QueuedOnes[p] \in Nat /\ RunningOnes[p] \in Nat
      /\ ReadyOnes[p] \in Nat /\ ChargeOf[p] \in Nat
      /\ SumOf(ActiveOnes, Q) \in Nat /\ SumOf(QueuedOnes, Q) \in Nat
      /\ SumOf(RunningOnes, Q) \in Nat /\ SumOf(ReadyOnes, Q) \in Nat /\ SumOf(ChargeOf, Q) \in Nat
  BY <1>2, <1>3
<1>8. Within(n, x)
  BY <1>4, <1>5, <1>7 DEF Within
<1>9. x \in ObjectStates
  BY DEF Typed
<1> DEFINE l == Released(n, x)
<1> HIDE DEF l, x
<1>10. /\ l \in Tallies
       /\ l.active = n.active - One(x.counted /\ x.active)
       /\ l.queued = n.queued - One(x.counted /\ x.queued)
       /\ l.running = n.running - One(x.counted /\ x.running)
       /\ l.ready = n.ready - One(x.counted /\ x.ready # {})
       /\ l.bytes = n.bytes - x.charge
  BY <1>6, <1>8, <1>9, ReleasedIs DEF l
<1>11. /\ l.active = SumOf(ActiveOnes, Q) /\ l.queued = SumOf(QueuedOnes, Q)
       /\ l.running = SumOf(RunningOnes, Q) /\ l.ready = SumOf(ReadyOnes, Q)
       /\ l.bytes = SumOf(ChargeOf, Q)
  BY <1>4, <1>5, <1>7, <1>10
<1>12. l = LeftOf(open, s)
  BY <1>10, <1>11 DEF Tallies, LeftOf, Q
<1> QED
  BY <1>6, <1>12 DEF l, n, x

LEMMA ReleasingAll ==
    ASSUME SourcePoolAssumption, Typed, Tallied, NEW open \in SUBSET Openings,
           \A p \in Openings \ open : ~object[p].counted /\ object[p].charge = 0
    PROVE  FoldSet(LAMBDA o, n : Released(n, object[o]), tally, open) = NoTally
<1> DEFINE it == CHOOSE it : it = [s \in SUBSET open |->
                    IF s = {} THEN tally ELSE Released(it[s \ {Pick(s)}], object[Pick(s)])]
           h == [s \in SUBSET open |-> LeftOf(open, s)]
           F == [p \in open \X Tallies |-> Released(p[2], object[p[1]])]
<1>1. FoldSet(LAMBDA o, n : Released(n, object[o]), tally, open) = it[open]
  BY Zenon DEF FoldSet, MapThenFoldSet, Pick
<1>2. IsFiniteSet(open) /\ IsFiniteSet(Openings) /\ tally \in Tallies
  BY FS_Subset DEF SourcePoolAssumption, Tallied
<1>3. /\ Counts(ActiveOnes, Openings) /\ Counts(QueuedOnes, Openings)
      /\ Counts(RunningOnes, Openings) /\ Counts(ReadyOnes, Openings)
      /\ Counts(ChargeOf, Openings)
  BY OnesAre
<1>4. h[{}] = tally
  <2>1. \A p \in Openings \ open : /\ ActiveOnes[p] = 0 /\ QueuedOnes[p] = 0
                                   /\ RunningOnes[p] = 0 /\ ReadyOnes[p] = 0 /\ ChargeOf[p] = 0
    BY DEF ActiveOnes, QueuedOnes, RunningOnes, ReadyOnes, ChargeOf, One
  <2>2. /\ SumOf(ActiveOnes, Openings) = SumOf(ActiveOnes, open)
        /\ SumOf(QueuedOnes, Openings) = SumOf(QueuedOnes, open)
        /\ SumOf(RunningOnes, Openings) = SumOf(RunningOnes, open)
        /\ SumOf(ReadyOnes, Openings) = SumOf(ReadyOnes, open)
        /\ SumOf(ChargeOf, Openings) = SumOf(ChargeOf, open)
    BY <1>2, <1>3, <2>1, SumOfPart
  <2>3. open \ {} = open
    OBVIOUS
  <2>4. h[{}] = [active |-> SumOf(ActiveOnes, open), queued |-> SumOf(QueuedOnes, open),
                 running |-> SumOf(RunningOnes, open), ready |-> SumOf(ReadyOnes, open),
                 bytes |-> SumOf(ChargeOf, open)]
    BY <2>3 DEF LeftOf
  <2> QED
    BY <1>2, <2>2, <2>4 DEF Tallied, Tallies
<1>5. ASSUME NEW s \in SUBSET open, s # {}
      PROVE  /\ h[s \ {Pick(s)}] \in Tallies
             /\ h[s] = Released(h[s \ {Pick(s)}], object[Pick(s)])
  <2>1. Pick(s) \in s /\ s \ {Pick(s)} \in SUBSET open
    BY <1>5, PickIs
  <2> QED
    BY <2>1, ReleasingOne
<1>6. h[open] = NoTally
  <2>1. open \ open = {} /\ open \in SUBSET open
    OBVIOUS
  <2> QED
    BY <2>1, SumEmpty DEF LeftOf, NoTally
<1>7. F \in [open \X Tallies -> Tallies] /\ \A p \in open, n \in Tallies : F[<<p, n>>] = Released(n, object[p])
  BY ReleasedType DEF Typed
<1>8. h = [s \in SUBSET open |-> h[s]]
  OBVIOUS
<1> HIDE DEF h, F
<1>9. h = [s \in SUBSET open |->
             IF s = {} THEN tally ELSE Released(h[s \ {Pick(s)}], object[Pick(s)])]
  BY <1>4, <1>5, <1>8
<1>10. it = [s \in SUBSET open |->
               IF s = {} THEN tally ELSE Released(it[s \ {Pick(s)}], object[Pick(s)])]
  BY <1>9, Zenon
<1> HIDE DEF it
<1>11. Iterates(h, F, tally, open, Tallies)
  BY <1>4, <1>5, <1>7, PickIs DEF Iterates
<1>12. Iterates(it, F, tally, open, Tallies)
  <2>1. it[{}] = tally
    BY <1>10
  <2>2. ASSUME NEW s \in SUBSET open, s # {}, it[s \ {Pick(s)}] \in Tallies
        PROVE  it[s] = F[<<Pick(s), it[s \ {Pick(s)}]>>]
    <3>1. it[s] = Released(it[s \ {Pick(s)}], object[Pick(s)])
      BY <1>10, <2>2
    <3>2. Pick(s) \in open
      BY <2>2, PickIs
    <3> QED
      BY <3>1, <3>2, <2>2, <1>7
  <2> QED
    BY <2>1, <2>2 DEF Iterates
<1>13. it[open] = h[open]
  BY <1>2, <1>7, <1>11, <1>12, FoldsAgree
<1> QED
  BY <1>1, <1>6, <1>13, Zenon

LEMMA NothingTallied ==
    ASSUME SourcePoolAssumption, tally' = NoTally,
           \A p \in Openings : ~object'[p].counted /\ object'[p].charge = 0
    PROVE  Tallied'
<1>1. IsFiniteSet(Openings) /\ MaxReady \in Nat
  BY DEF SourcePoolAssumption
<1>2. ASSUME NEW v, \A p \in Openings : v[p] = 0
      PROVE  SumOf(v, Openings) = 0
  BY <1>1, <1>2, SumOfPart, SumEmpty DEF Counts
<1>3. \A p \in Openings : /\ ActiveOnes'[p] = 0 /\ QueuedOnes'[p] = 0 /\ RunningOnes'[p] = 0
                          /\ ReadyOnes'[p] = 0 /\ ChargeOf'[p] = 0
  BY DEF ActiveOnes, QueuedOnes, RunningOnes, ReadyOnes, ChargeOf, One
<1>4. /\ SumOf(ActiveOnes', Openings) = 0 /\ SumOf(QueuedOnes', Openings) = 0
      /\ SumOf(RunningOnes', Openings) = 0 /\ SumOf(ReadyOnes', Openings) = 0
      /\ SumOf(ChargeOf', Openings) = 0
  <2> DEFINE a == ActiveOnes'
             q == QueuedOnes'
             r == RunningOnes'
             d == ReadyOnes'
             c == ChargeOf'
  <2>1. \A p \in Openings : a[p] = 0 /\ q[p] = 0 /\ r[p] = 0 /\ d[p] = 0 /\ c[p] = 0
    BY <1>3
  <2> HIDE DEF a, q, r, d, c
  <2>2. /\ SumOf(a, Openings) = 0 /\ SumOf(q, Openings) = 0 /\ SumOf(r, Openings) = 0
        /\ SumOf(d, Openings) = 0 /\ SumOf(c, Openings) = 0
    BY <1>2, <2>1
  <2> QED
    BY <2>2 DEF a, q, r, d, c
<1>5. /\ NoTally \in Tallies /\ NoTally.active = 0 /\ NoTally.queued = 0 /\ NoTally.running = 0
      /\ NoTally.ready = 0 /\ NoTally.bytes = 0
  BY DEF NoTally, Tallies
<1> QED
  BY <1>1, <1>4, <1>5 DEF Tallied

LEMMA StopBeginAccounts ==
    ASSUME SourcePoolAssumption, Sound, Accounted, NEW c \in Callers, StopBegin(c)
    PROVE  Accounted'
<1> DEFINE open == {registered[s] : s \in Sessions} \ {None}
<1>1. /\ open \in SUBSET Openings
      /\ \A p \in Openings : p \in open <=> \E s \in Sessions : registered[s] = p
  BY DEF Sound, Typed, SourcePoolAssumption
<1>2. \A p \in Openings \ open : ~object[p].counted /\ object[p].charge = 0
  BY <1>1, HoldsAreCounted DEF Accounted, OpenAreCounted
<1>3. tally' = FoldSet(LAMBDA o, n : Released(n, object[o]), tally, open)
  BY DEF StopBegin
<1>4. /\ \A p \in Openings : object'[p] = IF p \in open THEN Shut(object[p]) ELSE object[p]
      /\ UNCHANGED registered
  BY <1>1 DEF StopBegin
<1> HIDE DEF open
<1>5. FoldSet(LAMBDA o, n : Released(n, object[o]), tally, open) = NoTally
  BY <1>1, <1>2, ReleasingAll DEF Sound, Accounted
<1>6. tally' = NoTally
  BY <1>3, <1>5, Zenon
<1>7. ASSUME NEW p \in Openings
      PROVE  /\ ~object'[p].counted /\ object'[p].charge = 0
             /\ p \in open => object'[p].closed
  <2>1. CASE p \in open
    <3>1. Shut(object[p]).closed /\ ~Shut(object[p]).counted /\ Shut(object[p]).charge = 0
      BY DEF Shut, Sound, Typed, ObjectStates
    <3> QED
      BY <2>1, <3>1, <1>4
  <2>2. CASE p \notin open
    BY <2>2, <1>2, <1>4
  <2> QED
    BY <2>1, <2>2
<1>8. Tallied'
  BY <1>6, <1>7, NothingTallied
<1>9. OpenAreCounted' /\ ChargesAreOfResults'
  BY <1>1, <1>4, <1>7 DEF OpenAreCounted, ChargesAreOfResults
<1> QED
  BY <1>8, <1>9 DEF Accounted

LEMMA StopJoinedAccounts ==
    ASSUME SourcePoolAssumption, Sound, Accounted, NEW c \in Callers, StopJoined(c)
    PROVE  Accounted'
<1>1. stopping
  BY DEF StopJoined, Sound, StopCloses
<1>2. \A p \in Openings : ~object[p].counted /\ object[p].charge = 0
  <2>1. ASSUME NEW p \in Openings, object[p].counted PROVE FALSE
    <3>1. PICK s \in Sessions : registered[s] = p /\ ~object[p].closed
      BY <2>1 DEF Accounted, OpenAreCounted
    <3> QED
      BY <3>1, <1>1 DEF Sound, StopCloses, SourcePoolAssumption
  <2> QED
    BY <2>1, HoldsAreCounted DEF Accounted
<1>3. UNCHANGED object /\ tally' = [k \in DOMAIN tally |-> 0]
      /\ registered' = [s \in Sessions |-> None]
  BY DEF StopJoined
<1>4. tally' = NoTally
  BY <1>3 DEF Accounted, Tallied, Tallies, NoTally
<1>5. Tallied'
  BY <1>2, <1>3, <1>4, NothingTallied
<1>6. OpenAreCounted' /\ ChargesAreOfResults'
  BY <1>2, <1>3 DEF OpenAreCounted, ChargesAreOfResults, SourcePoolAssumption
<1> QED
  BY <1>5, <1>6 DEF Accounted

LEMMA QuietAccounts ==
    ASSUME Accounted, UNCHANGED pool
    PROVE  Accounted'
<1>1. UNCHANGED <<object, registered, tally>>
  BY DEF pool
<1>2. Tallied'
  BY <1>1 DEF Accounted, Tallied, ActiveOnes, QueuedOnes, RunningOnes, ReadyOnes, ChargeOf
<1> QED
  BY <1>1, <1>2 DEF Accounted, OpenAreCounted, ChargesAreOfResults

LEMMA NextAccounts ==
    ASSUME SourcePoolAssumption, Sound, Accounted, [Next]_vars
    PROVE  Accounted'
<1>1. ASSUME NEW s \in Sessions, NEW o \in Openings, SessionCall(s, o)
      PROVE  Accounted'
  BY <1>1, OpenSessionAccounts, SetAuthorityAccounts, CloseSessionAccounts, TakeReadyAccounts,
     RequestReplacedAccounts, RequestAcceptedAccounts DEF SessionCall
<1>2. ASSUME NEW c \in Callers,
             \/ NotifyOne(c) \/ WaitIdle(c) \/ WaitDisturbed(c)
             \/ StopBegin(c) \/ StopNotify(c) \/ StopJoined(c)
      PROVE  Accounted'
  <2>1. ASSUME NotifyOne(c) \/ WaitIdle(c) \/ WaitDisturbed(c) \/ StopNotify(c)
        PROVE  Accounted'
    BY <2>1, QuietAccounts DEF NotifyOne, WaitIdle, WaitDisturbed, StopNotify
  <2> QED
    BY <1>2, <2>1, StopBeginAccounts, StopJoinedAccounts
<1>3. ASSUME NEW w \in Threads, ThreadStep(w) \/ SpuriousWake(w)
      PROVE  Accounted'
  <2>1. ASSUME Suppressed(w) \/ Finished(w)
        PROVE  Accounted'
    <3>1. PICK outcomes : /\ EndRun(w, outcomes)
                          /\ \A a \in outcomes : a.request \in Requests /\ a.charge \in Charges
                          /\ \A a, b \in outcomes : a = b
      BY <2>1, RunEndIs
    <3>2. thread[w].at = "run"
      BY <2>1, RunEndIs
    <3>3. thread[w].object \in Openings
      <4>1. thread[w].object # None /\ thread[w] \in Frames
        BY <3>2 DEF Sound, RunsOwned, Typed
      <4> QED
        BY <4>1 DEF Frames
    <3> QED
      BY <3>1, <3>3, EndRunAccounts
  <2>2. ASSUME Sleep(w) \/ Exit(w) \/ SpuriousWake(w)
        PROVE  Accounted'
    BY <2>2, QuietAccounts DEF Sleep, Exit, SpuriousWake
  <2> QED
    BY <1>3, <2>1, <2>2, SkipAllAccounts, StartRunAccounts DEF ThreadStep
<1>4. CASE UNCHANGED vars
  BY <1>4, QuietAccounts DEF vars
<1> QED
  BY <1>1, <1>2, <1>3, <1>4 DEF Next

LEMMA AccountedAtFirst == ASSUME SourcePoolAssumption, Init PROVE Accounted
<1>1. \A p \in Openings : ~object[p].counted /\ object[p].charge = 0
  BY DEF Init, NoObject
<1>2. tally = NoTally
  BY DEF Init, NoTally
<1>3. OpenAreCounted /\ ChargesAreOfResults
  BY <1>1 DEF Init, OpenAreCounted, ChargesAreOfResults, SourcePoolAssumption
<1>4. Tallied
  <2>1. IsFiniteSet(Openings) /\ MaxReady \in Nat
    BY DEF SourcePoolAssumption
  <2>2. ASSUME NEW v, \A p \in Openings : v[p] = 0
        PROVE  SumOf(v, Openings) = 0
    BY <2>1, <2>2, SumOfPart, SumEmpty DEF Counts
  <2>3. \A p \in Openings : /\ ActiveOnes[p] = 0 /\ QueuedOnes[p] = 0 /\ RunningOnes[p] = 0
                            /\ ReadyOnes[p] = 0 /\ ChargeOf[p] = 0
    BY <1>1 DEF ActiveOnes, QueuedOnes, RunningOnes, ReadyOnes, ChargeOf, One
  <2>4. /\ SumOf(ActiveOnes, Openings) = 0 /\ SumOf(QueuedOnes, Openings) = 0
        /\ SumOf(RunningOnes, Openings) = 0 /\ SumOf(ReadyOnes, Openings) = 0
        /\ SumOf(ChargeOf, Openings) = 0
    BY <2>2, <2>3
  <2> QED
    BY <1>2, <2>1, <2>4 DEF Tallied, NoTally, Tallies
<1> QED
  BY <1>3, <1>4 DEF Accounted

(* What is counted by hand is what a scan would count.                     *)
LEMMA AccountedIsExact ==
    ASSUME SourcePoolAssumption, Sound, Accounted
    PROVE  CountersExact
<1>1. IsFiniteSet(Openings) /\ Registered \in SUBSET Openings
  BY DEF SourcePoolAssumption, Registered
<1>2. \A p \in Openings : object[p].counted \/ object[p].charge # 0 => p \in Registered
  BY HoldsAreCounted DEF Accounted, OpenAreCounted, Registered
<1> DEFINE A == {p \in Registered : object[p].counted /\ object[p].active}
           Q == {p \in Registered : object[p].counted /\ object[p].queued}
           R == {p \in Registered : object[p].counted /\ object[p].running}
           D == {p \in Registered : object[p].counted /\ object[p].ready # {}}
<1>3. \A p \in Openings : /\ ActiveOnes[p] = IF p \in A THEN 1 ELSE 0
                          /\ QueuedOnes[p] = IF p \in Q THEN 1 ELSE 0
                          /\ RunningOnes[p] = IF p \in R THEN 1 ELSE 0
                          /\ ReadyOnes[p] = IF p \in D THEN 1 ELSE 0
  BY <1>2 DEF ActiveOnes, QueuedOnes, RunningOnes, ReadyOnes, One
<1>4. A \in SUBSET Openings /\ Q \in SUBSET Openings /\ R \in SUBSET Openings /\ D \in SUBSET Openings
  BY <1>1
<1>5. /\ SumOf(ActiveOnes, Openings) = Cardinality(A) /\ SumOf(QueuedOnes, Openings) = Cardinality(Q)
      /\ SumOf(RunningOnes, Openings) = Cardinality(R) /\ SumOf(ReadyOnes, Openings) = Cardinality(D)
  <2> HIDE DEF A, Q, R, D
  <2> QED
    BY <1>1, <1>3, <1>4, SumCountsOnes
<1>6. FoldSet(LAMBDA o, n : object[o].charge + n, 0, Registered) = SumOf(ChargeOf, Openings)
  <2> DEFINE it == CHOOSE it : it = [s \in SUBSET Registered |->
                      IF s = {} THEN 0 ELSE object[Pick(s)].charge + it[s \ {Pick(s)}]]
             g == Summed(ChargeOf, Registered)
  <2>1. FoldSet(LAMBDA o, n : object[o].charge + n, 0, Registered) = it[Registered]
    BY Zenon DEF FoldSet, MapThenFoldSet, Pick
  <2>2. Counts(ChargeOf, Openings)
    BY OnesAre DEF Sound
  <2>3. Counts(ChargeOf, Registered) /\ IsFiniteSet(Registered)
    BY <1>1, <2>2, FS_Subset, CountsOfPart
  <2>4. Sums(g, ChargeOf, Registered)
    BY <2>3, SummedIs
  <2>5. \A s \in SUBSET Registered : s # {} => ChargeOf[Pick(s)] = object[Pick(s)].charge
    BY <1>1, PickIs DEF ChargeOf
  <2> HIDE DEF g
  <2>6. g = [s \in SUBSET Registered |->
               IF s = {} THEN 0 ELSE object[Pick(s)].charge + g[s \ {Pick(s)}]]
    BY <2>4, <2>5 DEF Sums
  <2>7. it = [s \in SUBSET Registered |->
                IF s = {} THEN 0 ELSE object[Pick(s)].charge + it[s \ {Pick(s)}]]
    BY <2>6, Zenon
  <2> HIDE DEF it
  <2>8. Adds(it, ChargeOf, Registered)
    BY <2>5, <2>7 DEF Adds
  <2>9. it[Registered] = SumOf(ChargeOf, Registered)
    BY <2>3, <2>8, SumIs
  <2>10. \A p \in Openings \ Registered : ChargeOf[p] = 0
    BY <1>2 DEF ChargeOf
  <2>11. SumOf(ChargeOf, Openings) = SumOf(ChargeOf, Registered)
    BY <1>1, <2>2, <2>10, SumOfPart
  <2> QED
    BY <2>1, <2>9, <2>11, Zenon
<1>7. /\ tally.active = Cardinality(A) /\ tally.queued = Cardinality(Q)
      /\ tally.running = Cardinality(R) /\ tally.ready = Cardinality(D)
      /\ tally.bytes = SumOf(ChargeOf, Openings) /\ tally.bytes <= MaxReady
  BY <1>5 DEF Accounted, Tallied
<1>8. tally.bytes = FoldSet(LAMBDA o, n : object[o].charge + n, 0, Registered)
  BY <1>6, <1>7, Zenon
<1> QED
  BY <1>7, <1>8, Zenon DEF CountersExact

(* The counters that status() reports are what a scan of the open sessions *)
(* would find, on every one of the dozen paths that count up or down.      *)
THEOREM CountersAreExact == ASSUME SourcePoolAssumption PROVE Spec => []CountersExact
<1>1. Init => Sound /\ Accounted
  BY SoundAtFirst, AccountedAtFirst
<1>2. Sound /\ Accounted /\ [Next]_vars => Sound' /\ Accounted'
  BY NextKeepsSound, NextAccounts
<1>3. Sound /\ Accounted => CountersExact
  BY AccountedIsExact
<1> QED
  BY <1>1, <1>2, <1>3, PTL DEF Spec
------------------------------------------------------------------------------
(* The single prefetch worker, for any calling threads, tickets and        *)
(* windows; its three variables that the pool has too are renamed.         *)
VARIABLES authority, pending, ready, inHand, halted, worker, client
Single == INSTANCE SourcePrefetch
            WITH stopping <- halted, thread <- worker, caller <- client

(* What the places of a call are called.                                   *)
LEMMA WokenType ==
    ASSUME NEW cs \in [Callers -> Single!CallerPlaces]
    PROVE  Single!Woken(cs) \in [Callers -> Single!CallerPlaces]
BY DEF Single!Woken, Single!CallerPlaces

(* One thread, one request in each place, and what is pending or ready is  *)
(* of the ticket in force, whatever the callers do.                        *)
THEOREM PrefetchTypeCorrect ==
    ASSUME Single!SourcePrefetchAssumption
    PROVE Single!Spec => []Single!WorkerTypeOK
<1>1. Single!Init => Single!WorkerTypeOK
  <2> SUFFICES ASSUME Single!Init PROVE Single!WorkerTypeOK
    OBVIOUS
  <2>1. authority \in Single!Tickets
    BY DEF Single!Init, Single!SourcePrefetchAssumption, Single!Tickets
  <2>2. \A S \in {pending, ready, inHand} : S \subseteq Single!Requests /\ Single!AtMostOne(S)
    BY DEF Single!Init, Single!AtMostOne
  <2>3. client \in [Callers -> Single!CallerPlaces]
    BY DEF Single!Init, Single!CallerPlaces
  <2> QED
    BY <2>1, <2>2, <2>3 DEF Single!Init, Single!WorkerTypeOK, Single!ThreadPlaces
<1>2. Single!WorkerTypeOK /\ [Single!Next]_(Single!vars) => Single!WorkerTypeOK'
  <2> SUFFICES ASSUME Single!WorkerTypeOK, [Single!Next]_(Single!vars)
               PROVE  Single!WorkerTypeOK'
    OBVIOUS
  <2> USE DEF Single!WorkerTypeOK, Single!ThreadPlaces, Single!CallerPlaces,
         Single!AtMostOne, Single!held, Single!Goto
  <2>1. ASSUME NEW c \in Callers, NEW t \in Single!Tickets, Single!SetAuthority(c, t)
        PROVE  Single!WorkerTypeOK'
    BY <2>1 DEF Single!SetAuthority, Single!OfTicket
  <2>2. ASSUME NEW c \in Callers, NEW r \in Single!Requests, Single!Request(c, r)
        PROVE  Single!WorkerTypeOK'
    BY <2>2 DEF Single!Request, Single!Admissible
  <2>3. CASE Single!TakeReady
    BY <2>3 DEF Single!TakeReady
  <2>4. ASSUME NEW c \in Callers, Single!NotifyWork(c) PROVE Single!WorkerTypeOK'
    BY <2>4 DEF Single!NotifyWork, Single!ThreadWoken
  <2>5. ASSUME NEW c \in Callers, Single!NotifyIdle(c) PROVE Single!WorkerTypeOK'
    <3>1. client' \in [Callers -> Single!CallerPlaces]
      BY <2>5, WokenType DEF Single!NotifyIdle
    <3> QED
      BY <2>5, <3>1 DEF Single!NotifyIdle
  <2>6. ASSUME NEW c \in Callers,
               Single!WaitIdle(c) \/ Single!WaitDisturbed(c) PROVE Single!WorkerTypeOK'
    BY <2>6 DEF Single!WaitIdle, Single!WaitDisturbed
  <2>7. ASSUME NEW c \in Callers, Single!Stop(c) PROVE Single!WorkerTypeOK'
    BY <2>7 DEF Single!Stop
  <2>8. ASSUME NEW c \in Callers, Single!StopNotify(c) PROVE Single!WorkerTypeOK'
    <3>1. client' \in [Callers -> Single!CallerPlaces]
      BY <2>8, WokenType DEF Single!StopNotify
    <3> QED
      BY <2>8, <3>1 DEF Single!StopNotify, Single!ThreadWoken
  <2>9. ASSUME NEW c \in Callers, Single!StopJoined(c) PROVE Single!WorkerTypeOK'
    BY <2>9 DEF Single!StopJoined
  <2>10. CASE Single!Sleep \/ Single!SpuriousWake
    BY <2>10 DEF Single!Sleep, Single!SpuriousWake
  <2>11. CASE Single!StartRun
    BY <2>11 DEF Single!StartRun
  <2>12. CASE Single!EndRun
    <3>1. client' \in [Callers -> Single!CallerPlaces]
      BY <2>12, WokenType DEF Single!EndRun
    <3>2. \A r \in ready' : r.ticket = authority
      BY <2>12 DEF Single!EndRun, Single!Deliverable
    <3> QED
      BY <2>12, <3>1, <3>2 DEF Single!EndRun
  <2>13. CASE Single!Exit
    <3>1. client' \in [Callers -> Single!CallerPlaces]
      BY <2>13, WokenType DEF Single!Exit
    <3> QED
      BY <2>13, <3>1 DEF Single!Exit
  <2>14. CASE UNCHANGED Single!vars
    BY <2>14 DEF Single!vars
  <2> QED
    BY <2>1, <2>2, <2>3, <2>4, <2>5, <2>6, <2>7, <2>8, <2>9, <2>10, <2>11,
       <2>12, <2>13, <2>14 DEF Single!Next, Single!ThreadStep
<1> QED
  BY <1>1, <1>2, PTL DEF Single!Spec

(* Why a pending request has a thread: stopping leaves nothing pending,    *)
(* and the thread is there from the first request on until it stops.       *)
ThreadIsThere == /\ halted => pending = {}
                 /\ worker = "unborn" => pending = {}
                 /\ worker = "exited" => halted

(* No request is left behind a sleeping thread, and nobody sleeps on in    *)
(* wait_idle_for when there is nothing left to wait for.                   *)
THEOREM PrefetchForgetsNothing ==
    ASSUME Single!SourcePrefetchAssumption
    PROVE  Single!Spec => []Single!NothingForgotten
<1> DEFINE IInv == ThreadIsThere /\ Single!NoRequestForgotten /\ Single!NoSleepThroughIdle
<1>0. IInv => Single!NothingForgotten
  BY DEF Single!NothingForgotten
<1>1. Single!Init => IInv
  BY DEF Single!Init, ThreadIsThere, Single!NoRequestForgotten,
         Single!NoSleepThroughIdle
<1>2. Single!WorkerTypeOK /\ IInv /\ [Single!Next]_(Single!vars) => IInv'
  <2> SUFFICES ASSUME Single!WorkerTypeOK, IInv, [Single!Next]_(Single!vars)
               PROVE  IInv'
    OBVIOUS
  <2>t. /\ worker \in Single!ThreadPlaces /\ client \in [Callers -> Single!CallerPlaces]
        /\ halted \in BOOLEAN /\ (inHand # {} <=> worker = "run")
    BY DEF Single!WorkerTypeOK
  <2> USE <2>t DEF ThreadIsThere, Single!NoRequestForgotten,
         Single!NoSleepThroughIdle, Single!Busy,
                   Single!ThreadPlaces, Single!CallerPlaces, Single!held, Single!Goto
  <2>1. ASSUME NEW c \in Callers, NEW t \in Single!Tickets, Single!SetAuthority(c,
               t) PROVE IInv'
    BY <2>1 DEF Single!SetAuthority, Single!OfTicket
  <2>2. ASSUME NEW c \in Callers, NEW r \in Single!Requests, Single!Request(c,
               r) PROVE IInv'
    BY <2>2 DEF Single!Request, Single!Admissible
  <2>3. CASE Single!TakeReady
    BY <2>3 DEF Single!TakeReady
  <2>4. ASSUME NEW c \in Callers, Single!NotifyWork(c) PROVE IInv'
    BY <2>4 DEF Single!NotifyWork, Single!ThreadWoken
  <2>5. ASSUME NEW c \in Callers, Single!NotifyIdle(c) PROVE IInv'
    BY <2>5 DEF Single!NotifyIdle, Single!Woken
  <2>6. ASSUME NEW c \in Callers,
               Single!WaitIdle(c) \/ Single!WaitDisturbed(c) PROVE IInv'
    BY <2>6 DEF Single!WaitIdle, Single!WaitDisturbed
  <2>7. ASSUME NEW c \in Callers, Single!Stop(c) PROVE IInv'
    BY <2>7 DEF Single!Stop
  <2>8. ASSUME NEW c \in Callers, Single!StopNotify(c) PROVE IInv'
    BY <2>8 DEF Single!StopNotify, Single!ThreadWoken, Single!Woken
  <2>9. ASSUME NEW c \in Callers, Single!StopJoined(c) PROVE IInv'
    BY <2>9 DEF Single!StopJoined
  <2>10. CASE Single!Sleep \/ Single!SpuriousWake
    BY <2>10 DEF Single!Sleep, Single!SpuriousWake
  <2>11. CASE Single!StartRun
    BY <2>11 DEF Single!StartRun
  <2>12. CASE Single!EndRun
    BY <2>12 DEF Single!EndRun, Single!Woken
  <2>13. CASE Single!Exit
    BY <2>13 DEF Single!Exit, Single!Woken
  <2>14. CASE UNCHANGED Single!vars
    BY <2>14 DEF Single!vars
  <2> QED
    BY <2>1, <2>2, <2>3, <2>4, <2>5, <2>6, <2>7, <2>8, <2>9, <2>10, <2>11,
       <2>12, <2>13, <2>14 DEF Single!Next, Single!ThreadStep
<1> QED
  BY <1>0, <1>1, <1>2, PrefetchTypeCorrect, PTL DEF Single!Spec

(* A request in hand was asked under a ticket that is in force or was.     *)
HandIsOld == \A r \in inHand : r.ticket <= authority

LEMMA HandStaysOld ==
    ASSUME Single!SourcePrefetchAssumption
    PROVE  Single!Spec => []HandIsOld
<1>1. Single!Init => HandIsOld
  BY DEF Single!Init, HandIsOld
<1>2. Single!WorkerTypeOK /\ HandIsOld /\ [Single!Next]_(Single!vars) => HandIsOld'
  <2> SUFFICES ASSUME Single!WorkerTypeOK, HandIsOld, [Single!Next]_(Single!vars)
               PROVE  HandIsOld'
    OBVIOUS
  <2>t. /\ authority \in Nat
        /\ \A r \in pending : r.ticket = authority
        /\ \A r \in inHand : r.ticket \in Nat
    BY DEF Single!WorkerTypeOK, Single!SourcePrefetchAssumption, Single!Tickets, Single!Requests
  <2>1. ASSUME NEW c \in Callers, NEW t \in Single!Tickets, Single!SetAuthority(c, t)
        PROVE  HandIsOld'
    <3>1. t \in Nat
      BY DEF Single!SourcePrefetchAssumption, Single!Tickets
    <3> QED
      BY <2>1, <2>t, <3>1 DEF Single!SetAuthority, HandIsOld
  <2>2. CASE Single!StartRun
    BY <2>2, <2>t DEF Single!StartRun, HandIsOld
  <2>3. CASE Single!EndRun
    BY <2>3 DEF Single!EndRun, HandIsOld
  <2>4. CASE UNCHANGED <<authority, inHand>>
    BY <2>4 DEF HandIsOld
  <2>5. \/ UNCHANGED <<authority, inHand>>
        \/ \E c \in Callers, t \in Single!Tickets : Single!SetAuthority(c, t)
        \/ Single!StartRun \/ Single!EndRun
    BY DEF Single!Next, Single!ThreadStep, Single!vars, Single!held, Single!Request,
           Single!TakeReady, Single!NotifyWork, Single!NotifyIdle, Single!WaitIdle,
           Single!WaitDisturbed, Single!Stop, Single!StopNotify, Single!StopJoined,
           Single!Sleep, Single!Exit, Single!SpuriousWake
  <2> QED
    BY <2>1, <2>2, <2>3, <2>4, <2>5
<1> QED
  BY <1>1, <1>2, PrefetchTypeCorrect, PTL DEF Single!Spec

(* What the page sees of the worker.                                       *)
page == <<authority, halted, Single!Owed, ready>>

LEMMA QuietPage ==
    ASSUME UNCHANGED page
    PROVE  UNCHANGED Single!Promise!vars
BY DEF page, Single!Promise!vars

LEMMA SetAuthorityOnPage ==
    ASSUME Single!SourcePrefetchAssumption, Single!WorkerTypeOK, HandIsOld,
           NEW c \in Callers, NEW t \in Single!Tickets, Single!SetAuthority(c, t)
    PROVE  \E show \in BOOLEAN : Single!Promise!Authorize("page", t, show)
<1>1. /\ authority' = t /\ halted' = halted /\ inHand' = inHand
      /\ pending' = {r \in pending : r.ticket = t}
      /\ ready' = {r \in ready : r.ticket = t}
      /\ t > authority
  BY DEF Single!SetAuthority, Single!OfTicket
<1>2. /\ t \in Nat /\ authority \in Nat
      /\ \A r \in pending \cup ready : r.ticket = authority
      /\ \A r \in inHand : r.ticket \in Nat /\ r.ticket <= authority
      /\ halted \in BOOLEAN
  BY DEF Single!WorkerTypeOK, Single!SourcePrefetchAssumption, Single!Tickets,
         Single!Requests, HandIsOld
<1>3. pending' = {} /\ ready' = {}
  BY <1>1, <1>2
<1>4. \A r \in inHand : r.ticket # t
  BY <1>1, <1>2
<1>5. (Single!Owed)' = {}
  BY <1>1, <1>3, <1>4 DEF Single!Owed, Single!OfTicket
<1>6. {r \in Single!Owed : r.ticket = t} = {} /\ {r \in ready : r.ticket = t} = {}
  BY <1>1, <1>2, <1>4 DEF Single!Owed, Single!OfTicket
<1> DEFINE o == Single!Owed
           on == (Single!Owed)'
<1> HIDE DEF o, on
<1>7. on = {} /\ {r \in o : r.ticket = t} = {}
  BY <1>5, <1>6 DEF o, on
<1>8. ASSUME halted PROVE Single!Promise!Authorize("page", t, FALSE)
  BY <1>1, <1>3, <1>5, <1>8 DEF Single!Promise!Authorize
<1>9. ASSUME ~halted PROVE Single!Promise!Authorize("page", t, TRUE)
  BY <1>1, <1>3, <1>5, <1>6, <1>9 DEF Single!Promise!Authorize
<1> QED
  BY <1>8, <1>9

LEMMA RequestOnPage ==
    ASSUME NEW c \in Callers, NEW r \in Single!Requests, Single!Request(c, r)
    PROVE  Single!Promise!Ask("page", r)
<1> DEFINE running == Single!OfTicket(inHand, authority)
           replaced == pending \ running
<1>1. /\ ~halted /\ r.ticket = authority
      /\ pending' = {r} /\ UNCHANGED <<authority, ready, halted, inHand>>
  BY DEF Single!Request, Single!Admissible
<1>2. Single!Owed = pending \cup running /\ (Single!Owed)' = {r} \cup running
  BY <1>1 DEF Single!Owed, Single!OfTicket
<1>3. replaced \in SUBSET Single!Owed /\ (Single!Owed)' = (Single!Owed \ replaced) \cup {r}
  BY <1>2
<1> QED
  BY <1>1, <1>3 DEF Single!Promise!Ask

LEMMA EndRunOnPage ==
    ASSUME Single!WorkerTypeOK, Single!EndRun
    PROVE  \/ UNCHANGED page
           \/ \E r \in Single!Requests :
                Single!Promise!Answer("page", r) \/ Single!Promise!GiveUp("page", r)
<1>1. /\ inHand' = {} /\ UNCHANGED <<authority, halted>>
      /\ ready' = IF \A r \in inHand : Single!Deliverable(r) THEN inHand ELSE ready
      /\ pending' = IF halted THEN {} ELSE pending
      /\ worker = "run"
  BY DEF Single!EndRun
<1>2. PICK r \in Single!Requests : inHand = {r}
  BY <1>1 DEF Single!WorkerTypeOK, Single!AtMostOne
<1>3. CASE halted
  BY <1>1, <1>2, <1>3 DEF Single!Owed, Single!Deliverable, page
<1>4. CASE ~halted /\ r.ticket # authority
  BY <1>1, <1>2, <1>4 DEF Single!Owed, Single!Deliverable, Single!OfTicket, page
<1>5. CASE ~halted /\ r.ticket = authority
  <2>1. Single!Owed = pending \cup {r} /\ (Single!Owed)' = pending
    BY <1>1, <1>2, <1>5 DEF Single!Owed, Single!OfTicket
  <2>2. (Single!Owed)' = Single!Owed \/ (Single!Owed)' = Single!Owed \ {r}
    BY <2>1
  <2>3. CASE Single!Deliverable(r)
    <3>1. ready' = {r}
      BY <1>1, <1>2, <2>3
    <3> QED
      BY <1>1, <1>5, <2>1, <2>2, <3>1 DEF Single!Promise!Answer
  <2>4. CASE ~Single!Deliverable(r)
    <3>1. ready' = ready
      BY <1>1, <1>2, <2>4
    <3>2. CASE (Single!Owed)' = Single!Owed
      BY <1>1, <3>1, <3>2 DEF page
    <3>3. CASE (Single!Owed)' = Single!Owed \ {r}
      BY <1>1, <3>1, <3>3 DEF Single!Promise!GiveUp
    <3> QED
      BY <2>2, <3>2, <3>3
  <2> QED
    BY <2>3, <2>4
<1> QED
  BY <1>3, <1>4, <1>5

LEMMA StopOnPage ==
    ASSUME Single!WorkerTypeOK, NEW c \in Callers, Single!Stop(c)
    PROVE  Single!Promise!Stop
<1>1. halted' = TRUE /\ UNCHANGED <<authority, ready>>
  BY DEF Single!Stop
<1>2. (Single!Owed)' = {}
  BY <1>1 DEF Single!Owed
<1>3. authority' \in Single!Tickets
  BY <1>1 DEF Single!WorkerTypeOK
<1> QED
  BY <1>1, <1>2, <1>3 DEF Single!Promise!Stop, Single!Promise!Nothing

(* The single worker keeps the promise of speculative reading as the pool  *)
(* does: a result is delivered only under the ticket its request was made  *)
(* with, also when the ticket changed while the thread was reading.        *)
THEOREM WorkerKeepsPrefetchPromise ==
    ASSUME Single!SourcePrefetchAssumption
    PROVE  Single!Spec => Single!PrefetchKeepsPromise
<1>1. Single!Init => Single!Promise!Init
  <2> SUFFICES ASSUME Single!Init PROVE Single!Promise!Init
    OBVIOUS
  <2>1. /\ authority = 0 /\ halted = FALSE /\ ready = {} /\ Single!Owed = {}
    BY DEF Single!Init, Single!Owed, Single!OfTicket
  <2>2. 0 \in Single!Tickets
    BY DEF Single!SourcePrefetchAssumption, Single!Tickets
  <2> QED
    BY <2>1, <2>2 DEF Single!Promise!Init, Single!Promise!Nothing
<1>2. Single!WorkerTypeOK /\ HandIsOld /\ [Single!Next]_(Single!vars)
        => [Single!Promise!Next]_(Single!Promise!vars)
  <2> SUFFICES ASSUME Single!WorkerTypeOK, HandIsOld, [Single!Next]_(Single!vars)
               PROVE  Single!Promise!Next \/ UNCHANGED Single!Promise!vars
    OBVIOUS
  <2>1. ASSUME NEW c \in Callers, NEW t \in Single!Tickets, Single!SetAuthority(c, t)
        PROVE  Single!Promise!Next
    BY <2>1, SetAuthorityOnPage DEF Single!Promise!Next
  <2>2. ASSUME NEW c \in Callers, NEW r \in Single!Requests, Single!Request(c, r)
        PROVE  Single!Promise!Next
    BY <2>2, RequestOnPage DEF Single!Promise!Next
  <2>3. ASSUME NEW c \in Callers, Single!Stop(c) PROVE Single!Promise!Next
    BY <2>3, StopOnPage DEF Single!Promise!Next
  <2>4. CASE Single!EndRun
    BY <2>4, EndRunOnPage, QuietPage DEF Single!Promise!Next
  <2>5. CASE Single!TakeReady
    <3>1. ready' = {} /\ UNCHANGED <<authority, halted, Single!Owed>>
      BY <2>5 DEF Single!TakeReady, Single!Owed, Single!OfTicket
    <3>2. Single!Promise!Collect("page")
      BY <3>1 DEF Single!Promise!Collect
    <3> QED
      BY <3>2 DEF Single!Promise!Next
  <2>6. CASE Single!StartRun
    <3>1. /\ ~halted /\ inHand = {} /\ inHand' = pending /\ pending' = {}
          /\ UNCHANGED <<authority, ready, halted>>
      BY <2>6 DEF Single!StartRun, Single!WorkerTypeOK
    <3>2. {r \in pending : r.ticket = authority} = pending
      BY DEF Single!WorkerTypeOK
    <3>3. (Single!Owed)' = Single!Owed
      BY <3>1, <3>2 DEF Single!Owed, Single!OfTicket
    <3> QED
      BY <3>1, <3>3, QuietPage DEF page
  <2>7. CASE Single!Exit
    <3>1. UNCHANGED page
      BY <2>7 DEF Single!Exit, Single!Owed, page
    <3> QED
      BY <3>1, QuietPage
  <2>8. CASE UNCHANGED <<Single!held, inHand>>
    <3>1. UNCHANGED page
      BY <2>8 DEF Single!held, Single!Owed, Single!OfTicket, page
    <3> QED
      BY <3>1, QuietPage
  <2>9. \/ \E c \in Callers : \/ \E t \in Single!Tickets : Single!SetAuthority(c, t)
                              \/ \E r \in Single!Requests : Single!Request(c, r)
                              \/ Single!Stop(c)
        \/ Single!EndRun \/ Single!TakeReady \/ Single!StartRun \/ Single!Exit
        \/ UNCHANGED <<Single!held, inHand>>
    BY DEF Single!Next, Single!ThreadStep, Single!vars, Single!NotifyWork, Single!NotifyIdle,
           Single!WaitIdle, Single!WaitDisturbed, Single!StopNotify, Single!StopJoined,
           Single!Sleep, Single!SpuriousWake
  <2> QED
    BY <2>1, <2>2, <2>3, <2>4, <2>5, <2>6, <2>7, <2>8, <2>9
<1> QED
  BY <1>1, <1>2, PrefetchTypeCorrect, HandStaysOld, PTL
     DEF Single!Spec, Single!PrefetchKeepsPromise, Single!Promise!Spec
================================================================================
