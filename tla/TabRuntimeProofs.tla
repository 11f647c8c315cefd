--------------------------- MODULE TabRuntimeProofs ---------------------------
(***************************************************************************)
(* Proofs about one tab, for any frame budget and any number of tickets,   *)
(* about the services of all of them, and about what they read ahead.      *)
(* What its scheduler, its prefetch pool and its layout thread agree on    *)
(* needs more than the types: the tickets the pool was told are ordered by *)
(* their epochs and none is newer than the scheduler's, a tab that is      *)
(* hidden does not move, and a hidden tab whose engine was free has nobody *)
(* in it who lays out.                                                     *)
(* The frame scheduler of a tab is also proved about in the hands of any   *)
(* other owner.                                                            *)
(* The runtime services work on a copy of their books: the copy is sound   *)
(* while a call is half done, and each tab is kept as it is between calls. *)
(* Of reading ahead: a request fits its record from the plan to the read.  *)
(***************************************************************************)
EXTENDS TabRuntime, FrameScheduler, RuntimeServices, ReadAhead, SetFolds, SequenceTheorems, TLAPS

------------------------------------------------------------------------------
(* The scheduler as a value.                                               *)

LEMMA EpochsAreNat ==
    ASSUME MaxEpoch \in Nat \ {0}
    PROVE  \A t \in Tickets : t.epoch \in Nat
BY DEF Tickets

(* A motion keeps the ticket or takes the next epoch.                      *)
LEMMA MotionIs ==
    ASSUME MaxEpoch \in Nat \ {0}, NEW t \in Tickets, NEW d \in Directions
    PROVE  /\ Motion(t, d).direction = d
           /\ Motion(t, d) = t \/ Motion(t, d).epoch = t.epoch + 1
           /\ Motion(t, d).epoch <= MaxEpoch => Motion(t, d) \in Tickets
<1>1. t.epoch \in 1..MaxEpoch /\ MaxEpoch \in Nat
  BY DEF Tickets
<1>2. CASE d = t.direction
  BY <1>2, <1>1 DEF Motion
<1>3. CASE d # t.direction
  <2>1. Motion(t, d) = [epoch |-> t.epoch + 1, direction |-> d]
    BY <1>3 DEF Motion, Ticket
  <2>2. t.epoch + 1 <= MaxEpoch => t.epoch + 1 \in 1..MaxEpoch
    BY <1>1
  <2> QED
    BY <2>1, <2>2 DEF Tickets
<1> QED
  BY <1>2, <1>3

(* Another motion changes the ticket and nothing else.                     *)
LEMMA MovedIs ==
    ASSUME MaxEpoch \in Nat \ {0}, NEW s \in Schedulers, NEW d \in Directions,
           Moved(s, d).ticket.epoch <= MaxEpoch
    PROVE  Moved(s, d) \in Schedulers /\ Moved(s, d).ticket = Motion(s.ticket, d)
<1> DEFINE m == Motion(s.ticket, d)
<1>1. s.ticket \in Tickets
  BY DEF Schedulers
<1>2. Moved(s, d) = [s EXCEPT !.ticket = m]
  BY DEF Moved
<1> HIDE DEF m
<1>3. Moved(s, d).ticket = m
  BY <1>2 DEF Schedulers
<1>4. m \in Tickets
  BY <1>1, <1>3, MotionIs DEF m
<1>5. Moved(s, d) \in Schedulers
  BY <1>2, <1>4 DEF Schedulers
<1> QED
  BY <1>3, <1>5 DEF m

(* A frame begins with nothing spent.                                      *)
LEMMA BegunIs ==
    ASSUME MaxEpoch \in Nat \ {0}, BudgetAssumption, NEW s \in Schedulers,
           NEW p \in Pressures, NEW show \in BOOLEAN,
           Begun(s, p, show).ticket.epoch <= MaxEpoch
    PROVE  /\ Begun(s, p, show) \in Schedulers
           /\ Begun(s, p, show).ticket = IF show THEN s.ticket ELSE Motion(s.ticket, "still")
<1> DEFINE m == IF show THEN s.ticket ELSE Motion(s.ticket, "still")
<1>1. s.ticket \in Tickets /\ "still" \in Directions
  BY DEF Schedulers, Directions
<1>2. Begun(s, p, show) = [ticket |-> m, shown |-> show, pressure |-> p,
                           closed |-> FALSE, spent |-> NothingSpent]
  BY DEF Begun
<1>3. Begun(s, p, show).ticket = m
  BY <1>2
<1>4. m \in Tickets
  BY <1>1, <1>3, MotionIs
<1>5. NothingSpent \in [Classes -> 0..FrameUs]
  BY DEF NothingSpent, BudgetAssumption
<1> HIDE DEF m
<1>6. Begun(s, p, show) \in Schedulers
  BY <1>2, <1>4, <1>5 DEF Schedulers
<1> QED
  BY <1>3, <1>6 DEF m

LEMMA VisibleClosedIs ==
    ASSUME NEW s \in Schedulers
    PROVE  VisibleClosed(s) \in Schedulers /\ VisibleClosed(s).ticket = s.ticket
BY DEF VisibleClosed, Schedulers

(* No class may spend more than the frame has.                             *)
LEMMA CapIsLess ==
    ASSUME BudgetAssumption, NEW c \in Classes, NEW p \in Pressures
    PROVE  Cap(c, p) \in 0..FrameUs
<1>1. FrameUs \in Nat
  BY DEF BudgetAssumption
<1>2. CASE c = "visible"
  BY <1>1, <1>2 DEF Cap
<1>3. CASE c # "visible"
  <2>1. ClassUs[c] \in 0..FrameUs
    BY <1>3 DEF BudgetAssumption, Classes
  <2>2. ClassUs[c] \div 2 \in 0..FrameUs
    BY <1>1, <2>1
  <2> QED
    BY <1>1, <1>3, <2>1, <2>2 DEF Cap, Pressures
<1> QED
  BY <1>2, <1>3

(* What a frame reserves it takes from its budget, and no motion with it.  *)
LEMMA ReservedIs ==
    ASSUME BudgetAssumption, NEW s \in Schedulers,
           NEW r, r.class \in Classes, r.us \in Nat
    PROVE  Reserved(s, r) \in Schedulers /\ Reserved(s, r).ticket = s.ticket
<1>1. CASE ~Admitted(s, r)
  BY <1>1 DEF Reserved
<1>2. CASE Admitted(s, r)
  <2> DEFINE much == s.spent[r.class] + r.us
  <2>1. much <= Cap(r.class, s.pressure)
    BY <1>2 DEF Admitted, Fits
  <2>2. s.pressure \in Pressures /\ s.spent \in [Classes -> 0..FrameUs] /\ FrameUs \in Nat
    BY DEF Schedulers, BudgetAssumption
  <2>3. much \in 0..FrameUs
    <3>1. Cap(r.class, s.pressure) \in 0..FrameUs
      BY <2>2, CapIsLess
    <3>2. s.spent[r.class] \in 0..FrameUs
      BY <2>2
    <3> QED
      BY <2>1, <2>2, <3>1, <3>2
  <2>4. Reserved(s, r) = [s EXCEPT !.spent = [@ EXCEPT ![r.class] = much]]
    BY <1>2 DEF Reserved, Schedulers
  <2> HIDE DEF much
  <2> DEFINE now == [s.spent EXCEPT ![r.class] = much]
  <2>5. now \in [Classes -> 0..FrameUs]
    BY <2>2, <2>3
  <2>6. Reserved(s, r) = [s EXCEPT !.spent = now]
    BY <2>4
  <2> HIDE DEF now
  <2> QED
    BY <2>5, <2>6 DEF Schedulers
<1> QED
  BY <1>1, <1>2

(* The frame a layout is delivered in, and what reads ahead in it.         *)
LEMMA DeliveryIs ==
    ASSUME TabAssumption, BudgetAssumption, sched \in Schedulers, pressure \in Pressures
    PROVE  /\ DeliveryFrame \in Schedulers /\ DeliveryFrame.ticket = sched.ticket
           /\ Reserved(DeliveryFrame, ReadAhead) \in Schedulers
           /\ Reserved(DeliveryFrame, ReadAhead).ticket = sched.ticket
<1> DEFINE layOut == [class |-> "visible", ui |-> FALSE, us |-> 1, ticket |-> sched.ticket]
<1>1. Delivered.ticket = sched.ticket
  BY DEF Delivered, Begun
<1>2. Delivered \in Schedulers
  <2>1. sched.ticket.epoch <= MaxEpoch
    BY DEF TabAssumption, Schedulers, Tickets
  <2> QED
    BY <1>1, <2>1, BegunIs DEF Delivered, TabAssumption
<1>3. layOut.class \in Classes /\ layOut.us \in Nat
  BY DEF Classes
<1>4. Reserved(Delivered, layOut) \in Schedulers /\ Reserved(Delivered, layOut).ticket = sched.ticket
  BY <1>1, <1>2, <1>3, ReservedIs
<1>5. DeliveryFrame \in Schedulers /\ DeliveryFrame.ticket = sched.ticket
  BY <1>4, VisibleClosedIs DEF DeliveryFrame
<1>6. ReadAhead.class \in Classes /\ ReadAhead.us \in Nat
  BY DEF ReadAhead, Classes, Optional, TabAssumption, BudgetAssumption
<1>7. /\ Reserved(DeliveryFrame, ReadAhead) \in Schedulers
      /\ Reserved(DeliveryFrame, ReadAhead).ticket = sched.ticket
  BY <1>5, <1>6, ReservedIs
<1> QED
  BY <1>5, <1>7
------------------------------------------------------------------------------
(* The frame scheduler in the hands of any owner.                          *)

(* What is spent is counted, and within the frame and the class; tickets   *)
(* that were overtaken are older than the one in force.                    *)
SchedulerInv ==
    /\ scheduler \in Schedulers
    /\ FrameWithinBudget
    /\ overtaken \subseteq Tickets
    /\ \A t \in overtaken : t.epoch < scheduler.ticket.epoch

LEMMA ClassesCount ==
    ASSUME BudgetAssumption, NEW s \in Schedulers
    PROVE  IsFiniteSet(Classes) /\ Counts(s.spent, Classes)
<1>1. Classes = ((({} \cup {"prefetch"}) \cup {"background"}) \cup {"maintenance"}) \cup {"visible"}
  BY DEF Classes, Optional
<1>2. IsFiniteSet(Classes)
  BY <1>1, FS_EmptySet, FS_AddElement
<1>3. Counts(s.spent, Classes)
  BY DEF Schedulers, Counts, BudgetAssumption
<1> QED
  BY <1>2, <1>3

LEMMA SpentAsSum ==
    ASSUME BudgetAssumption, NEW s \in Schedulers
    PROVE  AllSpent(s) = SumOf(s.spent, Classes)
<1> DEFINE v == s.spent
           it == CHOOSE it : it = [S \in SUBSET Classes |->
                    IF S = {} THEN 0 ELSE s.spent[Pick(S)] + it[S \ {Pick(S)}]]
           g == Summed(v, Classes)
<1>1. AllSpent(s) = it[Classes]
  BY Zenon DEF AllSpent, MapThenSumSet, MapThenFoldSet, Pick
<1>2. IsFiniteSet(Classes) /\ Counts(v, Classes)
  BY ClassesCount
<1>3. Sums(g, v, Classes)
  BY <1>2, SummedIs
<1> HIDE DEF g
<1>4. g = [S \in SUBSET Classes |-> IF S = {} THEN 0 ELSE s.spent[Pick(S)] + g[S \ {Pick(S)}]]
  BY <1>3 DEF Sums
<1>5. it = [S \in SUBSET Classes |-> IF S = {} THEN 0 ELSE s.spent[Pick(S)] + it[S \ {Pick(S)}]]
  BY <1>4, Zenon
<1> HIDE DEF it
<1>6. Adds(it, v, Classes)
  BY <1>5 DEF Adds
<1>7. it[Classes] = SumOf(v, Classes)
  BY <1>2, <1>6, SumIs
<1> QED
  BY <1>1, <1>7

(* A frame that has spent nothing is within its budget.                    *)
LEMMA NothingIsWithin ==
    ASSUME BudgetAssumption, NEW s \in Schedulers, s.spent = NothingSpent
    PROVE  AllSpent(s) <= FrameUs /\ \A c \in Classes : s.spent[c] <= Cap(c, s.pressure)
<1>1. \A c \in Classes : s.spent[c] = 0
  BY DEF NothingSpent
<1>2. SumOf(s.spent, Classes) = SumOf(s.spent, {})
  BY <1>1, ClassesCount, SumOfPart
<1>3. AllSpent(s) = 0
  BY <1>2, SpentAsSum, SumEmpty
<1>4. s.pressure \in Pressures /\ FrameUs \in Nat
  BY DEF Schedulers, BudgetAssumption
<1>5. \A c \in Classes : Cap(c, s.pressure) \in 0..FrameUs
  BY <1>4, CapIsLess
<1> QED
  BY <1>1, <1>3, <1>4, <1>5

(* What is admitted fits, and its class alone has spent more.              *)
LEMMA ReservedIsWithin ==
    ASSUME BudgetAssumption, NEW s \in Schedulers, NEW r, r.class \in Classes, r.us \in Nat,
           AllSpent(s) <= FrameUs, \A c \in Classes : s.spent[c] <= Cap(c, s.pressure)
    PROVE  /\ AllSpent(Reserved(s, r)) <= FrameUs
           /\ \A c \in Classes :
                Reserved(s, r).spent[c] <= Cap(c, Reserved(s, r).pressure)
<1> DEFINE q == Reserved(s, r)
<1>1. q \in Schedulers
  BY ReservedIs
<1>2. CASE ~Admitted(s, r)
  BY <1>2 DEF Reserved
<1>3. CASE Admitted(s, r)
  <2> DEFINE much == s.spent[r.class] + r.us
  <2>1. much <= Cap(r.class, s.pressure) /\ AllSpent(s) + r.us <= FrameUs
    BY <1>3 DEF Admitted, Fits
  <2>2. q = [s EXCEPT !.spent = [@ EXCEPT ![r.class] = much]]
    BY <1>3 DEF Reserved, Schedulers
  <2>3. s.spent \in [Classes -> 0..FrameUs] /\ s.pressure \in Pressures /\ FrameUs \in Nat
    BY DEF Schedulers, BudgetAssumption
  <2>m. much \in Nat /\ s.spent[r.class] \in Nat
    BY <2>3
  <2> HIDE DEF q, much
  <2>4. q.pressure = s.pressure /\ q.spent = [s.spent EXCEPT ![r.class] = much]
    BY <2>2 DEF Schedulers
  <2>5. q.spent[r.class] = much /\ \A c \in Classes \ {r.class} : q.spent[c] = s.spent[c]
    BY <2>3, <2>4
  <2>6. \A c \in Classes : q.spent[c] <= Cap(c, q.pressure)
    BY <2>1, <2>4, <2>5
  <2>7. /\ IsFiniteSet(Classes) /\ Counts(s.spent, Classes) /\ Counts(q.spent, Classes)
        /\ AgreeOn(s.spent, q.spent, Classes \ {r.class})
    BY <1>1, <2>5, ClassesCount DEF AgreeOn
  <2>8. /\ SumOf(s.spent, Classes) \in Nat
        /\ SumOf(q.spent, Classes) = (SumOf(s.spent, Classes) - s.spent[r.class]) + much
    <3> DEFINE v == s.spent
               w == q.spent
               c == r.class
    <3>1. c \in Classes /\ v[c] = s.spent[r.class] /\ w[c] = much
      BY <2>5
    <3>2. IsFiniteSet(Classes) /\ Counts(v, Classes) /\ Counts(w, Classes) /\ AgreeOn(v, w, Classes \ {c})
      BY <2>7
    <3> HIDE DEF v, w, c
    <3>3. SumOf(v, Classes) \in Nat /\ SumOf(w, Classes) = (SumOf(v, Classes) - v[c]) + w[c]
      BY <3>1, <3>2, SumChange
    <3> QED
      BY <3>1, <3>3 DEF v, w
  <2>9. SumOf(q.spent, Classes) = SumOf(s.spent, Classes) + r.us
    BY <2>8, <2>m DEF much
  <2>10. AllSpent(q) = SumOf(q.spent, Classes) /\ AllSpent(s) = SumOf(s.spent, Classes)
    BY <1>1, SpentAsSum
  <2>11. AllSpent(q) <= FrameUs
    BY <2>1, <2>9, <2>10
  <2> QED
    BY <2>6, <2>11 DEF q
<1> QED
  BY <1>2, <1>3

(* What motion does to the tickets that are over.                          *)
LEMMA OvertakenStaysOld ==
    ASSUME CostAssumption, SchedulerInv, scheduler' \in Schedulers, Overtake,
           scheduler'.ticket = scheduler.ticket
              \/ scheduler'.ticket.epoch = scheduler.ticket.epoch + 1
    PROVE  /\ overtaken' \subseteq Tickets
           /\ \A t \in overtaken' : t.epoch < scheduler'.ticket.epoch
<1>1. scheduler.ticket \in Tickets /\ \A t \in Tickets : t.epoch \in Nat
  BY EpochsAreNat DEF SchedulerInv, Schedulers, CostAssumption
<1>2. CASE scheduler'.ticket = scheduler.ticket
  BY <1>2 DEF Overtake, SchedulerInv
<1>3. CASE scheduler'.ticket # scheduler.ticket
  <2>1. overtaken' = overtaken \cup {scheduler.ticket}
    BY <1>3 DEF Overtake
  <2>2. scheduler'.ticket.epoch = scheduler.ticket.epoch + 1
    BY <1>3
  <2>3. \A t \in overtaken : t \in Tickets /\ t.epoch < scheduler.ticket.epoch
    BY DEF SchedulerInv
  <2>4. \A t \in overtaken : t.epoch < scheduler'.ticket.epoch
    BY <1>1, <2>2, <2>3
  <2>5. scheduler.ticket.epoch < scheduler'.ticket.epoch
    BY <1>1, <2>2
  <2> QED
    BY <1>1, <2>1, <2>3, <2>4, <2>5
<1> QED
  BY <1>2, <1>3

LEMMA SchedulerInvInit ==
    ASSUME BudgetAssumption, CostAssumption, SchedulerInit
    PROVE  SchedulerInv
<1>1. Ticket(1, "still") \in Tickets
  BY DEF CostAssumption, Ticket, Tickets, Directions
<1>2. NothingSpent \in [Classes -> 0..FrameUs]
  BY DEF BudgetAssumption, NothingSpent
<1>3. scheduler \in Schedulers /\ scheduler.spent = NothingSpent
  BY <1>1, <1>2 DEF SchedulerInit, NewScheduler, Schedulers, Pressures
<1> QED
  BY <1>3, NothingIsWithin DEF SchedulerInv, FrameWithinBudget, SchedulerInit

LEMMA SchedulerStep ==
    ASSUME BudgetAssumption, CostAssumption, SchedulerInv, [SchedulerNext]_schedulerVars
    PROVE  SchedulerInv' /\ (granted' \ granted) \cap overtaken = {}
<1>1. scheduler \in Schedulers /\ scheduler.ticket \in Tickets /\ MaxEpoch \in Nat \ {0}
  BY DEF SchedulerInv, Schedulers, CostAssumption
<1>2. ASSUME NEW p \in Pressures, NEW show \in BOOLEAN, BeginFrame(p, show)
      PROVE  SchedulerInv' /\ (granted' \ granted) \cap overtaken = {}
  <2>1. scheduler' = Begun(scheduler, p, show) /\ Overtake /\ granted' = {}
        /\ scheduler'.ticket.epoch <= MaxEpoch
    BY <1>2 DEF BeginFrame, Overtake
  <2>2. /\ scheduler' \in Schedulers
        /\ scheduler'.ticket = IF show THEN scheduler.ticket ELSE Motion(scheduler.ticket, "still")
    BY <1>1, <2>1, BegunIs
  <2>3. scheduler'.spent = NothingSpent
    BY <2>1 DEF Begun
  <2>4. "still" \in Directions
    BY DEF Directions
  <2>5. scheduler'.ticket = scheduler.ticket \/ scheduler'.ticket.epoch = scheduler.ticket.epoch + 1
    BY <1>1, <2>2, <2>4, MotionIs
  <2>6. FrameWithinBudget'
    BY <2>2, <2>3, NothingIsWithin DEF FrameWithinBudget
  <2> QED
    BY <2>1, <2>2, <2>5, <2>6, OvertakenStaysOld DEF SchedulerInv
<1>3. ASSUME NEW d \in Directions, UpdateMotion(d)
      PROVE  SchedulerInv' /\ (granted' \ granted) \cap overtaken = {}
  <2>1. scheduler' = Moved(scheduler, d) /\ Overtake /\ granted' = granted
        /\ scheduler'.ticket.epoch <= MaxEpoch
    BY <1>3 DEF UpdateMotion, Overtake
  <2>2. scheduler' \in Schedulers /\ scheduler'.ticket = Motion(scheduler.ticket, d)
    BY <1>1, <2>1, MovedIs
  <2>3. scheduler'.ticket = scheduler.ticket \/ scheduler'.ticket.epoch = scheduler.ticket.epoch + 1
    BY <1>1, <2>2, MotionIs
  <2>4. scheduler'.spent = scheduler.spent /\ scheduler'.pressure = scheduler.pressure
    BY <1>1, <2>1 DEF Moved, Schedulers
  <2>5. FrameWithinBudget'
    BY <1>1, <2>2, <2>4, SpentAsSum DEF SchedulerInv, FrameWithinBudget
  <2> QED
    BY <2>1, <2>2, <2>3, <2>5, OvertakenStaysOld DEF SchedulerInv
<1>4. ASSUME FinishVisible
      PROVE  SchedulerInv' /\ (granted' \ granted) \cap overtaken = {}
  <2>1. scheduler' = VisibleClosed(scheduler) /\ overtaken' = overtaken /\ granted' = granted
    BY <1>4 DEF FinishVisible
  <2>2. scheduler' \in Schedulers /\ scheduler'.ticket = scheduler.ticket
    BY <1>1, <2>1, VisibleClosedIs
  <2>3. scheduler'.spent = scheduler.spent /\ scheduler'.pressure = scheduler.pressure
    BY <1>1, <2>1 DEF VisibleClosed, Schedulers
  <2>4. FrameWithinBudget'
    BY <1>1, <2>2, <2>3, SpentAsSum DEF SchedulerInv, FrameWithinBudget
  <2> QED
    BY <2>1, <2>2, <2>4 DEF SchedulerInv
<1>5. ASSUME NEW r \in FrameRequests, Reserve(r)
      PROVE  SchedulerInv' /\ (granted' \ granted) \cap overtaken = {}
  <2>1. r.class \in Classes /\ r.us \in Nat
    BY DEF FrameRequests, CostAssumption
  <2>2. scheduler' = Reserved(scheduler, r) /\ overtaken' = overtaken
    BY <1>5 DEF Reserve
  <2>3. scheduler' \in Schedulers /\ scheduler'.ticket = scheduler.ticket
    BY <1>1, <2>1, <2>2, ReservedIs
  <2>4. FrameWithinBudget'
    BY <1>1, <2>1, <2>2, ReservedIsWithin DEF SchedulerInv, FrameWithinBudget
  <2>5. \A t \in granted' \ granted : t = scheduler.ticket
    BY <1>5 DEF Reserve, Admitted
  <2>6. \A t \in overtaken : t.epoch # scheduler.ticket.epoch
    <3>1. \A t \in Tickets : t.epoch \in Nat
      BY <1>1, EpochsAreNat
    <3> QED
      BY <1>1, <3>1 DEF SchedulerInv
  <2>7. (granted' \ granted) \cap overtaken = {}
    BY <2>5, <2>6
  <2> QED
    BY <2>2, <2>3, <2>4, <2>7 DEF SchedulerInv
<1>6. CASE UNCHANGED schedulerVars
  BY <1>6 DEF schedulerVars, SchedulerInv, FrameWithinBudget
<1> QED
  BY <1>2, <1>3, <1>4, <1>5, <1>6 DEF SchedulerNext

(* Whatever the owner does, a frame spends no more than it has, and no     *)
(* class more than the pressure leaves it.                                 *)
THEOREM FramesStayWithin ==
    ASSUME BudgetAssumption, CostAssumption
    PROVE  SchedulerSpec => []FrameWithinBudget
<1>1. SchedulerInit => SchedulerInv
  BY SchedulerInvInit
<1>2. SchedulerInv /\ [SchedulerNext]_schedulerVars => SchedulerInv'
  BY SchedulerStep
<1>3. SchedulerInv => FrameWithinBudget
  BY DEF SchedulerInv
<1> QED
  BY <1>1, <1>2, <1>3, PTL DEF SchedulerSpec

(* A ticket that was overtaken buys no reading ahead ever again: directions *)
(* come back, epochs do not.                                               *)
THEOREM OvertakenBuysNothing ==
    ASSUME BudgetAssumption, CostAssumption
    PROVE  SchedulerSpec => StaleBuysNothing
<1>1. SchedulerInit => SchedulerInv
  BY SchedulerInvInit
<1>2. SchedulerInv /\ [SchedulerNext]_schedulerVars
        => SchedulerInv' /\ [(granted' \ granted) \cap overtaken = {}]_schedulerVars
  BY SchedulerStep
<1> QED
  BY <1>1, <1>2, PTL DEF SchedulerSpec, StaleBuysNothing
------------------------------------------------------------------------------
(* The types.                                                              *)

LEMMA InitTypeOK ==
    ASSUME TabAssumption, BudgetAssumption, Init
    PROVE  TabTypeOK
<1>1. Ticket(1, "still") \in Tickets
  BY DEF TabAssumption, Ticket, Tickets, Directions
<1>2. NothingSpent \in [Classes -> 0..FrameUs]
  BY DEF BudgetAssumption, NothingSpent
<1>3. sched \in Schedulers /\ sched.ticket \in Tickets
  BY <1>1, <1>2 DEF Init, NewScheduler, Schedulers, Pressures
<1>4. pool \in [active : BOOLEAN, ticket : Tickets] /\ given \subseteq Tickets
  BY <1>3 DEF Init
<1>5. layout \in [pending : BOOLEAN, kept : BOOLEAN, ready : BOOLEAN]
  BY DEF Init, NoLayout
<1>6. sought \subseteq {pool.ticket} /\ free = (worker \notin {"lays out", "leaves", "unlocks"})
  BY DEF Init
<1>7. trim \in NoTrim..Critical /\ asked \in NoTrim..Critical /\ cache \in 0..2 /\ pressure \in Pressures
  BY DEF Init, NoTrim, Critical, Pressures
<1> QED
  BY <1>3, <1>4, <1>5, <1>6, <1>7 DEF Init, TabTypeOK

(* Who shows, hides or moves a tab gives its scheduler another motion.     *)
LEMMA SetActivityIs ==
    ASSUME TabAssumption, TabTypeOK,
           NEW show \in BOOLEAN, NEW p \in Pressures, NEW d \in Directions,
           SetActivity(show, p, d)
    PROVE  /\ sched' \in Schedulers
           /\ sched'.ticket = sched.ticket \/ sched'.ticket.epoch = sched.ticket.epoch + 1
           /\ ~visible' => sched'.ticket.direction = "still"
           /\ owner' = "foreground"
<1> DEFINE way == IF show THEN d ELSE "still"
<1>1. way \in Directions /\ (~show => way = "still")
  BY DEF Directions
<1>2. sched' = Moved(sched, way) /\ sched'.ticket.epoch <= MaxEpoch
  BY DEF SetActivity
<1>3. visible' = show /\ owner' = "foreground"
  BY DEF SetActivity
<1> HIDE DEF way
<1>4. Moved(sched, way).ticket.epoch <= MaxEpoch /\ sched \in Schedulers
  BY <1>2 DEF TabTypeOK
<1>5. sched' \in Schedulers /\ sched'.ticket = Motion(sched.ticket, way)
  BY <1>1, <1>2, <1>4, MovedIs DEF TabAssumption
<1>6. sched.ticket \in Tickets
  BY <1>4 DEF Schedulers
<1>7. /\ Motion(sched.ticket, way).direction = way
      /\ Motion(sched.ticket, way) = sched.ticket
            \/ Motion(sched.ticket, way).epoch = sched.ticket.epoch + 1
  BY <1>1, <1>6, MotionIs DEF TabAssumption
<1> QED
  BY <1>1, <1>3, <1>5, <1>7

(* A trim leaves no more in the engine than there was.                     *)
LEMMA DoTrimIs ==
    ASSUME trim \in NoTrim..Critical, asked \in NoTrim..Critical, cache \in 0..2, DoTrim
    PROVE  /\ trim' \in NoTrim..Critical /\ asked' \in NoTrim..Critical
           /\ cache' \in 0..2 /\ cache' <= cache
           /\ trim = asked => trim' = asked'
BY DEF DoTrim, Trimmed, NoTrim, Critical

LEMMA FullIsLevel == 2 \in 0..2
OBVIOUS

LEMMA TrimLevelIs == \A p \in Pressures : TrimLevel(p) \in NoTrim..Critical
BY DEF TrimLevel, NoTrim, Background, Critical

LEMMA StepTypeOK ==
    ASSUME TabAssumption, BudgetAssumption, TabTypeOK, [Next]_vars
    PROVE  TabTypeOK'
<1> USE DEF TabTypeOK
<1>1. ASSUME NEW show \in BOOLEAN, NEW p \in Pressures, NEW d \in Directions,
             SetActivity(show, p, d), Watched
      PROVE  TabTypeOK'
  <2>1. sched' \in Schedulers
    BY <1>1, SetActivityIs
  <2>2. barred' \in BOOLEAN
    BY <1>1 DEF Watched
  <2> QED
    BY <1>1, <2>1, <2>2 DEF SetActivity, engine
<1>2. ASSUME LayoutCall, Watched PROVE TabTypeOK'
  <2>1. sched' \in Schedulers
    BY <1>2, BegunIs DEF LayoutCall, TabAssumption
  <2>2. barred' \in BOOLEAN
    BY <1>2 DEF Watched
  <2> QED
    BY <1>2, <2>1, <2>2 DEF LayoutCall, activity, engine
<1>3. ASSUME NEW succeeded \in BOOLEAN, NEW wanted \in BOOLEAN,
             TakeLayout(succeeded, wanted), Watched
      PROVE  TabTypeOK'
  <2>1. sched' \in Schedulers
    BY <1>3, DeliveryIs DEF TakeLayout
  <2>2. sought' \subseteq {pool.ticket}
    BY <1>3 DEF TakeLayout
  <2>3. layout' \in [pending : BOOLEAN, kept : BOOLEAN, ready : BOOLEAN]
    BY <1>3 DEF TakeLayout
  <2>4. barred' \in BOOLEAN
    BY <1>3 DEF Watched
  <2> QED
    BY <1>3, <2>1, <2>2, <2>3, <2>4 DEF TakeLayout, activity, engine
<1>4. ASSUME PrefetchAuthority, Watched PROVE TabTypeOK'
  <2>1. sched.ticket \in Tickets
    BY DEF Schedulers
  <2>2. pool' = [active |-> visible, ticket |-> sched.ticket]
    BY <1>4 DEF PrefetchAuthority, Told
  <2>3. pool' \in [active : BOOLEAN, ticket : Tickets] /\ pool'.ticket = sched.ticket
    BY <2>1, <2>2
  <2>4. given' \subseteq Tickets /\ sought' \subseteq {pool'.ticket}
    BY <1>4, <2>1, <2>3 DEF PrefetchAuthority, StillSought
  <2>5. barred' \in BOOLEAN
    BY <1>4 DEF Watched
  <2> QED
    BY <1>4, <2>3, <2>4, <2>5 DEF PrefetchAuthority, activity, engine
<1>5. ASSUME QueueTrim, Watched PROVE TabTypeOK'
  <2>1. TrimLevel(pressure) \in NoTrim..Critical
    BY TrimLevelIs
  <2>2. trim' \in NoTrim..Critical /\ asked' \in NoTrim..Critical
    BY <1>5, <2>1 DEF QueueTrim, Queued, Stronger
  <2>3. barred' \in BOOLEAN
    BY <1>5 DEF Watched
  <2> QED
    BY <1>5, <2>2, <2>3 DEF QueueTrim, activity, motion
<1>6. ASSUME TryTrim, Watched PROVE TabTypeOK'
  <2>1. trim' \in NoTrim..Critical /\ asked' \in NoTrim..Critical /\ cache' \in 0..2
    BY <1>6, DoTrimIs DEF TryTrim
  <2>2. barred' \in BOOLEAN
    BY <1>6 DEF Watched
  <2> QED
    BY <1>6, <2>1, <2>2 DEF TryTrim, activity, motion
<1>7. ASSUME ForegroundAuthority \/ RequestLayout, Watched PROVE TabTypeOK'
  <2>1. NoLayout \in [pending : BOOLEAN, kept : BOOLEAN, ready : BOOLEAN]
    BY DEF NoLayout
  <2>2. [layout EXCEPT !.pending = TRUE] \in [pending : BOOLEAN, kept : BOOLEAN, ready : BOOLEAN]
    OBVIOUS
  <2>3. layout' \in [pending : BOOLEAN, kept : BOOLEAN, ready : BOOLEAN]
    BY <1>7, <2>1, <2>2 DEF ForegroundAuthority, RequestLayout
  <2>4. barred' \in BOOLEAN
    BY <1>7 DEF Watched
  <2>5. owner' \in {"idle", "foreground", "prefetch", "trim", "try"}
    BY <1>7 DEF ForegroundAuthority, RequestLayout
  <2>6. UNCHANGED <<activity, motion, worker, engine>>
    BY <1>7 DEF ForegroundAuthority, RequestLayout
  <2> QED
    BY <2>3, <2>4, <2>5, <2>6 DEF activity, motion, engine
<1>8. ASSUME WorkerStep, Watched PROVE TabTypeOK'
  <2>1. CASE StartRun
    <3>1. layout' \in [pending : BOOLEAN, kept : BOOLEAN, ready : BOOLEAN]
      BY <2>1 DEF StartRun
    <3> QED
      BY <1>8, <2>1, <3>1 DEF StartRun, Watched, activity, motion, engine
  <2>2. CASE TakeEngine \/ LayOut \/ LeaveEngine
    <3>1. barred' \in BOOLEAN
      BY <1>8 DEF Watched
    <3>2. worker' \in {"idle", "waits", "lays out", "leaves", "unlocks", "done"}
      BY <2>2 DEF TakeEngine, LayOut, LeaveEngine
    <3>3. free' = (worker' \notin {"lays out", "leaves", "unlocks"})
      BY <2>2 DEF TakeEngine, LayOut, LeaveEngine
    <3>4. UNCHANGED <<activity, motion, owner, layout, trim, asked>>
      BY <2>2 DEF TakeEngine, LayOut, LeaveEngine, activity, motion
    <3>5. UNCHANGED <<visible, pressure, sched, pool, given, sought>>
      BY <3>4 DEF activity, motion
    <3>6. cache' = cache \/ cache' = 2
      BY <2>2 DEF TakeEngine, LayOut, LeaveEngine
    <3>7. /\ visible' \in BOOLEAN /\ pressure' \in Pressures
          /\ sched' \in Schedulers
          /\ pool' \in [active : BOOLEAN, ticket : Tickets]
          /\ given' \subseteq Tickets /\ sought' \subseteq {pool'.ticket}
      BY <3>5
    <3>8. /\ owner' \in {"idle", "foreground", "prefetch", "trim", "try"}
          /\ layout' \in [pending : BOOLEAN, kept : BOOLEAN, ready : BOOLEAN]
          /\ trim' \in NoTrim..Critical /\ asked' \in NoTrim..Critical
      BY <3>4
    <3>9. cache' \in 0..2
      <4>1. CASE cache' = cache
        BY <4>1
      <4>2. CASE cache' = 2
        BY <4>2, FullIsLevel
      <4> QED
        BY <3>6, <4>1, <4>2
    <3> QED
      BY <3>1, <3>2, <3>3, <3>7, <3>8, <3>9
  <2>3. CASE ApplyTrim
    BY <1>8, <2>3, DoTrimIs DEF ApplyTrim, Watched, activity, motion
  <2>4. CASE EndRun
    <3>1. layout' \in [pending : BOOLEAN, kept : BOOLEAN, ready : BOOLEAN]
      BY <2>4 DEF EndRun
    <3> QED
      BY <1>8, <2>4, <3>1 DEF EndRun, Watched, activity, motion, engine
  <2> QED
    BY <1>8, <2>1, <2>2, <2>3, <2>4 DEF WorkerStep
<1>9. ASSUME UNCHANGED vars PROVE TabTypeOK'
  BY ZenonT(60), <1>9 DEF vars
<1> QED
  BY <1>1, <1>2, <1>3, <1>4, <1>5, <1>6, <1>7, <1>8, <1>9 DEF Next, Step, OwnerGoesOn

(* A tab, its scheduler and what its pools were told keep their types.     *)
THEOREM TabTypeCorrect ==
    ASSUME TabAssumption, BudgetAssumption
    PROVE  Spec => []TabTypeOK
<1>1. Init => TabTypeOK
  BY InitTypeOK
<1>2. TabTypeOK /\ [Next]_vars => TabTypeOK'
  BY StepTypeOK
<1> QED
  BY <1>1, <1>2, PTL DEF Spec
------------------------------------------------------------------------------
(* What the pools were told.                                               *)

(* A tab that is hidden does not move, nor does a pool that gave up; only  *)
(* a hidden tab is trimmed.                                                *)
HiddenIsStill == /\ owner \in {"trim", "try"} => ~visible
                 /\ ~visible => sched.ticket.direction = "still"
                 /\ ~pool.active => pool.ticket.direction = "still"

(* The tickets the pool was told come in the order of their epochs, the    *)
(* last is the newest, and the scheduler may be ahead.                     *)
ToldInOrder == /\ pool.ticket \in given
               /\ \A t \in given : t = pool.ticket \/ t.epoch < pool.ticket.epoch
               /\ pool.ticket = sched.ticket \/ pool.ticket.epoch < sched.ticket.epoch

(* While a hidden tab whose engine was free stays hidden, nobody is in the *)
(* engine who would fill it.                                               *)
NobodyLaysOut == barred => ~visible /\ owner = "idle" /\ worker # "lays out"

Together == /\ TabTypeOK /\ TicketsAgree /\ TrimNeverWeakened
            /\ HiddenIsStill /\ ToldInOrder /\ NobodyLaysOut

LEMMA InitTogether ==
    ASSUME TabAssumption, BudgetAssumption, Init
    PROVE  Together
<1>1. TabTypeOK
  BY InitTypeOK
<1>2. pool = [active |-> TRUE, ticket |-> sched.ticket] /\ given = {sched.ticket}
  BY DEF Init
<1>3. pool.active /\ pool.ticket = sched.ticket
  BY <1>2
<1> QED
  BY <1>1, <1>2, <1>3
  DEF Init, Together, TicketsAgree, TrimNeverWeakened, HiddenIsStill, ToldInOrder, NobodyLaysOut

(* Steps that leave the motion alone or take the next epoch.               *)
LEMMA SchedulerMoves ==
    ASSUME TabAssumption, BudgetAssumption, TabTypeOK, Next
    PROVE  /\ sched'.ticket = sched.ticket \/ sched'.ticket.epoch = sched.ticket.epoch + 1
           /\ (~visible => sched.ticket.direction = "still") =>
                    (~visible' => sched'.ticket.direction = "still")
           /\ sched'.ticket = sched.ticket \/ owner' = "foreground" \/ ~visible'
<1> USE DEF TabTypeOK
<1>1. ASSUME NEW show \in BOOLEAN, NEW p \in Pressures, NEW d \in Directions,
             SetActivity(show, p, d)
      PROVE  /\ sched'.ticket = sched.ticket \/ sched'.ticket.epoch = sched.ticket.epoch + 1
             /\ ~visible' => sched'.ticket.direction = "still"
             /\ owner' = "foreground"
  BY <1>1, SetActivityIs
<1>2. ASSUME LayoutCall
      PROVE  /\ sched'.ticket = sched.ticket \/ sched'.ticket.epoch = sched.ticket.epoch + 1
             /\ ~visible' => sched'.ticket.direction = "still"
             /\ sched'.ticket = sched.ticket \/ ~visible'
  <2> DEFINE stopped == Motion(sched.ticket, "still")
  <2>1. sched'.ticket = IF visible THEN sched.ticket ELSE stopped
    BY <1>2, BegunIs DEF LayoutCall, TabAssumption
  <2>2. sched.ticket \in Tickets /\ "still" \in Directions /\ visible' = visible
    BY <1>2 DEF Schedulers, Directions, LayoutCall, activity
  <2>3. /\ stopped.direction = "still"
        /\ stopped = sched.ticket \/ stopped.epoch = sched.ticket.epoch + 1
    BY <2>2, MotionIs DEF TabAssumption
  <2> HIDE DEF stopped
  <2> QED
    BY <2>1, <2>2, <2>3
<1>3. ASSUME NEW succeeded \in BOOLEAN, NEW wanted \in BOOLEAN, TakeLayout(succeeded, wanted)
      PROVE  sched'.ticket = sched.ticket /\ visible' = visible
  BY <1>3, DeliveryIs DEF TakeLayout, activity
<1>4. ASSUME RequestLayout \/ OwnerGoesOn \/ WorkerStep
      PROVE  sched' = sched /\ visible' = visible
  BY <1>4 DEF RequestLayout, OwnerGoesOn, ForegroundAuthority, PrefetchAuthority, QueueTrim, TryTrim,
       WorkerStep, StartRun, TakeEngine, LayOut, ApplyTrim, LeaveEngine, EndRun, activity, motion
<1> QED
  BY <1>1, <1>2, <1>3, <1>4 DEF Next, Step

(* The pool is told in one step of set_activity only.                      *)
LEMMA PoolIsTold ==
    ASSUME Next
    PROVE  \/ PrefetchAuthority
           \/ UNCHANGED <<pool, given>>
BY DEF Next, Step, SetActivity, LayoutCall, TakeLayout, RequestLayout, OwnerGoesOn,
       ForegroundAuthority, QueueTrim, TryTrim, WorkerStep, StartRun, TakeEngine, LayOut,
       ApplyTrim, LeaveEngine, EndRun, activity, motion

LEMMA TellingIs ==
    ASSUME PrefetchAuthority
    PROVE  /\ pool' = [active |-> visible, ticket |-> sched.ticket]
           /\ pool'.active = visible /\ pool'.ticket = sched.ticket
           /\ given' = given \cup {sched.ticket}
           /\ UNCHANGED <<visible, sched>>
BY DEF PrefetchAuthority, Told, activity
LEMMA StepHiddenIsStill ==
    ASSUME TabAssumption, BudgetAssumption, TabTypeOK, HiddenIsStill, Next
    PROVE  HiddenIsStill'
<1>1. ~visible' => sched'.ticket.direction = "still"
  BY SchedulerMoves DEF HiddenIsStill
<1>2. owner' \in {"trim", "try"} => ~visible'
  BY DEF HiddenIsStill, Next, Step, SetActivity, LayoutCall, TakeLayout, RequestLayout, OwnerGoesOn,
     ForegroundAuthority, PrefetchAuthority, QueueTrim, TryTrim, WorkerStep, StartRun, TakeEngine,
     LayOut, ApplyTrim, LeaveEngine, EndRun, activity
<1>3. CASE PrefetchAuthority
  BY <1>1, <1>2, <1>3, TellingIs DEF HiddenIsStill
<1>4. CASE UNCHANGED <<pool, given>>
  BY <1>1, <1>2, <1>4 DEF HiddenIsStill
<1> QED
  BY <1>3, <1>4, PoolIsTold

LEMMA StepToldInOrder ==
    ASSUME TabAssumption, BudgetAssumption, TabTypeOK, ToldInOrder, Next
    PROVE  ToldInOrder'
<1>1. sched'.ticket = sched.ticket \/ sched'.ticket.epoch = sched.ticket.epoch + 1
  BY SchedulerMoves
<1>2. /\ sched.ticket.epoch \in Nat /\ pool.ticket.epoch \in Nat
      /\ \A t \in given : t.epoch \in Nat
  <2>1. sched.ticket \in Tickets /\ pool.ticket \in Tickets /\ given \subseteq Tickets
    BY DEF TabTypeOK, Schedulers
  <2> QED
    BY <2>1, EpochsAreNat DEF TabAssumption
<1>3. CASE PrefetchAuthority
  <2>1. pool'.ticket = sched.ticket /\ sched'.ticket = sched.ticket /\ given' = given \cup {sched.ticket}
    BY <1>3, TellingIs
  <2> QED
    BY <1>2, <2>1 DEF ToldInOrder
<1>4. CASE UNCHANGED <<pool, given>>
  BY <1>1, <1>2, <1>4 DEF ToldInOrder
<1> QED
  BY <1>3, <1>4, PoolIsTold

(* While the tab is shown, what the scheduler admits the pool accepts.     *)
LEMMA StepTicketsAgree ==
    ASSUME TabAssumption, BudgetAssumption, TabTypeOK, HiddenIsStill, TicketsAgree, Next
    PROVE  TicketsAgree'
<1> SUFFICES ASSUME owner' = "idle", visible'
             PROVE  pool'.active /\ pool'.ticket = sched'.ticket
  BY DEF TicketsAgree
<1>1. sched'.ticket = sched.ticket
  BY SchedulerMoves
<1>2. CASE PrefetchAuthority
  BY <1>1, <1>2, TellingIs
<1>3. CASE ~PrefetchAuthority
  <2>1. UNCHANGED pool
    BY <1>3, PoolIsTold
  <2>2. owner = "idle" /\ visible' = visible
    BY <1>3 DEF HiddenIsStill, Next, Step, SetActivity, LayoutCall, TakeLayout, RequestLayout, OwnerGoesOn,
       ForegroundAuthority, QueueTrim, TryTrim, WorkerStep, StartRun, TakeEngine, LayOut,
       ApplyTrim, LeaveEngine, EndRun, activity, motion
  <2> QED
    BY <1>1, <2>1, <2>2 DEF TicketsAgree
<1> QED
  BY <1>2, <1>3

LEMMA StepTrimKept ==
    ASSUME TabTypeOK, TrimNeverWeakened, Next
    PROVE  TrimNeverWeakened'
<1>1. CASE QueueTrim
  BY <1>1 DEF QueueTrim, Queued, TrimNeverWeakened
<1>2. CASE DoTrim
  BY <1>2, DoTrimIs DEF TrimNeverWeakened, TabTypeOK
<1>3. CASE UNCHANGED <<trim, asked>>
  BY <1>3 DEF TrimNeverWeakened
<1> QED
  BY <1>1, <1>2, <1>3 DEF Next, Step, SetActivity, LayoutCall, TakeLayout, RequestLayout, OwnerGoesOn,
     ForegroundAuthority, PrefetchAuthority, QueueTrim, TryTrim, WorkerStep, StartRun, TakeEngine,
     LayOut, ApplyTrim, LeaveEngine, EndRun, activity, motion, engine

LEMMA StepNobodyLaysOut ==
    ASSUME TabTypeOK, TabTypeOK', NobodyLaysOut, Next
    PROVE  NobodyLaysOut'
<1> SUFFICES ASSUME barred'
             PROVE  ~visible' /\ owner' = "idle" /\ worker' # "lays out"
  BY DEF NobodyLaysOut
<1>1. ~visible' /\ owner' = "idle" /\ (barred \/ free')
  BY DEF Next, Watched
<1>2. CASE free'
  BY <1>1, <1>2 DEF TabTypeOK
<1>3. CASE barred
  <2>1. worker' = "lays out" => worker = "lays out" \/ visible'
    <3>1. CASE TakeEngine
      <4>1. visible' = visible /\ worker' = IF visible THEN "lays out" ELSE "leaves"
        BY <3>1 DEF TakeEngine, StillVisible, activity
      <4> QED
        BY <4>1
    <3>2. CASE WorkerStep /\ ~TakeEngine
      BY <3>2 DEF WorkerStep, StartRun, LayOut, ApplyTrim, LeaveEngine, EndRun
    <3>3. CASE ~WorkerStep
      BY <3>3 DEF Next, Step, SetActivity, LayoutCall, TakeLayout, RequestLayout, OwnerGoesOn,
         ForegroundAuthority, PrefetchAuthority, QueueTrim, TryTrim
    <3> QED
      BY <3>1, <3>2, <3>3
  <2> QED
    BY <1>1, <1>3, <2>1 DEF NobodyLaysOut
<1> QED
  BY <1>1, <1>2, <1>3

LEMMA StepTogether ==
    ASSUME TabAssumption, BudgetAssumption, Together, [Next]_vars
    PROVE  Together'
<1>1. CASE Next
  <2>1. TabTypeOK'
    BY <1>1, StepTypeOK DEF Together
  <2> QED
    BY <1>1, <2>1, StepHiddenIsStill, StepToldInOrder, StepTicketsAgree, StepTrimKept,
       StepNobodyLaysOut DEF Together
<1>2. CASE UNCHANGED vars
  <2>1. TabTypeOK'
    BY StepTypeOK DEF Together
  <2> QED
    BY <1>2, <2>1 DEF Together, TicketsAgree, TrimNeverWeakened, HiddenIsStill, ToldInOrder,
       NobodyLaysOut, vars
<1> QED
  BY <1>1, <1>2

LEMMA AlwaysTogether ==
    ASSUME TabAssumption, BudgetAssumption
    PROVE  Spec => []Together
<1>1. Init => Together
  BY InitTogether
<1>2. Together /\ [Next]_vars => Together'
  BY StepTogether
<1> QED
  BY <1>1, <1>2, PTL DEF Spec

(* While a tab is shown its scheduler and its prefetch pool work under the *)
(* same ticket, and no trim it asked for is forgotten or weakened.         *)
THEOREM TabAgreesAlways ==
    ASSUME TabAssumption, BudgetAssumption
    PROVE  Spec => []TabAgrees
<1>1. Together => TabAgrees
  BY DEF Together, TabAgrees
<1> QED
  BY <1>1, AlwaysTogether, PTL
------------------------------------------------------------------------------
(* Hidden and shown again.                                                 *)

LEMMA StaysCold ==
    ASSUME Together, Next, barred
    PROVE  cache' <= cache
<1>1. worker # "lays out" /\ cache \in 0..2 /\ trim \in NoTrim..Critical /\ asked \in NoTrim..Critical
  BY DEF Together, NobodyLaysOut, TabTypeOK
<1>2. CASE DoTrim
  BY <1>1, <1>2, DoTrimIs
<1>3. CASE UNCHANGED cache
  <2>1. cache \in 0..2
    BY <1>1
  <2> QED
    BY <1>3, <2>1
<1>4. DoTrim \/ UNCHANGED cache
  <2>1. CASE WorkerStep
    BY <1>1, <2>1 DEF WorkerStep, StartRun, TakeEngine, LayOut, ApplyTrim, LeaveEngine, EndRun, engine
  <2>2. CASE ~WorkerStep
    BY <2>2 DEF Next, Step, SetActivity, LayoutCall, TakeLayout, RequestLayout, OwnerGoesOn,
       ForegroundAuthority, PrefetchAuthority, QueueTrim, TryTrim, engine
  <2> QED
    BY <2>1, <2>2
<1> QED
  BY <1>2, <1>3, <1>4

LEMMA ComesBackFresh ==
    ASSUME TabAssumption, Together, Next, pool'.active, pool' # pool
    PROVE  pool'.ticket \notin given \/ pool'.ticket.direction = "still"
<1>1. /\ sched.ticket.epoch \in Nat /\ pool.ticket.epoch \in Nat
      /\ \A t \in given : t.epoch \in Nat
  <2>1. sched.ticket \in Tickets /\ pool.ticket \in Tickets /\ given \subseteq Tickets
    BY DEF Together, TabTypeOK, Schedulers
  <2> QED
    BY <2>1, EpochsAreNat DEF TabAssumption
<1>2. pool' = [active |-> TRUE, ticket |-> sched.ticket] /\ pool'.ticket = sched.ticket
  BY PoolIsTold, TellingIs DEF Together, TabTypeOK
<1>3. CASE pool.ticket = sched.ticket
  <2>1. pool = [active |-> pool.active, ticket |-> pool.ticket] /\ pool.active \in BOOLEAN
    BY DEF Together, TabTypeOK
  <2>2. ~pool.active
    BY <1>2, <1>3, <2>1
  <2> QED
    BY <1>2, <1>3, <2>2 DEF Together, HiddenIsStill
<1>4. CASE pool.ticket # sched.ticket
  BY <1>1, <1>2, <1>4 DEF Together, ToldInOrder
<1> QED
  BY <1>3, <1>4

(* A tab that was hidden, with nobody in its engine, fills its caches no   *)
(* more until it is shown; then, or when it moves another way, it works    *)
(* under a ticket the prefetch pool never had, or asks for nothing.        *)
THEOREM TabStaysAwayAlways ==
    ASSUME TabAssumption, BudgetAssumption
    PROVE  Spec => TabStaysAway
<1>1. Together /\ [Next]_vars => [barred => cache' <= cache]_vars
  BY StaysCold
<1>2. Together /\ [Next]_vars =>
          [pool'.active /\ pool' # pool
             => pool'.ticket \notin given \/ pool'.ticket.direction = "still"]_vars
  BY ComesBackFresh
<1> QED
  BY <1>1, <1>2, AlwaysTogether, PTL DEF Spec, TabStaysAway, HiddenStaysCold, FreshAuthority

------------------------------------------------------------------------------
(* The runtime services, for any tabs and any number of generations.       *)

Slots == [open : BOOLEAN, visible : BOOLEAN, runtime : 0..LastGeneration, registered : BOOLEAN]
Entries == [known : BOOLEAN, visible : BOOLEAN]

(* What a call works on: a copy of the books, and whether it succeeded.    *)
BookType == [slot : [Tabs -> Slots], entry : [Tabs -> Entries],
             told : [Generations -> [visible : BOOLEAN, pressure : PressureLevels]],
             next : 1..(LastGeneration + 1), count : Nat, retired : SUBSET Generations,
             leaving : SUBSET Tabs, ok : BOOLEAN]

Holders(b) == {t \in Tabs : b.slot[t].runtime # 0}

(* Sound books: the runtimes are counted, each generation was given out    *)
(* once, to one tab, and what runs is not lost, all this while a call is   *)
(* half done.                                                              *)
Sound(b) ==
    /\ b \in BookType
    /\ b.count = Cardinality(Holders(b))
    /\ \A t \in Holders(b) : b.slot[t].runtime \notin b.retired /\ b.slot[t].runtime < b.next
    /\ \A t, u \in Holders(b) : b.slot[t].runtime = b.slot[u].runtime => t = u
    /\ \A g \in b.retired : g < b.next
    /\ running \subseteq Generations
    /\ \A g \in running : g \in b.retired \/ \E t \in Tabs : b.slot[t].runtime = g

(* A tab between calls: who is registered is known and has a runtime that  *)
(* hears the pressure p in force.                                          *)
AlwaysGrows == Retains = {TRUE}
Kept(b, t, p) ==
    /\ b.entry[t].known = b.slot[t].registered
    /\ b.slot[t].registered =>
         /\ b.entry[t].visible = b.slot[t].visible
         /\ b.slot[t].runtime # 0
         /\ b.told[b.slot[t].runtime] = [visible |-> b.slot[t].visible, pressure |-> p]
    /\ ~b.slot[t].open => b.slot[t] = NoSlot
    /\ AlwaysGrows /\ b.slot[t].runtime # 0 =>
         /\ b.slot[t].registered
         /\ p = CriticalPressure => b.slot[t].visible

ServicesInv == /\ Sound(Books) /\ leaving = {} /\ inForce \in PressureLevels
               /\ \A t \in Tabs : Kept(Books, t, inForce)

LEMMA BookIs ==
    ASSUME ServicesAssumption, NEW b \in BookType, NEW t \in Tabs
    PROVE  /\ b.slot \in [Tabs -> Slots]
           /\ b.slot[t] \in Slots
           /\ b.slot[t].runtime \in 0..LastGeneration
           /\ b.slot[t].visible \in BOOLEAN /\ b.slot[t].open \in BOOLEAN /\ b.slot[t].registered \in BOOLEAN
           /\ b.entry \in [Tabs -> Entries]
           /\ b.told \in [Generations -> [visible : BOOLEAN, pressure : PressureLevels]]
           /\ b.next \in 1..(LastGeneration + 1) /\ b.count \in Nat
           /\ b.retired \subseteq Generations /\ b.leaving \subseteq Tabs /\ b.ok \in BOOLEAN
BY DEF BookType, Slots, Entries

LEMMA GrowsIs ==
    ASSUME AlwaysGrows, NEW grows \in Retains
    PROVE  grows
BY DEF AlwaysGrows

LEMMA NoSlotIs ==
    ASSUME ServicesAssumption
    PROVE  NoSlot \in Slots /\ NoSlot.runtime = 0 /\ NoSlot.registered = FALSE
<1>1. 0 \in 0..LastGeneration
  BY DEF ServicesAssumption
<1> QED
  BY <1>1 DEF NoSlot, Slots

LEMMA HoldersFinite ==
    ASSUME ServicesAssumption, NEW b
    PROVE  IsFiniteSet(Holders(b)) /\ Cardinality(Holders(b)) \in Nat
<1>1. Holders(b) \subseteq Tabs
  BY DEF Holders
<1> QED
  BY <1>1, FS_Subset, FS_CardinalityType DEF ServicesAssumption

(* What a call does for some tabs leaves the others as they are.           *)
Beside(b, c, S) ==
    \A t \in Tabs \ S :
        /\ c.slot[t] = b.slot[t] /\ c.entry[t] = b.entry[t]
        /\ b.slot[t].runtime # 0 => c.told[b.slot[t].runtime] = b.told[b.slot[t].runtime]
        /\ t \in c.leaving <=> t \in b.leaving

LEMMA BesideBoth ==
    ASSUME NEW b, NEW c, NEW d, NEW S, NEW T, Beside(b, c, S), Beside(c, d, T)
    PROVE  Beside(b, d, S \cup T)
BY DEF Beside

LEMMA KeptBeside ==
    ASSUME NEW b, NEW c, NEW S, Beside(b, c, S), NEW p, NEW t \in Tabs \ S, Kept(b, t, p)
    PROVE  Kept(c, t, p)
BY DEF Beside, Kept

(* Books that differ in what the soundness does not speak of.              *)
LEMMA SoundAlike ==
    ASSUME NEW b, Sound(b), NEW c \in BookType,
           \A t \in Tabs : c.slot[t].runtime = b.slot[t].runtime,
           c.next = b.next, c.count = b.count, c.retired = b.retired
    PROVE  Sound(c)
<1>1. Holders(c) = Holders(b)
  BY DEF Holders
<1>2. Holders(b) \subseteq Tabs
  BY DEF Holders
<1> QED
  BY <1>1, <1>2 DEF Sound

(* Materialized: nothing if there is a runtime; else the next generation,  *)
(* unless there is none, or it cannot be opened.                           *)
LEMMA MaterializedIs ==
    ASSUME ServicesAssumption, NEW b, Sound(b), b.ok, NEW t \in Tabs, NEW luck \in Luck
    PROVE  LET m == Materialized(b, t, luck)
           IN /\ Sound(m)
              /\ m.entry = b.entry /\ m.leaving = b.leaving /\ m.told = b.told /\ m.retired = b.retired
              /\ \A u \in Tabs \ {t} : m.slot[u] = b.slot[u]
              /\ IF b.slot[t].runtime # 0 THEN m = b
                 ELSE IF m.ok THEN /\ m.slot[t] = [b.slot[t] EXCEPT !.runtime = b.next]
                                   /\ b.next # 0
                 ELSE m.slot = b.slot
<1> DEFINE m == Materialized(b, t, luck)
<1>1. b \in BookType /\ LastGeneration \in Nat
  BY DEF Sound, ServicesAssumption
<1>2. CASE b.slot[t].runtime # 0
  <2>1. m = b
    BY <1>2 DEF Materialized
  <2> HIDE DEF m
  <2> QED
    BY <1>2, <2>1 DEF m
<1>3. CASE b.slot[t].runtime = 0 /\ b.next > LastGeneration
  <2>1. m = [b EXCEPT !.ok = FALSE]
    BY <1>3 DEF Materialized
  <2>2. m \in BookType
    BY <1>1, <2>1 DEF BookType
  <2>3. /\ m.slot = b.slot /\ m.next = b.next /\ m.count = b.count /\ m.retired = b.retired
        /\ m.entry = b.entry /\ m.leaving = b.leaving /\ m.told = b.told /\ ~m.ok
    BY <1>1, <2>1 DEF BookType
  <2> HIDE DEF m
  <2>4. Sound(m)
    BY <2>2, <2>3, SoundAlike
  <2> QED
    BY <1>3, <2>3, <2>4 DEF m
<1>4. CASE b.slot[t].runtime = 0 /\ b.next <= LastGeneration /\ ~luck.opens
  <2>1. b.next \in 1..(LastGeneration + 1)
    BY <1>1 DEF BookType
  <2>2. m = [b EXCEPT !.ok = FALSE, !.next = @ + 1]
    BY <1>1, <1>4, <2>1 DEF Materialized
  <2>3. m \in BookType
    <3>1. b.next + 1 \in 1..(LastGeneration + 1)
      BY <1>1, <1>4, <2>1
    <3> HIDE DEF m
    <3> QED
      BY <1>1, <2>2, <3>1 DEF BookType
  <2>4. /\ m.slot = b.slot /\ m.next = b.next + 1 /\ m.count = b.count /\ m.retired = b.retired
        /\ m.entry = b.entry /\ m.leaving = b.leaving /\ m.told = b.told /\ ~m.ok
    BY <1>1, <2>2 DEF BookType
  <2> HIDE DEF m
  <2>5. Sound(m)
    <3>1. Holders(m) = Holders(b) /\ Holders(b) \subseteq Tabs
      BY <2>4 DEF Holders
    <3>2. \A u \in Tabs : b.slot[u].runtime < b.next => b.slot[u].runtime < m.next
      BY <1>1, <2>1, <2>4, BookIs
    <3>3. \A g \in b.retired : g < m.next
      BY <1>1, <2>1, <2>4 DEF Sound, BookType, Generations
    <3> QED
      BY <2>3, <2>4, <3>1, <3>2, <3>3 DEF Sound
  <2> QED
    BY <1>4, <2>4, <2>5 DEF m
<1>5. CASE b.slot[t].runtime = 0 /\ b.next <= LastGeneration /\ luck.opens
  <2>1. b.next \in 1..LastGeneration /\ b.next # 0
    BY <1>1, <1>5 DEF BookType
  <2>2. m = [b EXCEPT !.slot[t].runtime = b.next, !.next = @ + 1, !.count = @ + 1]
    BY <1>1, <1>5, <2>1 DEF Materialized
  <2>3. /\ m.slot = [b.slot EXCEPT ![t].runtime = b.next] /\ m.next = b.next + 1 /\ m.count = b.count + 1
        /\ m.retired = b.retired
        /\ m.entry = b.entry /\ m.leaving = b.leaving /\ m.told = b.told /\ m.ok
    BY <1>1, <2>2 DEF BookType
  <2>4. m \in BookType
    <3>1. [b.slot EXCEPT ![t].runtime = b.next]
            \in [Tabs -> Slots]
      BY <1>1, <2>1, BookIs DEF Slots
    <3>2. b.next + 1 \in 1..(LastGeneration + 1) /\ b.count + 1 \in Nat
      BY <1>1, <2>1 DEF BookType
    <3>3. m = [b EXCEPT !.slot = [b.slot EXCEPT ![t].runtime = b.next], !.next = b.next + 1, !.count = b.count + 1]
      BY <1>1, <2>2 DEF BookType
    <3> HIDE DEF m
    <3> QED
      BY <1>1, <3>1, <3>2, <3>3 DEF BookType
  <2>5. /\ m.slot[t] = [b.slot[t] EXCEPT !.runtime = b.next] /\ m.slot[t].runtime = b.next
        /\ \A u \in Tabs \ {t} : m.slot[u] = b.slot[u]
    BY <1>1, <2>3, BookIs
  <2> HIDE DEF m
  <2>6. Sound(m)
    <3>1. Holders(m) = Holders(b) \cup {t} /\ t \notin Holders(b) /\ Holders(b) \subseteq Tabs
      BY <1>5, <2>1, <2>5 DEF Holders
    <3>2. m.count = Cardinality(Holders(m))
      <4>1. IsFiniteSet(Holders(b)) /\ b.count = Cardinality(Holders(b))
        BY HoldersFinite DEF Sound
      <4>2. Cardinality(Holders(b) \cup {t}) = Cardinality(Holders(b)) + 1
        BY <3>1, <4>1, FS_AddElement
      <4> QED
        BY <2>3, <3>1, <4>1, <4>2
    <3>3. \A g \in b.retired : g < m.next /\ g # b.next
      BY <1>1, <2>1, <2>3 DEF Sound, BookType, Generations
    <3>4. \A u \in Holders(b) : b.slot[u].runtime < m.next /\ b.slot[u].runtime # b.next
      <4> SUFFICES ASSUME NEW u \in Holders(b) PROVE b.slot[u].runtime < m.next /\ b.slot[u].runtime # b.next
        OBVIOUS
      <4>1. b.slot[u].runtime < b.next /\ b.slot[u].runtime \in 0..LastGeneration
        BY <1>1, <3>1, BookIs DEF Sound
      <4> QED
        BY <2>1, <2>3, <4>1
    <3>5. \A u \in Holders(m) : m.slot[u].runtime \notin m.retired /\ m.slot[u].runtime < m.next
      BY <2>1, <2>3, <2>5, <3>1, <3>3, <3>4 DEF Sound
    <3>6. ASSUME NEW u \in Holders(m), NEW v \in Holders(m), m.slot[u].runtime = m.slot[v].runtime PROVE u = v
      <4>1. \A w \in Holders(b) : w # t /\ m.slot[w].runtime = b.slot[w].runtime
        BY <2>5, <3>1
      <4>2. \A w \in Holders(b) : m.slot[w].runtime # m.slot[t].runtime
        BY <2>5, <3>4, <4>1
      <4>3. CASE u = t \/ v = t
        BY <3>1, <3>6, <4>2, <4>3
      <4>4. CASE u \in Holders(b) /\ v \in Holders(b)
        BY <3>6, <4>1, <4>4 DEF Sound
      <4> QED
        BY <3>1, <4>3, <4>4
    <3>7. \A g \in running : g \in m.retired \/ \E u \in Tabs : m.slot[u].runtime = g
      <4> SUFFICES ASSUME NEW g \in running PROVE g \in m.retired \/ \E u \in Tabs : m.slot[u].runtime = g
        OBVIOUS
      <4>1. g # 0
        BY <1>1 DEF Sound, Generations
      <4>2. g \in b.retired \/ \E u \in Tabs : b.slot[u].runtime = g
        BY DEF Sound
      <4> QED
        BY <1>5, <2>3, <2>5, <4>1, <4>2
    <3>8. running \subseteq Generations
      BY DEF Sound
    <3> QED
      BY <2>3, <2>4, <3>2, <3>3, <3>5, <3>6, <3>7, <3>8 DEF Sound
  <2> QED
    BY <1>5, <2>1, <2>3, <2>5, <2>6 DEF m
<1>6. b.next \in Nat /\ luck.opens \in BOOLEAN
  BY <1>1 DEF BookType, Luck
<1> QED
  BY <1>1, <1>2, <1>3, <1>4, <1>5, <1>6

(* The runtime of a slot hears of an activity.                             *)
LEMMA GivenIs ==
    ASSUME ServicesAssumption, NEW b, Sound(b), NEW t \in Tabs, b.slot[t].runtime # 0,
           NEW v \in BOOLEAN, NEW p \in PressureLevels
    PROVE  LET g == Given(b, t, v, p)
           IN /\ Sound(g)
              /\ g.slot[t] = [b.slot[t] EXCEPT !.visible = v]
              /\ g.told[b.slot[t].runtime] = [visible |-> v, pressure |-> p]
              /\ g.entry = b.entry /\ g.leaving = b.leaving /\ g.ok = b.ok
              /\ Beside(b, g, {t})
<1> DEFINE g == Given(b, t, v, p)
           r == b.slot[t].runtime
<1>1. b \in BookType /\ r \in Generations
  <2>1. b \in BookType
    BY DEF Sound
  <2>2. r \in 0..LastGeneration /\ LastGeneration \in Nat
    BY <2>1, BookIs DEF ServicesAssumption
  <2> QED
    BY <2>1, <2>2 DEF Generations
<1>2. g = [b EXCEPT !.told = [b.told EXCEPT ![r] = [visible |-> v, pressure |-> p]],
                    !.slot = [b.slot EXCEPT ![t].visible = v]]
  BY <1>1 DEF Given, BookType
<1>3. /\ [b.told EXCEPT ![r] = [visible |-> v, pressure |-> p]]
            \in [Generations -> [visible : BOOLEAN, pressure : PressureLevels]]
      /\ [b.slot EXCEPT ![t].visible = v]
            \in [Tabs -> Slots]
  BY <1>1, BookIs DEF Slots
<1> HIDE DEF g
<1>4. g \in BookType
  BY <1>1, <1>2, <1>3 DEF BookType
<1>5. /\ g.told = [b.told EXCEPT ![r] = [visible |-> v, pressure |-> p]]
      /\ g.slot = [b.slot EXCEPT ![t].visible = v]
      /\ g.entry = b.entry /\ g.leaving = b.leaving /\ g.ok = b.ok
      /\ g.next = b.next /\ g.count = b.count /\ g.retired = b.retired
  BY <1>1, <1>2 DEF BookType
<1>6. /\ g.slot[t] = [b.slot[t] EXCEPT !.visible = v]
      /\ \A u \in Tabs \ {t} : g.slot[u] = b.slot[u]
      /\ \A u \in Tabs : g.slot[u].runtime = b.slot[u].runtime
  BY <1>1, <1>5, BookIs
<1>7. g.told[r] = [visible |-> v, pressure |-> p]
      /\ \A h \in Generations \ {r} : g.told[h] = b.told[h]
  BY <1>1, <1>5, BookIs
<1>8. Sound(g)
  BY <1>4, <1>5, <1>6, SoundAlike
<1>9. Beside(b, g, {t})
  <2> SUFFICES ASSUME NEW u \in Tabs \ {t}, b.slot[u].runtime # 0
               PROVE  g.told[b.slot[u].runtime] = b.told[b.slot[u].runtime]
    BY <1>5, <1>6 DEF Beside
  <2>1. b.slot[u].runtime \in Generations
    <3>1. b.slot[u].runtime \in 0..LastGeneration /\ LastGeneration \in Nat
      BY <1>1, BookIs DEF ServicesAssumption
    <3> QED
      BY <3>1 DEF Generations
  <2>2. b.slot[u].runtime # r
    BY DEF Sound, Holders
  <2> QED
    BY <1>7, <2>1, <2>2
<1> QED
  <2>1. b.slot[t] \in Slots
    BY <1>1, BookIs
  <2>2. g.slot[t].open = b.slot[t].open
    BY <1>6, <2>1 DEF Slots
  <2> QED
    BY <1>5, <1>6, <1>7, <1>8, <1>9, <2>2 DEF g

(* A runtime that is given up is counted no more and waits to be destroyed.*)
LEMMA RetiredIs ==
    ASSUME ServicesAssumption, NEW b, Sound(b), NEW t \in Tabs, NEW grows \in BOOLEAN
    PROVE  LET r == Retired(b, t, grows)
           IN /\ Sound(r)
              /\ r.slot[t] = IF grows THEN [b.slot[t] EXCEPT !.runtime = 0] ELSE b.slot[t]
              /\ \A u \in Tabs \ {t} : r.slot[u] = b.slot[u]
              /\ r.entry = b.entry /\ r.leaving = b.leaving /\ r.ok = b.ok /\ r.told = b.told
<1> DEFINE r == Retired(b, t, grows)
           g == b.slot[t].runtime
<1>1. b \in BookType /\ g \in 0..LastGeneration /\ LastGeneration \in Nat
  BY BookIs DEF Sound, ServicesAssumption
<1>2. CASE g = 0 \/ ~grows
  <2>1. r = b
    BY <1>2 DEF Retired
  <2>2. g = 0 => [b.slot[t] EXCEPT !.runtime = 0] = b.slot[t]
    BY <1>1, BookIs DEF Slots
  <2> HIDE DEF r
  <2> QED
    BY <1>2, <2>1, <2>2 DEF r
<1>3. CASE g # 0 /\ grows
  <2>1. r = [b EXCEPT !.retired = b.retired \cup {g}, !.slot = [b.slot EXCEPT ![t].runtime = 0],
                      !.count = b.count - 1]
    BY <1>1, <1>3 DEF Retired, BookType
  <2>2. Holders(b) \subseteq Tabs /\ t \in Holders(b)
    BY <1>3 DEF Holders
  <2>3. b.count = Cardinality(Holders(b)) /\ b.count - 1 = Cardinality(Holders(b) \ {t}) /\ b.count - 1 \in Nat
    <3>1. IsFiniteSet(Holders(b)) /\ b.count = Cardinality(Holders(b))
      BY HoldersFinite DEF Sound
    <3>2. IsFiniteSet(Holders(b) \ {t}) /\ Cardinality(Holders(b) \ {t}) = Cardinality(Holders(b)) - 1
      BY <2>2, <3>1, FS_RemoveElement
    <3>3. Cardinality(Holders(b) \ {t}) \in Nat
      BY <3>2, FS_CardinalityType
    <3> QED
      BY <3>1, <3>2, <3>3
  <2>4. /\ [b.slot EXCEPT ![t].runtime = 0]
            \in [Tabs -> Slots]
        /\ b.retired \cup {g} \in SUBSET Generations /\ g \in Generations
    BY <1>1, <1>3, BookIs DEF Generations, Slots
  <2> HIDE DEF r
  <2>5. r \in BookType
    BY <1>1, <2>1, <2>3, <2>4 DEF BookType
  <2>6. /\ r.retired = b.retired \cup {g} /\ r.slot = [b.slot EXCEPT ![t].runtime = 0]
        /\ r.count = b.count - 1 /\ r.next = b.next
        /\ r.entry = b.entry /\ r.leaving = b.leaving /\ r.ok = b.ok /\ r.told = b.told
    BY <1>1, <2>1 DEF BookType
  <2>7. /\ r.slot[t] = [b.slot[t] EXCEPT !.runtime = 0] /\ r.slot[t].runtime = 0
        /\ \A u \in Tabs \ {t} : r.slot[u] = b.slot[u]
    BY <1>1, <2>6, BookIs
  <2>8. Holders(r) = Holders(b) \ {t}
    BY <2>7 DEF Holders
  <2>9. Sound(r)
    <3>1. r.count = Cardinality(Holders(r))
      BY <2>3, <2>6, <2>8
    <3>2. \A u \in Holders(r) : u \in Holders(b) /\ u # t /\ r.slot[u].runtime = b.slot[u].runtime
      BY <2>2, <2>7, <2>8
    <3>3. \A u \in Holders(r) : b.slot[u].runtime # g
      BY <2>2, <3>2 DEF Sound
    <3>4. \A u \in Holders(r) : r.slot[u].runtime \notin r.retired /\ r.slot[u].runtime < r.next
      BY <2>6, <3>2, <3>3 DEF Sound
    <3>5. \A u, w \in Holders(r) : r.slot[u].runtime = r.slot[w].runtime => u = w
      BY <3>2 DEF Sound
    <3>6. \A h \in r.retired : h < r.next
      BY <2>2, <2>6 DEF Sound
    <3>7. \A h \in running : h \in r.retired \/ \E u \in Tabs : r.slot[u].runtime = h
      <4> SUFFICES ASSUME NEW h \in running, h \notin r.retired PROVE \E u \in Tabs : r.slot[u].runtime = h
        OBVIOUS
      <4>1. PICK u \in Tabs : b.slot[u].runtime = h
        BY <2>6 DEF Sound
      <4>2. u # t
        BY <2>6, <4>1
      <4> QED
        BY <2>7, <4>1, <4>2
    <3>8. running \subseteq Generations
      BY DEF Sound
    <3> QED
      BY <2>5, <3>1, <3>4, <3>5, <3>6, <3>7, <3>8 DEF Sound
  <2> QED
    BY <1>3, <2>6, <2>7, <2>9 DEF r
<1> QED
  BY <1>2, <1>3

(* Runtimes nobody runs are destroyed, and nothing else happens.           *)
LEMMA DrainedIs ==
    ASSUME NEW b, Sound(b)
    PROVE  LET d == Drained(b)
           IN /\ Sound(d)
              /\ d.slot = b.slot /\ d.entry = b.entry /\ d.leaving = b.leaving /\ d.ok = b.ok
              /\ d.told = b.told
<1> DEFINE d == Drained(b)
<1>1. b \in BookType
  BY DEF Sound
<1>2. CASE running = {}
  <2>1. d = [b EXCEPT !.retired = {}]
    BY <1>2 DEF Drained, MayDestroy
  <2> HIDE DEF d
  <2>2. d \in BookType
    BY <1>1, <2>1 DEF BookType
  <2>3. /\ d.slot = b.slot /\ d.entry = b.entry /\ d.leaving = b.leaving /\ d.ok = b.ok
        /\ d.told = b.told /\ d.retired = {} /\ d.next = b.next /\ d.count = b.count
    BY <1>1, <2>1 DEF BookType
  <2>4. Holders(d) = Holders(b)
    BY <2>3 DEF Holders
  <2>5. Sound(d)
    BY <1>2, <2>2, <2>3, <2>4 DEF Sound
  <2> QED
    BY <2>3, <2>5 DEF d
<1>3. CASE running # {}
  BY <1>3 DEF Drained, MayDestroy
<1> QED
  BY <1>2, <1>3

(* What apply_slot has done for a tab when it succeeds.                    *)
Applied(b, c, t, v, p, grows) ==
    /\ c.slot[t].open = b.slot[t].open /\ c.slot[t].registered = b.slot[t].registered
    /\ c.slot[t].visible = v
    /\ c.slot[t].runtime # 0 =>
         /\ c.told[c.slot[t].runtime] = [visible |-> v, pressure |-> p]
         /\ ~v /\ p = CriticalPressure => ~grows
    /\ c.slot[t].runtime = 0 =>
         /\ ~v
         /\ b.slot[t].runtime # 0 => t \in c.leaving

LEMMA GivenUpIs ==
    ASSUME ServicesAssumption, NEW b, Sound(b), NEW t \in Tabs, b.slot[t].runtime # 0, NEW luck \in Luck
    PROVE  LET r == GivenUp(b, t, luck)
           IN /\ Sound(r) /\ Beside(b, r, {t})
              /\ r.entry = b.entry /\ r.ok = b.ok /\ r.told = b.told
              /\ IF luck.grows THEN r.slot[t] = [b.slot[t] EXCEPT !.runtime = 0] /\ t \in r.leaving
                 ELSE r.slot[t] = b.slot[t]
<1> DEFINE r == Retired(b, t, luck.grows)
           c == GivenUp(b, t, luck)
<1>1. luck.grows \in BOOLEAN
  BY DEF Luck, ServicesAssumption
<1>2. /\ Sound(r)
      /\ r.slot[t] = IF luck.grows THEN [b.slot[t] EXCEPT !.runtime = 0] ELSE b.slot[t]
      /\ \A u \in Tabs \ {t} : r.slot[u] = b.slot[u]
      /\ r.entry = b.entry /\ r.leaving = b.leaving /\ r.ok = b.ok /\ r.told = b.told
  BY <1>1, RetiredIs
<1>3. c = IF r.slot[t].runtime = 0 THEN [r EXCEPT !.leaving = @ \cup {t}] ELSE r
  BY DEF GivenUp
<1>4. b.slot[t] \in Slots
  BY BookIs DEF Sound
<1> HIDE DEF r, c
<1>5. CASE luck.grows
  <2>1. r.slot[t] = [b.slot[t] EXCEPT !.runtime = 0] /\ r.slot[t].runtime = 0
    BY <1>2, <1>4, <1>5
  <2>2. c = [r EXCEPT !.leaving = @ \cup {t}]
    BY <1>3, <2>1
  <2>3. r \in BookType
    BY <1>2 DEF Sound
  <2>4. c \in BookType
    BY <2>2, <2>3 DEF BookType
  <2>5. /\ c.slot = r.slot /\ c.entry = r.entry /\ c.ok = r.ok /\ c.told = r.told
        /\ c.next = r.next /\ c.count = r.count /\ c.retired = r.retired
        /\ c.leaving = r.leaving \cup {t}
    BY <2>2, <2>3 DEF BookType
  <2>6. Sound(c)
    BY <1>2, <2>4, <2>5, SoundAlike
  <2>7. Beside(b, c, {t})
    BY <1>2, <2>5 DEF Beside
  <2> QED
    BY <1>2, <1>5, <2>1, <2>5, <2>6, <2>7 DEF c
<1>6. CASE ~luck.grows
  <2>1. r.slot[t] = b.slot[t] /\ c = r
    BY <1>2, <1>3, <1>6
  <2>2. Beside(b, r, {t})
    BY <1>2 DEF Beside
  <2> QED
    BY <1>2, <1>6, <2>1, <2>2 DEF c
<1> QED
  BY <1>5, <1>6

LEMMA HiddenIs ==
    ASSUME ServicesAssumption, NEW b, Sound(b), NEW t \in Tabs
    PROVE  LET h == [b EXCEPT !.slot[t].visible = FALSE]
           IN /\ Sound(h) /\ Beside(b, h, {t})
              /\ h.slot[t] = [b.slot[t] EXCEPT !.visible = FALSE]
              /\ h.entry = b.entry /\ h.ok = b.ok /\ h.leaving = b.leaving /\ h.told = b.told
<1> DEFINE h == [b EXCEPT !.slot[t].visible = FALSE]
<1>1. b \in BookType
  BY DEF Sound
<1>2. h = [b EXCEPT !.slot = [b.slot EXCEPT ![t].visible = FALSE]]
  BY <1>1 DEF BookType
<1>3. [b.slot EXCEPT ![t].visible = FALSE]
            \in [Tabs -> Slots]
  BY <1>1, BookIs DEF Slots
<1> HIDE DEF h
<1>4. h \in BookType
  BY <1>1, <1>2, <1>3 DEF BookType
<1>5. /\ h.slot = [b.slot EXCEPT ![t].visible = FALSE]
      /\ h.entry = b.entry /\ h.ok = b.ok /\ h.leaving = b.leaving /\ h.told = b.told
      /\ h.next = b.next /\ h.count = b.count /\ h.retired = b.retired
  BY <1>1, <1>2 DEF BookType
<1>6. /\ h.slot[t] = [b.slot[t] EXCEPT !.visible = FALSE]
      /\ \A u \in Tabs \ {t} : h.slot[u] = b.slot[u]
      /\ \A u \in Tabs : h.slot[u].runtime = b.slot[u].runtime
  BY <1>1, <1>5, BookIs
<1>7. Sound(h)
  BY <1>4, <1>5, <1>6, SoundAlike
<1>8. Beside(b, h, {t})
  BY <1>5, <1>6 DEF Beside
<1> QED
  BY <1>5, <1>6, <1>7, <1>8 DEF h

LEMMA ApplySlotIs ==
    ASSUME ServicesAssumption, NEW b, Sound(b), b.ok, NEW t \in Tabs, NEW v \in BOOLEAN,
           NEW p \in PressureLevels, NEW luck \in Luck
    PROVE  LET a == ApplySlot(b, t, v, p, luck)
           IN /\ Sound(a) /\ Beside(b, a, {t}) /\ a.entry = b.entry
              /\ a.ok => Applied(b, a, t, v, p, luck.grows)
              /\ ~a.ok => b.slot[t].runtime = 0 /\ a.slot = b.slot
              /\ v = TRUE => a.leaving = b.leaving
<1> DEFINE a == ApplySlot(b, t, v, p, luck)
<1>1. b.slot[t] \in Slots
  BY BookIs DEF Sound
<1>2. CASE ~v /\ b.slot[t].runtime = 0
  <2> DEFINE h == [b EXCEPT !.slot[t].visible = FALSE]
  <2>1. /\ Sound(h) /\ Beside(b, h, {t})
        /\ h.slot[t] = [b.slot[t] EXCEPT !.visible = FALSE]
        /\ h.entry = b.entry /\ h.ok = b.ok
    BY HiddenIs
  <2>2. a = Drained(h)
    BY <1>2 DEF ApplySlot
  <2> HIDE DEF h, a
  <2>3. Sound(a) /\ a.slot = h.slot /\ a.entry = h.entry /\ a.leaving = h.leaving /\ a.ok = h.ok /\ a.told = h.told
    BY <2>1, <2>2, DrainedIs
  <2>4. Beside(b, a, {t})
    BY <2>1, <2>3 DEF Beside
  <2>5. Applied(b, a, t, v, p, luck.grows)
    BY <1>1, <1>2, <2>1, <2>3 DEF Applied, Slots
  <2> QED
    BY <1>2, <2>1, <2>3, <2>4, <2>5 DEF a
<1>3. CASE v \/ b.slot[t].runtime # 0
  <2> DEFINE m == Materialized(b, t, luck)
             g == Given(m, t, v, p)
             e == IF ~v /\ p = CriticalPressure THEN GivenUp(g, t, luck) ELSE g
  <2>1. /\ Sound(m)
        /\ m.entry = b.entry /\ m.leaving = b.leaving /\ m.told = b.told
        /\ \A u \in Tabs \ {t} : m.slot[u] = b.slot[u]
        /\ IF b.slot[t].runtime # 0 THEN m = b
           ELSE IF m.ok THEN m.slot[t] = [b.slot[t] EXCEPT !.runtime = b.next] /\ b.next # 0
           ELSE m.slot = b.slot
    BY MaterializedIs
  <2>2. a = IF ~m.ok THEN m ELSE Drained(e)
    BY <1>3 DEF ApplySlot
  <2> HIDE DEF m, a
  <2>3. Beside(b, m, {t})
    BY <2>1 DEF Beside
  <2>4. CASE ~m.ok
    BY <1>3, <2>1, <2>2, <2>3, <2>4 DEF a
  <2>5. CASE m.ok
    <3>1. m.slot[t].runtime # 0 /\ m.slot[t].open = b.slot[t].open /\ m.slot[t].registered = b.slot[t].registered
      BY <1>1, <2>1, <2>5 DEF Slots
    <3>2. /\ Sound(g)
          /\ g.slot[t] = [m.slot[t] EXCEPT !.visible = v]
          /\ g.told[m.slot[t].runtime] = [visible |-> v, pressure |-> p]
          /\ g.entry = m.entry /\ g.leaving = m.leaving /\ g.ok = m.ok
          /\ Beside(m, g, {t})
      BY <2>1, <3>1, GivenIs
    <3> HIDE DEF g
    <3>3. m.slot[t] \in Slots
      BY <2>1, BookIs DEF Sound
    <3>4. /\ g.slot[t].runtime = m.slot[t].runtime /\ g.slot[t].visible = v
          /\ g.slot[t].open = b.slot[t].open /\ g.slot[t].registered = b.slot[t].registered
      BY <3>1, <3>2, <3>3
    <3>5. g.slot[t] \in Slots
      BY <3>2, BookIs DEF Sound
    <3>6. /\ Sound(e) /\ Beside(g, e, {t}) /\ e.entry = g.entry /\ e.ok = g.ok /\ e.told = g.told
          /\ v => e.leaving = g.leaving
          /\ IF ~v /\ p = CriticalPressure /\ luck.grows
             THEN e.slot[t] = [g.slot[t] EXCEPT !.runtime = 0] /\ t \in e.leaving
             ELSE e.slot[t] = g.slot[t]
      <4>1. CASE ~v /\ p = CriticalPressure
        <5>1. e = GivenUp(g, t, luck)
          BY <4>1
        <5> HIDE DEF e
        <5>2. g.slot[t].runtime # 0
          BY <3>1, <3>4
        <5>3. Sound(g)
          BY <3>2
        <5>4. /\ Sound(e) /\ Beside(g, e, {t}) /\ e.entry = g.entry /\ e.ok = g.ok /\ e.told = g.told
              /\ luck.grows => e.slot[t] = [g.slot[t] EXCEPT !.runtime = 0] /\ t \in e.leaving
              /\ ~luck.grows => e.slot[t] = g.slot[t]
          BY <5>1, <5>2, <5>3, GivenUpIs
        <5> QED
          BY <4>1, <5>4
      <4>2. CASE ~(~v /\ p = CriticalPressure)
        <5>1. e = g
          BY <4>2
        <5> HIDE DEF e
        <5>2. Beside(g, g, {t})
          BY DEF Beside
        <5> QED
          BY <3>2, <4>2, <5>1, <5>2
      <4> QED
        BY <4>1, <4>2
    <3>7. a = Drained(e)
      BY <2>2, <2>5
    <3> HIDE DEF e
    <3>8. Sound(a) /\ a.slot = e.slot /\ a.entry = e.entry /\ a.leaving = e.leaving /\ a.ok = e.ok /\ a.told = e.told
      BY <3>6, <3>7, DrainedIs
    <3>9. Beside(b, a, {t})
      <4>1. Beside(b, g, {t})
        BY <2>3, <3>2, BesideBoth
      <4>2. Beside(b, e, {t})
        BY <3>6, <4>1, BesideBoth
      <4> QED
        BY <3>8, <4>2 DEF Beside
    <3>10. Applied(b, a, t, v, p, luck.grows)
      <4>1. CASE ~v /\ p = CriticalPressure /\ luck.grows
        <5>1. /\ a.slot[t].runtime = 0 /\ a.slot[t].visible = v /\ a.slot[t].open = b.slot[t].open
              /\ a.slot[t].registered = b.slot[t].registered /\ t \in a.leaving
          BY <3>4, <3>5, <3>6, <3>8, <4>1 DEF Slots
        <5> QED
          BY <4>1, <5>1 DEF Applied
      <4>2. CASE ~(~v /\ p = CriticalPressure /\ luck.grows)
        <5>1. a.slot[t] = g.slot[t] /\ a.told = g.told
          BY <3>6, <3>8, <4>2
        <5> QED
          BY <3>1, <3>2, <3>4, <4>2, <5>1 DEF Applied
      <4> QED
        BY <4>1, <4>2
    <3> QED
      BY <2>1, <2>5, <3>2, <3>6, <3>8, <3>9, <3>10 DEF a
  <2> QED
    BY <2>4, <2>5
<1> QED
  BY <1>2, <1>3

(* The books with another slot, with the same runtime, or another entry.   *)
LEMMA SoundBeside ==
    ASSUME NEW b, Sound(b), NEW t \in Tabs, NEW c \in BookType,
           c.slot[t].runtime = b.slot[t].runtime,
           \A u \in Tabs \ {t} : c.slot[u] = b.slot[u] /\ c.entry[u] = b.entry[u],
           c.leaving = b.leaving, c.told = b.told, c.next = b.next, c.count = b.count,
           c.retired = b.retired
    PROVE  Sound(c) /\ Beside(b, c, {t})
<1>1. Sound(c)
  BY SoundAlike
<1>2. Beside(b, c, {t})
  BY DEF Beside
<1> QED
  BY <1>1, <1>2

(* A tab that is known and served, and one that is not known.              *)
LEMMA KnownIsKept ==
    ASSUME NEW b, NEW t, NEW p, b.slot[t] \in Slots, b.entry[t] \in Entries,
           b.slot[t].open, b.slot[t].registered, b.slot[t].visible, b.slot[t].runtime # 0,
           b.entry[t].known, b.entry[t].visible,
           b.told[b.slot[t].runtime] = [visible |-> TRUE, pressure |-> p]
    PROVE  Kept(b, t, p)
<1>1. b.entry[t].known = b.slot[t].registered
  BY DEF Slots, Entries
<1>2. b.slot[t].visible = TRUE /\ b.entry[t].visible = TRUE
  BY DEF Slots, Entries
<1>3. b.told[b.slot[t].runtime] = [visible |-> b.slot[t].visible, pressure |-> p]
  BY <1>2
<1> QED
  BY Zenon, <1>1, <1>2, <1>3 DEF Kept

LEMMA UnknownIsKept ==
    ASSUME NEW b, NEW t, NEW p, b.slot[t] \in Slots, b.entry[t] = NoEntry, ~b.slot[t].registered,
           b.slot[t].open \/ b.slot[t] = NoSlot, b.slot[t].runtime = 0 \/ ~AlwaysGrows
    PROVE  Kept(b, t, p)
<1>1. b.entry[t].known = FALSE /\ b.slot[t].registered = FALSE
  BY DEF NoEntry, Slots
<1> QED
  BY <1>1 DEF Kept

(* Registering a shown tab: it is known and has a runtime that hears the   *)
(* pressure, or it stays unknown for want of a runtime.                    *)
LEMMA RegisteredIs ==
    ASSUME ServicesAssumption, inForce \in PressureLevels,
           NEW b, Sound(b), b.ok, NEW t \in Tabs, b.slot[t].open, NEW luck \in Luck
    PROVE  LET r == Registered(b, t, TRUE, luck)
           IN /\ Sound(r) /\ Beside(b, r, {t}) /\ r.leaving = b.leaving
              /\ r.ok => Kept(r, t, inForce)
              /\ ~r.ok => r.slot = b.slot /\ r.entry[t] = NoEntry /\ b.slot[t].runtime = 0
<1> DEFINE k == [known |-> TRUE, visible |-> TRUE]
           n == [b EXCEPT !.entry[t] = k]
           a == ApplySlot(n, t, TRUE, inForce, luck)
           r == Registered(b, t, TRUE, luck)
<1>1. b \in BookType /\ b.slot[t] \in Slots /\ k \in Entries /\ NoEntry \in Entries
  BY BookIs DEF Sound, Entries, NoEntry
<1>2. /\ n \in BookType /\ n.slot = b.slot /\ n.entry = [b.entry EXCEPT ![t] = k] /\ n.ok
      /\ n.leaving = b.leaving /\ n.told = b.told /\ n.next = b.next /\ n.count = b.count
      /\ n.retired = b.retired
  BY <1>1 DEF BookType
<1>3. n.entry[t] = k /\ \A u \in Tabs \ {t} : n.slot[u] = b.slot[u] /\ n.entry[u] = b.entry[u]
  BY <1>1, <1>2, BookIs
<1>4. Sound(n) /\ Beside(b, n, {t})
  BY <1>2, <1>3, SoundBeside
<1>5. r = IF a.ok THEN [a EXCEPT !.slot[t].registered = TRUE] ELSE [a EXCEPT !.entry[t] = NoEntry]
  BY Zenon DEF Registered
<1> HIDE DEF n, r, k
<1>6. /\ Sound(n) /\ Beside(b, n, {t}) /\ n.slot[t] = b.slot[t] /\ n.entry[t] = k /\ n.ok
      /\ n.leaving = b.leaving
  BY <1>2, <1>3, <1>4
<1>7. /\ Sound(a) /\ Beside(n, a, {t}) /\ a.entry = n.entry
      /\ IF a.ok THEN Applied(n, a, t, TRUE, inForce, luck.grows)
         ELSE n.slot[t].runtime = 0 /\ a.slot = n.slot
      /\ a.leaving = n.leaving
  <2>1. Sound(n) /\ n.ok
    BY <1>6
  <2> QED
    BY <2>1, ApplySlotIs
<1> HIDE DEF a
<1>8. Sound(a)
  BY <1>7
<1>9. a \in BookType /\ a.slot[t] \in Slots /\ a.ok \in BOOLEAN /\ a.entry[t] = k
  BY <1>6, <1>7, BookIs DEF Sound
<1>10. Beside(b, a, {t})
  BY <1>6, <1>7, BesideBoth
<1>11. CASE a.ok
  <2> DEFINE s == [a.slot[t] EXCEPT !.registered = TRUE]
  <2>1. s \in Slots /\ s.runtime = a.slot[t].runtime /\ s.registered /\ s.visible = a.slot[t].visible
        /\ s.open = a.slot[t].open
    BY <1>9 DEF Slots
  <2>2. /\ r \in BookType /\ r.slot = [a.slot EXCEPT ![t] = s] /\ r.entry = a.entry /\ r.ok = TRUE
        /\ r.leaving = a.leaving /\ r.told = a.told /\ r.next = a.next /\ r.count = a.count
        /\ r.retired = a.retired
    <3>1. [a.slot EXCEPT ![t] = s] \in [Tabs -> Slots]
      BY <1>9, <2>1, BookIs
    <3>2. r = [a EXCEPT !.slot = [a.slot EXCEPT ![t] = s]]
      BY <1>5, <1>9, <1>11 DEF BookType
    <3> HIDE DEF s
    <3> QED
      BY <1>9, <1>11, <3>1, <3>2 DEF BookType
  <2>3. r.slot[t] = s /\ \A u \in Tabs \ {t} : r.slot[u] = a.slot[u] /\ r.entry[u] = a.entry[u]
    BY <1>9, <2>2, BookIs
  <2> HIDE DEF s
  <2>4. Sound(r) /\ Beside(a, r, {t})
    BY <1>8, <2>1, <2>2, <2>3, SoundBeside
  <2>5. /\ Sound(r) /\ Beside(a, r, {t})
        /\ r.slot[t] = s /\ r.entry[t] = k /\ r.ok = TRUE
        /\ r.leaving = a.leaving /\ r.told = a.told
    BY <1>9, <2>2, <2>3, <2>4
  <2>6. Beside(b, r, {t})
    BY <1>10, <2>5, BesideBoth
  <2>7. /\ a.slot[t].open = b.slot[t].open /\ a.slot[t].visible /\ a.slot[t].runtime # 0
        /\ a.told[a.slot[t].runtime] = [visible |-> TRUE, pressure |-> inForce]
    BY <1>6, <1>7, <1>11 DEF Applied
  <2>8. /\ r.slot[t].visible /\ r.slot[t].registered /\ r.slot[t].runtime # 0
        /\ r.entry[t].known /\ r.entry[t].visible
        /\ r.told[r.slot[t].runtime] = [visible |-> TRUE, pressure |-> inForce]
    <3>1. k.known /\ k.visible
      BY DEF k
    <3>2. r.told = a.told /\ r.slot[t].runtime = a.slot[t].runtime
      BY <2>1, <2>5
    <3> QED
      BY <2>1, <2>5, <2>7, <3>1, <3>2
  <2>9. r.slot[t].open
    BY <2>1, <2>5, <2>7
  <2>10. r.slot[t] \in Slots /\ r.entry[t] \in Entries
    BY <2>1, <2>5, <1>1
  <2>11. Kept(r, t, inForce)
    BY <2>8, <2>9, <2>10, KnownIsKept
  <2> QED
    BY <1>6, <1>7, <2>5, <2>6, <2>11 DEF r
<1>12. CASE ~a.ok
  <2>1. /\ r \in BookType /\ r.slot = a.slot /\ r.entry = [a.entry EXCEPT ![t] = NoEntry] /\ r.ok = FALSE
        /\ r.leaving = a.leaving /\ r.told = a.told /\ r.next = a.next /\ r.count = a.count
        /\ r.retired = a.retired
    <3>1. [a.entry EXCEPT ![t] = NoEntry] \in [Tabs -> Entries]
      BY <1>1, <1>9, BookIs
    <3> QED
      BY <1>5, <1>9, <1>12, <3>1 DEF BookType
  <2>2. r.entry[t] = NoEntry /\ \A u \in Tabs \ {t} : r.slot[u] = a.slot[u] /\ r.entry[u] = a.entry[u]
    BY <1>9, <2>1, BookIs
  <2>3. Sound(r) /\ Beside(a, r, {t})
    BY <1>8, <2>1, <2>2, SoundBeside
  <2>4. /\ Sound(r) /\ Beside(a, r, {t})
        /\ r.slot[t] = a.slot[t] /\ r.entry[t] = NoEntry /\ r.ok = FALSE
        /\ r.leaving = a.leaving /\ r.told = a.told
    BY <2>1, <2>2, <2>3
  <2>5. Beside(b, r, {t})
    BY <1>10, <2>4, BesideBoth
  <2>6. r.slot = b.slot
    <3>1. n.slot = b.slot
      BY <1>1 DEF n, BookType
    <3>2. r.slot = a.slot
      BY <1>5, <1>9, <1>12 DEF BookType
    <3> QED
      BY <1>7, <1>12, <3>1, <3>2
  <2> QED
    BY <1>6, <1>7, <1>12, <2>4, <2>5, <2>6 DEF r
<1> QED
  BY <1>11, <1>12

(* The controller forgets the tabs whose runtimes were given up.           *)
LEMMA ForgottenIs ==
    ASSUME ServicesAssumption, NEW b, Sound(b)
    PROVE  LET f == Forgotten(b)
           IN /\ Sound(f) /\ f.leaving = {} /\ f.told = b.told
              /\ \A t \in Tabs :
                   IF t \in Left(b)
                   THEN /\ f.entry[t] = NoEntry /\ ~f.slot[t].registered
                        /\ f.slot[t].open = b.slot[t].open /\ f.slot[t].runtime = 0
                   ELSE f.entry[t] = b.entry[t] /\ f.slot[t] = b.slot[t]
<1> DEFINE f == Forgotten(b)
           L == Left(b)
           es == [t \in Tabs |-> IF t \in L THEN NoEntry ELSE b.entry[t]]
           ss == [t \in Tabs |-> IF t \in L THEN [b.slot[t] EXCEPT !.registered = FALSE] ELSE b.slot[t]]
<1>1. b \in BookType
  BY DEF Sound
<1>2. f = [b EXCEPT !.entry = es, !.slot = ss, !.leaving = {}]
  BY Zenon DEF Forgotten
<1>3. \A t \in L : b.slot[t].runtime = 0
  BY DEF Left
<1> HIDE DEF L
<1>4. es \in [Tabs -> Entries]
  BY <1>1, BookIs DEF Entries, NoEntry
<1>5. \A t \in Tabs : b.slot[t] \in Slots /\ b.entry[t] \in Entries
  BY <1>1, BookIs
<1>6. ss \in [Tabs -> Slots]
  BY <1>5 DEF Slots
<1>7. \A t \in Tabs : /\ ss[t].runtime = b.slot[t].runtime /\ ss[t].open = b.slot[t].open
                      /\ t \notin L => ss[t] = b.slot[t]
                      /\ t \in L => ~ss[t].registered
  BY <1>5 DEF Slots
<1>8. \A t \in Tabs : es[t] = IF t \in L THEN NoEntry ELSE b.entry[t]
  OBVIOUS
<1> HIDE DEF f, es, ss
<1>9. f \in BookType
  BY <1>1, <1>2, <1>4, <1>6 DEF BookType
<1>10. /\ f.slot = ss /\ f.entry = es /\ f.leaving = {} /\ f.told = b.told /\ f.next = b.next
       /\ f.count = b.count /\ f.retired = b.retired
  BY <1>1, <1>2 DEF BookType
<1>11. Sound(f)
  BY <1>7, <1>9, <1>10, SoundAlike
<1> QED
  BY <1>3, <1>7, <1>8, <1>10, <1>11 DEF f, L

(* A tab that was served is as between calls once the controller has       *)
(* forgotten whose runtimes were given up.                                 *)
LEMMA ServedIsKept ==
    ASSUME ServicesAssumption, NEW b, NEW a, Sound(a), NEW t \in Tabs, NEW v \in BOOLEAN,
           NEW p, NEW grows \in Retains, Applied(b, a, t, v, p, grows),
           b.slot[t].runtime # 0, a.slot[t].registered, a.slot[t].open,
           a.entry[t].known, a.entry[t].visible = v
    PROVE  Kept(Forgotten(a), t, p)
<1> DEFINE f == Forgotten(a)
<1>1. /\ f.told = a.told
      /\ IF t \in Left(a)
         THEN /\ f.entry[t] = NoEntry /\ ~f.slot[t].registered
              /\ f.slot[t].open = a.slot[t].open /\ f.slot[t].runtime = 0
         ELSE f.entry[t] = a.entry[t] /\ f.slot[t] = a.slot[t]
  BY ForgottenIs
<1>2. t \in Left(a) <=> t \in a.leaving /\ a.slot[t].runtime = 0
  <2>1. a.leaving \subseteq Tabs
    BY BookIs DEF Sound
  <2> QED
    BY <2>1 DEF Left
<1> HIDE DEF f
<1>3. CASE a.slot[t].runtime = 0
  <2>1. t \in Left(a)
    BY <1>2, <1>3 DEF Applied
  <2>2. f.entry[t].known = FALSE /\ f.slot[t].registered = FALSE
    <3>1. f.slot[t].registered \in BOOLEAN
      BY ForgottenIs, BookIs DEF Sound, f
    <3> QED
      BY <1>1, <2>1, <3>1 DEF NoEntry
  <2> QED
    BY <1>1, <2>1, <2>2 DEF Kept, f
<1>4. CASE a.slot[t].runtime # 0
  <2>1. f.entry[t] = a.entry[t] /\ f.slot[t] = a.slot[t]
    BY <1>1, <1>2, <1>4
  <2>2. AlwaysGrows => grows
    BY GrowsIs
  <2>3. /\ a.told[a.slot[t].runtime] = [visible |-> v, pressure |-> p] /\ a.slot[t].visible = v
        /\ ~v /\ p = CriticalPressure => ~grows
    BY <1>4 DEF Applied
  <2>4. a.slot[t].registered = TRUE /\ a.entry[t].known = TRUE
    BY BookIs DEF Sound, BookType, Entries
  <2> QED
    BY <1>1, <1>4, <2>1, <2>2, <2>3, <2>4 DEF Kept, f
<1> QED
  BY <1>3, <1>4

LEMMA KeptIsKept ==
    ASSUME ServicesAssumption, NEW a, Sound(a), NEW t \in Tabs, NEW p, Kept(a, t, p)
    PROVE  Kept(Forgotten(a), t, p)
<1>1. t \notin Left(a)
  BY DEF Left, Kept
<1> QED
  BY <1>1, ForgottenIs DEF Kept

(* The books are closed as a call has left them.                           *)
LEMMA Closes ==
    ASSUME ServicesAssumption, NEW b, Sound(b), b.leaving = {}, Close(b), inForce' \in PressureLevels,
           \A t \in Tabs : Kept(b, t, inForce')
    PROVE  ServicesInv'
<1> DEFINE c == Books'
<1>1. b \in BookType
  BY DEF Sound
<1>2. c = [slot |-> b.slot, entry |-> b.entry, told |-> b.told, next |-> b.next, count |-> b.count,
           retired |-> b.retired, leaving |-> b.leaving, ok |-> TRUE]
  BY DEF Close, Books
<1> HIDE DEF c
<1>3. c \in BookType
  BY <1>1, <1>2 DEF BookType
<1>4. /\ c.slot = b.slot /\ c.entry = b.entry /\ c.told = b.told /\ c.next = b.next
      /\ c.count = b.count /\ c.retired = b.retired /\ c.leaving = b.leaving
  BY <1>1, <1>2 DEF BookType
<1>5. Sound(c)
  BY <1>3, <1>4, SoundAlike
<1>6. \A t \in Tabs : Kept(c, t, inForce')
  BY <1>4 DEF Kept
<1>7. running' = running /\ leaving' = {}
  BY DEF Close
<1>8. Sound(Books)'
  <2>1. c \in BookType /\ c.count = Cardinality(Holders(c))
    BY <1>5 DEF Sound
  <2> QED
    BY <1>5, <1>7 DEF Sound, BookType, Holders, c
<1>9. \A t \in Tabs : Kept(Books, t, inForce)'
  BY <1>6 DEF Kept, c
<1> QED
  BY <1>7, <1>8, <1>9 DEF ServicesInv

LEMMA BooksAre ==
    ASSUME ServicesAssumption, ServicesInv
    PROVE  /\ Sound(Books) /\ Books \in BookType /\ Books.ok /\ Books.leaving = {}
           /\ Books.slot = slot /\ Books.entry = entry
           /\ inForce \in PressureLevels
           /\ \A t \in Tabs : /\ Kept(Books, t, inForce)
                              /\ Books.slot[t] \in Slots /\ Books.entry[t] \in Entries
<1>1. Sound(Books) /\ Books \in BookType
  BY DEF ServicesInv, Sound
<1>2. \A t \in Tabs : Books.slot[t] \in Slots /\ Books.entry[t] \in Entries
  BY <1>1, BookIs
<1>3. Books.ok /\ Books.leaving = {} /\ Books.slot = slot /\ Books.entry = entry
  BY DEF Books, ServicesInv
<1> QED
  BY <1>1, <1>2, <1>3 DEF ServicesInv

(* A call that was about one tab.                                          *)
LEMMA ClosesOne ==
    ASSUME ServicesAssumption, ServicesInv, NEW t \in Tabs, NEW b, Sound(b), b.leaving = {},
           Beside(Books, b, {t}), Kept(b, t, inForce), Close(b), UNCHANGED inForce
    PROVE  ServicesInv'
<1>1. \A u \in Tabs : Kept(b, u, inForce)
  <2> SUFFICES ASSUME NEW u \in Tabs \ {t} PROVE Kept(b, u, inForce)
    OBVIOUS
  <2>1. Kept(Books, u, inForce)
    BY BooksAre
  <2> QED
    BY <2>1, KeptBeside
<1>2. inForce' \in PressureLevels /\ \A u \in Tabs : Kept(b, u, inForce')
  BY <1>1, BooksAre
<1> QED
  BY <1>2, Closes

(* Draining leaves every tab as it is.                                     *)
LEMMA KeptDrained ==
    ASSUME NEW b, Sound(b)
    PROVE  /\ Sound(Drained(b)) /\ Drained(b).leaving = b.leaving
           /\ \A c, t, p : Kept(b, t, p) => Kept(Drained(b), t, p)
           /\ \A c, S : Beside(c, b, S) => Beside(c, Drained(b), S)
<1> DEFINE d == Drained(b)
<1>1. /\ Sound(d)
      /\ d.slot = b.slot /\ d.entry = b.entry /\ d.leaving = b.leaving /\ d.ok = b.ok
      /\ d.told = b.told
  BY DrainedIs
<1> HIDE DEF d
<1>2. \A t, p : Kept(b, t, p) => Kept(d, t, p)
  BY <1>1 DEF Kept
<1>3. \A c, S : Beside(c, b, S) => Beside(c, d, S)
  BY <1>1 DEF Beside
<1> QED
  BY <1>1, <1>2, <1>3 DEF d

(* With nobody leaving the controller forgets nothing.                     *)
LEMMA NothingForgotten ==
    ASSUME ServicesAssumption, NEW b, Sound(b), b.leaving = {}
    PROVE  LET f == Forgotten(b)
           IN /\ Sound(f) /\ f.leaving = {}
              /\ \A p : \A t \in Tabs : Kept(b, t, p) => Kept(f, t, p)
              /\ \A c, S : Beside(c, b, S) => Beside(c, f, S)
<1> DEFINE f == Forgotten(b)
<1>1. Left(b) = {}
  BY DEF Left
<1>2. /\ Sound(f) /\ f.leaving = {} /\ f.told = b.told
      /\ \A t \in Tabs : f.entry[t] = b.entry[t] /\ f.slot[t] = b.slot[t]
  BY <1>1, ForgottenIs
<1> HIDE DEF f
<1>3. \A p : \A t \in Tabs : Kept(b, t, p) => Kept(f, t, p)
  BY <1>2 DEF Kept
<1>4. \A c, S : Beside(c, b, S) => Beside(c, f, S)
  BY <1>2 DEF Beside
<1> QED
  BY <1>2, <1>3, <1>4 DEF f

LEMMA OpenTabKeeps ==
    ASSUME ServicesAssumption, ServicesInv, NEW t \in Tabs, NEW shown \in BOOLEAN, NEW luck \in Luck,
           OpenTab(t, shown, luck)
    PROVE  ServicesInv'
<1> DEFINE s == [NoSlot EXCEPT !.open = TRUE, !.visible = shown]
           b == [Books EXCEPT !.slot[t] = s]
           r == Registered(b, t, TRUE, luck)
           e == IF ~shown THEN Drained(b) ELSE IF r.ok THEN Drained(r) ELSE [r EXCEPT !.slot[t] = NoSlot]
<1>1. Close(e) /\ UNCHANGED inForce /\ ~Books.slot[t].open
  BY BooksAre DEF OpenTab
<1>2. /\ Sound(Books) /\ Books \in BookType /\ Books.ok /\ Books.leaving = {}
      /\ inForce \in PressureLevels /\ Kept(Books, t, inForce)
  BY BooksAre
<1>3. Books.slot[t] = NoSlot /\ Books.entry[t].known = FALSE
  BY <1>1, <1>2 DEF Kept, NoSlot
<1>4. s \in Slots /\ s.runtime = 0 /\ s.open /\ s.visible = shown /\ s.registered = FALSE /\ NoSlot \in Slots
  <2>1. NoSlot \in Slots /\ NoSlot.runtime = 0 /\ NoSlot.registered = FALSE
    BY NoSlotIs
  <2>2. s \in Slots /\ s.runtime = NoSlot.runtime /\ s.open /\ s.visible = shown
        /\ s.registered = NoSlot.registered
    BY <2>1 DEF Slots
  <2> HIDE DEF s
  <2> QED
    BY <2>1, <2>2
<1> HIDE DEF s
<1>5. /\ b \in BookType /\ b.slot[t] = s /\ b.ok
      /\ \A u \in Tabs \ {t} : b.slot[u] = Books.slot[u] /\ b.entry[u] = Books.entry[u]
      /\ b.leaving = Books.leaving /\ b.told = Books.told /\ b.next = Books.next /\ b.count = Books.count
      /\ b.retired = Books.retired /\ b.entry = Books.entry
  <2>1. [Books.slot EXCEPT ![t] = s] \in [Tabs -> Slots] /\ Books.slot \in [Tabs -> Slots]
    BY <1>2, <1>4, BookIs
  <2>2. b = [Books EXCEPT !.slot = [Books.slot EXCEPT ![t] = s]]
    BY <1>2 DEF BookType
  <2> HIDE DEF b
  <2>3. b \in BookType
    BY <1>2, <2>1, <2>2 DEF BookType
  <2>4. b.slot = [Books.slot EXCEPT ![t] = s] /\ b.ok = Books.ok
        /\ b.leaving = Books.leaving /\ b.told = Books.told /\ b.next = Books.next /\ b.count = Books.count
        /\ b.retired = Books.retired /\ b.entry = Books.entry
    BY <1>2, <2>2 DEF BookType
  <2> QED
    BY <1>2, <2>1, <2>3, <2>4
<1> HIDE DEF b
<1>6. Sound(b) /\ Beside(Books, b, {t})
  <2>1. b.slot[t].runtime = Books.slot[t].runtime
    BY <1>3, <1>4, <1>5 DEF NoSlot
  <2> QED
    BY <1>2, <1>5, <2>1, SoundBeside
<1>7. CASE ~shown
  <2>1. Kept(b, t, inForce)
    BY <1>3, <1>4, <1>5 DEF Kept
  <2>2. e = Drained(b)
    BY <1>7
  <2> HIDE DEF e
  <2> QED
    BY <1>1, <1>2, <1>5, <1>6, <2>1, <2>2, KeptDrained, ClosesOne
<1>8. CASE shown
  <2>1. /\ Sound(r) /\ Beside(b, r, {t}) /\ r.leaving = b.leaving
        /\ r.ok => Kept(r, t, inForce)
        /\ ~r.ok => r.slot = b.slot /\ r.entry[t] = NoEntry
    <3>1. Sound(b) /\ b.ok /\ b.slot[t].open /\ inForce \in PressureLevels
      BY <1>2, <1>4, <1>5, <1>6
    <3> QED
      BY <3>1, RegisteredIs
  <2>2. e = IF r.ok THEN Drained(r) ELSE [r EXCEPT !.slot[t] = NoSlot]
    BY <1>8
  <2> HIDE DEF e, r
  <2>3. Beside(Books, r, {t})
    BY <1>6, <2>1, BesideBoth
  <2>4. r \in BookType /\ r.slot[t] \in Slots
    BY <2>1, BookIs DEF Sound
  <2>5. CASE r.ok
    <3>1. Kept(r, t, inForce)
      BY <2>1, <2>5
    <3>2. e = Drained(r)
      BY <2>2, <2>5
    <3> QED
      BY <1>1, <1>2, <1>5, <2>1, <2>3, <3>1, <3>2, KeptDrained, ClosesOne
  <2>6. CASE ~r.ok
    <3>1. [r.slot EXCEPT ![t] = NoSlot] \in [Tabs -> Slots] /\ r.slot \in [Tabs -> Slots]
      BY <1>4, <2>4, BookIs
    <3>2. e = [r EXCEPT !.slot = [r.slot EXCEPT ![t] = NoSlot]]
      BY <2>2, <2>4, <2>6 DEF BookType
    <3>3. e \in BookType
      BY <2>4, <3>1, <3>2 DEF BookType
    <3>4. e.slot = [r.slot EXCEPT ![t] = NoSlot]
          /\ e.leaving = r.leaving /\ e.told = r.told /\ e.next = r.next /\ e.count = r.count
          /\ e.retired = r.retired /\ e.entry = r.entry
      BY <2>4, <3>2 DEF BookType
    <3>5. e.slot[t] = NoSlot /\ \A u \in Tabs \ {t} : e.slot[u] = r.slot[u] /\ e.entry[u] = r.entry[u]
      BY <3>1, <3>4
    <3>6. r.slot[t].runtime = 0 /\ NoSlot.runtime = 0
      BY <1>4, <1>5, <2>1, <2>6 DEF NoSlot
    <3>7. Sound(e) /\ Beside(r, e, {t})
      BY <2>1, <3>3, <3>4, <3>5, <3>6, SoundBeside
    <3>8. Beside(Books, e, {t})
      BY <2>3, <3>7, BesideBoth
    <3>9. Kept(e, t, inForce)
      <4>1. e.entry[t] = NoEntry /\ e.slot[t].registered = FALSE /\ e.slot[t].runtime = 0
        BY <2>1, <2>6, <3>4, <3>5, <3>6 DEF NoSlot
      <4> QED
        BY <1>4, <3>5, <4>1, UnknownIsKept
    <3> QED
      BY <1>1, <1>2, <1>5, <2>1, <3>4, <3>7, <3>8, <3>9, ClosesOne
  <2> QED
    BY <2>5, <2>6
<1> QED
  BY <1>7, <1>8

LEMMA UnregisteredIs ==
    ASSUME ServicesAssumption, NEW b, Sound(b), NEW t \in Tabs
    PROVE  LET u == Unregistered(b, t)
           IN /\ Sound(u) /\ Beside(b, u, {t})
              /\ u.slot[t] = [b.slot[t] EXCEPT !.registered = FALSE] /\ u.entry[t] = NoEntry
              /\ u.leaving = b.leaving /\ u.ok = b.ok
<1> DEFINE u == Unregistered(b, t)
           s == [b.slot[t] EXCEPT !.registered = FALSE]
<1>1. b \in BookType /\ b.slot \in [Tabs -> Slots] /\ b.entry \in [Tabs -> Entries] /\ NoEntry \in Entries
  BY BookIs DEF Sound, NoEntry, Entries
<1>2. s \in Slots /\ s.runtime = b.slot[t].runtime
  BY <1>1 DEF Slots
<1>3. u = [b EXCEPT !.entry = [b.entry EXCEPT ![t] = NoEntry], !.slot = [b.slot EXCEPT ![t] = s]]
  BY <1>1 DEF Unregistered, BookType
<1>4. [b.slot EXCEPT ![t] = s] \in [Tabs -> Slots] /\ [b.entry EXCEPT ![t] = NoEntry] \in [Tabs -> Entries]
  BY <1>1, <1>2
<1> HIDE DEF u, s
<1>5. u \in BookType
  BY <1>1, <1>3, <1>4 DEF BookType
<1>6. u.slot = [b.slot EXCEPT ![t] = s] /\ u.entry = [b.entry EXCEPT ![t] = NoEntry] /\ u.ok = b.ok
      /\ u.leaving = b.leaving /\ u.told = b.told /\ u.next = b.next /\ u.count = b.count
      /\ u.retired = b.retired
  BY <1>1, <1>3 DEF BookType
<1>7. u.slot[t] = s /\ u.entry[t] = NoEntry
      /\ \A v \in Tabs \ {t} : u.slot[v] = b.slot[v] /\ u.entry[v] = b.entry[v]
  BY <1>1, <1>6
<1>8. Sound(u) /\ Beside(b, u, {t})
  BY <1>2, <1>5, <1>6, <1>7, SoundBeside
<1> QED
  BY <1>6, <1>7, <1>8 DEF u, s

LEMMA HiddenFirst ==
    ASSUME ServicesAssumption, NEW b, Sound(b), NEW t \in Tabs, b.slot[t].runtime # 0
    PROVE  LET g == Given(b, t, FALSE, CriticalPressure)
           IN /\ Sound(g) /\ Beside(b, g, {t}) /\ g.leaving = b.leaving
              /\ g.slot[t].open = b.slot[t].open
<1>1. CriticalPressure \in PressureLevels
  BY DEF CriticalPressure, PressureLevels, NormalPressure
<1> HIDE DEF CriticalPressure
<1> DEFINE g == Given(b, t, FALSE, CriticalPressure)
<1>2. Sound(g) /\ Beside(b, g, {t}) /\ g.leaving = b.leaving
  BY <1>1, GivenIs
<1>3. g.slot[t].open = b.slot[t].open
  <2> DEFINE s == [b.slot EXCEPT ![t].visible = FALSE]
  <2>1. b \in BookType /\ b.slot[t] \in Slots /\ b.slot \in [Tabs -> Slots]
    BY BookIs DEF Sound
  <2>2. g.slot = s
    BY <2>1 DEF Given, BookType
  <2> HIDE DEF g
  <2>3. s[t].open = b.slot[t].open
    BY <2>1 DEF Slots
  <2> QED
    BY <2>2, <2>3
<1> QED
  BY <1>2, <1>3

LEMMA CloseTabKeeps ==
    ASSUME ServicesAssumption, ServicesInv, NEW t \in Tabs, NEW grows \in Retains, CloseTab(t, grows)
    PROVE  ServicesInv'
<1> DEFINE h == IF slot[t].runtime = 0 THEN Books ELSE Given(Books, t, FALSE, CriticalPressure)
           u == Unregistered(h, t)
           r == Retired(u, t, grows)
           z == [r EXCEPT !.slot[t] = NoSlot, !.leaving = @ \ {t}]
<1>1. /\ Books.slot[t].open /\ UNCHANGED inForce
      /\ Close(IF r.slot[t].runtime # 0 THEN r ELSE Drained(z))
  BY BooksAre DEF CloseTab
<1>2. /\ Sound(Books) /\ Books.leaving = {} /\ Books.slot = slot /\ Books.slot[t] \in Slots
  BY BooksAre
<1>3. /\ Sound(h) /\ Beside(Books, h, {t}) /\ h.leaving = {}
      /\ h.slot[t].open = Books.slot[t].open /\ h.slot[t] \in Slots
  <2>1. CASE slot[t].runtime = 0
    <3>1. h = Books /\ Beside(Books, Books, {t})
      BY <2>1 DEF Beside
    <3> HIDE DEF h
    <3> QED
      BY <1>2, <3>1
  <2>2. CASE slot[t].runtime # 0
    <3>1. h = Given(Books, t, FALSE, CriticalPressure)
      BY <2>2
    <3>2. Books.slot[t].runtime # 0
      BY <1>2, <2>2
    <3> HIDE DEF h
    <3>3. Sound(Books)
      BY <1>2
    <3>4. LET g == Given(Books, t, FALSE, CriticalPressure)
          IN /\ Sound(g) /\ Beside(Books, g, {t}) /\ g.leaving = Books.leaving
             /\ g.slot[t].open = Books.slot[t].open
      BY Zenon, <3>2, <3>3, HiddenFirst
    <3>5. /\ Sound(h) /\ Beside(Books, h, {t}) /\ h.leaving = Books.leaving
          /\ h.slot[t].open = Books.slot[t].open
      BY <3>1, <3>4
    <3>6. h.slot[t] \in Slots
      BY <3>5, BookIs DEF Sound
    <3> QED
      BY <1>2, <3>5, <3>6
  <2> QED
    BY <2>1, <2>2
<1> HIDE DEF h
<1>4. /\ Sound(u) /\ Beside(h, u, {t})
      /\ u.slot[t] = [h.slot[t] EXCEPT !.registered = FALSE] /\ u.entry[t] = NoEntry
      /\ u.leaving = h.leaving
  BY <1>3, UnregisteredIs
<1>5. /\ u.slot[t] \in Slots /\ u.slot[t].registered = FALSE /\ u.slot[t].open
  BY <1>1, <1>3, <1>4 DEF Slots
<1> HIDE DEF u
<1>6. grows \in BOOLEAN
  BY DEF ServicesAssumption
<1>7. /\ Sound(r)
      /\ r.slot[t] = IF grows THEN [u.slot[t] EXCEPT !.runtime = 0] ELSE u.slot[t]
      /\ \A w \in Tabs \ {t} : r.slot[w] = u.slot[w]
      /\ r.entry = u.entry /\ r.leaving = u.leaving /\ r.told = u.told
  <2>1. Sound(u)
    BY <1>4
  <2> QED
    BY <1>6, <2>1, RetiredIs
<1> HIDE DEF r
<1>8. r \in BookType /\ r.slot[t].registered = FALSE /\ r.slot[t].open /\ r.entry[t] = NoEntry
      /\ r.leaving = {} /\ (grows => r.slot[t].runtime = 0)
  BY <1>3, <1>4, <1>5, <1>7 DEF Slots, Sound
<1>9. Beside(Books, r, {t})
  <2>1. Beside(u, r, {t})
    BY <1>7 DEF Beside
  <2>2. Beside(Books, u, {t})
    BY <1>3, <1>4, BesideBoth
  <2> QED
    BY <2>1, <2>2, BesideBoth
<1>10. CASE r.slot[t].runtime # 0
  <2>1. ~grows
    BY <1>8, <1>10
  <2>2. ~AlwaysGrows
    BY <2>1, GrowsIs
  <2>3. Kept(r, t, inForce)
    <3>1. r.slot[t] \in Slots
      BY <1>8, BookIs
    <3> QED
      BY <1>8, <2>2, <3>1, UnknownIsKept
  <2>4. Close(r)
    BY <1>1, <1>10
  <2> QED
    BY <1>1, <1>7, <1>8, <1>9, <2>3, <2>4, ClosesOne
<1>11. CASE r.slot[t].runtime = 0
  <2>1. NoSlot \in Slots /\ NoSlot.runtime = 0 /\ NoSlot.registered = FALSE
    BY NoSlotIs
  <2>2. r.slot \in [Tabs -> Slots] /\ [r.slot EXCEPT ![t] = NoSlot] \in [Tabs -> Slots]
    BY <1>8, <2>1, BookIs
  <2>3. z = [r EXCEPT !.slot = [r.slot EXCEPT ![t] = NoSlot], !.leaving = r.leaving \ {t}]
    BY <1>8 DEF BookType
  <2> HIDE DEF z
  <2>4. z \in BookType
    BY <1>8, <2>2, <2>3 DEF BookType
  <2>5. z.slot = [r.slot EXCEPT ![t] = NoSlot] /\ z.leaving = r.leaving
        /\ z.told = r.told /\ z.next = r.next /\ z.count = r.count
        /\ z.retired = r.retired /\ z.entry = r.entry
    BY <1>8, <2>3 DEF BookType
  <2>6. z.slot[t] = NoSlot /\ \A w \in Tabs \ {t} : z.slot[w] = r.slot[w] /\ z.entry[w] = r.entry[w]
    BY <2>2, <2>5
  <2>7. Sound(z) /\ Beside(r, z, {t})
    BY <1>7, <1>11, <2>1, <2>4, <2>5, <2>6, SoundBeside
  <2>8. Beside(Books, z, {t})
    BY <1>9, <2>7, BesideBoth
  <2>9. Kept(z, t, inForce)
    <3>1. z.entry[t] = NoEntry /\ z.slot[t].registered = FALSE /\ z.slot[t].runtime = 0
      BY <1>8, <2>1, <2>5, <2>6
    <3> QED
      BY <2>1, <2>6, <3>1, UnknownIsKept
  <2>10. Close(Drained(z))
    BY <1>1, <1>11
  <2>11. /\ Sound(Drained(z)) /\ Drained(z).leaving = {} /\ Kept(Drained(z), t, inForce)
         /\ Beside(Books, Drained(z), {t})
    BY <1>8, <2>5, <2>7, <2>8, <2>9, KeptDrained
  <2> QED
    BY <1>1, <2>10, <2>11, ClosesOne
<1> QED
  BY <1>10, <1>11

LEMMA ShowDormantKeeps ==
    ASSUME ServicesAssumption, ServicesInv, NEW t \in Tabs, NEW shown \in BOOLEAN, NEW luck \in Luck,
           ShowDormant(t, shown, luck)
    PROVE  ServicesInv'
<1> DEFINE r == Registered(Books, t, TRUE, luck)
           h == [Books EXCEPT !.slot[t].visible = FALSE]
           e == IF shown THEN Forgotten(Drained(r)) ELSE Drained(h)
<1>1. Close(e) /\ UNCHANGED inForce /\ Books.slot[t].open /\ ~Books.slot[t].registered
  BY BooksAre DEF ShowDormant
<1>2. /\ Sound(Books) /\ Books \in BookType /\ Books.ok /\ Books.leaving = {}
      /\ inForce \in PressureLevels /\ Kept(Books, t, inForce) /\ Books.slot[t] \in Slots
  BY BooksAre
<1>3. Books.slot[t].registered = FALSE /\ Books.entry[t].known = FALSE
  BY <1>1, <1>2 DEF Kept, Slots
<1>4. Books.slot[t].runtime = 0 \/ ~AlwaysGrows
  BY <1>1, <1>2 DEF Kept
<1>5. CASE shown
  <2>1. /\ Sound(r) /\ Beside(Books, r, {t}) /\ r.leaving = Books.leaving
        /\ r.ok => Kept(r, t, inForce)
        /\ ~r.ok => r.slot = Books.slot /\ r.entry[t] = NoEntry
    <3>1. Sound(Books) /\ Books.ok /\ Books.slot[t].open /\ inForce \in PressureLevels
      BY <1>1, <1>2
    <3> HIDE DEF e
    <3> QED
      BY <3>1, RegisteredIs
  <2>2. e = Forgotten(Drained(r))
    BY <1>5
  <2> HIDE DEF e, r
  <2>3. Kept(r, t, inForce)
    <3>1. CASE r.ok
      BY <2>1, <3>1
    <3>2. CASE ~r.ok
      <4>1. /\ r.slot[t] \in Slots /\ r.entry[t] = NoEntry /\ ~r.slot[t].registered /\ r.slot[t].open
            /\ r.slot[t].runtime = 0 \/ ~AlwaysGrows
        BY <1>1, <1>2, <1>4, <2>1, <3>2
      <4> QED
        BY <4>1, UnknownIsKept
    <3> QED
      BY <3>1, <3>2
  <2>4. /\ Sound(Drained(r)) /\ Drained(r).leaving = {} /\ Kept(Drained(r), t, inForce)
        /\ Beside(Books, Drained(r), {t})
    BY <1>2, <2>1, <2>3, KeptDrained
  <2>5. /\ Sound(e) /\ e.leaving = {} /\ Kept(e, t, inForce) /\ Beside(Books, e, {t})
    BY <2>2, <2>4, NothingForgotten
  <2> QED
    BY <1>1, <2>5, ClosesOne
<1>6. CASE ~shown
  <2>1. /\ Sound(h) /\ Beside(Books, h, {t})
        /\ h.slot[t] = [Books.slot[t] EXCEPT !.visible = FALSE]
        /\ h.entry = Books.entry /\ h.leaving = Books.leaving
    BY <1>2, HiddenIs
  <2>2. e = Drained(h)
    BY <1>6
  <2> HIDE DEF e, h
  <2>3. /\ h.slot[t].registered = FALSE /\ h.slot[t].open
        /\ h.slot[t].runtime = Books.slot[t].runtime /\ h.entry[t].known = FALSE
    BY <1>1, <1>2, <1>3, <2>1 DEF Slots
  <2>4. Kept(h, t, inForce)
    BY <1>4, <2>3 DEF Kept
  <2>5. /\ Sound(e) /\ e.leaving = {} /\ Kept(e, t, inForce) /\ Beside(Books, e, {t})
    BY <1>2, <2>1, <2>2, <2>4, KeptDrained
  <2> QED
    BY <1>1, <2>5, ClosesOne
<1> QED
  BY <1>5, <1>6

(* A known tab has its runtime and is never refused.                       *)
LEMMA SetTabActivityKeeps ==
    ASSUME ServicesAssumption, ServicesInv, NEW t \in Tabs, NEW shown \in BOOLEAN, NEW same \in BOOLEAN,
           NEW luck \in Luck, NEW again \in Luck, SetTabActivity(t, shown, same, luck, again)
    PROVE  ServicesInv'
<1> DEFINE n == [Books EXCEPT !.entry[t].visible = shown]
           a == IF same THEN Books ELSE ApplySlot(n, t, shown, inForce, luck)
           back == Registered(Unregistered([a EXCEPT !.ok = TRUE], t), t, slot[t].visible, again)
           e == IF a.ok THEN Forgotten(Drained(a)) ELSE back
<1>1. Close(e) /\ UNCHANGED inForce /\ Books.slot[t].open /\ Books.slot[t].registered
  BY BooksAre DEF SetTabActivity
<1>2. /\ Sound(Books) /\ Books \in BookType /\ Books.ok /\ Books.leaving = {}
      /\ inForce \in PressureLevels /\ Kept(Books, t, inForce) /\ Books.slot[t] \in Slots
      /\ Books.entry[t] \in Entries
  BY BooksAre
<1> HIDE DEF back
<1>3. CASE same
  <2>1. e = Forgotten(Drained(Books))
    BY <1>2, <1>3
  <2>2. Beside(Books, Books, {t})
    BY DEF Beside
  <2> HIDE DEF e
  <2>3. /\ Sound(Drained(Books)) /\ Drained(Books).leaving = {} /\ Kept(Drained(Books), t, inForce)
        /\ Beside(Books, Drained(Books), {t})
    BY <1>2, <2>2, KeptDrained
  <2>4. /\ Sound(e) /\ e.leaving = {} /\ Kept(e, t, inForce) /\ Beside(Books, e, {t})
    BY <2>1, <2>3, NothingForgotten
  <2> QED
    BY <1>1, <2>4, ClosesOne
<1>4. CASE ~same
  <2> DEFINE en == [Books.entry[t] EXCEPT !.visible = shown]
  <2>1. Books.slot[t].runtime # 0 /\ Books.entry[t].known
    BY <1>1, <1>2 DEF Kept, Entries
  <2>2. en \in Entries /\ en.known /\ en.visible = shown
    BY <1>2, <2>1 DEF Entries
  <2>3. n = [Books EXCEPT !.entry = [Books.entry EXCEPT ![t] = en]]
    BY <1>2 DEF BookType
  <2>4. [Books.entry EXCEPT ![t] = en] \in [Tabs -> Entries] /\ Books.entry \in [Tabs -> Entries]
    BY <1>2, <2>2, BookIs
  <2>5. a = ApplySlot(n, t, shown, inForce, luck)
    BY <1>4
  <2>6. e = IF a.ok THEN Forgotten(Drained(a)) ELSE back
    OBVIOUS
  <2> HIDE DEF n, en, e, a
  <2>7. n \in BookType
    BY <1>2, <2>3, <2>4 DEF BookType
  <2>8. /\ n.slot = Books.slot /\ n.entry = [Books.entry EXCEPT ![t] = en] /\ n.ok
        /\ n.leaving = Books.leaving /\ n.told = Books.told /\ n.next = Books.next
        /\ n.count = Books.count /\ n.retired = Books.retired
    BY <1>2, <2>3 DEF BookType
  <2>9. n.entry[t] = en /\ \A u \in Tabs \ {t} : n.slot[u] = Books.slot[u] /\ n.entry[u] = Books.entry[u]
    BY <2>4, <2>8
  <2>10. Sound(n) /\ Beside(Books, n, {t})
    BY <1>2, <2>7, <2>8, <2>9, SoundBeside
  <2>11. /\ Sound(a) /\ Beside(n, a, {t}) /\ a.entry = n.entry
         /\ a.ok /\ Applied(n, a, t, shown, inForce, luck.grows)
    <3>1. Sound(n) /\ n.ok /\ inForce \in PressureLevels
      BY <1>2, <2>8, <2>10
    <3> DEFINE q == ApplySlot(n, t, shown, inForce, luck)
    <3>2. /\ Sound(ApplySlot(n, t, shown, inForce, luck))
          /\ Beside(n, ApplySlot(n, t, shown, inForce, luck), {t})
      BY <3>1, ApplySlotIs, ZenonT(60)
    <3>4. ApplySlot(n, t, shown, inForce, luck).entry = n.entry
      BY <3>1, ApplySlotIs, ZenonT(60)
    <3>5. ApplySlot(n, t, shown, inForce, luck).ok
          => Applied(n, ApplySlot(n, t, shown, inForce, luck), t, shown, inForce, luck.grows)
      BY <3>1, ApplySlotIs, ZenonT(60)
    <3>6. ~ApplySlot(n, t, shown, inForce, luck).ok => n.slot[t].runtime = 0
      BY <3>1, ApplySlotIs, ZenonT(60)
    <3>7. n.slot[t].runtime # 0
      BY <2>1, <2>8
    <3> HIDE DEF q
    <3> QED
      BY <2>5, <3>2, <3>4, <3>5, <3>6, <3>7 DEF q
  <2>12. e = Forgotten(Drained(a))
    BY <2>6, <2>11
  <2> DEFINE d == Drained(a)
  <2>13. /\ Sound(d) /\ d.slot = a.slot /\ d.entry = a.entry /\ d.leaving = a.leaving /\ d.told = a.told
    BY <2>11, DrainedIs
  <2> HIDE DEF d
  <2>14. Applied(n, d, t, shown, inForce, luck.grows)
    BY <2>11, <2>13 DEF Applied
  <2>15. Beside(Books, d, {t})
    <3>1. Beside(Books, a, {t})
      BY <2>10, <2>11, BesideBoth
    <3> QED
      BY <2>13, <3>1 DEF Beside
  <2>16. /\ n.slot[t].runtime # 0 /\ d.slot[t].registered /\ d.slot[t].open
         /\ d.entry[t].known /\ d.entry[t].visible = shown
    BY <1>1, <2>1, <2>2, <2>8, <2>9, <2>11, <2>13, <2>14 DEF Applied
  <2>17. luck.grows \in Retains
    BY DEF Luck
  <2>18. Kept(Forgotten(d), t, inForce)
    BY <2>13, <2>14, <2>16, <2>17, ServedIsKept
  <2>19. Sound(Forgotten(d)) /\ Forgotten(d).leaving = {}
    BY <2>13, ForgottenIs
  <2>20. \A u \in Tabs : Kept(Forgotten(d), u, inForce)
    <3> SUFFICES ASSUME NEW u \in Tabs \ {t} PROVE Kept(Forgotten(d), u, inForce)
      BY <2>18
    <3>1. Kept(Books, u, inForce)
      BY BooksAre
    <3>2. Kept(d, u, inForce)
      BY <2>15, <3>1, KeptBeside
    <3> QED
      BY <2>13, <3>2, KeptIsKept
  <2>21. e = Forgotten(d) /\ Close(e)
    BY <1>1, <2>12 DEF d
  <2>22. inForce' \in PressureLevels /\ \A u \in Tabs : Kept(e, u, inForce')
    BY <1>1, <1>2, <2>20, <2>21
  <2>23. Sound(e) /\ e.leaving = {}
    BY <2>19, <2>21
  <2> QED
    BY <2>21, <2>22, <2>23, Closes
<1> QED
  BY <1>3, <1>4

(* The foreground pool runs only what is alive.                            *)
LEMMA RunsKeep ==
    ASSUME ServicesAssumption, ServicesInv, NEW g \in Generations, RunBegins(g) \/ RunEnds(g)
    PROVE  ServicesInv'
<1> DEFINE c == Books
<1>1. Sound(c) /\ c.slot = slot /\ c.retired = retired
  BY DEF Books, ServicesInv
<1>2. c' = c /\ leaving' = leaving /\ inForce' = inForce
  BY DEF Books, RunBegins, RunEnds
<1>3. /\ running' \subseteq Generations
      /\ \A h \in running' : h \in running \/ h \in Alive
  BY <1>1 DEF RunBegins, RunEnds, Sound
<1> HIDE DEF c
<1>4. \A h \in Alive : h \in c.retired \/ \E t \in Tabs : c.slot[t].runtime = h
  BY <1>1 DEF Alive
<1>5. Sound(c)'
  BY <1>1, <1>2, <1>3, <1>4 DEF Sound, BookType, Holders
<1>6. \A t \in Tabs : Kept(c, t, inForce)'
  BY <1>2 DEF ServicesInv, c, Kept
<1> QED
  BY <1>2, <1>5, <1>6 DEF ServicesInv, c

LEMMA ServicesStart ==
    ASSUME ServicesAssumption, ServicesInit
    PROVE  ServicesInv
<1> DEFINE c == Books
<1>1. /\ c.slot = [t \in Tabs |-> NoSlot] /\ c.entry = [t \in Tabs |-> NoEntry]
      /\ c.told = [g \in Generations |-> [visible |-> FALSE, pressure |-> NormalPressure]]
      /\ c.next = 1 /\ c.count = 0 /\ c.retired = {} /\ c.leaving = {} /\ c.ok \in BOOLEAN
      /\ running = {}
  BY DEF ServicesInit, Books
<1>2. NoSlot \in Slots /\ NoSlot.runtime = 0 /\ NoSlot.registered = FALSE
  BY NoSlotIs
<1>3. NoEntry \in Entries /\ NoEntry.known = FALSE
  BY DEF NoEntry, Entries
<1>4. NormalPressure \in PressureLevels /\ 1 \in 1..(LastGeneration + 1)
  BY DEF NormalPressure, CriticalPressure, PressureLevels, ServicesAssumption
<1>5. c = [slot |-> c.slot, entry |-> c.entry, told |-> c.told, next |-> c.next, count |-> c.count,
           retired |-> c.retired, leaving |-> c.leaving, ok |-> c.ok]
  BY DEF Books
<1> HIDE DEF c
<1>6. c \in BookType
  <2>1. c.slot \in [Tabs -> Slots] /\ c.entry \in [Tabs -> Entries]
    BY <1>1, <1>2, <1>3
  <2>2. c.told \in [Generations -> [visible : BOOLEAN, pressure : PressureLevels]]
    <3>1. [visible |-> FALSE, pressure |-> NormalPressure] \in [visible : BOOLEAN, pressure : PressureLevels]
      BY <1>4
    <3> QED
      BY <1>1, <3>1
  <2>3. c.next \in 1..(LastGeneration + 1) /\ c.count \in Nat /\ c.retired \in SUBSET Generations
        /\ c.leaving \in SUBSET Tabs /\ c.ok \in BOOLEAN
    BY <1>1, <1>4
  <2> QED
    BY <1>5, <2>1, <2>2, <2>3 DEF BookType
<1>7. Holders(c) = {}
  BY <1>1, <1>2 DEF Holders
<1>8. Sound(c)
  BY <1>1, <1>6, <1>7, FS_EmptySet DEF Sound
<1>9. \A t \in Tabs : Kept(c, t, inForce)
  BY <1>1, <1>2, UnknownIsKept
<1> QED
  BY <1>4, <1>8, <1>9 DEF ServicesInv, ServicesInit, c

(* A pass of the controller over the tabs K: the fold that PressurePass    *)
(* writes, as the function it CHOOSEs.                                     *)
PassOver(b, K, p, luck) ==
    CHOOSE it : it = [s \in SUBSET K |->
        IF s = {} THEN b ELSE ToldAgain(it[s \ {Pick(s)}], Pick(s), p, luck[Pick(s)])]

(* What the tabs S have heard of the pressure p, from books b on.          *)
Heard(b, c, S, p, luck) ==
    /\ Sound(c) /\ c.ok /\ c.entry = b.entry
    /\ Beside(b, c, S)
    /\ \A t \in S : Applied(b, c, t, b.entry[t].visible, p, luck[t].grows)

(* ToldAgain keeps the books sound, also when the tab cannot be served.    *)
LEMMA ToldAgainIs ==
    ASSUME ServicesAssumption, NEW c, Sound(c), c.ok, NEW t \in Tabs,
           NEW p \in PressureLevels, NEW luck \in Luck
    PROVE  LET d == ToldAgain(c, t, p, luck)
           IN /\ Sound(d) /\ d.ok /\ d.entry = c.entry /\ Beside(c, d, {t})
              /\ c.slot[t].runtime # 0 => Applied(c, d, t, c.entry[t].visible, p, luck.grows)
<1> DEFINE v == c.entry[t].visible
           a == ApplySlot(c, t, v, p, luck)
           d == ToldAgain(c, t, p, luck)
<1>1. v \in BOOLEAN
  BY BookIs DEF Sound, Entries
<1> HIDE DEF v
<1>2. Sound(a)
  BY <1>1, ApplySlotIs
<1>3. Beside(c, a, {t})
  BY <1>1, ApplySlotIs
<1>4. a.entry = c.entry
  BY <1>1, ApplySlotIs, ZenonT(30)
<1>5. a.ok => Applied(c, a, t, v, p, luck.grows)
  BY <1>1, ApplySlotIs
<1>6. ~a.ok => c.slot[t].runtime = 0
  BY <1>1, ApplySlotIs
<1>7. d = [a EXCEPT !.ok = TRUE]
  BY DEF ToldAgain, v
<1> HIDE DEF a, d
<1>8. a \in BookType
  BY <1>2 DEF Sound
<1>9. d \in BookType /\ d.ok
  BY <1>7, <1>8 DEF BookType
<1>10. /\ d.slot = a.slot /\ d.entry = a.entry /\ d.told = a.told /\ d.next = a.next
       /\ d.count = a.count /\ d.retired = a.retired /\ d.leaving = a.leaving
  BY <1>7, <1>8 DEF BookType
<1>11. Sound(d)
  BY <1>2, <1>9, <1>10, SoundAlike
<1>12. Beside(c, d, {t})
  BY <1>3, <1>10 DEF Beside
<1>13. c.slot[t].runtime # 0 => Applied(c, d, t, v, p, luck.grows)
  BY <1>5, <1>6, <1>10 DEF Applied
<1> QED
  BY <1>4, <1>9, <1>10, <1>11, <1>12, <1>13 DEF d, v

LEMMA HeardMore ==
    ASSUME ServicesAssumption, NEW b, NEW c, NEW S \in SUBSET Tabs, NEW p \in PressureLevels,
           NEW luck \in [Tabs -> Luck], Heard(b, c, S, p, luck),
           NEW t \in Tabs \ S, b.slot[t].runtime # 0
    PROVE  Heard(b, ToldAgain(c, t, p, luck[t]), S \cup {t}, p, luck)
<1> DEFINE d == ToldAgain(c, t, p, luck[t])
<1>1. Sound(c) /\ c.ok /\ luck[t] \in Luck
  BY DEF Heard
<1>2. c.entry = b.entry /\ Beside(b, c, S)
  BY DEF Heard
<1>3. c.slot[t] = b.slot[t]
  BY <1>2 DEF Beside
<1>4. Sound(d) /\ d.ok
  BY <1>1, ToldAgainIs
<1>5. d.entry = c.entry
  BY <1>1, ToldAgainIs, ZenonT(30)
<1>6. Beside(c, d, {t})
  BY <1>1, ToldAgainIs
<1>7. c.slot[t].runtime # 0 => Applied(c, d, t, c.entry[t].visible, p, luck[t].grows)
  BY <1>1, ToldAgainIs
<1> HIDE DEF d
<1>8. Beside(b, d, S \cup {t})
  BY <1>2, <1>6, BesideBoth
<1>9. Applied(b, d, t, b.entry[t].visible, p, luck[t].grows)
  BY <1>2, <1>3, <1>7 DEF Applied
<1>10. ASSUME NEW u \in S PROVE Applied(b, d, u, b.entry[u].visible, p, luck[u].grows)
  <2>1. u \in Tabs \ {t}
    OBVIOUS
  <2>2. Applied(b, c, u, b.entry[u].visible, p, luck[u].grows)
    BY DEF Heard
  <2>3. /\ d.slot[u] = c.slot[u]
        /\ c.slot[u].runtime # 0 => d.told[c.slot[u].runtime] = c.told[c.slot[u].runtime]
        /\ u \in d.leaving <=> u \in c.leaving
    BY <1>6, <2>1 DEF Beside
  <2> QED
    BY <2>2, <2>3 DEF Applied
<1> QED
  BY <1>2, <1>4, <1>5, <1>8, <1>9, <1>10 DEF Heard, d

(* A pass over tabs that have their runtimes is heard by all of them.      *)
LEMMA PassIsHeard ==
    ASSUME ServicesAssumption, NEW b, NEW c, NEW R \in SUBSET Tabs, NEW p \in PressureLevels,
           NEW luck \in [Tabs -> Luck], Heard(b, c, R, p, luck),
           NEW K \in SUBSET Tabs, K \cap R = {}, \A t \in K : b.slot[t].runtime # 0
    PROVE  Heard(b, PassOver(c, K, p, luck)[K], R \cup K, p, luck)
<1> DEFINE V == {d \in BookType : Sound(d) /\ d.ok}
           F == [x \in K \X V |-> ToldAgain(x[2], x[1], p, luck[x[1]])]
           it == PassOver(c, K, p, luck)
<1>1. IsFiniteSet(K)
  BY FS_Subset DEF ServicesAssumption
<1>2. c \in V
  BY DEF Heard, Sound
<1>3. F \in [K \X V -> V]
  <2> SUFFICES ASSUME NEW t \in K, NEW d \in V PROVE ToldAgain(d, t, p, luck[t]) \in V
    OBVIOUS
  <2>1. Sound(d) /\ d.ok /\ t \in Tabs /\ luck[t] \in Luck
    OBVIOUS
  <2>2. Sound(ToldAgain(d, t, p, luck[t])) /\ ToldAgain(d, t, p, luck[t]).ok
    BY <2>1, ToldAgainIs
  <2> QED
    BY <2>2 DEF Sound
<1>4. it = [s \in SUBSET K |-> IF s = {} THEN c ELSE ToldAgain(it[s \ {Pick(s)}], Pick(s), p, luck[Pick(s)])]
  <2> DEFINE after(g, s) == IF s = {} THEN c ELSE ToldAgain(g[s \ {Pick(s)}], Pick(s), p, luck[Pick(s)])
  <2> HIDE DEF V, F
  <2>1. PICK g \in [SUBSET K -> V] : Computes(g, F, c, K)
    BY <1>1, <1>2, <1>3, FoldExists
  <2>2. ASSUME NEW s \in SUBSET K PROVE g[s] = after(g, s)
    <3>1. CASE s = {}
      BY <2>1, <3>1 DEF Computes
    <3>2. CASE s # {}
      <4>1. Pick(s) \in K /\ g[s \ {Pick(s)}] \in V
        BY <3>2, PickIs
      <4>2. g[s] = F[<<Pick(s), g[s \ {Pick(s)}]>>]
        BY <2>1, <3>2 DEF Computes
      <4> QED
        BY <3>2, <4>1, <4>2 DEF F
    <3> QED
      BY <3>1, <3>2
  <2>3. g = [s \in SUBSET K |-> after(g, s)]
    <3> HIDE DEF after
    <3> QED
      BY <2>2
  <2> QED
    BY <2>3, Zenon DEF PassOver
<1> DEFINE AllHeard(s) == Heard(b, it[s], R \cup s, p, luck)
           T == {n \in Nat : \A s \in SUBSET K : Cardinality(s) = n => AllHeard(s)}
<1> HIDE DEF it, V, F, AllHeard
<1>5. 0 \in T
  <2> SUFFICES ASSUME NEW s \in SUBSET K, Cardinality(s) = 0 PROVE AllHeard(s)
    OBVIOUS
  <2>1. s = {}
    BY <1>1, PartIs
  <2>2. it[s] = c /\ R \cup s = R
    BY <1>4, <2>1
  <2> QED
    BY <2>2 DEF AllHeard
<1>6. ASSUME NEW n \in T PROVE n + 1 \in T
  <2>1. n \in Nat
    OBVIOUS
  <2> SUFFICES ASSUME NEW s \in SUBSET K, Cardinality(s) = n + 1 PROVE AllHeard(s)
    BY <2>1
  <2> DEFINE t == Pick(s)
             r == s \ {t}
  <2>2. s # {} /\ t \in s
    BY <1>1, PartIs, PickIs
  <2>3. r \in SUBSET K /\ Cardinality(r) = n
    BY <1>1, <2>1, <2>2, PartIs
  <2>4. Heard(b, it[r], R \cup r, p, luck)
    BY <2>3 DEF AllHeard
  <2>5. it[s] = ToldAgain(it[r], t, p, luck[t])
    BY <1>4, <2>2
  <2> HIDE DEF t, T
  <2>6. R \cup r \in SUBSET Tabs /\ t \in Tabs \ (R \cup r) /\ b.slot[t].runtime # 0
    BY <2>2
  <2>7. (R \cup r) \cup {t} = R \cup s
    BY <2>2
  <2> HIDE DEF r
  <2>8. Heard(b, ToldAgain(it[r], t, p, luck[t]), (R \cup r) \cup {t}, p, luck)
    BY <2>4, <2>6, HeardMore
  <2> QED
    BY <2>5, <2>7, <2>8 DEF AllHeard
<1>7. T = Nat
  <2> HIDE DEF T
  <2>1. T \in SUBSET Nat
    BY DEF T
  <2> QED
    BY <1>5, <1>6, <2>1, Induction
<1>8. K \in SUBSET K /\ Cardinality(K) \in Nat
  BY <1>1, PartIs
<1> QED
  BY <1>7, <1>8 DEF it, AllHeard

LEMMA TickKeeps ==
    ASSUME ServicesAssumption, ServicesInv, NEW p \in PressureLevels, NEW luck \in [Tabs -> Luck],
           Tick(p, luck)
    PROVE  ServicesInv'
<1> DEFINE b == Books
           known(shown) == {t \in Tabs : b.entry[t].known /\ b.entry[t].visible = shown}
           H == known(FALSE)
           S == known(TRUE)
           c == PassOver(b, H, p, luck)[H]
           d == PassOver(c, S, p, luck)[S]
           e == IF p = inForce THEN b ELSE PressurePass(b, p, luck)
           f == Forgotten(Drained(e))
<1>1. Close(f) /\ inForce' = p
  BY DEF Tick
<1>2. /\ Sound(b) /\ b.ok /\ b.leaving = {}
      /\ \A t \in Tabs : Kept(b, t, inForce) /\ b.slot[t] \in Slots /\ b.entry[t] \in Entries
  BY BooksAre
<1> HIDE DEF b
<1>3. CASE p = inForce
  <2>1. f = Forgotten(Drained(b))
    BY <1>3
  <2> HIDE DEF f
  <2>2. Sound(Drained(b)) /\ Drained(b).leaving = {} /\ \A t \in Tabs : Kept(Drained(b), t, p)
    BY <1>2, <1>3, KeptDrained
  <2>3. Sound(f) /\ f.leaving = {} /\ \A t \in Tabs : Kept(f, t, p)
    BY <2>1, <2>2, NothingForgotten
  <2> QED
    BY <1>1, <2>3, Closes
<1>4. CASE p # inForce
  <2>1. e = d
    <3>1. e = PressurePass(b, p, luck)
      BY <1>4
    <3> HIDE DEF e
    <3> QED
      BY <3>1, Zenon DEF PressurePass, FoldSet, MapThenFoldSet, Pick, PassOver
  <2>2. /\ H \in SUBSET Tabs /\ S \in SUBSET Tabs /\ S \cap H = {}
        /\ \A t \in Tabs : t \in H \cup S <=> b.entry[t].known
        /\ \A t \in H : b.entry[t].visible = FALSE
        /\ \A t \in S : b.entry[t].visible = TRUE
    BY <1>2 DEF Entries
  <2> HIDE DEF c, d, e, H, S
  <2>3. \A t \in H \cup S : b.slot[t].runtime # 0 /\ b.slot[t].registered /\ b.slot[t].open
    <3> SUFFICES ASSUME NEW t \in H \cup S
                 PROVE b.slot[t].runtime # 0 /\ b.slot[t].registered /\ b.slot[t].open
      OBVIOUS
    <3>1. Kept(b, t, inForce) /\ b.entry[t].known
      BY <1>2, <2>2
    <3>2. b.slot[t].registered /\ b.slot[t].runtime # 0
      BY <1>2, <2>2, <3>1 DEF Kept
    <3> QED
      BY <3>1, <3>2, NoSlotIs DEF Kept
  <2>4. Heard(b, b, {}, p, luck)
    BY <1>2 DEF Heard, Beside
  <2>5. Heard(b, c, H, p, luck)
    <3>1. {} \in SUBSET Tabs /\ H \cap {} = {} /\ {} \cup H = H
      OBVIOUS
    <3>2. Heard(b, PassOver(b, H, p, luck)[H], {} \cup H, p, luck)
      BY <2>2, <2>3, <2>4, <3>1, PassIsHeard
    <3> QED
      BY <3>1, <3>2 DEF c
  <2>6. Heard(b, d, H \cup S, p, luck)
    BY <2>2, <2>3, <2>5, PassIsHeard DEF d
  <2> DEFINE q == Drained(d)
  <2>7. Sound(d) /\ d.entry = b.entry /\ Beside(b, d, H \cup S)
    BY <2>6 DEF Heard
  <2>8. Sound(q) /\ q.slot = d.slot /\ q.entry = d.entry /\ q.leaving = d.leaving /\ q.told = d.told
    BY <2>7, DrainedIs
  <2>9. f = Forgotten(q)
    BY <2>1
  <2> HIDE DEF q, f
  <2>10. ASSUME NEW t \in Tabs PROVE Kept(f, t, p)
    <3>1. CASE t \in H \cup S
      <4>1. Applied(b, q, t, b.entry[t].visible, p, luck[t].grows)
        <5>1. Applied(b, d, t, b.entry[t].visible, p, luck[t].grows)
          BY <2>6, <3>1 DEF Heard
        <5> QED
          BY <2>8, <5>1 DEF Applied
      <4>2. luck[t].grows \in Retains /\ b.entry[t].visible \in BOOLEAN
        BY <1>2 DEF Luck, Entries
      <4>3. /\ b.slot[t].runtime # 0 /\ q.slot[t].registered /\ q.slot[t].open
            /\ q.entry[t].known /\ q.entry[t].visible = b.entry[t].visible
        BY <2>2, <2>3, <2>7, <2>8, <3>1, <4>1 DEF Applied
      <4>4. Kept(Forgotten(q), t, p)
        BY <2>8, <4>1, <4>2, <4>3, ServedIsKept
      <4> QED
        BY <2>9, <4>4
    <3>2. CASE t \notin H \cup S
      <4>1. Kept(b, t, inForce) /\ ~b.entry[t].known /\ b.slot[t] \in Slots
        BY <1>2, <2>2, <3>2
      <4>2. ~b.slot[t].registered
        BY <1>2, <4>1 DEF Kept, Slots, Entries
      <4>3. Kept(b, t, p)
        BY <4>1, <4>2 DEF Kept
      <4>4. Beside(b, q, H \cup S)
        BY <2>7, <2>8 DEF Beside
      <4>5. Kept(q, t, p)
        BY <3>2, <4>3, <4>4, KeptBeside
      <4> QED
        BY <2>8, <2>9, <4>5, KeptIsKept
    <3> QED
      BY <3>1, <3>2
  <2>11. Sound(f) /\ f.leaving = {}
    BY <2>8, <2>9, ForgottenIs
  <2>12. inForce' \in PressureLevels /\ \A t \in Tabs : Kept(f, t, inForce')
    BY <1>1, <2>10
  <2> QED
    BY <1>1, <2>11, <2>12, Closes
<1> QED
  BY <1>3, <1>4

LEMMA ServicesStep ==
    ASSUME ServicesAssumption, ServicesInv, [ServicesNext]_servicesVars
    PROVE  ServicesInv'
<1>1. CASE UNCHANGED servicesVars
  <2>1. Books' = Books /\ leaving' = leaving /\ inForce' = inForce /\ running' = running
    BY <1>1 DEF servicesVars, Books
  <2>2. Sound(Books)'
    BY <2>1 DEF ServicesInv, Sound, BookType, Holders
  <2>3. \A t \in Tabs : Kept(Books, t, inForce)'
    BY <2>1 DEF ServicesInv, Kept
  <2> QED
    BY <2>1, <2>2, <2>3 DEF ServicesInv
<1>2. CASE \E t \in Tabs, shown \in BOOLEAN, l \in Luck : OpenTab(t, shown, l) \/ ShowDormant(t, shown, l)
  BY <1>2, OpenTabKeeps, ShowDormantKeeps
<1>3. CASE \E t \in Tabs, grows \in Retains : CloseTab(t, grows)
  BY <1>3, CloseTabKeeps
<1>4. CASE \E t \in Tabs, shown, same \in BOOLEAN, l, again \in Luck :
              SetTabActivity(t, shown, same, l, again)
  BY <1>4, SetTabActivityKeeps
<1>5. CASE \E p \in PressureLevels, luck \in [Tabs -> Luck] : Tick(p, luck)
  BY <1>5, TickKeeps
<1>6. CASE \E g \in Generations : RunBegins(g) \/ RunEnds(g)
  BY <1>6, RunsKeep
<1> QED
  BY <1>1, <1>2, <1>3, <1>4, <1>5, <1>6 DEF ServicesNext

LEMMA ServicesStaySound ==
    ASSUME ServicesAssumption
    PROVE  ServicesSpec => []ServicesInv
<1>1. ServicesInit => ServicesInv
  BY ServicesStart
<1>2. ServicesInv /\ [ServicesNext]_servicesVars => ServicesInv'
  BY ServicesStep
<1> QED
  BY <1>1, <1>2, PTL DEF ServicesSpec

(* No thread of the foreground pool runs in a runtime that was destroyed,  *)
(* and no generation is taken for another tab's or for a retired one,      *)
(* whatever cannot be opened and whatever list does not grow.              *)
THEOREM RunsAreAlwaysSafe ==
    ASSUME ServicesAssumption
    PROVE  ServicesSpec => []RunsAreSafe
<1>1. ServicesInv => RunsAreSafe
  <2> SUFFICES ASSUME ServicesInv PROVE RunsAreSafe
    OBVIOUS
  <2> DEFINE c == Books
  <2>1. /\ c.slot = slot /\ c.entry = entry /\ c.told = told /\ c.next = next /\ c.count = count
        /\ c.retired = retired /\ c.leaving = leaving
    BY DEF Books
  <2>2. Sound(c) /\ inForce \in PressureLevels
    BY DEF ServicesInv
  <2> HIDE DEF c
  <2>3. Holders(c) = Runtimes
    BY <2>1 DEF Holders, Runtimes
  <2>4. /\ slot \in [Tabs -> Slots] /\ entry \in [Tabs -> Entries]
        /\ told \in [Generations -> [visible : BOOLEAN, pressure : PressureLevels]]
        /\ next \in 1..(LastGeneration + 1) /\ retired \subseteq Generations /\ leaving \subseteq Tabs
    BY <2>1, <2>2 DEF Sound, BookType
  <2>5. count = Cardinality(Runtimes) /\ running \subseteq Generations
    BY <2>1, <2>2, <2>3 DEF Sound
  <2>6. ServicesTypeOK
    BY <2>2, <2>4, <2>5 DEF ServicesTypeOK, Slots, Entries
  <2>7. NoRunInDestroyed
    <3> SUFFICES ASSUME NEW g \in running, g \notin retired PROVE \E t \in Tabs : slot[t].runtime = g /\ g # 0
      BY DEF NoRunInDestroyed, Alive
    <3>1. \E t \in Tabs : slot[t].runtime = g
      BY <2>1, <2>2 DEF Sound
    <3>2. g # 0
      BY <2>5 DEF Generations
    <3> QED
      BY <3>1, <3>2
  <2>8. OneGenerationEach
    BY <2>1, <2>2, <2>3 DEF Sound, OneGenerationEach
  <2> QED
    BY <2>6, <2>7, <2>8 DEF RunsAreSafe
<1> QED
  BY <1>1, ServicesStaySound, PTL

(* A shown tab has a runtime that hears the pressure in force, whatever    *)
(* fails; where the list of retired runtimes always grows every runtime    *)
(* hears it, and under critical pressure hidden tabs have given theirs up. *)
THEOREM ServicesAlwaysReachTabs ==
    ASSUME ServicesAssumption
    PROVE  ServicesSpec => []ServicesReachTabs
<1>1. ServicesInv => ServicesReachTabs
  <2> SUFFICES ASSUME ServicesInv PROVE ServicesReachTabs
    OBVIOUS
  <2>1. Books.slot = slot /\ Books.entry = entry /\ Books.told = told
    BY DEF Books
  <2>2. \A t \in Tabs : /\ Kept(Books, t, inForce) /\ Books.slot[t] \in Slots /\ Books.entry[t] \in Entries
    BY BooksAre
  <2>3. ShownIsServed
    <3> SUFFICES ASSUME NEW t \in Tabs, slot[t].registered, slot[t].visible
                 PROVE  /\ slot[t].runtime # 0
                        /\ told[slot[t].runtime] = [visible |-> TRUE, pressure |-> inForce]
      BY DEF ShownIsServed, Runtimes
    <3>1. /\ slot[t].runtime # 0
          /\ told[slot[t].runtime] = [visible |-> slot[t].visible, pressure |-> inForce]
      BY <2>1, <2>2 DEF Kept
    <3>2. slot[t].visible = TRUE
      BY <2>1, <2>2 DEF Slots
    <3> QED
      BY <3>1, <3>2
  <2>4. ASSUME AlwaysGrows PROVE PressureReachesRuntimes
    <3>1. \A t \in Tabs : entry[t].known = slot[t].registered
      BY <2>1, <2>2 DEF Kept
    <3>2. ASSUME NEW t \in Runtimes
          PROVE  /\ entry[t] = [known |-> TRUE, visible |-> slot[t].visible]
                 /\ told[slot[t].runtime] = [visible |-> slot[t].visible, pressure |-> inForce]
      <4>1. t \in Tabs /\ slot[t].runtime # 0
        BY DEF Runtimes
      <4>2. slot[t].registered
        BY <2>1, <2>2, <2>4, <4>1 DEF Kept
      <4>3. /\ entry[t].known = slot[t].registered /\ entry[t].visible = slot[t].visible
            /\ told[slot[t].runtime] = [visible |-> slot[t].visible, pressure |-> inForce]
        BY <2>1, <2>2, <4>1, <4>2 DEF Kept
      <4>4. slot[t].registered = TRUE /\ entry[t] = [known |-> entry[t].known, visible |-> entry[t].visible]
        BY <2>1, <2>2, <4>1, <4>2 DEF Slots, Entries
      <4> QED
        BY <4>3, <4>4
    <3> QED
      BY <3>1, <3>2 DEF PressureReachesRuntimes
  <2>5. ASSUME AlwaysGrows PROVE HiddenGivenUp
    <3>1. \A t \in Runtimes : t \in Tabs /\ slot[t].runtime # 0
      BY DEF Runtimes
    <3>2. inForce = CriticalPressure => \A t \in Runtimes : slot[t].visible
      BY <2>1, <2>2, <2>5, <3>1 DEF Kept
    <3>3. \A t \in Tabs : slot[t].registered => t \in Runtimes
      BY <2>1, <2>2 DEF Kept, Runtimes
    <3> QED
      BY <3>2, <3>3 DEF HiddenGivenUp
  <2> QED
    BY <2>3, <2>4, <2>5 DEF ServicesReachTabs, AlwaysGrows
<1> QED
  BY <1>1, ServicesStaySound, PTL

------------------------------------------------------------------------------
(* Reading ahead: sequences without repetition.                            *)

(* An element moved to the front of a sequence without repetition: the     *)
(* same elements, each once.                                               *)
LEMMA MovedToFront ==
    ASSUME NEW S, NEW s \in Seq(S), IsInjective(s), NEW i \in DOMAIN s
    PROVE  LET m == <<s[i]>> \o RemoveAt(s, i)
           IN /\ m \in Seq(S) /\ IsInjective(m)
              /\ ToSet(m) = ToSet(s) /\ Len(m) = Len(s)
<1> DEFINE front == SubSeq(s, 1, i - 1)
           rest == SubSeq(s, i + 1, Len(s))
           without == front \o rest
           m == <<s[i]>> \o without
<1>1. DOMAIN s = 1..Len(s) /\ Len(s) \in Nat /\ i \in 1..Len(s)
  BY LenProperties
<1>2. \A j \in 1..Len(s) : s[j] \in S
  BY <1>1, ElementOfSeq
<1>3. /\ front \in Seq(S) /\ Len(front) = i - 1
      /\ \A j \in 1..i - 1 : front[j] = s[j]
  <2>1. \A j \in 1..i - 1 : s[j] \in S
    BY <1>1, <1>2
  <2>2. /\ front \in Seq(S)
        /\ Len(front) = IF 1 <= i - 1 THEN i - 1 - 1 + 1 ELSE 0
        /\ \A j \in 1..i - 1 - 1 + 1 : front[j] = s[1 + j - 1]
    <3> HIDE DEF front
    <3>1. 1 \in Int /\ i - 1 \in Int
      BY <1>1
    <3> QED
      BY <3>1, <2>1, SubSeqProperties DEF front
  <2> QED
    BY <2>2, <1>1
<1>4. /\ rest \in Seq(S) /\ Len(rest) = Len(s) - i
      /\ \A j \in 1..Len(s) - i : rest[j] = s[i + j]
  <2>1. \A j \in i + 1..Len(s) : s[j] \in S
    BY <1>1, <1>2
  <2>2. /\ rest \in Seq(S)
        /\ Len(rest) = IF i + 1 <= Len(s) THEN Len(s) - (i + 1) + 1 ELSE 0
        /\ \A j \in 1..Len(s) - (i + 1) + 1 : rest[j] = s[i + 1 + j - 1]
    <3>1. i + 1 \in Int /\ Len(s) \in Int
      BY <1>1
    <3> QED
      BY <3>1, <2>1, SubSeqProperties
  <2> HIDE DEF rest
  <2>3. Len(rest) = Len(s) - i /\ Len(s) - (i + 1) + 1 = Len(s) - i
    BY <2>2, <1>1
  <2>4. \A j \in 1..Len(s) - i : i + 1 + j - 1 = i + j
    BY <1>1
  <2> QED
    BY <2>2, <2>3, <2>4
<1> HIDE DEF front, rest
<1>5. /\ without \in Seq(S) /\ Len(without) = Len(s) - 1
      /\ \A j \in 1..Len(s) - 1 :
            without[j] = IF j <= i - 1 THEN s[j] ELSE s[j + 1]
  <2>1. /\ without \in Seq(S) /\ Len(without) = Len(front) + Len(rest)
        /\ \A j \in 1..Len(front) + Len(rest) :
              without[j] = IF j <= Len(front) THEN front[j] ELSE rest[j - Len(front)]
    BY <1>3, <1>4, ConcatProperties
  <2> HIDE DEF without
  <2>2. Len(front) + Len(rest) = Len(s) - 1
    BY <1>1, <1>3, <1>4
  <2>3. ASSUME NEW j \in 1..Len(s) - 1
        PROVE  without[j] = IF j <= i - 1 THEN s[j] ELSE s[j + 1]
    <3>1. CASE j <= i - 1
      BY <3>1, <2>1, <2>2, <1>1, <1>3
    <3>2. CASE ~(j <= i - 1)
      <4>1. /\ without[j] = rest[j - (i - 1)]
            /\ j - (i - 1) \in 1..Len(s) - i /\ i + (j - (i - 1)) = j + 1
        BY <3>2, <2>1, <2>2, <1>1, <1>3
      <4>2. rest[j - (i - 1)] = s[i + (j - (i - 1))]
        BY <4>1, <1>4
      <4> QED
        BY <4>1, <4>2, <3>2
    <3> QED
      BY <3>1, <3>2
  <2> QED
    BY <2>1, <2>2, <2>3
<1>6. /\ m \in Seq(S) /\ Len(m) = Len(s)
      /\ \A j \in 1..Len(s) :
            m[j] = IF j = 1 THEN s[i] ELSE IF j <= i THEN s[j - 1] ELSE s[j]
  <2> HIDE DEF without
  <2>1. /\ <<s[i]>> \in Seq(S) /\ Len(<<s[i]>>) = 1 /\ <<s[i]>>[1] = s[i]
    BY <1>1, <1>2
  <2>2. /\ m \in Seq(S) /\ Len(m) = Len(<<s[i]>>) + Len(without)
        /\ \A j \in 1..Len(<<s[i]>>) + Len(without) :
              m[j] = IF j <= Len(<<s[i]>>) THEN <<s[i]>>[j]
                                           ELSE without[j - Len(<<s[i]>>)]
    BY <2>1, <1>5, ConcatProperties
  <2>3. /\ Len(m) = 1 + Len(without)
        /\ \A j \in 1..1 + Len(without) :
              m[j] = IF j <= 1 THEN s[i] ELSE without[j - 1]
    <3> HIDE DEF m
    <3>1. \A j \in 1..1 + Len(without) : j <= 1 => j = 1
      BY <1>5, <1>1
    <3> QED
      BY <2>1, <2>2, <3>1
  <2> HIDE DEF m
  <2> QED
    BY <2>2, <2>3, <1>1, <1>5
<1> HIDE DEF m
<1>7. DOMAIN m = 1..Len(s)
  BY <1>6, LenProperties
<1>8. IsInjective(m)
  <2> DEFINE came(j) == IF j = 1 THEN i ELSE IF j <= i THEN j - 1 ELSE j
  <2>1. \A j \in 1..Len(s) : m[j] = s[came(j)] /\ came(j) \in 1..Len(s)
    BY <1>1, <1>6
  <2>2. \A j, k \in 1..Len(s) : came(j) = came(k) => j = k
    BY <1>1
  <2> HIDE DEF came
  <2>3. \A j, k \in 1..Len(s) : s[j] = s[k] => j = k
    BY <1>1 DEF IsInjective
  <2> QED
    BY <2>1, <2>2, <2>3, <1>7 DEF IsInjective
<1>9. ToSet(m) = ToSet(s)
  <2>1. ToSet(m) \subseteq ToSet(s)
    BY <1>1, <1>6, <1>7 DEF ToSet
  <2>2. ASSUME NEW j \in 1..Len(s)
        PROVE  \E k \in 1..Len(s) : m[k] = s[j]
    <3>1. CASE j = i
      BY <3>1, <1>1, <1>6
    <3>2. CASE j < i
      <4>1. j + 1 \in 1..Len(s) /\ m[j + 1] = s[j]
        BY <3>2, <1>1, <1>6
      <4> QED
        BY <4>1
    <3>3. CASE j > i
      <4>1. m[j] = s[j]
        BY <3>3, <1>1, <1>6
      <4> QED
        BY <4>1
    <3> QED
      BY <3>1, <3>2, <3>3, <1>1
  <2>3. ToSet(s) \subseteq ToSet(m)
    BY <2>2, <1>1, <1>7 DEF ToSet
  <2> QED
    BY <2>1, <2>3
<1>10. m = <<s[i]>> \o RemoveAt(s, i)
  BY DEF m, without, front, rest, RemoveAt
<1> QED
  BY <1>6, <1>8, <1>9, <1>10

(* What is left when the last elements go, and a new element before it.    *)
LEMMA Shortened ==
    ASSUME NEW S, NEW s \in Seq(S), IsInjective(s), NEW n \in 0..Len(s)
    PROVE  LET p == SubSeq(s, 1, n)
           IN /\ p \in Seq(S) /\ IsInjective(p)
              /\ ToSet(p) \subseteq ToSet(s) /\ Len(p) = n
<1> DEFINE p == SubSeq(s, 1, n)
<1>1. DOMAIN s = 1..Len(s) /\ Len(s) \in Nat /\ n \in Nat
  BY LenProperties
<1>2. \A j \in 1..n : s[j] \in S
  BY <1>1, ElementOfSeq
<1>3. /\ p \in Seq(S) /\ Len(p) = IF 1 <= n THEN n - 1 + 1 ELSE 0
      /\ \A j \in 1..n - 1 + 1 : p[j] = s[1 + j - 1]
  BY <1>1, <1>2, SubSeqProperties
<1> HIDE DEF p
<1>4. Len(p) = n /\ (\A j \in 1..n : p[j] = s[j]) /\ DOMAIN p = 1..n
  BY <1>1, <1>3, LenProperties
<1>5. IsInjective(p)
  BY <1>1, <1>4 DEF IsInjective
<1>6. ToSet(p) \subseteq ToSet(s)
  BY <1>1, <1>4 DEF ToSet
<1> QED
  BY <1>3, <1>4, <1>5, <1>6 DEF p

LEMMA PutInFront ==
    ASSUME NEW S, NEW s \in Seq(S), IsInjective(s), NEW e \in S, e \notin ToSet(s)
    PROVE  LET p == <<e>> \o s
           IN /\ p \in Seq(S) /\ IsInjective(p)
              /\ ToSet(p) = ToSet(s) \cup {e} /\ Len(p) = Len(s) + 1
              /\ Head(p) = e /\ Tail(p) = s
<1> DEFINE p == <<e>> \o s
<1>1. DOMAIN s = 1..Len(s) /\ Len(s) \in Nat
  BY LenProperties
<1>2. /\ <<e>> \in Seq(S) /\ Len(<<e>>) = 1 /\ <<e>>[1] = e
  OBVIOUS
<1>3. /\ p \in Seq(S) /\ Len(p) = Len(<<e>>) + Len(s)
      /\ \A j \in 1..Len(<<e>>) + Len(s) :
            p[j] = IF j <= Len(<<e>>) THEN <<e>>[j] ELSE s[j - Len(<<e>>)]
  BY <1>2, ConcatProperties
<1> HIDE DEF p
<1>4. \A j \in 1..1 + Len(s) : j <= 1 => j = 1
  BY <1>1
<1>5. Len(p) = Len(s) + 1 /\ \A j \in 1..Len(s) + 1 : p[j] = IF j = 1 THEN e ELSE s[j - 1]
  BY <1>1, <1>2, <1>3, <1>4
<1>6. DOMAIN p = 1..Len(s) + 1
  BY <1>3, <1>5, LenProperties
<1>7. \A j \in 1..Len(s) : s[j] # e
  BY <1>1 DEF ToSet
<1>8. IsInjective(p)
  <2> SUFFICES ASSUME NEW i \in 1..Len(s) + 1, NEW j \in 1..Len(s) + 1, p[i] = p[j]
               PROVE  i = j
    BY <1>6 DEF IsInjective
  <2>1. \A k \in 1..Len(s) + 1 : k # 1 => k - 1 \in 1..Len(s) /\ p[k] = s[k - 1] /\ p[k] # e
    BY <1>1, <1>5, <1>7
  <2>2. p[1] = e
    BY <1>1, <1>5
  <2>3. i # 1 /\ j # 1 => i - 1 = j - 1
    BY <1>1, <2>1 DEF IsInjective
  <2> QED
    BY <2>1, <2>2, <2>3
<1>9. ToSet(p) = ToSet(s) \cup {e}
  <2>1. ToSet(p) \subseteq ToSet(s) \cup {e}
    BY <1>1, <1>5, <1>6 DEF ToSet
  <2>2. \A j \in 1..Len(s) : p[j + 1] = s[j] /\ j + 1 \in 1..Len(s) + 1
    BY <1>1, <1>5
  <2>3. p[1] = e /\ 1 \in DOMAIN p
    BY <1>1, <1>5, <1>6
  <2>4. ToSet(s) \cup {e} \subseteq ToSet(p)
    BY <2>2, <2>3, <1>1, <1>6 DEF ToSet
  <2> QED
    BY <2>1, <2>4
<1>10. p # <<>> /\ Head(p) = p[1]
  BY <1>1, <1>3, <1>5
<1>11. /\ Tail(p) \in Seq(S) /\ Len(Tail(p)) = Len(p) - 1
       /\ \A j \in 1..Len(Tail(p)) : Tail(p)[j] = p[j + 1]
  BY <1>3, <1>10, HeadTailProperties
<1>12. Tail(p) = s
  <2>1. Len(Tail(p)) = Len(s)
    BY <1>1, <1>5, <1>11
  <2>2. \A j \in 1..Len(s) : Tail(p)[j] = s[j]
    BY <1>1, <1>5, <1>11, <2>1
  <2> QED
    BY <2>1, <2>2, <1>11, SeqEqual
<1> QED
  BY <1>1, <1>3, <1>5, <1>8, <1>9, <1>10, <1>12 DEF p

USE DEF Sides, Fails

Requests == [record : Records, dir : Sides, edge : Nat, off : Nat, bytes : 0..Window, sure : BOOLEAN]

(* The cache: list and map agree, and what it holds is true.               *)
BothKept == /\ lru \in Seq(Records) /\ Known \subseteq Records /\ learnt \in [Known -> Nat]
            /\ ListMatchesMap /\ LengthsTrue

(* A request lies beyond the edge; one that was cut to its record lies in  *)
(* it, and is a whole window if one is left.                               *)
RequestFits(q) ==
    /\ q.edge <= Length[q.record] /\ q.bytes > 0
    /\ q.dir = "forward" => q.off >= q.edge
    /\ q.dir = "back" => q.off < q.edge
    /\ ~q.sure => q.bytes = Window
    /\ q.sure => /\ q.off + q.bytes <= Length[q.record]
                 /\ q.dir = "back" => q.off + q.bytes <= q.edge
                 /\ q.dir = "forward" /\ q.edge + Window <= Length[q.record] => q.bytes = Window

RequestsFit == \A t \in Readers : at[t] # "idle" => RequestFits(req[t])

(* What was read is what the record had of what was asked for.             *)
GotWhatWasThere == \A t \in Readers : at[t] = "ready" =>
    /\ req[t].off <= Length[req[t].record]
    /\ got[t] = IF Length[req[t].record] - req[t].off < req[t].bytes
                THEN Length[req[t].record] - req[t].off ELSE req[t].bytes

ReadAheadInv == ReadAheadTypeOK /\ BothKept /\ RequestsFit /\ GotWhatWasThere

(* A request cut to the true length still fits; cut again, it is the same. *)
LEMMA CutFits ==
    ASSUME ReadAheadAssumption, NEW q \in Requests, RequestFits(q)
    PROVE  /\ Cut(q, Length[q.record]) \in Requests
           /\ Cut(q, Length[q.record]).bytes > 0 => RequestFits(Cut(q, Length[q.record]))
           /\ q.sure => Cut(q, Length[q.record]) = q
<1> DEFINE length == Length[q.record]
           off == Clamp(q, length).off
           bytes == Clamp(q, length).bytes
           c == Cut(q, length)
<1>1. /\ length \in Nat /\ Window \in Nat \ {0}
      /\ q.edge \in Nat /\ q.off \in Nat /\ q.bytes \in 0..Window
      /\ q.dir \in Sides /\ q.record \in Records /\ q.sure \in BOOLEAN
  BY DEF ReadAheadAssumption, Requests
<1>2. c = [record |-> q.record, dir |-> q.dir, edge |-> q.edge,
           off |-> off, bytes |-> bytes, sure |-> TRUE]
  <2>1. c = [q EXCEPT !.off = off, !.bytes = bytes, !.sure = TRUE]
    BY DEF Cut
  <2> HIDE DEF c, off, bytes
  <2> QED
    BY <2>1 DEF Requests
<1>3. /\ q.edge <= length /\ q.bytes > 0
      /\ q.dir = "forward" => q.off >= q.edge
      /\ q.dir = "back" => q.off < q.edge
      /\ ~q.sure => q.bytes = Window
      /\ q.sure => /\ q.off + q.bytes <= length
                   /\ q.dir = "back" => q.off + q.bytes <= q.edge
                   /\ q.dir = "forward" /\ q.edge + Window <= length => q.bytes = Window
  BY DEF RequestFits
<1>4. CASE q.dir = "forward"
  <2> HIDE DEF length
  <2>1. CASE q.edge >= length
    <3>1. off = 0 /\ bytes = 0
      <4>1. Clamp(q, length) = Nothing
        <5>1. Clamp(q, length) = ClampForward(q.edge, q.off, q.bytes, length)
          BY <1>4 DEF Clamp
        <5>2. ClampForward(q.edge, q.off, q.bytes, length) = Nothing
          BY <2>1, <1>1 DEF ClampForward
        <5> QED
          BY <5>1, <5>2
      <4> QED
        BY <4>1 DEF Nothing
    <3>2. ~q.sure
      BY <2>1, <1>4, <1>1, <1>3
    <3> HIDE DEF off, bytes
    <3> QED
      BY <3>1, <3>2, <1>1, <1>2 DEF Requests, length
  <2>2. CASE ~(q.edge >= length) /\ q.off + q.bytes <= length
    <3>1. off = q.off /\ bytes = q.bytes
      BY <2>2, <1>4, <1>1, <1>3 DEF Clamp, ClampForward
    <3> HIDE DEF off, bytes
    <3>2. c \in Requests /\ (q.sure => c = q)
      BY <3>1, <1>1, <1>2 DEF Requests
    <3>3. RequestFits(c)
      BY <3>1, <2>2, <1>1, <1>2, <1>3, <1>4 DEF RequestFits, length
    <3> QED
      BY <3>2, <3>3 DEF length
  <2>3. CASE /\ ~(q.edge >= length) /\ q.off + q.bytes > length
             /\ q.edge + q.bytes <= length
    <3>1. off = length - q.bytes /\ bytes = q.bytes
      BY <2>3, <1>4, <1>1, <1>3 DEF Clamp, ClampForward
    <3> HIDE DEF off, bytes
    <3>2. ~q.sure /\ off \in Nat /\ off >= q.edge /\ off + bytes = length
      BY <3>1, <2>3, <1>1, <1>3
    <3>3. c \in Requests
      BY <3>1, <3>2, <1>1, <1>2 DEF Requests
    <3>4. RequestFits(c)
      BY <3>1, <3>2, <2>3, <1>1, <1>2, <1>3, <1>4 DEF RequestFits, length
    <3> QED
      BY <3>2, <3>3, <3>4 DEF length
  <2>4. CASE /\ ~(q.edge >= length) /\ q.off + q.bytes > length
             /\ ~(q.edge + q.bytes <= length)
    <3>1. off = q.edge /\ bytes = length - q.edge
      BY <2>4, <1>4, <1>1, <1>3 DEF Clamp, ClampForward, TailOf
    <3> HIDE DEF off, bytes
    <3>2. ~q.sure /\ bytes \in 0..Window /\ bytes > 0 /\ off + bytes = length
          /\ ~(q.edge + Window <= length)
      BY <3>1, <2>4, <1>1, <1>3
    <3>3. c \in Requests
      BY <3>1, <3>2, <1>1, <1>2 DEF Requests
    <3>4. RequestFits(c)
      BY <3>1, <3>2, <2>4, <1>1, <1>2, <1>3, <1>4 DEF RequestFits, length
    <3> QED
      BY <3>2, <3>3, <3>4 DEF length
  <2> QED
    BY <2>1, <2>2, <2>3, <2>4, <1>1
<1>5. CASE q.dir = "back"
  <2> HIDE DEF length
  <2>1. CASE q.off >= length
    <3>1. q.off < q.edge /\ q.edge <= length
      BY <1>3, <1>5
    <3> QED
      BY <3>1, <2>1, <1>1
  <2>2. CASE ~(q.off >= length)
    <3>1. off = q.off /\ bytes = IF q.edge - q.off < q.bytes THEN q.edge - q.off ELSE q.bytes
      BY <2>2, <1>5, <1>1, <1>3 DEF Clamp, ClampBack
    <3> HIDE DEF off, bytes
    <3>2. /\ bytes \in 0..Window /\ bytes > 0 /\ off + bytes <= q.edge
          /\ q.sure => bytes = q.bytes
      BY <3>1, <1>1, <1>3, <1>5
    <3>3. c \in Requests /\ (q.sure => c = q)
      BY <3>1, <3>2, <1>1, <1>2 DEF Requests
    <3>4. RequestFits(c)
      BY <3>1, <3>2, <1>1, <1>2, <1>3, <1>5 DEF RequestFits, length
    <3> QED
      BY <3>3, <3>4 DEF length
  <2> QED
    BY <2>1, <2>2
<1> QED
  BY <1>1, <1>4, <1>5

(* A plan begins beyond the edge, however fast the tab scrolls.            *)
LEMMA PlannedBeyond ==
    ASSUME ReadAheadAssumption, NEW dir \in Sides, NEW edge \in Nat,
           dir = "back" => edge > 0, NEW n \in LookAheads
    PROVE  /\ PredictedOff(dir, edge, n) \in Nat
           /\ dir = "forward" => PredictedOff(dir, edge, n) >= edge
           /\ dir = "back" => PredictedOff(dir, edge, n) < edge
<1> DEFINE less == (n - 1) * Window
           whole == n * Window
<1>1. n \in Nat \ {0} /\ Window \in Nat \ {0}
  BY DEF ReadAheadAssumption
<1>2. less \in Nat
  <2>1. n - 1 \in Nat
    BY <1>1
  <2> QED
    BY <2>1, <1>1
<1>3. whole \in Nat /\ whole > 0
  <2>1. \A a, b \in Nat : a > 0 /\ b > 0 => a * b \in Nat /\ a * b > 0
    OBVIOUS
  <2> QED
    BY <2>1, <1>1
<1>4. PredictedOff(dir, edge, n) =
         IF dir = "forward" THEN edge + less
         ELSE IF edge > whole THEN edge - whole ELSE 0
  BY DEF PredictedOff
<1> HIDE DEF less, whole
<1> QED
  BY <1>2, <1>3, <1>4

-----------------------------------------------------------------------------
(* The steps of the cache.                                                 *)
LEMMA TouchKeeps ==
    ASSUME BothKept, NEW r \in Known, lru' = Touched(r), UNCHANGED learnt
    PROVE  BothKept'
<1> DEFINE i == Place(r)
<1>1. lru \in Seq(Records) /\ IsInjective(lru) /\ ToSet(lru) = Known /\ Len(lru) <= MaxEntries
  BY DEF BothKept, ListMatchesMap
<1>2. i \in DOMAIN lru /\ lru[i] = r
  <2>1. \E j \in DOMAIN lru : lru[j] = r
    BY <1>1 DEF ToSet
  <2> QED
    BY <2>1 DEF Place
<1> HIDE DEF i
<1>3. lru' = <<lru[i]>> \o RemoveAt(lru, i)
  BY <1>2 DEF Touched, i
<1>4. /\ lru' \in Seq(Records) /\ IsInjective(lru')
      /\ ToSet(lru') = ToSet(lru) /\ Len(lru') = Len(lru)
  BY <1>1, <1>2, <1>3, MovedToFront
<1>5. Known' = Known
  BY DEF Known
<1>6. ToSet(lru)' = ToSet(lru') /\ IsInjective(lru)' = IsInjective(lru')
  BY DEF ToSet, IsInjective
<1> QED
  BY <1>1, <1>4, <1>5, <1>6 DEF BothKept, ListMatchesMap, LengthsTrue

LEMMA InsertKeeps ==
    ASSUME ReadAheadAssumption, BothKept, NEW r \in Records, NEW fails \in Fails,
           Insert(r, Length[r], fails)
    PROVE  BothKept'
<1>1. lru \in Seq(Records) /\ IsInjective(lru) /\ ToSet(lru) = Known /\ Len(lru) <= MaxEntries
  BY DEF BothKept, ListMatchesMap
<1>2. /\ Length[r] \in Nat /\ MaxEntries \in Nat \ {0} /\ Len(lru) \in Nat
      /\ learnt \in [Known -> Nat] /\ Known \subseteq Records
      /\ \A k \in Known : learnt[k] = Length[k]
  BY <1>1, LenProperties DEF BothKept, ReadAheadAssumption, LengthsTrue
<1>3. CASE r \in Known
  <2>1. learnt' = [learnt EXCEPT ![r] = Length[r]] /\ lru' = Touched(r)
    BY <1>3 DEF Insert
  <2>2. learnt' = learnt
    BY <2>1, <1>2, <1>3
  <2> QED
    BY <2>1, <2>2, <1>3, TouchKeeps
<1>4. CASE r \notin Known
  <2> DEFINE list == Evicted
             kept == ToSet(list)
             old == [k \in Known \cap kept |-> learnt[k]]
  <2>1. /\ list \in Seq(Records) /\ IsInjective(list) /\ kept \subseteq Known
        /\ Len(list) + 1 <= MaxEntries
    <3>1. CASE Len(lru) < MaxEntries
      BY <3>1, <1>1, <1>2 DEF Evicted
    <3>2. CASE ~(Len(lru) < MaxEntries)
      <4>1. list = SubSeq(lru, 1, MaxEntries - 1) /\ MaxEntries - 1 \in 0..Len(lru)
        BY <3>2, <1>1, <1>2 DEF Evicted
      <4> QED
        BY <4>1, <1>1, <1>2, Shortened
    <3> QED
      BY <3>1, <3>2
  <2>2. /\ lru' = CASE fails = "none" -> <<r>> \o list
                    [] fails = "list" -> list
                    [] fails = "map" -> Undone(<<r>> \o list, Known \cap kept)
        /\ learnt' = IF fails = "none"
                     THEN [k \in DOMAIN old \cup {r} |-> IF k = r THEN Length[r] ELSE old[k]]
                     ELSE old
    BY <1>4 DEF Insert
  <2> HIDE DEF list
  <2>3. Len(list) \in Nat /\ Known \cap kept = kept /\ r \notin kept
    BY <2>1, <1>4, LenProperties
  <2>4. /\ <<r>> \o list \in Seq(Records) /\ IsInjective(<<r>> \o list)
        /\ ToSet(<<r>> \o list) = kept \cup {r} /\ Len(<<r>> \o list) = Len(list) + 1
        /\ Head(<<r>> \o list) = r /\ Tail(<<r>> \o list) = list
    BY <2>1, <2>3, PutInFront
  <2> DEFINE longer == <<r>> \o list
  <2> HIDE DEF longer, kept
  <2>5. CASE fails = "none"
    <3>1. lru' = longer /\ learnt' = [k \in kept \cup {r} |-> IF k = r THEN Length[r] ELSE old[k]]
      BY <2>2, <2>3, <2>5 DEF longer
    <3>2. /\ learnt' \in [kept \cup {r} -> Nat]
          /\ \A k \in kept \cup {r} : learnt'[k] = Length[k]
      BY <3>1, <2>1, <2>3, <1>2
    <3>3. Known' = kept \cup {r}
      BY <3>2 DEF Known
    <3>4. /\ lru' \in Seq(Records) /\ IsInjective(lru') /\ ToSet(lru') = kept \cup {r}
          /\ Len(lru') <= MaxEntries
      BY <3>1, <2>1, <2>3, <2>4, <1>2 DEF longer
    <3>5. ToSet(lru)' = ToSet(lru') /\ IsInjective(lru)' = IsInjective(lru')
      BY DEF ToSet, IsInjective
    <3>6. kept \cup {r} \subseteq Records
      BY <2>1, <1>2
    <3> QED
      BY <3>2, <3>3, <3>4, <3>5, <3>6 DEF BothKept, ListMatchesMap, LengthsTrue
  <2>6. CASE fails # "none"
    <3>1. learnt' = old
      BY <2>2, <2>6
    <3>2. lru' = list
      <4>1. CASE fails = "list"
        BY <4>1, <2>2
      <4>2. CASE fails = "map"
        BY <4>2, <2>2, <2>3, <2>4 DEF Undone
      <4> QED
        BY <4>1, <4>2, <2>6
    <3>3. learnt' \in [kept -> Nat] /\ \A k \in kept : learnt'[k] = Length[k]
      BY <3>1, <2>1, <2>3, <1>2
    <3>4. Known' = kept
      BY <3>3 DEF Known
    <3>5. /\ lru' \in Seq(Records) /\ IsInjective(lru') /\ ToSet(lru') = kept
          /\ Len(lru') <= MaxEntries
      BY <3>2, <2>1, <2>3, <1>2 DEF kept
    <3>6. ToSet(lru)' = ToSet(lru') /\ IsInjective(lru)' = IsInjective(lru')
      BY DEF ToSet, IsInjective
    <3>7. kept \subseteq Records
      BY <2>1, <1>2
    <3> QED
      BY <3>3, <3>4, <3>5, <3>6, <3>7 DEF BothKept, ListMatchesMap, LengthsTrue
  <2> QED
    BY <2>5, <2>6
<1> QED
  BY <1>3, <1>4

-----------------------------------------------------------------------------
(* The steps of the tabs.                                                  *)

(* A step that changes one tab's request and place, and no bytes read.     *)
LEMMA OneGoesOn ==
    ASSUME ReadAheadInv, BothKept', NEW t \in Readers, NEW q \in Requests,
           NEW place \in {"idle", "asks", "resolves", "reads"},
           req' = [req EXCEPT ![t] = q], at' = [at EXCEPT ![t] = place],
           UNCHANGED got, place # "idle" => RequestFits(q)
    PROVE  ReadAheadInv'
<1>1. /\ at \in [Readers -> {"idle", "asks", "resolves", "reads", "ready"}]
      /\ req \in [Readers -> Requests] /\ got \in [Readers -> 0..Window]
  BY DEF ReadAheadInv, ReadAheadTypeOK, Requests
<1>2. /\ at' \in [Readers -> {"idle", "asks", "resolves", "reads", "ready"}]
      /\ req' \in [Readers -> Requests] /\ got' \in [Readers -> 0..Window]
  BY <1>1
<1>3. ReadAheadTypeOK'
  BY <1>2 DEF ReadAheadTypeOK, BothKept, Requests
<1>4. RequestsFit'
  BY <1>1 DEF ReadAheadInv, RequestsFit
<1>5. GotWhatWasThere'
  BY <1>1 DEF ReadAheadInv, GotWhatWasThere
<1> QED
  BY <1>3, <1>4, <1>5 DEF ReadAheadInv

LEMMA EmptyRequest == ReadAheadAssumption => NoRequest \in Requests
<1> SUFFICES ASSUME ReadAheadAssumption PROVE NoRequest \in Requests
  OBVIOUS
<1>1. (CHOOSE r \in Records : TRUE) \in Records
  BY DEF ReadAheadAssumption
<1>2. 0 \in 0..Window
  BY DEF ReadAheadAssumption
<1> QED
  BY <1>1, <1>2 DEF NoRequest, Requests

(* The worker goes on with a request that fits.                            *)
LEMMA WorkerProceeds ==
    ASSUME ReadAheadAssumption, ReadAheadInv, BothKept', NEW t \in Readers, NEW q \in Requests,
           q.bytes > 0 => RequestFits(q), Proceed(t, q), UNCHANGED got
    PROVE  ReadAheadInv'
<1>1. CASE q.bytes > 0
  <2>1. req' = [req EXCEPT ![t] = q] /\ at' = [at EXCEPT ![t] = "reads"]
    BY <1>1 DEF Proceed
  <2> QED
    BY <2>1, <1>1, OneGoesOn
<1>2. CASE ~(q.bytes > 0)
  <2>1. req' = [req EXCEPT ![t] = NoRequest] /\ at' = [at EXCEPT ![t] = "idle"]
    BY <1>2 DEF Proceed
  <2> QED
    BY <2>1, EmptyRequest, OneGoesOn
<1> QED
  BY <1>1, <1>2

LEMMA PlanKeeps ==
    ASSUME ReadAheadAssumption, ReadAheadInv, NEW t \in Readers, NEW r \in Records,
           NEW dir \in Sides, NEW n \in LookAheads, NEW edge \in 0..Length[r],
           Plan(t, r, dir, edge, n)
    PROVE  ReadAheadInv'
<1> DEFINE off == PredictedOff(dir, edge, n)
           q == [record |-> r, dir |-> dir, edge |-> edge, off |-> off, bytes |-> Window, sure |-> FALSE]
           p == IF r \in Known THEN Cut(q, learnt[r]) ELSE q
<1>1. /\ Length[r] \in Nat /\ Window \in Nat \ {0} /\ edge \in Nat /\ edge <= Length[r]
      /\ dir = "back" => edge > 0
  BY DEF ReadAheadAssumption, Plan
<1>2. /\ off \in Nat
      /\ dir = "forward" => off >= edge
      /\ dir = "back" => off < edge
  BY <1>1, PlannedBeyond
<1>3. /\ UNCHANGED <<learnt, got>>
      /\ lru' = IF r \in Known THEN Touched(r) ELSE lru
      /\ IF p.bytes > 0 THEN req' = [req EXCEPT ![t] = p] /\ at' = [at EXCEPT ![t] = "asks"]
                        ELSE UNCHANGED <<req, at>>
  BY DEF Plan
<1> HIDE DEF off
<1>4. q \in Requests
  BY <1>1, <1>2 DEF Requests
<1>5. RequestFits(q)
  BY <1>1, <1>2 DEF RequestFits
<1>6. q.record = r
  OBVIOUS
<1> HIDE DEF q
<1>7. p \in Requests /\ (p.bytes > 0 => RequestFits(p))
  <2>1. CASE r \in Known
    <3>1. learnt[r] = Length[q.record]
      BY <2>1, <1>6 DEF ReadAheadInv, BothKept, LengthsTrue
    <3> QED
      BY <3>1, <2>1, <1>4, <1>5, CutFits
  <2>2. CASE r \notin Known
    BY <2>2, <1>4, <1>5
  <2> QED
    BY <2>1, <2>2
<1>8. BothKept'
  <2>1. CASE r \in Known
    BY <2>1, <1>3, TouchKeeps DEF ReadAheadInv
  <2>2. CASE r \notin Known
    BY <2>2, <1>3 DEF ReadAheadInv, BothKept, ListMatchesMap, LengthsTrue, Known
  <2> QED
    BY <2>1, <2>2
<1> HIDE DEF p
<1>9. CASE p.bytes > 0
  BY <1>9, <1>3, <1>7, <1>8, OneGoesOn
<1>10. CASE ~(p.bytes > 0)
  <2>1. UNCHANGED <<req, at, got>>
    BY <1>10, <1>3
  <2> QED
    BY <2>1, <1>8 DEF ReadAheadInv, ReadAheadTypeOK, BothKept, RequestsFit, GotWhatWasThere
<1> QED
  BY <1>9, <1>10

LEMMA AskKeeps ==
    ASSUME ReadAheadAssumption, ReadAheadInv, NEW t \in Readers, Ask(t)
    PROVE  ReadAheadInv'
<1> DEFINE r == req[t].record
<1>1. req[t] \in Requests /\ r \in Records /\ RequestFits(req[t]) /\ at[t] = "asks"
  BY DEF ReadAheadInv, ReadAheadTypeOK, RequestsFit, Ask, Requests
<1>2. CASE r \in Known
  <2>1. /\ Proceed(t, Cut(req[t], learnt[r])) /\ lru' = Touched(r)
        /\ UNCHANGED <<learnt, got>>
    BY <1>2 DEF Ask
  <2>2. learnt[r] = Length[req[t].record]
    BY <1>2 DEF ReadAheadInv, BothKept, LengthsTrue
  <2>3. /\ Cut(req[t], learnt[r]) \in Requests
        /\ Cut(req[t], learnt[r]).bytes > 0 => RequestFits(Cut(req[t], learnt[r]))
    BY <2>2, <1>1, CutFits
  <2>4. BothKept'
    BY <2>1, <1>2, TouchKeeps DEF ReadAheadInv
  <2> QED
    BY <2>1, <2>3, <2>4, WorkerProceeds
<1>3. CASE r \notin Known
  <2>1. at' = [at EXCEPT ![t] = "resolves"] /\ UNCHANGED <<req, lru, learnt, got>>
    BY <1>3 DEF Ask
  <2>2. BothKept'
    BY <2>1 DEF ReadAheadInv, BothKept, ListMatchesMap, LengthsTrue, Known
  <2>3. req' = [req EXCEPT ![t] = req[t]]
    BY <2>1 DEF ReadAheadInv, ReadAheadTypeOK
  <2> QED
    BY <2>1, <2>2, <2>3, <1>1, OneGoesOn
<1> QED
  BY <1>2, <1>3

LEMMA ResolveKeeps ==
    ASSUME ReadAheadAssumption, ReadAheadInv, NEW t \in Readers, NEW ok \in BOOLEAN,
           NEW fails \in Fails, Resolve(t, ok, fails)
    PROVE  ReadAheadInv'
<1> DEFINE r == req[t].record
           cut == Cut(req[t], Length[r])
<1>1. /\ req[t] \in Requests /\ r \in Records /\ RequestFits(req[t]) /\ UNCHANGED got
  BY DEF ReadAheadInv, ReadAheadTypeOK, RequestsFit, Resolve, Requests
<1>2. cut \in Requests /\ (cut.bytes > 0 => RequestFits(cut))
  BY <1>1, CutFits
<1>3. CASE ~ok
  <2>1. Proceed(t, req[t]) /\ UNCHANGED <<lru, learnt>>
    BY <1>3 DEF Resolve
  <2>2. BothKept'
    BY <2>1 DEF ReadAheadInv, BothKept, ListMatchesMap, LengthsTrue, Known
  <2> QED
    BY <2>1, <2>2, <1>1, WorkerProceeds
<1>4. CASE ok /\ r \in Known
  <2>1. Proceed(t, Cut(req[t], learnt[r])) /\ lru' = Touched(r) /\ UNCHANGED learnt
    BY <1>4 DEF Resolve
  <2>2. learnt[r] = Length[r]
    BY <1>4 DEF ReadAheadInv, BothKept, LengthsTrue
  <2>3. BothKept'
    BY <2>1, <1>4, TouchKeeps DEF ReadAheadInv
  <2>4. Proceed(t, cut)
    BY <2>1, <2>2
  <2> HIDE DEF cut
  <2> QED
    BY <2>3, <2>4, <1>1, <1>2, WorkerProceeds
<1>5. CASE ok /\ r \notin Known
  <2>1. /\ Insert(r, Length[r], fails)
        /\ Proceed(t, IF fails = "none" THEN cut ELSE req[t])
    BY <1>5 DEF Resolve
  <2>2. BothKept'
    BY <2>1, <1>1, InsertKeeps DEF ReadAheadInv
  <2> DEFINE q == IF fails = "none" THEN cut ELSE req[t]
  <2>3. q \in Requests /\ (q.bytes > 0 => RequestFits(q))
    BY <1>1, <1>2
  <2> HIDE DEF q, cut
  <2>4. Proceed(t, q)
    BY <2>1 DEF q
  <2> QED
    BY <2>2, <2>3, <2>4, <1>1, WorkerProceeds
<1> QED
  BY <1>3, <1>4, <1>5

LEMMA ReadKeeps ==
    ASSUME ReadAheadAssumption, ReadAheadInv, NEW t \in Readers, NEW ok \in BOOLEAN,
           NEW fails \in Fails, Read(t, ok, fails)
    PROVE  ReadAheadInv'
<1> DEFINE q == req[t]
           available == Length[q.record] - q.off
           n == IF available < q.bytes THEN available ELSE q.bytes
<1>1. /\ q \in Requests /\ RequestFits(q) /\ q.record \in Records
      /\ at \in [Readers -> {"idle", "asks", "resolves", "reads", "ready"}]
      /\ req \in [Readers -> Requests] /\ got \in [Readers -> 0..Window]
  BY DEF ReadAheadInv, ReadAheadTypeOK, RequestsFit, Read, Requests
<1>2. Length[q.record] \in Nat /\ q.off \in Nat /\ q.bytes \in 0..Window /\ Window \in Nat
  BY <1>1 DEF ReadAheadAssumption, Requests
<1>3. CASE ok /\ q.off <= Length[q.record]
  <2>1. /\ IF Short(n, q) THEN Insert(q.record, q.off + n, fails) ELSE UNCHANGED <<lru, learnt>>
        /\ got' = [got EXCEPT ![t] = n] /\ at' = [at EXCEPT ![t] = "ready"] /\ UNCHANGED req
    BY <1>3 DEF Read
  <2>2. n \in 0..Window /\ (Short(n, q) => q.off + n = Length[q.record])
    BY <1>2, <1>3 DEF Short
  <2>3. BothKept'
    <3>1. CASE Short(n, q)
      <4>1. Insert(q.record, Length[q.record], fails)
        BY <3>1, <2>1, <2>2
      <4> QED
        BY <4>1, <1>1, InsertKeeps DEF ReadAheadInv
    <3>2. CASE ~Short(n, q)
      BY <3>2, <2>1 DEF ReadAheadInv, BothKept, ListMatchesMap, LengthsTrue, Known
    <3> QED
      BY <3>1, <3>2
  <2>4. /\ at' \in [Readers -> {"idle", "asks", "resolves", "reads", "ready"}]
        /\ req' \in [Readers -> Requests] /\ got' \in [Readers -> 0..Window]
    BY <2>1, <2>2, <1>1
  <2>5. ReadAheadTypeOK'
    BY <2>3, <2>4 DEF ReadAheadTypeOK, BothKept, Requests
  <2>6. RequestsFit'
    BY <2>1, <1>1 DEF ReadAheadInv, RequestsFit
  <2>7. GotWhatWasThere'
    <3>1. ASSUME NEW u \in Readers, u # t
          PROVE  at'[u] = at[u] /\ got'[u] = got[u] /\ req'[u] = req[u]
      BY <3>1, <2>1, <1>1
    <3>2. got'[t] = n /\ req'[t] = q
      BY <2>1, <1>1
    <3> HIDE DEF q
    <3> QED
      BY <3>1, <3>2, <1>3 DEF ReadAheadInv, GotWhatWasThere
  <2> QED
    BY <2>3, <2>5, <2>6, <2>7 DEF ReadAheadInv
<1>4. CASE ~(ok /\ q.off <= Length[q.record])
  <2>1. /\ at' = [at EXCEPT ![t] = "idle"] /\ req' = [req EXCEPT ![t] = NoRequest]
        /\ UNCHANGED <<lru, learnt, got>>
    BY <1>4 DEF Read
  <2>2. BothKept'
    BY <2>1 DEF ReadAheadInv, BothKept, ListMatchesMap, LengthsTrue, Known
  <2> QED
    BY <2>1, <2>2, EmptyRequest, OneGoesOn
<1> QED
  BY <1>3, <1>4

LEMMA DrainKeeps ==
    ASSUME ReadAheadAssumption, ReadAheadInv, NEW t \in Readers, NEW fails \in Fails,
           Drain(t, fails)
    PROVE  ReadAheadInv'
<1> DEFINE q == req[t]
<1>1. /\ q \in Requests /\ q.record \in Records /\ at[t] = "ready"
      /\ at \in [Readers -> {"idle", "asks", "resolves", "reads", "ready"}]
      /\ req \in [Readers -> Requests] /\ got \in [Readers -> 0..Window]
  BY DEF ReadAheadInv, ReadAheadTypeOK, Drain, Requests
<1>2. /\ Length[q.record] \in Nat /\ q.off \in Nat /\ q.bytes \in 0..Window
      /\ Window \in Nat /\ got[t] \in 0..Window
  BY <1>1 DEF ReadAheadAssumption, Requests
<1>3. /\ q.off <= Length[q.record]
      /\ got[t] = IF Length[q.record] - q.off < q.bytes THEN Length[q.record] - q.off ELSE q.bytes
  BY <1>1 DEF ReadAheadInv, GotWhatWasThere
<1>4. /\ IF got[t] > 0 /\ Short(got[t], q) THEN Insert(q.record, q.off + got[t], fails)
                                           ELSE UNCHANGED <<lru, learnt>>
      /\ at' = [at EXCEPT ![t] = "idle"] /\ req' = [req EXCEPT ![t] = NoRequest]
      /\ got' = [got EXCEPT ![t] = 0]
  BY DEF Drain
<1>5. BothKept'
  <2>1. CASE got[t] > 0 /\ Short(got[t], q)
    <3>1. q.off + got[t] = Length[q.record]
      BY <2>1, <1>2, <1>3 DEF Short
    <3>2. Insert(q.record, Length[q.record], fails)
      BY <3>1, <2>1, <1>4
    <3> QED
      BY <3>2, <1>1, InsertKeeps DEF ReadAheadInv
  <2>2. CASE ~(got[t] > 0 /\ Short(got[t], q))
    BY <2>2, <1>4 DEF ReadAheadInv, BothKept, ListMatchesMap, LengthsTrue, Known
  <2> QED
    BY <2>1, <2>2
<1>6. /\ at' \in [Readers -> {"idle", "asks", "resolves", "reads", "ready"}]
      /\ req' \in [Readers -> Requests] /\ got' \in [Readers -> 0..Window]
  BY <1>1, <1>2, <1>4, EmptyRequest
<1>7. ReadAheadTypeOK'
  BY <1>5, <1>6 DEF ReadAheadTypeOK, BothKept, Requests
<1>8. RequestsFit' /\ GotWhatWasThere'
  BY <1>1, <1>4 DEF ReadAheadInv, RequestsFit, GotWhatWasThere
<1> QED
  BY <1>5, <1>7, <1>8 DEF ReadAheadInv

LEMMA ReadAheadBegins == ReadAheadAssumption /\ ReadInit => ReadAheadInv
<1> SUFFICES ASSUME ReadAheadAssumption, ReadInit PROVE ReadAheadInv
  OBVIOUS
<1>1. Known = {} /\ learnt \in [Known -> Nat]
  BY DEF ReadInit, Known
<1>2. lru \in Seq(Records) /\ Len(lru) = 0 /\ DOMAIN lru = {}
  BY DEF ReadInit
<1>3. ListMatchesMap
  BY <1>1, <1>2 DEF ListMatchesMap, ToSet, IsInjective, ReadAheadAssumption
<1>4. BothKept
  BY <1>1, <1>2, <1>3 DEF BothKept, LengthsTrue
<1>5. /\ at \in [Readers -> {"idle"}] /\ req \in [Readers -> Requests]
      /\ got \in [Readers -> 0..Window]
  BY EmptyRequest DEF ReadInit, ReadAheadAssumption
<1> QED
  BY <1>4, <1>5 DEF ReadAheadInv, ReadAheadTypeOK, BothKept, RequestsFit, GotWhatWasThere, Requests

LEMMA ReadAheadStep == ReadAheadAssumption /\ ReadAheadInv /\ [ReadNext]_readVars => ReadAheadInv'
<1> SUFFICES ASSUME ReadAheadAssumption, ReadAheadInv, [ReadNext]_readVars PROVE ReadAheadInv'
  OBVIOUS
<1>1. ASSUME NEW t \in Readers, NEW r \in Records, NEW dir \in Sides, NEW n \in LookAheads,
             NEW edge \in 0..Length[r], Plan(t, r, dir, edge, n)
      PROVE  ReadAheadInv'
  BY <1>1, PlanKeeps
<1>2. ASSUME NEW t \in Readers, Ask(t) PROVE ReadAheadInv'
  BY <1>2, AskKeeps
<1>3. ASSUME NEW t \in Readers, NEW ok \in BOOLEAN, NEW fails \in Fails, Resolve(t, ok, fails)
      PROVE  ReadAheadInv'
  BY <1>3, ResolveKeeps
<1>4. ASSUME NEW t \in Readers, NEW ok \in BOOLEAN, NEW fails \in Fails, Read(t, ok, fails)
      PROVE  ReadAheadInv'
  BY <1>4, ReadKeeps
<1>5. ASSUME NEW t \in Readers, NEW fails \in Fails, Drain(t, fails) PROVE ReadAheadInv'
  BY <1>5, DrainKeeps
<1>6. CASE Clear
  <2>1. Known' = {} /\ learnt' \in [Known' -> Nat]
    BY <1>6 DEF Clear, Known
  <2>2. lru' \in Seq(Records) /\ Len(lru') = 0 /\ DOMAIN lru' = {}
    BY <1>6 DEF Clear
  <2>3. ListMatchesMap'
    BY <2>1, <2>2 DEF ListMatchesMap, ToSet, IsInjective, ReadAheadAssumption
  <2>4. BothKept'
    BY <2>1, <2>2, <2>3 DEF BothKept, LengthsTrue
  <2> QED
    BY <2>4, <1>6 DEF Clear, ReadAheadInv, ReadAheadTypeOK, BothKept, RequestsFit, GotWhatWasThere
<1>7. CASE UNCHANGED readVars
  BY <1>7 DEF readVars, ReadAheadInv, ReadAheadTypeOK, BothKept, RequestsFit, GotWhatWasThere,
              ListMatchesMap, LengthsTrue, Known
<1> QED
  BY <1>1, <1>2, <1>3, <1>4, <1>5, <1>6, <1>7 DEF ReadNext

LEMMA ReadAheadHolds ==
    ASSUME ReadAheadAssumption
    PROVE  ReadSpec => []ReadAheadInv
<1>1. ReadInit => ReadAheadInv
  BY ReadAheadBegins
<1>2. ReadAheadInv /\ [ReadNext]_readVars => ReadAheadInv'
  BY ReadAheadStep
<1> QED
  BY <1>1, <1>2, PTL DEF ReadSpec

LEMMA RestIsRead == ReadAheadAssumption /\ ReadAheadInv => ReadsTheRest
<1> SUFFICES ASSUME ReadAheadAssumption, ReadAheadInv, NEW t \in Readers, at[t] = "ready"
             PROVE  /\ req[t].off + got[t] <= Length[req[t].record]
                    /\ req[t].dir = "forward" => req[t].off >= req[t].edge
                    /\ req[t].sure /\ req[t].dir = "back" => req[t].off + got[t] <= req[t].edge
                    /\ req[t].sure =>
                         /\ got[t] = req[t].bytes
                         /\ req[t].dir = "forward" /\ req[t].edge + Window <= Length[req[t].record]
                              => got[t] = Window
  BY DEF ReadAheadInv, BothKept, ReadsTheRest, ReadsAhead, RoomIsUsed
<1> DEFINE q == req[t]
<1>1. q \in Requests /\ RequestFits(q)
  BY DEF ReadAheadInv, ReadAheadTypeOK, RequestsFit, Requests
<1>2. /\ q.off <= Length[q.record]
      /\ got[t] = IF Length[q.record] - q.off < q.bytes THEN Length[q.record] - q.off ELSE q.bytes
  BY DEF ReadAheadInv, GotWhatWasThere
<1>3. /\ Length[q.record] \in Nat /\ q.off \in Nat /\ q.bytes \in 0..Window
      /\ q.edge \in Nat /\ Window \in Nat
  BY <1>1 DEF ReadAheadAssumption, Requests
<1> HIDE DEF q
<1>4. /\ q.off + got[t] <= Length[q.record]
      /\ q.dir = "forward" => q.off >= q.edge
      /\ q.sure => got[t] = q.bytes
      /\ q.sure /\ q.dir = "back" => q.off + got[t] <= q.edge
      /\ q.sure /\ q.dir = "forward" /\ q.edge + Window <= Length[q.record] => got[t] = Window
  BY <1>1, <1>2, <1>3 DEF RequestFits
<1> QED
  BY <1>4 DEF q

(* What is read ahead lies in the record and beyond the visible edge, and  *)
(* is a whole window while one is left; the cache of lengths is true, and  *)
(* its list names each of its entries once, whatever fails to grow.        *)
THEOREM RestIsAlwaysRead ==
    ASSUME ReadAheadAssumption
    PROVE  ReadSpec => []ReadsTheRest
<1>1. ReadAheadInv => ReadsTheRest
  BY RestIsRead
<1> QED
  BY <1>1, ReadAheadHolds, PTL

(* The worker's cut of a request the tab has cut already changes nothing.  *)
THEOREM RequestsAreCutOnce ==
    ASSUME ReadAheadAssumption
    PROVE  ReadSpec => CutOnce
<1> DEFINE Same == \A t \in Readers : at[t] = "asks" /\ req[t].sure /\ at'[t] # "asks"
                                        => req'[t] = req[t] /\ at'[t] # "idle"
<1>1. ReadAheadInv /\ [ReadNext]_readVars => [Same]_readVars
  <2> SUFFICES ASSUME ReadAheadInv, ReadNext, NEW t \in Readers,
                      at[t] = "asks", req[t].sure, at'[t] # "asks"
               PROVE  req'[t] = req[t] /\ at'[t] # "idle"
    OBVIOUS
  <2>1. /\ req[t] \in Requests /\ RequestFits(req[t])
        /\ at \in [Readers -> {"idle", "asks", "resolves", "reads", "ready"}]
        /\ req \in [Readers -> Requests]
    BY DEF ReadAheadInv, ReadAheadTypeOK, RequestsFit, Requests
  <2>2. Ask(t)
    <3>1. ASSUME NEW u \in Readers, NEW r \in Records, NEW dir \in Sides, NEW n \in LookAheads,
                 NEW edge \in 0..Length[r], Plan(u, r, dir, edge, n)
          PROVE  at'[t] = at[t]
      <4>1. UNCHANGED at \/ (at[u] = "idle" /\ at' = [at EXCEPT ![u] = "asks"])
        BY <3>1 DEF Plan
      <4> QED
        BY <4>1, <2>1
    <3>2. ASSUME NEW u \in Readers, Ask(u), u # t PROVE at'[t] = at[t]
      BY <3>2, <2>1 DEF Ask, Proceed
    <3>3. ASSUME NEW u \in Readers, NEW ok \in BOOLEAN, NEW fails \in Fails,
                 Resolve(u, ok, fails) \/ Read(u, ok, fails)
          PROVE  at'[t] = at[t]
      BY <3>3, <2>1 DEF Resolve, Read, Proceed
    <3>4. ASSUME NEW u \in Readers, NEW fails \in Fails, Drain(u, fails) PROVE at'[t] = at[t]
      BY <3>4, <2>1 DEF Drain
    <3>5. Clear => at'[t] = at[t]
      BY DEF Clear
    <3> QED
      BY <3>1, <3>2, <3>3, <3>4, <3>5 DEF ReadNext
  <2> DEFINE r == req[t].record
  <2>3. CASE r \in Known
    <3>1. Proceed(t, Cut(req[t], learnt[r]))
      BY <2>2, <2>3 DEF Ask
    <3>2. learnt[r] = Length[r]
      BY <2>3 DEF ReadAheadInv, BothKept, LengthsTrue
    <3>3. Cut(req[t], Length[r]) = req[t]
      BY <2>1, CutFits
    <3>4. req[t].bytes > 0
      BY <2>1 DEF RequestFits
    <3>5. Proceed(t, req[t])
      BY <3>1, <3>2, <3>3
    <3> QED
      BY <3>4, <3>5, <2>1 DEF Proceed
  <2>4. CASE r \notin Known
    BY <2>2, <2>4, <2>1 DEF Ask
  <2> QED
    BY <2>3, <2>4
<1> QED
  BY <1>1, ReadAheadHolds, PTL DEF ReadSpec, CutOnce
================================================================================
