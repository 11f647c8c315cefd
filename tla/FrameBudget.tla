--------------------------------- MODULE FrameBudget ---------------------------------
(***************************************************************************)
(* The frame scheduler as a value: what a frame may still spend, and the   *)
(* motion whose ticket speculative reading works under.  FrameScheduler    *)
(* explores it by itself, TabRuntime uses it in a tab.                     *)
(***************************************************************************)
EXTENDS Naturals, FiniteSetsExt

CONSTANTS FrameUs,     \* what one frame may spend
          ClassUs,     \* ClassUs[c]: what a class of optional work may
          MaxEpoch     \* bound: tickets the scheduler hands out

Optional == {"prefetch", "background", "maintenance"}
Classes == Optional \cup {"visible"}
Directions == {"still", "up", "down"}
Pressures == 0..2   \* normal, elevated, critical

BudgetAssumption == /\ FrameUs \in Nat \ {0}
                    /\ ClassUs \in [Optional -> 0..FrameUs]

Ticket(e, d) == [epoch |-> e, direction |-> d]
NothingSpent == [c \in Classes |-> 0]
NewScheduler == [ticket |-> Ticket(1, "still"), shown |-> TRUE, pressure |-> 0,
                 closed |-> FALSE, spent |-> NothingSpent]

(* A change of direction takes a new epoch.                                *)
MotionSameEpoch(t, d) == [t EXCEPT !.direction = d]   \* wrong on purpose
Motion(t, d) == IF d = t.direction THEN t ELSE Ticket(t.epoch + 1, d)

Moved(s, d) == [s EXCEPT !.ticket = Motion(@, d)]

(* A frame that begins while the tab is hidden forgets the motion.         *)
Begun(s, pressure, shown) ==
    [ticket |-> IF shown THEN s.ticket ELSE Motion(s.ticket, "still"),
     shown |-> shown, pressure |-> pressure, closed |-> FALSE, spent |-> NothingSpent]

VisibleClosed(s) == [s EXCEPT !.closed = TRUE]

Cap(c, pressure) == CASE c = "visible" -> FrameUs
                      [] c # "visible" /\ pressure = 0 -> ClassUs[c]
                      [] c # "visible" /\ pressure = 1 -> ClassUs[c] \div 2
                      [] OTHER -> 0

AllSpent(s) == MapThenSumSet(LAMBDA c : s.spent[c], Classes)

Fits(s, r) == /\ s.spent[r.class] + r.us <= Cap(r.class, s.pressure)
              /\ AllSpent(s) + r.us <= FrameUs

(* A request is a record [class, ui, us, ticket]; ui: it may block and     *)
(* comes from the event loop.                                              *)
Admitted(s, r) == /\ s.shown
                  /\ ~r.ui
                  /\ s.closed = (r.class # "visible")
                  /\ r.class = "prefetch" => /\ s.ticket.direction # "still"
                                             /\ r.ticket = s.ticket
                  /\ Fits(s, r)

Reserved(s, r) == IF Admitted(s, r) THEN [s EXCEPT !.spent[r.class] = @ + r.us] ELSE s
-----------------------------------------------------------------------------
Tickets == [epoch : 1..MaxEpoch, direction : Directions]
Schedulers == [ticket : Tickets, shown : BOOLEAN, pressure : Pressures,
               closed : BOOLEAN, spent : [Classes -> 0..FrameUs]]
================================================================================
