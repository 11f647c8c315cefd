------------------------------- MODULE FrameScheduler -------------------------------
(***************************************************************************)
(* One frame scheduler in the hands of any owner: frames begin under any   *)
(* pressure, work of every class asks for time, and prefetch requests may  *)
(* carry any ticket handed out so far, however old.                        *)
(***************************************************************************)
EXTENDS FrameBudget

CONSTANT Costs         \* what a request may ask for

CostAssumption == Costs \subseteq Nat \ {0} /\ MaxEpoch \in Nat \ {0}

VARIABLES scheduler,
          overtaken,   \* history: tickets that were in force and are no more
          granted      \* history: tickets of the prefetch work admitted in this frame

schedulerVars == <<scheduler, overtaken, granted>>

SchedulerInit == scheduler = NewScheduler /\ overtaken = {} /\ granted = {}

Overtake == /\ scheduler'.ticket.epoch <= MaxEpoch
            /\ overtaken' = IF scheduler'.ticket = scheduler.ticket THEN overtaken
                            ELSE overtaken \cup {scheduler.ticket}

BeginFrame(p, shown) == scheduler' = Begun(scheduler, p, shown) /\ Overtake /\ granted' = {}

UpdateMotion(d) == scheduler' = Moved(scheduler, d) /\ Overtake /\ UNCHANGED granted

FinishVisible == scheduler' = VisibleClosed(scheduler) /\ UNCHANGED <<overtaken, granted>>

FrameRequests == [class : Classes, ui : BOOLEAN, us : Costs,
                  ticket : overtaken \cup {scheduler.ticket}]

Reserve(r) == /\ scheduler' = Reserved(scheduler, r)
              /\ granted' = IF r.class = "prefetch" /\ Admitted(scheduler, r)
                            THEN granted \cup {r.ticket} ELSE granted
              /\ UNCHANGED overtaken

SchedulerNext == \/ \E p \in Pressures, shown \in BOOLEAN : BeginFrame(p, shown)
                 \/ \E d \in Directions : UpdateMotion(d)
                 \/ FinishVisible
                 \/ \E r \in FrameRequests : Reserve(r)

SchedulerSpec == SchedulerInit /\ [][SchedulerNext]_schedulerVars
-----------------------------------------------------------------------------
(* A frame never spends more than its budget, and nothing is charged to    *)
(* optional work beyond what the frame's pressure leaves it.               *)
FrameWithinBudget == /\ AllSpent(scheduler) <= FrameUs
                     /\ \A c \in Classes : scheduler.spent[c] <= Cap(c, scheduler.pressure)

(* A ticket that was overtaken by another motion buys nothing, even when   *)
(* the tab moves in the old direction again.                               *)
StaleBuysNothing == [][(granted' \ granted) \cap overtaken = {}]_schedulerVars
================================================================================
