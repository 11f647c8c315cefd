--------------------------------- MODULE TabRuntime ---------------------------------
(***************************************************************************)
(* One tab: its owner on the event loop shows, hides and asks it to lay    *)
(* out, while a thread of the foreground pool runs its layout.  The layout *)
(* engine and its caches have a mutex the owner never waits for: a trim it *)
(* cannot do at once is left to whoever holds the mutex.  Motion and its   *)
(* ticket belong to the frame scheduler, and the prefetch pool is told the *)
(* ticket with each change of activity.                                    *)
(* The pools are represented by what they promise the tab (modules         *)
(* NewestRequest and PrefetchPromise): hiding gives up what was asked.     *)
(***************************************************************************)
EXTENDS FrameBudget

CONSTANT PrefetchUs    \* what a prefetch request reserves of a frame

TabAssumption == /\ MaxEpoch \in Nat \ {0}
                 /\ PrefetchUs \in 1..ClassUs["prefetch"]

NoTrim == 0
Background == 1
Critical == 2

VARIABLES
    visible, pressure,   \* the last activity, read by the layout thread
    sched,               \* the frame scheduler
    pool,                \* what the prefetch pool was told: [active, ticket]
    given,               \* history: the tickets it was told
    sought,              \* the prefetch pool's newest request, or {}
    owner,               \* where set_activity is
    layout,              \* the foreground pool: [pending, kept, ready]
    worker,              \* where the layout thread is
    free,                \* the mutex of the layout engine
    trim,                \* pending_trim
    asked,               \* history: the strongest trim asked for since one was done
    barred,              \* history: hidden, and the engine was free since
    cache                \* what the engine holds: 2 all, 1 parsed data only, 0 nothing

vars == <<visible, pressure, sched, pool, given, sought, owner, layout, worker,
          free, trim, asked, barred, cache>>
activity == <<visible, pressure>>
motion == <<sched, pool, given, sought>>
engine == <<free, trim, asked, cache>>

Stronger(a, b) == IF a >= b THEN a ELSE b
TrimLevel(p) == IF p = 2 THEN Critical ELSE Background
NoLayout == [pending |-> FALSE, kept |-> FALSE, ready |-> FALSE]

Init == /\ visible = TRUE /\ pressure = 0
        /\ sched = NewScheduler
        /\ pool = [active |-> TRUE, ticket |-> sched.ticket]
        /\ given = {sched.ticket}
        /\ sought = {}
        /\ owner = "idle"
        /\ layout = NoLayout
        /\ worker = "idle"
        /\ free = TRUE
        /\ trim = NoTrim /\ asked = NoTrim
        /\ barred = FALSE
        /\ cache = 2
-----------------------------------------------------------------------------
(* set_activity: first the values the layout thread reads and the motion,  *)
SetActivity(show, p, d) ==
    /\ owner = "idle"
    /\ visible' = show
    /\ pressure' = p
    /\ sched' = Moved(sched, IF show THEN d ELSE "still")
    /\ sched'.ticket.epoch <= MaxEpoch
    /\ owner' = "foreground"
    /\ UNCHANGED <<pool, given, sought, layout, worker, engine>>

(* then the foreground pool, where hiding drops what waits and what runs,  *)
ForegroundAuthority ==
    /\ owner = "foreground"
    /\ owner' = "prefetch"
    /\ layout' = IF visible THEN layout ELSE NoLayout
    /\ UNCHANGED <<activity, motion, worker, engine>>

(* then the prefetch pool, which gives up requests of another ticket,      *)
ToldOnHiding(p, shown, t) == [active |-> shown, ticket |-> IF shown THEN p.ticket ELSE t]  \* wrong on purpose
Told(p, shown, t) == [active |-> shown, ticket |-> t]
StillSought(s, shown, t) == IF shown THEN s \cap {t} ELSE {}

PrefetchAuthority ==
    /\ owner = "prefetch"
    /\ owner' = IF visible THEN "idle" ELSE "trim"
    /\ pool' = Told(pool, visible, sched.ticket)
    /\ given' = given \cup {sched.ticket}
    /\ sought' = StillSought(sought, visible, sched.ticket)
    /\ UNCHANGED <<activity, sched, layout, worker, engine>>

(* and last, of a hidden tab, the trim: the request is raised atomically   *)
Queued(level) == Stronger(trim, level)

QueueTrim ==
    /\ owner = "trim"
    /\ owner' = "try"
    /\ trim' = Queued(TrimLevel(pressure))
    /\ asked' = Stronger(asked, TrimLevel(pressure))
    /\ UNCHANGED <<activity, motion, layout, worker, free, cache>>

(* and done at once only if nobody works on the engine.                    *)
Trimmed(c, level) == IF level = NoTrim THEN c
                     ELSE IF 2 - level < c THEN 2 - level ELSE c
DoTrim == /\ trim' = NoTrim
          /\ asked' = IF trim = NoTrim THEN asked ELSE NoTrim
          /\ cache' = Trimmed(cache, trim)

TryTrim ==
    /\ owner = "try"
    /\ owner' = "idle"
    /\ IF free THEN DoTrim ELSE UNCHANGED <<trim, asked, cache>>
    /\ UNCHANGED <<activity, motion, layout, worker, free>>
-----------------------------------------------------------------------------
(* The owner's other calls.  A request is refused while the tab is hidden. *)
RequestLayout ==
    /\ owner = "idle" /\ pool.active
    /\ layout' = [layout EXCEPT !.pending = TRUE]
    /\ UNCHANGED <<activity, motion, owner, worker, engine>>

(* With a foreground pool a synchronous call only begins a frame.          *)
LayoutCall ==
    /\ owner = "idle"
    /\ sched' = Begun(sched, pressure, visible)
    /\ sched'.ticket.epoch <= MaxEpoch
    /\ UNCHANGED <<activity, pool, given, sought, owner, layout, worker, engine>>

(* A finished layout is collected in a frame of its own, and what the      *)
(* frame leaves may go to reading ahead in the direction of motion.        *)
Delivered == Begun(sched, pressure, TRUE)
DeliveryFrame == VisibleClosed(Reserved(Delivered, [class |-> "visible", ui |-> FALSE, us |-> 1, ticket |-> sched.ticket]))
ReadAhead == [class |-> "prefetch", ui |-> FALSE, us |-> PrefetchUs, ticket |-> sched.ticket]
MaySchedule == pressure # 2 /\ Admitted(DeliveryFrame, ReadAhead)

TakeLayout(succeeded, wanted) ==
    /\ owner = "idle" /\ layout.ready
    /\ layout' = [layout EXCEPT !.ready = FALSE]
    /\ IF succeeded /\ visible
       THEN /\ sched' = IF wanted /\ pressure # 2 THEN Reserved(DeliveryFrame, ReadAhead) ELSE DeliveryFrame
            /\ sought' = IF wanted /\ MaySchedule /\ pool.active /\ pool.ticket = sched.ticket
                         THEN {sched.ticket} ELSE sought
       ELSE UNCHANGED <<sched, sought>>
    /\ UNCHANGED <<activity, pool, given, owner, worker, engine>>
-----------------------------------------------------------------------------
(* The layout thread.                                                      *)
StartRun ==
    /\ worker = "idle" /\ layout.pending
    /\ layout' = [layout EXCEPT !.pending = FALSE, !.kept = TRUE]
    /\ worker' = IF visible THEN "waits" ELSE "done"
    /\ UNCHANGED <<activity, motion, owner, engine>>

(* It may have waited for the mutex, so it looks again.                    *)
StillVisibleUnchecked == TRUE   \* wrong on purpose
StillVisible == visible

TakeEngine ==
    /\ worker = "waits" /\ free
    /\ free' = FALSE
    /\ worker' = IF StillVisible THEN "lays out" ELSE "leaves"
    /\ UNCHANGED <<activity, motion, owner, layout, trim, asked, cache>>

LayOut ==
    /\ worker = "lays out"
    /\ worker' = "leaves"
    /\ cache' = 2
    /\ UNCHANGED <<activity, motion, owner, layout, free, trim, asked>>

ApplyTrim ==
    /\ worker = "leaves"
    /\ worker' = "unlocks"
    /\ DoTrim
    /\ UNCHANGED <<activity, motion, owner, layout, free>>

LeaveEngine ==
    /\ worker = "unlocks"
    /\ worker' = "done"
    /\ free' = TRUE
    /\ UNCHANGED <<activity, motion, owner, layout, trim, asked, cache>>

EndRun ==
    /\ worker = "done"
    /\ worker' = "idle"
    /\ layout' = [layout EXCEPT !.kept = FALSE, !.ready = layout.kept \/ @]
    /\ UNCHANGED <<activity, motion, owner, engine>>

OwnerGoesOn == ForegroundAuthority \/ PrefetchAuthority \/ QueueTrim \/ TryTrim
WorkerStep == StartRun \/ TakeEngine \/ LayOut \/ ApplyTrim \/ LeaveEngine \/ EndRun

Step == \/ \E show \in BOOLEAN, p \in Pressures, d \in Directions : SetActivity(show, p, d)
        \/ RequestLayout
        \/ LayoutCall
        \/ \E succeeded, wanted \in BOOLEAN : TakeLayout(succeeded, wanted)
        \/ OwnerGoesOn
        \/ WorkerStep

Watched == barred' = (~visible' /\ owner' = "idle" /\ (barred \/ free'))

Next == Step /\ Watched

Spec == Init /\ [][Next]_vars

(* A call that has begun goes on, and the pool runs what it is given.      *)
FairSpec == Spec /\ WF_vars(OwnerGoesOn /\ Watched) /\ WF_vars(WorkerStep /\ Watched)
-----------------------------------------------------------------------------
TabTypeOK ==
    /\ visible \in BOOLEAN /\ pressure \in Pressures
    /\ sched \in Schedulers
    /\ pool \in [active : BOOLEAN, ticket : Tickets]
    /\ given \subseteq Tickets /\ sought \subseteq {pool.ticket}
    /\ owner \in {"idle", "foreground", "prefetch", "trim", "try"}
    /\ layout \in [pending : BOOLEAN, kept : BOOLEAN, ready : BOOLEAN]
    /\ worker \in {"idle", "waits", "lays out", "leaves", "unlocks", "done"}
    /\ free = (worker \notin {"lays out", "leaves", "unlocks"})
    /\ trim \in NoTrim..Critical /\ asked \in NoTrim..Critical
    /\ barred \in BOOLEAN /\ cache \in 0..2

(* Trims that were asked for and not yet done are never forgotten nor      *)
(* weakened by a later, weaker one.                                        *)
TrimNeverWeakened == trim = asked

(* Once set_activity has hidden the tab and nobody is in the engine, it    *)
(* fills its caches no more until it is shown.                             *)
HiddenStaysCold == [][barred => cache' <= cache]_vars

(* While the tab is shown the scheduler and the pool agree on the ticket,  *)
(* so that what the one admits the other does not refuse as stale.         *)
TicketsAgree == owner = "idle" /\ visible => pool.active /\ pool.ticket = sched.ticket

(* A tab that is shown again, or moves another way, works under a ticket   *)
(* the pool never had, or asks for nothing: what SourcePrefetchPool takes  *)
(* for granted of its callers.                                             *)
FreshAuthority == [][pool'.active /\ pool' # pool
                         => pool'.ticket \notin given \/ pool'.ticket.direction = "still"]_vars

(* What the tab and its pools agree on, and that no trim is lost.          *)
TabAgrees == TabTypeOK /\ TicketsAgree /\ TrimNeverWeakened

(* A tab that was hidden fills its caches no more, and comes back under a  *)
(* ticket the pool never had.                                              *)
TabStaysAway == HiddenStaysCold /\ FreshAuthority

(* DOCUMENTED, M5_ZENITH_TAB_RUNTIME.md: background hiding trims the       *)
(* working set of the layout engine.                                       *)
HiddenIsTrimmed == ~visible /\ owner = "try" ~> visible \/ cache < 2
================================================================================
