------------------------------ MODULE RuntimeServices ------------------------------
(***************************************************************************)
(* The process's tabs: a slot for each open tab, an entry in the tab       *)
(* controller for those that must hear about memory pressure, and a        *)
(* runtime, one generation of it at a time, for those that are shown or    *)
(* not yet worth giving up.  A runtime that is given up is retired, and    *)
(* destroyed when the foreground pool runs nothing.                        *)
(* Calls come from the event loop, one at a time; only the pool's runs     *)
(* begin and end by themselves.                                            *)
(***************************************************************************)
EXTENDS Integers, FiniteSets, FiniteSetsExt

CONSTANTS Tabs,            \* public identities
          LastGeneration,  \* the last generation identity there is
          Retains          \* whether a list may fail to grow: a subset of BOOLEAN

ServicesAssumption == /\ LastGeneration \in Nat /\ IsFiniteSet(Tabs)
                      /\ TRUE \in Retains /\ Retains \subseteq BOOLEAN

NormalPressure == 0
ElevatedPressure == 1
CriticalPressure == 2
PressureLevels == NormalPressure..CriticalPressure

VARIABLES slot,      \* slot[t]: [open, visible, runtime, registered]; runtime 0: dormant
          entry,     \* entry[t]: the controller's [known, visible]
          inForce,   \* the controller's pressure
          told,      \* told[g]: what runtime g heard last, [visible, pressure]
          next,      \* the next generation
          count,     \* materialized_tabs
          retired,   \* generations waiting to be destroyed
          leaving,   \* tabs the controller may forget
          running    \* generations a thread of the foreground pool runs

servicesVars == <<slot, entry, inForce, told, next, count, retired, leaving, running>>

Generations == 1..LastGeneration
NoSlot == [open |-> FALSE, visible |-> FALSE, runtime |-> 0, registered |-> FALSE]
NoEntry == [known |-> FALSE, visible |-> FALSE]

ServicesInit == /\ slot = [t \in Tabs |-> NoSlot]
                /\ entry = [t \in Tabs |-> NoEntry]
                /\ inForce = NormalPressure
                /\ told = [g \in Generations |-> [visible |-> FALSE, pressure |-> NormalPressure]]
                /\ next = 1 /\ count = 0
                /\ retired = {} /\ leaving = {} /\ running = {}

(* A call works on the books and reports whether it succeeded.             *)
Books == [slot |-> slot, entry |-> entry, told |-> told, next |-> next, count |-> count,
          retired |-> retired, leaving |-> leaving, ok |-> TRUE]

Close(b) == /\ slot' = b.slot /\ entry' = b.entry /\ told' = b.told /\ next' = b.next
            /\ count' = b.count /\ retired' = b.retired /\ leaving' = b.leaving
            /\ UNCHANGED running
-----------------------------------------------------------------------------
(* Runtimes nobody runs any more are destroyed only when nothing runs.     *)
MayDestroyUnlessOwn(b) == b.retired \ running # {}   \* wrong on purpose
MayDestroy(b) == running = {}
Drained(b) == IF MayDestroy(b) THEN [b EXCEPT !.retired = {}] ELSE b

(* retire_runtime: the runtime stays in its slot if the list cannot grow.  *)
Retired(b, t, grows) ==
    IF b.slot[t].runtime = 0 \/ ~grows THEN b
    ELSE [b EXCEPT !.retired = @ \cup {b.slot[t].runtime}, !.slot[t].runtime = 0, !.count = @ - 1]

(* apply_slot, the sink of the controller.  luck: [opens, grows].          *)
Materialized(b, t, luck) ==
    IF b.slot[t].runtime # 0 THEN b
    ELSE IF b.next > LastGeneration THEN [b EXCEPT !.ok = FALSE]
    ELSE IF ~luck.opens THEN [b EXCEPT !.ok = FALSE, !.next = @ + 1]
    ELSE [b EXCEPT !.slot[t].runtime = b.next, !.next = @ + 1, !.count = @ + 1]

Given(b, t, visible, p) ==
    [b EXCEPT !.told[b.slot[t].runtime] = [visible |-> visible, pressure |-> p],
              !.slot[t].visible = visible]

GivenUp(b, t, luck) ==
    LET r == Retired(b, t, luck.grows)
    IN IF r.slot[t].runtime = 0 THEN [r EXCEPT !.leaving = @ \cup {t}] ELSE r

ApplySlotEarly(b, t, visible, p, luck) ==   \* wrong on purpose: hidden tabs are left alone
    IF ~visible THEN Drained([b EXCEPT !.slot[t].visible = FALSE])
    ELSE LET m == Materialized(b, t, luck)
         IN IF ~m.ok THEN m ELSE Drained(Given(m, t, visible, p))
ApplySlot(b, t, visible, p, luck) ==
    IF ~visible /\ b.slot[t].runtime = 0 THEN Drained([b EXCEPT !.slot[t].visible = FALSE])
    ELSE LET m == Materialized(b, t, luck)
             g == Given(m, t, visible, p)
         IN IF ~m.ok THEN m
            ELSE Drained(IF ~visible /\ p = CriticalPressure THEN GivenUp(g, t, luck) ELSE g)

(* The controller: a tab it cannot tell at registration stays unknown.     *)
Registered(b, t, visible, luck) ==
    LET a == ApplySlot([b EXCEPT !.entry[t] = [known |-> TRUE, visible |-> visible]],
                       t, visible, inForce, luck)
    IN IF a.ok THEN [a EXCEPT !.slot[t].registered = TRUE]
       ELSE [a EXCEPT !.entry[t] = NoEntry]

Unregistered(b, t) == [b EXCEPT !.entry[t] = NoEntry, !.slot[t].registered = FALSE]

Left(b) == {t \in b.leaving : b.slot[t].registered /\ b.slot[t].runtime = 0}
Forgotten(b) == [b EXCEPT !.entry = [t \in Tabs |-> IF t \in Left(b) THEN NoEntry ELSE b.entry[t]],
                          !.slot = [t \in Tabs |-> IF t \in Left(b) THEN [b.slot[t] EXCEPT !.registered = FALSE]
                                                  ELSE b.slot[t]],
                          !.leaving = {}]

Luck == [opens : BOOLEAN, grows : Retains]
-----------------------------------------------------------------------------
OpenTab(t, visible, luck) ==
    /\ ~slot[t].open
    /\ LET b == [Books EXCEPT !.slot[t] = [NoSlot EXCEPT !.open = TRUE, !.visible = visible]]
           r == Registered(b, t, TRUE, luck)
       IN Close(IF ~visible THEN Drained(b)
                ELSE IF r.ok THEN Drained(r) ELSE [r EXCEPT !.slot[t] = NoSlot])
    /\ UNCHANGED inForce

(* close_tab: hide the runtime, forget the entry, retire, then erase.      *)
CloseTab(t, grows) ==
    /\ slot[t].open
    /\ LET h == IF slot[t].runtime = 0 THEN Books ELSE Given(Books, t, FALSE, CriticalPressure)
           r == Retired(Unregistered(h, t), t, grows)
       IN Close(IF r.slot[t].runtime # 0 THEN r
                ELSE Drained([r EXCEPT !.slot[t] = NoSlot, !.leaving = @ \ {t}]))
    /\ UNCHANGED inForce

(* set_tab_activity of a dormant tab: it becomes known when it is shown.   *)
ShowDormant(t, visible, luck) ==
    /\ slot[t].open /\ ~slot[t].registered
    /\ Close(IF visible THEN Forgotten(Drained(Registered(Books, t, TRUE, luck)))
             ELSE Drained([Books EXCEPT !.slot[t].visible = FALSE]))
    /\ UNCHANGED inForce

(* Of a known tab: nothing if nothing changes (same: neither does the      *)
(* velocity), else the entry first and then the tab; a tab that refuses is *)
(* registered anew as it was.                                              *)
SetTabActivity(t, visible, same, luck, again) ==
    /\ slot[t].open /\ slot[t].registered
    /\ same => entry[t].visible = visible
    /\ LET a == IF same THEN Books
                ELSE ApplySlot([Books EXCEPT !.entry[t].visible = visible], t, visible, inForce, luck)
           back == Registered(Unregistered([a EXCEPT !.ok = TRUE], t), t, slot[t].visible, again)
       IN Close(IF a.ok THEN Forgotten(Drained(a)) ELSE back)
    /\ UNCHANGED inForce

(* A tick in which the memory policy asks for pressure p: every entry is   *)
(* told, hidden ones first, and one that fails does not stop the others.   *)
ToldAgain(b, t, p, luck) == [ApplySlot(b, t, b.entry[t].visible, p, luck) EXCEPT !.ok = TRUE]

PressurePass(b, p, luck) ==
    LET known(visible) == {t \in Tabs : b.entry[t].known /\ b.entry[t].visible = visible}
        tell(t, c) == ToldAgain(c, t, p, luck[t])
    IN FoldSet(tell, FoldSet(tell, b, known(FALSE)), known(TRUE))

Tick(p, luck) ==
    /\ inForce' = p
    /\ Close(Forgotten(Drained(IF p = inForce THEN Books ELSE PressurePass(Books, p, luck))))
-----------------------------------------------------------------------------
(* The foreground pool runs shown runtimes; a run ends in its own time.    *)
Alive == ({slot[t].runtime : t \in Tabs} \ {0}) \cup retired
RunBegins(g) == /\ g \in Alive \ running /\ told[g].visible
               /\ running' = running \cup {g}
               /\ UNCHANGED <<slot, entry, inForce, told, next, count, retired, leaving>>
RunEnds(g) == /\ g \in running
             /\ running' = running \ {g}
             /\ UNCHANGED <<slot, entry, inForce, told, next, count, retired, leaving>>

ServicesNext ==
    \/ \E t \in Tabs, visible \in BOOLEAN, l \in Luck : OpenTab(t, visible, l) \/ ShowDormant(t, visible, l)
    \/ \E t \in Tabs, grows \in Retains : CloseTab(t, grows)
    \/ \E t \in Tabs, visible, same \in BOOLEAN, l, again \in Luck : SetTabActivity(t, visible, same, l, again)
    \/ \E p \in PressureLevels, luck \in [Tabs -> Luck] : Tick(p, luck)
    \/ \E g \in Generations : RunBegins(g) \/ RunEnds(g)

ServicesSpec == ServicesInit /\ [][ServicesNext]_servicesVars
-----------------------------------------------------------------------------
Runtimes == {t \in Tabs : slot[t].runtime # 0}

ServicesTypeOK ==
    /\ slot \in [Tabs -> [open : BOOLEAN, visible : BOOLEAN, runtime : 0..LastGeneration, registered : BOOLEAN]]
    /\ entry \in [Tabs -> [known : BOOLEAN, visible : BOOLEAN]]
    /\ inForce \in PressureLevels
    /\ told \in [Generations -> [visible : BOOLEAN, pressure : PressureLevels]]
    /\ next \in 1..(LastGeneration + 1)
    /\ count = Cardinality(Runtimes)
    /\ retired \subseteq Generations /\ running \subseteq Generations /\ leaving \subseteq Tabs

(* No thread runs in a runtime that was destroyed.                         *)
NoRunInDestroyed == running \subseteq Alive

(* A generation belongs to one slot, and never to one and to the retired:  *)
(* a late run cannot be taken for the tab's next runtime.                  *)
OneGenerationEach ==
    /\ \A t \in Runtimes : slot[t].runtime \notin retired /\ slot[t].runtime < next
    /\ \A t, u \in Runtimes : slot[t].runtime = slot[u].runtime => t = u

(* The slot, the controller's entry and the runtime agree, and every       *)
(* runtime hears the pressure in force: none falls out of the controller.  *)
PressureReachesRuntimes ==
    /\ \A t \in Tabs : entry[t].known = slot[t].registered
    /\ \A t \in Runtimes : /\ entry[t] = [known |-> TRUE, visible |-> slot[t].visible]
                           /\ told[slot[t].runtime] = [visible |-> slot[t].visible, pressure |-> inForce]

(* Under critical pressure hidden tabs keep no runtime, and a tab without  *)
(* one costs the controller nothing.                                       *)
HiddenGivenUp == /\ inForce = CriticalPressure => \A t \in Runtimes : slot[t].visible
                 /\ \A t \in Tabs : slot[t].registered => t \in Runtimes

(* Whatever fails to grow, a tab that is shown has its runtime and hears   *)
(* the pressure.                                                           *)
ShownIsServed == \A t \in Tabs : slot[t].open /\ slot[t].registered /\ slot[t].visible =>
                    /\ t \in Runtimes
                    /\ told[slot[t].runtime] = [visible |-> TRUE, pressure |-> inForce]

(* No thread runs in a runtime that was destroyed, and no generation is    *)
(* taken for another tab's or for a retired one.                           *)
RunsAreSafe == ServicesTypeOK /\ NoRunInDestroyed /\ OneGenerationEach

(* A shown tab has a runtime that hears the pressure in force, whatever    *)
(* fails.  If the list of retired runtimes can grow, every runtime hears   *)
(* it, and hidden tabs have none under critical pressure.                  *)
ServicesReachTabs == /\ ShownIsServed
                     /\ Retains = {TRUE} => PressureReachesRuntimes /\ HiddenGivenUp
================================================================================
