------------------------------- MODULE MemoryPressure -------------------------------
(***************************************************************************)
(* How much pressure the tabs of a process are told they are under: the    *)
(* policy with its hysteresis, the sampler that asks it no more often than *)
(* the level demands, and the controller that keeps one level per source   *)
(* and lets the strongest rule.  Everything runs on the event loop.        *)
(* Memory is measured in steps of the available share; a pressure stall    *)
(* floor is the level its thresholds ask for.                              *)
(***************************************************************************)
EXTENDS Integers

CONSTANTS Full,            \* the whole memory
          CriticalEnter,   \* available share at which pressure is critical
          ElevatedEnter,   \* and at which it is elevated
          Headroom,        \* what recovery needs on top
          StallFloors,     \* floors the stall figures may ask for
          LowSignals,      \* what the system's low memory flag may say
          PlatformLevels,  \* levels the platform may report
          Interval         \* Interval[l]: ticks between two samples at level l

Normal == 0
Elevated == 1
Critical == 2
Levels == Normal..Critical
Sources == {"process", "platform"}

(* The configuration the policy and the sampler accept as valid.           *)
ConfigAssumption ==
    /\ Full \in Nat /\ CriticalEnter \in Nat /\ ElevatedEnter \in Nat /\ Headroom \in Nat
    /\ 0 < CriticalEnter /\ 0 < Headroom
    /\ CriticalEnter + Headroom < ElevatedEnter
    /\ ElevatedEnter + Headroom < Full
    /\ StallFloors \subseteq Levels /\ LowSignals \subseteq BOOLEAN /\ PlatformLevels \subseteq Levels
    /\ Interval \in [Levels -> Nat]
    /\ 0 < Interval[Critical] /\ Interval[Critical] <= Interval[Elevated]
    /\ Interval[Elevated] <= Interval[Normal]

(* Intervals that shorten with the pressure, for model checking.           *)
TickIntervals == [l \in Levels |-> 3 - l]

VARIABLES level,     \* what the policy last decided
          source,    \* source[s]: the level source s last reported
          pressure,  \* what the tabs are told
          wait,      \* ticks before the sampler asks again
          seen,      \* the last sample the policy judged
          plain,     \* history: what the policy would say without floors
          left       \* history: left[l], the share at which level l last fell, or NotYet

pressureVars == <<level, source, pressure, wait, seen, plain, left>>

NotYet == -1
Stronger(a, b) == IF a >= b THEN a ELSE b

PressureInit ==
    /\ level = Normal /\ plain = Normal /\ pressure = Normal
    /\ source = [s \in Sources |-> Normal]
    /\ wait = 0
    /\ seen = [available |-> Full, stall |-> Normal, low |-> FALSE]
    /\ left = [l \in Levels |-> NotYet]
-----------------------------------------------------------------------------
(* The level the available memory asks for, coming from level "from".      *)
MemoryLevelHasty(from, available) ==   \* wrong on purpose
    IF available <= CriticalEnter THEN Critical
    ELSE IF available <= ElevatedEnter THEN Elevated ELSE Normal

MemoryLevel(from, available) ==
    LET at(l, enter) == \/ available <= enter
                        \/ from = l /\ available <= enter + Headroom
    IN IF at(Critical, CriticalEnter) THEN Critical
       ELSE IF at(Elevated, ElevatedEnter) THEN Elevated ELSE Normal

Samples == [available : 0..Full, stall : StallFloors, low : LowSignals]

Update(from, s) ==
    LET raised == Stronger(MemoryLevel(from, s.available), s.stall)
    IN IF s.low THEN Stronger(raised, Elevated) ELSE raised

(* set_pressure_source: tabs are told only when the strongest changes.     *)
Combined(reports) == Stronger(reports["process"], reports["platform"])

SetSource(s, l) == /\ source' = [source EXCEPT ![s] = l]
                   /\ pressure' = Combined(source')

(* Wrong on purpose: the forms ending in -Hasty, -ByProcess, -Weaker and    *)
(* -Late never take part in the specification.                             *)

(* The bridge asks the controller only about a level it does not show yet. *)
AlreadyShown(l) == pressure = l

Apply(l) == IF AlreadyShown(l) THEN UNCHANGED <<source, pressure>>
            ELSE SetSource("process", l)
-----------------------------------------------------------------------------
(* A tick of the event loop.  Before the time is due nothing is asked.     *)
NextWait(l) == Interval[l] - 1

Throttled == /\ wait > 0
             /\ wait' = wait - 1
             /\ UNCHANGED <<level, source, pressure, seen, plain, left>>

Sampled(s) == /\ wait = 0
              /\ seen' = s
              /\ level' = Update(level, s)
              /\ Apply(level')
              /\ wait' = NextWait(level')
              /\ plain' = MemoryLevel(plain, s.available)
              /\ left' = [l \in Levels |-> IF l = level /\ level' < l THEN s.available
                                           ELSE IF l = level' THEN NotYet ELSE left[l]]

(* The system gives no figures, or figures that cannot be: the level stays *)
(* and the next attempt waits its turn.                                    *)
SampleFailed == /\ wait = 0
                /\ wait' = NextWait(level)
                /\ UNCHANGED <<level, source, pressure, seen, plain, left>>

(* The platform reports a level of its own accord.                         *)
PlatformReports(l) == /\ SetSource("platform", l)
                      /\ UNCHANGED <<level, wait, seen, plain, left>>

PressureNext ==
    \/ Throttled
    \/ \E s \in Samples : Sampled(s)
    \/ SampleFailed
    \/ \E l \in PlatformLevels : PlatformReports(l)

PressureSpec == PressureInit /\ [][PressureNext]_pressureVars

(* The event loop ticks, and the system does not fail to answer for ever.  *)
PressureFairSpec ==
    /\ PressureSpec
    /\ WF_pressureVars(Throttled)
    /\ SF_pressureVars(\E s \in Samples : Sampled(s))
-----------------------------------------------------------------------------
PressureTypeOK ==
    /\ level \in Levels /\ plain \in Levels /\ pressure \in Levels
    /\ source \in [Sources -> Levels]
    /\ wait \in 0..(Interval[Normal] - 1)
    /\ seen \in [available : 0..Full, stall : Levels, low : BOOLEAN]
    /\ left \in [Levels -> (0..Full) \cup {NotYet}]

(* The tabs are told no less than the platform's own report, whatever the  *)
(* process measures in between and in whatever order the two arrive.       *)
PlatformHeard == pressure >= source["platform"]

(* A level that was left for a lower one is entered again only after the   *)
(* available memory moved by more than the headroom: hovering around one   *)
(* threshold changes nothing (without floors).                             *)
NoFlapping == [][\A l \in Levels : left[l] # NotYet /\ level < l /\ level' = l
                     => left[l] - seen'.available > Headroom]_pressureVars

(* The tabs hear the platform's own report whatever the process measures,  *)
(* and a share that hovers around a threshold does not toggle the level.   *)
PressureIsSteady == []PlatformHeard /\ NoFlapping

(* A critical shortage reaches the tabs: the interval, a failed sample and *)
(* the bridge that skips what is already shown only delay it.              *)
ShortageReachesTabs == []<>(level # Critical \/ pressure = Critical)

(* DOCUMENTED, M6_LINUX_PSI_PRESSURE_POLICY.md: the stall figures can make *)
(* pressure more conservative but cannot lower what the available memory   *)
(* requires.                                                               *)
StallNeverLowers == level >= plain

(* DOCUMENTED, M6_ANDROID_TRIM_MEMORY_CONTRACT.md: a normal platform       *)
(* report cannot clear an independently active process level.              *)
ProcessHeard == pressure >= level
================================================================================
