--------------------------- MODULE BackgroundProofs ---------------------------
(***************************************************************************)
(* Proofs about six components that work on their own: the compaction      *)
(* worker, the mapped window through which cold segments are touched, the  *)
(* memory pressure the tabs are told of, the cache of verified fonts, the  *)
(* ledger with its shadow, and the cache of immutable blocks.              *)
(***************************************************************************)
EXTENDS CompactionWorker, MemoryPressure, SingleFlightCache, ResourceLedger, BlockCache,
        SetFolds, SequenceTheorems, FiniteSetTheorems, TLAPS

CONSTANTS Paths, MaxSize, Granularity, Window
VARIABLES size, view, charged, leaked, request, result
Cold == INSTANCE ColdWindow
------------------------------------------------------------------------------
(* The compaction worker, for any number of client threads.                *)

(* Every flag and place stays in its type, whatever the threads do.        *)
THEOREM WorkerTypeCorrect == WorkerSpec => []WorkerTypeOK
<1>1. WorkerInit => WorkerTypeOK
  BY DEF WorkerInit, WorkerTypeOK, WorkerPlaces, ClientPlaces, Fates
<1>2. WorkerTypeOK /\ [WorkerNext]_workerVars => WorkerTypeOK'
  <2> SUFFICES ASSUME WorkerTypeOK, [WorkerNext]_workerVars
               PROVE  WorkerTypeOK'
    OBVIOUS
  <2> USE DEF WorkerTypeOK, WorkerPlaces, ClientPlaces, Fates, state, workerVars,
              ClientGoes, Become, WakeWorker, WakeWaiters
  <2>1. ASSUME NEW c \in Clients, ClientCall(c) PROVE WorkerTypeOK'
    <3>1. CASE CompactionAccepted(c)
      BY <3>1 DEF CompactionAccepted
    <3>2. CASE CompactionCoalesced(c)
      BY <3>2 DEF CompactionCoalesced
    <3>3. CASE CancelPending(c)
      BY <3>3 DEF CancelPending
    <3>4. CASE WaitBegin(c)
      BY <3>4 DEF WaitBegin
    <3>5. CASE RequestStop(c)
      BY <3>5 DEF RequestStop
    <3> QED
      BY <2>1, <3>1, <3>2, <3>3, <3>4, <3>5 DEF ClientCall
  <2>2. ASSUME NEW c \in Clients, ClientStep(c) PROVE WorkerTypeOK'
    <3>1. CASE NotifyWork(c)
      BY <3>1 DEF NotifyWork
    <3>2. CASE NotifyIdle(c)
      BY <3>2 DEF NotifyIdle
    <3>3. CASE WaitSleep(c)
      BY <3>3 DEF WaitSleep
    <3>4. CASE WaitReturns(c)
      BY <3>4 DEF WaitReturns
    <3>5. CASE NotifyStop(c)
      BY <3>5 DEF NotifyStop
    <3>6. CASE JoinWorker(c)
      BY <3>6 DEF JoinWorker
    <3> QED
      BY <2>2, <3>1, <3>2, <3>3, <3>4, <3>5, <3>6 DEF ClientStep
  <2>3. ASSUME NEW c \in Clients, WaitTimesOut(c) PROVE WorkerTypeOK'
    BY <2>3 DEF WaitTimesOut
  <2>4. CASE WorkerStep
    <3>1. CASE WaitForWork
      BY <3>1 DEF WaitForWork
    <3>2. CASE WorkerStops
      BY <3>2 DEF WorkerStops
    <3>3. CASE StartCompaction
      BY <3>3 DEF StartCompaction
    <3>4. CASE EndCompaction
      BY <3>4 DEF EndCompaction
    <3> QED
      BY <2>4, <3>1, <3>2, <3>3, <3>4 DEF WorkerStep
  <2>5. CASE StopFromExecutor
    BY <2>5 DEF StopFromExecutor
  <2>6. CASE WorkerSpuriousWake
    BY <2>6 DEF WorkerSpuriousWake
  <2>7. CASE UNCHANGED workerVars
    BY <2>7
  <2> QED
    BY <2>1, <2>2, <2>3, <2>4, <2>5, <2>6, <2>7 DEF WorkerNext
<1> QED
  BY <1>1, <1>2, PTL DEF WorkerSpec
--------------------------------------------------------------------------------
(* Why idle means served: a request that waits is the pending one, and one *)
(* whose run has begun is being run.  The worker clears pending when it    *)
(* leaves, so it also takes that nothing is pending once stop was called.  *)
Tracked == /\ \A c \in Clients : /\ asked[c] = "waits" => pending
                                 /\ asked[c] = "inRun" => running
           /\ stop_requested => ~pending

(* Coalescing loses no request: whoever finds the worker idle knows that   *)
(* whatever was requested before has been compacted, cancelled or stopped. *)
THEOREM IdleServes == WorkerSpec => []IdleMeansServed
<1>1. WorkerInit => Tracked
  BY DEF WorkerInit, Tracked
<1>2. WorkerTypeOK /\ Tracked /\ [WorkerNext]_workerVars => Tracked'
  <2> SUFFICES ASSUME WorkerTypeOK, Tracked, [WorkerNext]_workerVars
               PROVE  Tracked'
    OBVIOUS
  <2> USE DEF WorkerTypeOK, Fates, Tracked, state, workerVars, Become
  <2>1. ASSUME NEW c \in Clients, ClientCall(c) PROVE Tracked'
    <3>1. CASE CompactionAccepted(c)
      BY <3>1 DEF CompactionAccepted
    <3>2. CASE CompactionCoalesced(c)
      BY <3>2 DEF CompactionCoalesced
    <3>3. CASE CancelPending(c)
      BY <3>3 DEF CancelPending
    <3>4. CASE WaitBegin(c)
      BY <3>4 DEF WaitBegin
    <3>5. CASE RequestStop(c)
      BY <3>5 DEF RequestStop
    <3> QED
      BY <2>1, <3>1, <3>2, <3>3, <3>4, <3>5 DEF ClientCall
  <2>2. ASSUME NEW c \in Clients, ClientStep(c) PROVE Tracked'
    <3>1. CASE NotifyWork(c)
      BY <3>1 DEF NotifyWork
    <3>2. CASE NotifyIdle(c)
      BY <3>2 DEF NotifyIdle
    <3>3. CASE WaitSleep(c)
      BY <3>3 DEF WaitSleep
    <3>4. CASE WaitReturns(c)
      BY <3>4 DEF WaitReturns
    <3>5. CASE NotifyStop(c)
      BY <3>5 DEF NotifyStop
    <3>6. CASE JoinWorker(c)
      BY <3>6 DEF JoinWorker
    <3> QED
      BY <2>2, <3>1, <3>2, <3>3, <3>4, <3>5, <3>6 DEF ClientStep
  <2>3. ASSUME NEW c \in Clients, WaitTimesOut(c) PROVE Tracked'
    BY <2>3 DEF WaitTimesOut
  <2>4. CASE WorkerStep
    <3>1. CASE WaitForWork
      BY <3>1 DEF WaitForWork
    <3>2. CASE WorkerStops
      <4>1. ~pending /\ ~pending'
        BY <3>2 DEF WorkerStops
      <4>2. \A c \in Clients : asked'[c] # "waits"
        BY <3>2, <4>1 DEF WorkerStops
      <4>3. \A c \in Clients : asked'[c] = "inRun" => running'
        BY <3>2 DEF WorkerStops
      <4> QED
        BY <4>1, <4>2, <4>3
    <3>3. CASE StartCompaction
      BY <3>3 DEF StartCompaction
    <3>4. CASE EndCompaction
      <4>1. pending' = pending
        <5>1. stop_requested \/ ~stop_requested
          OBVIOUS
        <5>2. CASE stop_requested
          BY <3>4, <5>2 DEF EndCompaction
        <5>3. CASE ~stop_requested
          BY <3>4, <5>3 DEF EndCompaction
        <5> QED
          BY <5>1, <5>2, <5>3
      <4>2. \A c \in Clients : asked'[c] = "waits" => asked[c] = "waits"
        BY <3>4 DEF EndCompaction
      <4>3. \A c \in Clients : asked'[c] # "inRun"
        BY <3>4 DEF EndCompaction
      <4>4. stop_requested' = stop_requested
        BY <3>4 DEF EndCompaction
      <4> QED
        BY <4>1, <4>2, <4>3, <4>4
    <3> QED
      BY <2>4, <3>1, <3>2, <3>3, <3>4 DEF WorkerStep
  <2>5. CASE StopFromExecutor
    BY <2>5 DEF StopFromExecutor
  <2>6. CASE WorkerSpuriousWake
    BY <2>6 DEF WorkerSpuriousWake
  <2>7. CASE UNCHANGED workerVars
    BY <2>7
  <2> QED
    BY <2>1, <2>2, <2>3, <2>4, <2>5, <2>6, <2>7 DEF WorkerNext
<1>3. WorkerTypeOK /\ Tracked => IdleMeansServed
  BY DEF WorkerTypeOK, Fates, Tracked, IdleMeansServed, Busy
<1> QED
  BY <1>1, <1>2, <1>3, WorkerTypeCorrect, PTL DEF WorkerSpec
------------------------------------------------------------------------------
(* The cold window, for any segments, any granularity and any bound of the *)
(* window, larger or smaller than a page.                                  *)

(* The offset an aligned window begins at.                                 *)
LEMMA AlignedStart ==
    ASSUME Cold!ColdWindowAssumption, NEW off \in Nat
    PROVE  /\ off % Granularity \in Nat
           /\ off - (off % Granularity) \in Nat
<1>1. /\ off % Granularity \in 0..(Granularity - 1)
      /\ off = Granularity * (off \div Granularity) + (off % Granularity)
      /\ off \div Granularity \in Nat
  BY DEF Cold!ColdWindowAssumption
<1>2. Granularity * (off \div Granularity) \in Nat
  BY <1>1 DEF Cold!ColdWindowAssumption
<1> QED
  BY <1>1, <1>2 DEF Cold!ColdWindowAssumption

(* The invariant: types, the charge, and the window inside its segment.    *)
WellCharged ==
    /\ size \in [Paths -> 0..MaxSize]
    /\ view \in [path : Paths, off : Nat, bytes : 1..Window] \cup {Cold!NoView}
    /\ leaked \in Nat
    /\ Cold!ChargeExact
    /\ charged <= Window
    /\ view # Cold!NoView => view.off + view.bytes <= size[view.path]

(* A window that can be had is not empty, within the bound, within its     *)
(* segment, and holds what was asked for; the ledger refuses it only for   *)
(* bytes that were left behind.                                            *)
LEMMA NewWindow ==
    ASSUME Cold!ColdWindowAssumption, WellCharged, NEW p \in Paths, NEW off \in Nat,
           NEW n \in Nat \ {0},
           NEW start, start = off - (off % Granularity),
           NEW bytes, bytes = IF size[p] - start < Window THEN size[p] - start ELSE Window
    PROVE  /\ Cold!Refusal(p, off, n, Cold!Left) = "ok" =>
                /\ bytes \in 1..Window /\ start \in Nat
                /\ start <= off /\ off + n <= start + bytes
                /\ start + bytes <= size[p]
                /\ Cold!Left + bytes <= Window
           /\ Cold!Refusal(p, off, n, Cold!Left) = "ledger" => leaked > 0
           /\ Cold!Refusal(p, off, n, Cold!Left) \in {"ok", "range", "bound", "ledger"}
<1>1. off % Granularity \in Nat /\ start \in Nat
  BY AlignedStart
<1>2. size[p] \in Nat /\ Window \in Nat \ {0} /\ leaked \in Nat
  BY DEF WellCharged, Cold!ColdWindowAssumption
<1>3. Cold!Left = leaked
  <2>1. view.bytes \in Nat
    BY DEF WellCharged, Cold!NoView, Cold!ColdWindowAssumption
  <2> QED
    BY <2>1, <1>2 DEF Cold!Left, WellCharged, Cold!ChargeExact
<1>4. leaked <= Window
  <2>1. view.bytes \in Nat
    BY DEF WellCharged, Cold!NoView, Cold!ColdWindowAssumption
  <2> QED
    BY <2>1, <1>2 DEF WellCharged, Cold!ChargeExact
<1> QED
  BY <1>1, <1>2, <1>3, <1>4 DEF Cold!Refusal

ColdInv == /\ WellCharged
           /\ result \in {"ok", "range", "bound", "ledger", "failed"}
           /\ Cold!NeverRefused

LEMMA ColdInvHolds == ASSUME Cold!ColdWindowAssumption PROVE Cold!Spec => []ColdInv
<1>1. Cold!Init => ColdInv
  BY DEF Cold!Init, ColdInv, WellCharged, Cold!NeverRefused, Cold!ChargeExact, Cold!NoView,
         Cold!ColdWindowAssumption
<1>2. ColdInv /\ [Cold!Next]_Cold!vars => ColdInv'
  <2> SUFFICES ASSUME ColdInv, [Cold!Next]_Cold!vars PROVE ColdInv'
    OBVIOUS
  <2> USE DEF ColdInv
  <2>0. /\ view.bytes \in Nat /\ leaked \in Nat
        /\ Cold!Left = leaked
    BY DEF WellCharged, Cold!NoView, Cold!ChargeExact, Cold!Left, Cold!ColdWindowAssumption
  <2>1. ASSUME NEW p \in Paths, NEW off \in 0..MaxSize, NEW n \in 1..(MaxSize + 1),
               Cold!Hit(p, off, n)
        PROVE  ColdInv'
    BY <2>1 DEF Cold!Hit, WellCharged, Cold!ChargeExact, Cold!NeverRefused
  <2>2. ASSUME NEW p \in Paths, NEW off \in 0..MaxSize, NEW n \in 1..(MaxSize + 1),
               NEW how \in {"ok", "failed", "throws"}, Cold!Remap(p, off, n, how)
        PROVE  ColdInv'
    <3> DEFINE start == off - (off % Granularity)
               bytes == IF size[p] - start < Window THEN size[p] - start ELSE Window
               refusal == Cold!Refusal(p, off, n, Cold!Left)
               made == IF refusal = "ok" THEN how ELSE "failed"
    <3>0. MaxSize \in Nat /\ off \in Nat /\ n \in Nat \ {0}
      BY DEF Cold!ColdWindowAssumption
    <3>1. /\ result' = IF refusal # "ok" THEN refusal
                       ELSE IF how = "ok" THEN "ok" ELSE "failed"
          /\ view' = IF made = "ok" THEN [path |-> p, off |-> start, bytes |-> bytes]
                     ELSE Cold!NoView
          /\ charged' = IF made = "failed" THEN Cold!Left ELSE Cold!Left + bytes
          /\ leaked' = IF made = "throws" THEN leaked + bytes ELSE leaked
          /\ size' = size
      BY <2>2 DEF Cold!Remap
    <3>2. /\ refusal = "ok" => /\ bytes \in 1..Window /\ start \in Nat
                               /\ start + bytes <= size[p]
                               /\ leaked + bytes <= Window
          /\ refusal = "ledger" => leaked > 0
          /\ refusal \in {"ok", "range", "bound", "ledger"}
      BY <2>0, <3>0, NewWindow
    <3>3. leaked <= Window /\ Window \in Nat
      BY <2>0 DEF WellCharged, Cold!ChargeExact, Cold!ColdWindowAssumption
    <3> HIDE DEF start, bytes, refusal
    <3>4. WellCharged'
      <4>1. CASE made = "ok"
        <5>1. refusal = "ok" /\ view' = [path |-> p, off |-> start, bytes |-> bytes]
              /\ charged' = leaked + bytes /\ leaked' = leaked
          BY <4>1, <3>1, <2>0
        <5>2. view' \in [path : Paths, off : Nat, bytes : 1..Window] /\ view'.bytes = bytes
              /\ view'.off + view'.bytes <= size[view'.path]
          BY <5>1, <3>2
        <5> QED
          BY <5>1, <5>2, <3>1, <3>2, <3>3, <2>0 DEF WellCharged, Cold!ChargeExact
      <4>2. CASE made = "throws"
        <5>1. refusal = "ok" /\ view' = Cold!NoView /\ charged' = leaked + bytes
              /\ leaked' = leaked + bytes
          BY <4>2, <3>1, <2>0
        <5> QED
          BY <5>1, <3>1, <3>2, <3>3, <2>0 DEF WellCharged, Cold!ChargeExact, Cold!NoView
      <4>3. CASE made = "failed"
        <5>1. view' = Cold!NoView /\ charged' = leaked /\ leaked' = leaked
          BY <4>3, <3>1, <2>0
        <5> QED
          BY <5>1, <3>1, <3>3, <2>0 DEF WellCharged, Cold!ChargeExact, Cold!NoView
      <4> QED
        BY <4>1, <4>2, <4>3
    <3>5. Cold!NeverRefused'
      BY <3>1, <3>2, <2>0 DEF Cold!NeverRefused
    <3>6. result' \in {"ok", "range", "bound", "ledger", "failed"}
      BY <3>1, <3>2
    <3> QED
      BY <3>4, <3>5, <3>6
  <2>3. ASSUME NEW p \in Paths, Cold!Grow(p) PROVE ColdInv'
    <3>1. size[p] \in 0..MaxSize /\ size[p] < MaxSize /\ MaxSize \in Nat
      BY <2>3 DEF Cold!Grow, WellCharged, Cold!ColdWindowAssumption
    <3>2. size' = [size EXCEPT ![p] = size[p] + 1] /\ UNCHANGED <<view, charged, leaked, result>>
      BY <2>3 DEF Cold!Grow
    <3>3. size' \in [Paths -> 0..MaxSize] /\ \A q \in Paths : size[q] <= size'[q]
      BY <3>1, <3>2 DEF WellCharged
    <3>4. view # Cold!NoView => view.path \in Paths /\ view.off \in Nat /\ view.bytes \in Nat
      BY DEF WellCharged
    <3>5. view # Cold!NoView => size[view.path] \in Nat /\ size'[view.path] \in Nat
      BY <3>3, <3>4 DEF WellCharged
    <3>6. view' # Cold!NoView => view'.off + view'.bytes <= size'[view'.path]
      BY <3>2, <3>3, <3>4, <3>5 DEF WellCharged
    <3> QED
      BY <3>2, <3>3, <3>6 DEF WellCharged, Cold!ChargeExact, Cold!NeverRefused
  <2>4. CASE Cold!Release
    <3>1. /\ view' = Cold!NoView /\ charged' = leaked
          /\ leaked' = leaked /\ size' = size /\ result' = "failed"
      BY <2>4, <2>0 DEF Cold!Release, Cold!Left
    <3>2. leaked <= Window
      BY <2>0 DEF WellCharged, Cold!ChargeExact, Cold!ColdWindowAssumption
    <3> QED
      BY <3>1, <3>2, <2>0 DEF WellCharged, Cold!ChargeExact, Cold!NeverRefused, Cold!NoView
  <2>5. CASE UNCHANGED Cold!vars
    BY <2>5 DEF Cold!vars, WellCharged, Cold!ChargeExact, Cold!NeverRefused
  <2> QED
    BY <2>1, <2>2, <2>3, <2>4, <2>5 DEF Cold!Next
<1> QED
  BY <1>1, <1>2, PTL DEF Cold!Spec

(* The ledger holds the mapped window and what a throwing record left      *)
(* behind, and refuses a window only on account of the latter.             *)
THEOREM ColdChargeHolds ==
    ASSUME Cold!ColdWindowAssumption
    PROVE  Cold!Spec => [](Cold!ColdWindowTypeOK /\ Cold!ChargeExact /\ Cold!NeverRefused)
<1>1. ColdInv => Cold!ColdWindowTypeOK /\ Cold!ChargeExact /\ Cold!NeverRefused
  <2> SUFFICES ASSUME ColdInv PROVE Cold!ColdWindowTypeOK
    BY DEF ColdInv, WellCharged
  <2>1. view.bytes \in Nat /\ Window \in Nat
    BY DEF ColdInv, WellCharged, Cold!NoView, Cold!ColdWindowAssumption
  <2> QED
    BY <2>1 DEF ColdInv, WellCharged, Cold!ChargeExact, Cold!ColdWindowTypeOK
<1> QED
  BY <1>1, ColdInvHolds, PTL

(* A request that succeeded lies in the window of its segment, which lies  *)
(* in the segment, until the window is given up.                           *)
THEOREM ColdTouchedIsMapped ==
    ASSUME Cold!ColdWindowAssumption PROVE Cold!Spec => []Cold!TouchedIsMapped
<1> DEFINE Held == result = "ok" => /\ view.path = request.path /\ view.off <= request.off
                                    /\ request.off + request.bytes <= view.off + view.bytes
<1>1. Cold!Init => Held
  BY DEF Cold!Init
<1>2. ColdInv /\ Held /\ [Cold!Next]_Cold!vars => Held'
  <2> SUFFICES ASSUME ColdInv, Held, [Cold!Next]_Cold!vars PROVE Held'
    OBVIOUS
  <2>1. ASSUME NEW p \in Paths, NEW off \in 0..MaxSize, NEW n \in 1..(MaxSize + 1),
               Cold!Hit(p, off, n)
        PROVE  Held'
    BY <2>1 DEF Cold!Hit, Cold!Contains
  <2>2. ASSUME NEW p \in Paths, NEW off \in 0..MaxSize, NEW n \in 1..(MaxSize + 1),
               NEW how \in {"ok", "failed", "throws"}, Cold!Remap(p, off, n, how)
        PROVE  Held'
    <3> DEFINE start == off - (off % Granularity)
               bytes == IF size[p] - start < Window THEN size[p] - start ELSE Window
               refusal == Cold!Refusal(p, off, n, Cold!Left)
    <3> SUFFICES ASSUME result' = "ok"
                 PROVE  /\ view'.path = request'.path /\ view'.off <= request'.off
                        /\ request'.off + request'.bytes <= view'.off + view'.bytes
      OBVIOUS
    <3>1. refusal = "ok" /\ how = "ok"
      <4>1. result' = IF refusal # "ok" THEN refusal ELSE IF how = "ok" THEN "ok" ELSE "failed"
        BY <2>2 DEF Cold!Remap
      <4> HIDE DEF refusal
      <4> QED
        BY <4>1
    <3>2. /\ view' = [path |-> p, off |-> start, bytes |-> bytes]
          /\ request' = [path |-> p, off |-> off, bytes |-> n]
      BY <2>2, <3>1 DEF Cold!Remap
    <3>3. start <= off /\ off + n <= start + bytes
      <4>1. off \in Nat /\ n \in Nat \ {0}
        BY DEF Cold!ColdWindowAssumption
      <4> QED
        BY <3>1, <4>1, NewWindow DEF ColdInv
    <3> HIDE DEF start, bytes
    <3> QED
      BY <3>2, <3>3
  <2>3. ASSUME NEW p \in Paths, Cold!Grow(p) PROVE Held'
    BY <2>3 DEF Cold!Grow
  <2>4. CASE Cold!Release
    BY <2>4 DEF Cold!Release
  <2>5. CASE UNCHANGED Cold!vars
    BY <2>5 DEF Cold!vars
  <2> QED
    BY <2>1, <2>2, <2>3, <2>4, <2>5 DEF Cold!Next
<1>3. ColdInv /\ Held => Cold!TouchedIsMapped
  BY DEF ColdInv, WellCharged, Cold!TouchedIsMapped
<1> QED
  BY <1>1, <1>2, <1>3, ColdInvHolds, PTL DEF Cold!Spec
------------------------------------------------------------------------------
(* The pressure, for any thresholds the policy accepts, any intervals, and *)
(* any reports of the platform.                                            *)

USE DEF Normal, Elevated, Critical, Levels,
       NotYet

LEMMA UpdateType ==
    ASSUME ConfigAssumption, NEW from \in Levels,
           NEW s \in Samples
    PROVE  Update(from, s) \in Levels /\ MemoryLevel(from, s.available) \in Levels
<1>1. MemoryLevel(from, s.available) \in Levels
  BY DEF MemoryLevel
<1>2. s.stall \in Levels
  BY DEF Samples, ConfigAssumption
<1> QED
  BY <1>1, <1>2 DEF Update, Stronger

LEMMA WaitType ==
    ASSUME ConfigAssumption, NEW l \in Levels
    PROVE  NextWait(l) \in 0..(Interval[Normal] - 1)
BY DEF ConfigAssumption, NextWait

(* The tabs are told exactly the stronger of the two sources.              *)
Told == PressureTypeOK /\ pressure = Combined(source)

LEMMA SetSourceTells ==
    ASSUME Told, NEW s \in Sources, NEW l \in Levels,
           SetSource(s, l)
    PROVE  /\ source' \in [Sources -> Levels]
           /\ pressure' = Combined(source') /\ pressure' \in Levels
<1>1. source' \in [Sources -> Levels]
  BY DEF SetSource, Told, PressureTypeOK
<1>2. source'["process"] \in Levels /\ source'["platform"] \in Levels
  BY <1>1 DEF Sources
<1> QED
  BY <1>1, <1>2 DEF SetSource, Combined, Stronger

LEMMA ToldHolds == ASSUME ConfigAssumption PROVE PressureSpec => []Told
<1>1. PressureInit => Told
  <2> SUFFICES ASSUME PressureInit PROVE Told
    OBVIOUS
  <2>1. /\ seen \in [available : 0..Full, stall : Levels, low : BOOLEAN]
        /\ wait \in 0..(Interval[Normal] - 1)
    BY DEF PressureInit, ConfigAssumption
  <2>2. source["process"] = Normal /\ source["platform"] = Normal
    BY DEF PressureInit, Sources
  <2> QED
    BY <2>1, <2>2 DEF PressureInit, Told, PressureTypeOK, Combined,
           Stronger
<1>2. ASSUME Told, [PressureNext]_pressureVars PROVE Told'
  <2>1. CASE Throttled
    <3>1. wait' \in 0..(Interval[Normal] - 1)
      BY <2>1, <1>2 DEF Throttled, Told, PressureTypeOK,
             ConfigAssumption
    <3> QED
      BY <2>1, <3>1, <1>2 DEF Throttled, Told, PressureTypeOK
  <2>2. ASSUME NEW s \in Samples, Sampled(s) PROVE Told'
    <3>1. level' \in Levels /\ plain' \in Levels
      BY <2>2, <1>2, UpdateType DEF Sampled, Told, PressureTypeOK
    <3>2. /\ source' \in [Sources -> Levels]
          /\ pressure' = Combined(source') /\ pressure' \in Levels
      <4>1. CASE AlreadyShown(level')
        BY <2>2, <4>1, <1>2 DEF Sampled, Apply, Told,
               PressureTypeOK
      <4>2. CASE ~AlreadyShown(level')
        <5>1. SetSource("process", level')
          BY <2>2, <4>2 DEF Sampled, Apply
        <5> QED
          BY <5>1, <3>1, <1>2, SetSourceTells DEF Sources
      <4> QED
        BY <4>1, <4>2
    <3>3. wait' \in 0..(Interval[Normal] - 1)
      BY <2>2, <3>1, WaitType DEF Sampled
    <3>4. seen' \in [available : 0..Full, stall : Levels, low : BOOLEAN]
      BY <2>2 DEF Sampled, Samples, ConfigAssumption
    <3>5. left' \in [Levels -> (0..Full) \cup {NotYet}]
      BY <2>2, <1>2 DEF Sampled, Samples, Told, PressureTypeOK
    <3> QED
      BY <3>1, <3>2, <3>3, <3>4, <3>5 DEF Told, PressureTypeOK
  <2>3. CASE SampleFailed
    <3>1. wait' \in 0..(Interval[Normal] - 1)
      BY <2>3, <1>2, WaitType DEF SampleFailed, Told, PressureTypeOK
    <3> QED
      BY <2>3, <3>1, <1>2 DEF SampleFailed, Told, PressureTypeOK
  <2>4. ASSUME NEW l \in PlatformLevels, PlatformReports(l) PROVE Told'
    <3>1. l \in Levels
      BY DEF ConfigAssumption
    <3>2. /\ source' \in [Sources -> Levels]
          /\ pressure' = Combined(source') /\ pressure' \in Levels
      BY <2>4, <3>1, <1>2, SetSourceTells DEF PlatformReports, Sources
    <3> QED
      BY <2>4, <3>2, <1>2 DEF PlatformReports, Told, PressureTypeOK
  <2>5. CASE UNCHANGED pressureVars
    BY <2>5, <1>2 DEF pressureVars, Told, PressureTypeOK
  <2> QED
    BY <2>1, <2>2, <2>3, <2>4, <2>5, <1>2 DEF PressureNext
<1> QED
  BY <1>1, <1>2, PTL DEF PressureSpec

(* The tabs are told no less than the platform's own report, in whatever   *)
(* order the reports and the process's own samples arrive.                 *)
THEOREM PlatformIsHeard ==
    ASSUME ConfigAssumption
    PROVE PressureSpec => [](PressureTypeOK /\ PlatformHeard)
<1>1. Told => PressureTypeOK /\ PlatformHeard
  BY DEF Told, PressureTypeOK, PlatformHeard, Combined,
         Stronger, Sources
<1> QED
  BY <1>1, ToldHolds, PTL

(* The share at which a level was last left lies above its recovery band.  *)
LeftAbove == \A l \in Levels : left[l] # NotYet =>
                 /\ l # Normal
                 /\ left[l] > Headroom + (IF l = Critical THEN CriticalEnter ELSE ElevatedEnter)

(* Hovering around one threshold changes nothing: as long as the stall     *)
(* figures and the system's flag stay quiet, a level that was left for a   *)
(* lower one is entered again only after the available memory moved by     *)
(* more than the headroom.                                                 *)
THEOREM LevelsDoNotFlap ==
    ASSUME ConfigAssumption, StallFloors = {Normal},
           LowSignals = {FALSE}
    PROVE  PressureSpec => NoFlapping
<1>1. PressureInit => LeftAbove
  BY DEF PressureInit, LeftAbove
<1>2. ASSUME Told, LeftAbove, NEW s \in Samples, Sampled(s)
      PROVE  /\ LeftAbove'
             /\ \A l \in Levels : left[l] # NotYet /\ level < l /\ level' = l
                   => left[l] - seen'.available > Headroom
  <2>1. /\ level \in Levels /\ s.available \in 0..Full /\ seen' = s
        /\ left \in [Levels -> (0..Full) \cup {NotYet}]
    BY <1>2 DEF Told, PressureTypeOK, Samples, Sampled
  <2>2. s.stall = Normal /\ s.low = FALSE
    BY DEF Samples
  <2>3. level' = MemoryLevel(level, s.available) /\ level' \in Levels
    <3>1. MemoryLevel(level, s.available) \in Levels
      BY <2>1, UpdateType
    <3> QED
      BY <1>2, <2>2, <3>1 DEF Sampled, Update, Stronger
  <2>4. level' < level => s.available > Headroom +
                            (IF level = Critical THEN CriticalEnter ELSE ElevatedEnter)
    BY <2>1, <2>3 DEF MemoryLevel, ConfigAssumption
  <2>5. level < level' => s.available <=
                            (IF level' = Critical THEN CriticalEnter ELSE ElevatedEnter)
    BY <2>1, <2>3 DEF MemoryLevel, ConfigAssumption
  <2>6. \A l \in Levels : left'[l] = IF l = level /\ level' < l THEN s.available
                                     ELSE IF l = level' THEN NotYet ELSE left[l]
    BY <1>2 DEF Sampled
  <2>7. LeftAbove'
    BY <1>2, <2>1, <2>3, <2>4, <2>6 DEF LeftAbove
  <2>8. ASSUME NEW l \in Levels, left[l] # NotYet, level < l, level' = l
        PROVE  left[l] - seen'.available > Headroom
    <3>1. left[l] > Headroom + (IF l = Critical THEN CriticalEnter ELSE ElevatedEnter)
      BY <1>2, <2>8 DEF LeftAbove
    <3> QED
      BY <2>1, <2>5, <2>8, <3>1 DEF ConfigAssumption
  <2> QED
    BY <2>7, <2>8
<1>3. Told /\ LeftAbove /\ [PressureNext]_pressureVars =>
        /\ LeftAbove'
        /\ [\A l \in Levels : left[l] # NotYet /\ level < l /\ level' = l
              => left[l] - seen'.available > Headroom]_pressureVars
  <2> SUFFICES ASSUME Told, LeftAbove, [PressureNext]_pressureVars
               PROVE  /\ LeftAbove'
                      /\ \A l \in Levels : left[l] # NotYet /\ level < l /\ level' = l
                            => left[l] - seen'.available > Headroom
    OBVIOUS
  <2>1. CASE \E s \in Samples : Sampled(s)
    BY <2>1, <1>2
  <2>2. CASE UNCHANGED <<level, left>>
    BY <2>2 DEF LeftAbove, Told, PressureTypeOK
  <2> QED
    BY <2>1, <2>2 DEF PressureNext, Throttled, SampleFailed,
           PlatformReports, pressureVars
<1> QED
  BY <1>1, <1>3, ToldHolds, PTL DEF PressureSpec, NoFlapping

(* Both together, as the runs check them.                                  *)
THEOREM PressureStaysSteady ==
    ASSUME ConfigAssumption, StallFloors = {Normal},
           LowSignals = {FALSE}
    PROVE  PressureSpec => PressureIsSteady
<1>1. PressureSpec => []PlatformHeard
  BY PlatformIsHeard, PTL
<1> QED
  BY <1>1, LevelsDoNotFlap DEF PressureIsSteady
-----------------------------------------------------------------------------
(* The font cache, for any fonts, sizes and limits and any number of       *)
(* threads.  What entries are evicted is left open: no statement here      *)
(* depends on it.                                                          *)

Fonts == [key : Keys, content : Contents]
Asked == [key : Keys, content : Contents, build : BOOLEAN]
EachOnce(es) == \A i, j \in DOMAIN es : es[i].key = es[j].key => i = j

(* The types, but for the bytes, which are a sum; and a build in the list  *)
(* is that of the thread that builds it, for the key it was asked for.     *)
CacheShape ==
    /\ entries \in Seq(Fonts)
    /\ building \subseteq [key : Keys, thread : Threads]
    /\ at \in [Threads -> {"idle", "looks", "sleeps", "builds", "notifies"}]
    /\ DOMAIN call = Threads /\ DOMAIN got = Threads
    /\ \A t \in Threads : at[t] # "idle" => call[t] \in Asked
    /\ \A t \in Threads : at[t] = "builds" <=> [key |-> call[t].key, thread |-> t] \in building
    /\ \A b \in building : at[b.thread] = "builds" /\ b.key = call[b.thread].key

CacheInv == CacheShape /\ FontsSharedRightly

(* An entry that is used moves to the end; those behind it move up.        *)
LEMMA UsedLastIs ==
    ASSUME entries \in Seq(Fonts), NEW k, Resident(k)
    PROVE  LET p == Place(k)
               len == Len(entries)
           IN /\ p \in 1..len /\ entries[p].key = k /\ entries[p] \in Fonts
              /\ UsedLast(k) \in Seq(Fonts) /\ Len(UsedLast(k)) = len
              /\ \A j \in 1..len : UsedLast(k)[j] = entries[IF j < p THEN j ELSE IF j = len THEN p ELSE j + 1]
<1> DEFINE p == Place(k)
           len == Len(entries)
<1>1. p \in DOMAIN entries /\ entries[p].key = k
  BY DEF Resident, Place
<1>2. DOMAIN entries = 1..len /\ len \in Nat /\ p \in 1..len
  BY <1>1
<1>3. entries[p] \in Fonts
  BY <1>1, <1>2, ElementOfSeq
<1> HIDE DEF p, len
<1>4. /\ Len(UsedLast(k)) = len /\ UsedLast(k) \in Seq(Fonts)
      /\ \A j \in 1..len : UsedLast(k)[j] = entries[IF j < p THEN j ELSE IF j = len THEN p ELSE j + 1]
  <2> DEFINE front == SubSeq(entries, 1, p - 1)
             back == SubSeq(entries, p + 1, len)
  <2>1. /\ front \in Seq(Fonts) /\ Len(front) = p - 1
        /\ \A j \in 1..(p - 1) : front[j] = entries[j]
    BY <1>2, SubSeqProperties
  <2>2. /\ back \in Seq(Fonts) /\ Len(back) = len - p
        /\ \A j \in 1..(len - p) : back[j] = entries[p + j]
    BY <1>2, SubSeqProperties
  <2> HIDE DEF front, back
  <2>3. /\ front \o back \in Seq(Fonts) /\ Len(front \o back) = len - 1
        /\ \A j \in 1..(len - 1) : (front \o back)[j] = IF j < p THEN entries[j] ELSE entries[j + 1]
    <3>1. /\ front \o back \in Seq(Fonts) /\ Len(front \o back) = Len(front) + Len(back)
          /\ \A j \in 1..(Len(front) + Len(back)) :
                (front \o back)[j] = IF j <= Len(front) THEN front[j] ELSE back[j - Len(front)]
      BY <2>1, <2>2, ConcatProperties
    <3>2. p - 1 + (len - p) = len - 1
      BY <1>2
    <3>3. ASSUME NEW j \in 1..(len - 1)
          PROVE  (front \o back)[j] = IF j < p THEN entries[j] ELSE entries[j + 1]
      <4>1. CASE j <= p - 1
        BY <3>1, <3>2, <1>2, <2>1, <2>2, <4>1
      <4>2. CASE ~(j <= p - 1)
        <5>1. j - (p - 1) \in 1..(len - p) /\ p + (j - (p - 1)) = j + 1 /\ ~(j < p)
          BY <1>2, <4>2
        <5>2. (front \o back)[j] = back[j - (p - 1)]
          BY <3>1, <3>2, <2>1, <2>2, <4>2
        <5> QED
          BY <5>1, <5>2, <2>2
      <4> QED
        BY <4>1, <4>2
    <3> QED
      BY <3>1, <3>2, <3>3, <2>1, <2>2
  <2>4. UsedLast(k) = Append(front \o back, entries[p])
    BY DEF UsedLast, RemoveAt, Entry, p, len, front, back
  <2> QED
    BY <1>2, <1>3, <2>3, <2>4, AppendProperties
<1> QED
  BY <1>1, <1>2, <1>3, <1>4 DEF p, len

(* The entries are the same ones then.                                     *)
LEMMA UsedLastKeeps ==
    ASSUME entries \in Seq(Fonts), EachOnce(entries), NEW k, Resident(k)
    PROVE  /\ Entry(k) \in Fonts /\ Entry(k).key = k
           /\ UsedLast(k) \in Seq(Fonts) /\ EachOnce(UsedLast(k))
           /\ \A j \in DOMAIN UsedLast(k) : \E i \in DOMAIN entries : UsedLast(k)[j] = entries[i]
<1> DEFINE p == Place(k)
           len == Len(entries)
<1>1. DOMAIN entries = 1..len /\ len \in Nat
  OBVIOUS
<1> HIDE DEF p, len
<1>2. p \in 1..len /\ entries[p].key = k /\ entries[p] \in Fonts
  BY UsedLastIs DEF p, len
<1>3. /\ UsedLast(k) \in Seq(Fonts) /\ Len(UsedLast(k)) = len
      /\ \A j \in 1..len : UsedLast(k)[j] = entries[IF j < p THEN j ELSE IF j = len THEN p ELSE j + 1]
  BY UsedLastIs DEF p, len
<1>4. \A j \in 1..len : (IF j < p THEN j ELSE IF j = len THEN p ELSE j + 1) \in 1..len
  BY <1>1, <1>2
<1>5. DOMAIN UsedLast(k) = 1..len
  BY <1>1, <1>3
<1>6. EachOnce(UsedLast(k))
  <2> DEFINE was(j) == IF j < p THEN j ELSE IF j = len THEN p ELSE j + 1
  <2>1. \A j \in 1..len : was(j) \in 1..len /\ UsedLast(k)[j] = entries[was(j)]
    BY <1>3, <1>4
  <2>2. \A i, j \in 1..len : was(i) = was(j) => i = j
    BY <1>1, <1>2
  <2> HIDE DEF was
  <2> QED
    BY SMTT(60), <1>1, <1>5, <2>1, <2>2 DEF EachOnce
<1> QED
  BY <1>1, <1>2, <1>3, <1>4, <1>5, <1>6 DEF Entry, p

(* Entries that are given up are the first ones; the others stay.          *)
LEMMA WithoutKeeps ==
    ASSUME entries \in Seq(Fonts), EachOnce(entries), NEW n \in 0..Len(entries)
    PROVE  /\ Without(n) \in Seq(Fonts) /\ EachOnce(Without(n))
           /\ \A j \in DOMAIN Without(n) : \E i \in DOMAIN entries : Without(n)[j] = entries[i]
<1>1. /\ Len(entries) \in Nat /\ DOMAIN entries = 1..Len(entries) /\ n \in Nat
      /\ n <= Len(entries)
  OBVIOUS
<1>2. /\ Without(n) \in Seq(Fonts) /\ Len(Without(n)) = Len(entries) - n
      /\ \A j \in 1..(Len(entries) - n) : Without(n)[j] = entries[n + j]
  <2>1. \A i \in (n + 1)..Len(entries) : entries[i] \in Fonts
    BY <1>1, ElementOfSeq
  <2>2. /\ n + 1 \in 1..(Len(entries) + 1) /\ Len(entries) \in ((n + 1) - 1)..Len(entries)
        /\ Len(entries) - (n + 1) + 1 = Len(entries) - n /\ Len(entries) - n \in Nat
    BY <1>1
  <2>3. Without(n) = [j \in 1..(Len(entries) - n) |-> entries[n + j]]
    BY <1>1, <2>2 DEF Without
  <2>4. \A j \in 1..(Len(entries) - n) : n + j \in (n + 1)..Len(entries)
    BY <1>1
  <2> QED
    BY <2>1, <2>2, <2>3, <2>4
<1>3. DOMAIN Without(n) = 1..(Len(entries) - n)
  BY <1>2
<1>4. \A j \in DOMAIN Without(n) : n + j \in DOMAIN entries /\ Without(n)[j] = entries[n + j]
  BY <1>1, <1>2, <1>3
<1>5. ASSUME NEW i \in DOMAIN Without(n), NEW j \in DOMAIN Without(n),
             Without(n)[i].key = Without(n)[j].key
      PROVE  i = j
  <2>1. n + i = n + j
    BY <1>4, <1>5 DEF EachOnce
  <2> QED
    BY <1>1, <1>3, <2>1
<1> QED
  BY <1>2, <1>4, <1>5 DEF EachOnce

(* A new entry at the end of entries without its key.                      *)
LEMMA AppendKeeps ==
    ASSUME NEW es \in Seq(Fonts), EachOnce(es), NEW e \in Fonts,
           \A i \in DOMAIN es : es[i].key # e.key
    PROVE  /\ Append(es, e) \in Seq(Fonts) /\ EachOnce(Append(es, e))
           /\ \A j \in DOMAIN Append(es, e) :
                  Append(es, e)[j] = e \/ \E i \in DOMAIN es : Append(es, e)[j] = es[i]
<1>1. /\ Append(es, e) \in Seq(Fonts) /\ DOMAIN Append(es, e) = 1..(Len(es) + 1)
      /\ \A j \in 1..Len(es) : Append(es, e)[j] = es[j]
      /\ Append(es, e)[Len(es) + 1] = e
  BY AppendProperties
<1>2. DOMAIN es = 1..Len(es) /\ Len(es) \in Nat
  OBVIOUS
<1> QED
  BY <1>1, <1>2 DEF EachOnce

(* The pairs of FontsSharedRightly, by name.                               *)
LEMMA SharedIs ==
    FontsSharedRightly <=>
        /\ EachOnce(entries)
        /\ \A a, b \in building : a.key = b.key => a = b
        /\ \A b \in building : ~Resident(b.key)
        /\ AnswersMatch
        /\ NoLostSleeper
BY DEF FontsSharedRightly, OneOfEachKey, EachOnce

(* A thread that only changes its own place, and neither falls asleep nor  *)
(* leaves sleepers behind, disturbs nothing.                               *)
LEMMA OnlyItsPlace ==
    ASSUME CacheInv, NEW t \in Threads, at[t] \in {"idle", "looks"},
           NEW p \in {"idle", "looks", "sleeps"}, at' = [at EXCEPT ![t] = p],
           p # "idle" => call[t] \in Asked,
           p = "sleeps" => InFlight(call[t].key),
           UNCHANGED <<entries, building, call, got>>
    PROVE  CacheInv'
<1>1. CacheShape'
  BY DEF CacheInv, CacheShape
<1>2. AnswersMatch'
  BY DEF CacheInv, FontsSharedRightly, AnswersMatch
<1>3. NoLostSleeper'
  <2> SUFFICES ASSUME NEW u \in Threads, at'[u] = "sleeps"
               PROVE  InFlight(call[u].key) \/ \E v \in Threads : at'[v] = "notifies"
    BY DEF NoLostSleeper, InFlight
  <2>1. CASE u = t
    BY <2>1 DEF CacheInv, CacheShape
  <2>2. CASE u # t
    <3>1. at[u] = "sleeps" /\ \A v \in Threads : at[v] = "notifies" => at'[v] = "notifies"
      BY <2>2 DEF CacheInv, CacheShape
    <3> QED
      BY <3>1 DEF CacheInv, FontsSharedRightly, NoLostSleeper
  <2> QED
    BY <2>1, <2>2
<1> QED
  BY <1>1, <1>2, <1>3, SharedIs DEF CacheInv, FontsSharedRightly, OneOfEachKey, Resident

LEMMA HitKeeps == ASSUME CacheInv, NEW t \in Threads, Hit(t) PROVE CacheInv'
<1> DEFINE k == call[t].key
<1>1. /\ at[t] = "looks" /\ Resident(k) /\ at' = [at EXCEPT ![t] = "idle"]
      /\ UNCHANGED <<building, call>>
  BY DEF Hit
<1>2. CASE Collides(t)
  BY <1>1, <1>2, OnlyItsPlace DEF Hit
<1>3. CASE ~Collides(t)
  <2>1. entries' = UsedLast(k) /\ got' = [got EXCEPT ![t] = Entry(k).content]
    BY <1>3 DEF Hit
  <2>2. /\ entries' \in Seq(Fonts) /\ EachOnce(entries)'
        /\ \A j \in DOMAIN entries' : \E i \in DOMAIN entries : entries'[j] = entries[i]
    BY <1>1, <2>1, UsedLastKeeps, SharedIs DEF CacheInv, CacheShape, EachOnce
  <2>3. CacheShape'
    BY <1>1, <2>1, <2>2 DEF CacheInv, CacheShape
  <2>4. \A b \in building' : ~Resident(b.key)'
    BY <1>1, <2>2, SharedIs DEF CacheInv, Resident
  <2>5. AnswersMatch'
    BY <1>1, <1>3, <2>1 DEF CacheInv, CacheShape, FontsSharedRightly, AnswersMatch, Collides
  <2>6. NoLostSleeper'
    BY <1>1 DEF CacheInv, CacheShape, FontsSharedRightly, NoLostSleeper, InFlight
  <2>7. \A a, b \in building' : a.key = b.key => a = b
    BY <1>1, SharedIs DEF CacheInv
  <2> QED
    BY <2>2, <2>3, <2>4, <2>5, <2>6, <2>7
       DEF CacheInv, FontsSharedRightly, OneOfEachKey, EachOnce
<1> QED
  BY <1>2, <1>3

LEMMA StartBuildKeeps ==
    ASSUME CacheInv, NEW t \in Threads, NEW recorded \in BOOLEAN, StartBuild(t, recorded)
    PROVE  CacheInv'
<1> DEFINE k == call[t].key
           b == [key |-> k, thread |-> t]
<1>1. /\ at[t] = "looks" /\ ~Resident(k) /\ ~InFlight(k) /\ k \in Keys
      /\ UNCHANGED <<entries, call, got>>
  BY DEF StartBuild, MustWait, CacheInv, CacheShape, Asked
<1>2. CASE ~recorded
  BY <1>1, <1>2, OnlyItsPlace DEF StartBuild
<1>3. CASE recorded
  <2>1. at' = [at EXCEPT ![t] = "builds"] /\ building' = building \cup {b}
    BY <1>3 DEF StartBuild
  <2>2. b \in [key : Keys, thread : Threads] /\ b.key = k /\ b.thread = t
    BY <1>1
  <2>3. \A c \in building : c.thread # t /\ c.thread \in Threads
    BY <1>1 DEF CacheInv, CacheShape
  <2> HIDE DEF b
  <2>4. CacheShape'
    <3>1. /\ building' \subseteq [key : Keys, thread : Threads]
          /\ at' \in [Threads -> {"idle", "looks", "sleeps", "builds", "notifies"}]
          /\ \A u \in Threads : at'[u] # "idle" => call'[u] \in Asked
      BY <1>1, <2>1, <2>2 DEF CacheInv, CacheShape
    <3>2. ASSUME NEW u \in Threads
          PROVE  at'[u] = "builds" <=> [key |-> call'[u].key, thread |-> u] \in building'
      <4>1. CASE u = t
        BY <1>1, <2>1, <4>1 DEF b, CacheInv, CacheShape
      <4>2. CASE u # t
        <5>1. [key |-> call[u].key, thread |-> u] # b
          BY <4>2, <2>2
        <5> QED
          BY <1>1, <2>1, <4>2, <5>1 DEF CacheInv, CacheShape
      <4> QED
        BY <4>1, <4>2
    <3>3. \A c \in building' : at'[c.thread] = "builds" /\ c.key = call'[c.thread].key
      BY <1>1, <2>1, <2>2, <2>3 DEF CacheInv, CacheShape
    <3> QED
      BY <1>1, <3>1, <3>2, <3>3 DEF CacheInv, CacheShape
  <2>5. \A a, c \in building' : a.key = c.key => a = c
    BY <1>1, <2>1, <2>2, SharedIs DEF CacheInv, InFlight
  <2>6. \A c \in building' : ~Resident(c.key)'
    BY <1>1, <2>1, <2>2, SharedIs DEF CacheInv, Resident
  <2>7. AnswersMatch'
    BY <1>1 DEF CacheInv, FontsSharedRightly, AnswersMatch
  <2>8. NoLostSleeper'
    BY <1>1, <2>1 DEF CacheInv, CacheShape, FontsSharedRightly, NoLostSleeper, InFlight
  <2> QED
    BY <1>1, <2>4, <2>5, <2>6, <2>7, <2>8, SharedIs
       DEF CacheInv, FontsSharedRightly, OneOfEachKey
<1> QED
  BY <1>2, <1>3

LEMMA EndBuildKeeps ==
    ASSUME CacheInv, NEW t \in Threads, NEW ok \in BOOLEAN, NEW grows \in BOOLEAN,
           EndBuild(t, ok, grows)
    PROVE  CacheInv'
<1> DEFINE k == call[t].key
           c == call[t].content
           e == [key |-> k, content |-> c]
<1>1. /\ at[t] = "builds" /\ at' = [at EXCEPT ![t] = "notifies"] /\ UNCHANGED call
      /\ building' = {b \in building : b.thread # t}
      /\ e \in Fonts /\ e.key = k /\ call[t] \in Asked
  BY DEF EndBuild, Done, CacheInv, CacheShape, Asked, Fonts
<1>2. [key |-> k, thread |-> t] \in building /\ ~Resident(k)
  <2>1. [key |-> k, thread |-> t] \in building
    BY <1>1 DEF CacheInv, CacheShape
  <2> QED
    BY <2>1, SharedIs DEF CacheInv
<1>3. /\ entries' \in Seq(Fonts) /\ EachOnce(entries)'
      /\ \A j \in DOMAIN entries' :
            entries'[j].key = k \/ \E i \in DOMAIN entries : entries'[j] = entries[i]
      /\ got' = got \/ got' = [got EXCEPT ![t] = c]
  <2>0. entries \in Seq(Fonts) /\ EachOnce(entries)
    BY SharedIs DEF CacheInv, CacheShape
  <2>1. CASE ~ok
    BY <2>0, <2>1 DEF EndBuild, EachOnce
  <2>2. CASE ok
    <3>1. PICK n \in 0..Len(entries) :
             /\ entries' = IF grows THEN Append(Without(n), e) ELSE Without(n)
             /\ got' = IF grows THEN [got EXCEPT ![t] = c] ELSE got
      BY <2>2 DEF EndBuild
    <3>2. /\ Without(n) \in Seq(Fonts) /\ EachOnce(Without(n))
          /\ \A j \in DOMAIN Without(n) : \E i \in DOMAIN entries : Without(n)[j] = entries[i]
      BY <2>0, WithoutKeeps
    <3>3. \A j \in DOMAIN Without(n) : Without(n)[j].key # k
      BY <1>2, <3>2 DEF Resident
    <3> HIDE DEF e
    <3>4. CASE grows
      <4>1. entries' = Append(Without(n), e)
        BY <3>1, <3>4
      <4>2. /\ Append(Without(n), e) \in Seq(Fonts) /\ EachOnce(Append(Without(n), e))
            /\ \A j \in DOMAIN Append(Without(n), e) : \/ Append(Without(n), e)[j] = e
                  \/ \E i \in DOMAIN Without(n) : Append(Without(n), e)[j] = Without(n)[i]
        BY <1>1, <3>2, <3>3, AppendKeeps
      <4>3. EachOnce(entries)'
        BY <4>1, <4>2 DEF EachOnce
      <4> QED
        BY <1>1, <3>1, <3>2, <4>1, <4>2, <4>3
    <3>5. CASE ~grows
      BY <3>1, <3>2, <3>5 DEF EachOnce
    <3> QED
      BY <3>4, <3>5
  <2> QED
    BY <2>1, <2>2
<1> HIDE DEF e
<1>4. CacheShape'
  <2>1. /\ building' \subseteq [key : Keys, thread : Threads]
        /\ at' \in [Threads -> {"idle", "looks", "sleeps", "builds", "notifies"}]
        /\ DOMAIN call' = Threads /\ DOMAIN got' = Threads
        /\ \A u \in Threads : at'[u] # "idle" => call'[u] \in Asked
    BY <1>1, <1>3 DEF CacheInv, CacheShape
  <2>2. \A u \in Threads : at'[u] = "builds" <=> [key |-> call'[u].key, thread |-> u] \in building'
    BY <1>1 DEF CacheInv, CacheShape
  <2>3. \A b \in building' : at'[b.thread] = "builds" /\ b.key = call'[b.thread].key
    BY <1>1 DEF CacheInv, CacheShape
  <2> QED
    BY <1>3, <2>1, <2>2, <2>3 DEF CacheShape
<1>5. \A b \in building' : ~Resident(b.key)'
  <2> SUFFICES ASSUME NEW b \in building', NEW j \in DOMAIN entries', entries'[j].key = b.key
               PROVE  FALSE
    BY DEF Resident
  <2>1. b \in building /\ b.thread # t
    BY <1>1
  <2>2. b.key # k
    <3>1. [key |-> k, thread |-> t].thread = t /\ [key |-> k, thread |-> t].key = k
      OBVIOUS
    <3> QED
      BY <1>2, <2>1, <3>1, SharedIs DEF CacheInv
  <2>3. ~Resident(b.key)
    BY <2>1, SharedIs DEF CacheInv
  <2> QED
    BY <1>3, <2>2, <2>3 DEF Resident
<1>6. AnswersMatch'
  BY <1>1, <1>3 DEF CacheInv, CacheShape, FontsSharedRightly, AnswersMatch
<1>7. NoLostSleeper'
  BY <1>1 DEF CacheInv, CacheShape, NoLostSleeper
<1>8. \A a, b \in building' : a.key = b.key => a = b
  BY <1>1, SharedIs DEF CacheInv
<1> QED
  BY <1>3, <1>4, <1>5, <1>6, <1>7, <1>8 DEF CacheInv, FontsSharedRightly, OneOfEachKey, EachOnce

LEMMA NotifyKeeps == ASSUME CacheInv, NEW t \in Threads, Notify(t) PROVE CacheInv'
<1>1. /\ at[t] = "notifies" /\ UNCHANGED <<entries, building, call, got>>
      /\ at' = [u \in Threads |-> IF u = t THEN "idle" ELSE IF at[u] = "sleeps" THEN "looks" ELSE at[u]]
  <2> DEFINE asleep == {u \in Threads : at[u] = "sleeps"}
  <2>1. (IF asleep = {} THEN {} ELSE Woken(asleep)) = asleep
    BY DEF Woken
  <2>2. at' = [u \in Threads |-> IF u = t THEN "idle" ELSE IF u \in asleep THEN "looks" ELSE at[u]]
    BY <2>1 DEF Notify
  <2> QED
    BY <2>2 DEF Notify
<1>2. CacheShape'
  BY <1>1 DEF CacheInv, CacheShape
<1>3. NoLostSleeper'
  BY <1>1 DEF CacheInv, CacheShape, NoLostSleeper
<1>4. AnswersMatch'
  BY <1>1 DEF CacheInv, FontsSharedRightly, AnswersMatch
<1> QED
  BY <1>1, <1>2, <1>3, <1>4 DEF CacheInv, FontsSharedRightly, OneOfEachKey, Resident

LEMMA CacheInvHolds == ASSUME CacheAssumption PROVE CacheSpec => []CacheInv
<1>1. CacheInit => CacheInv
  BY DEF CacheInit, CacheInv, CacheShape, FontsSharedRightly, OneOfEachKey, AnswersMatch,
         NoLostSleeper, Resident, NoCall
<1>2. CacheInv /\ [CacheNext]_cacheVars => CacheInv'
  <2> SUFFICES ASSUME CacheInv, [CacheNext]_cacheVars PROVE CacheInv'
    OBVIOUS
  <2>1. ASSUME NEW t \in Threads, NEW k \in Keys, NEW c \in Contents, NEW build \in BOOLEAN,
               Call(t, k, c, build)
        PROVE  CacheInv'
    <3>1. /\ at[t] = "idle" /\ at' = [at EXCEPT ![t] = "looks"]
          /\ call' = [call EXCEPT ![t] = [key |-> k, content |-> c, build |-> build]]
          /\ got' = [got EXCEPT ![t] = None] /\ UNCHANGED <<entries, building>>
      BY <2>1 DEF Call
    <3>2. [key |-> k, content |-> c, build |-> build] \in Asked
      BY DEF Asked
    <3>3. \A b \in building : b.thread # t
      BY <3>1 DEF CacheInv, CacheShape
    <3>4. CacheShape'
      <4>1. \A u \in Threads :
               at'[u] = "builds" <=> [key |-> call'[u].key, thread |-> u] \in building'
        BY <3>1, <3>3 DEF CacheInv, CacheShape
      <4> QED
        BY <3>1, <3>2, <3>3, <4>1 DEF CacheInv, CacheShape
    <3>5. AnswersMatch'
      BY <3>1 DEF CacheInv, CacheShape, FontsSharedRightly, AnswersMatch
    <3>6. NoLostSleeper'
      BY <3>1 DEF CacheInv, CacheShape, FontsSharedRightly, NoLostSleeper, InFlight
    <3> QED
      BY <3>1, <3>4, <3>5, <3>6 DEF CacheInv, FontsSharedRightly, OneOfEachKey, Resident
  <2>2. ASSUME NEW t \in Threads, Goes(t) PROVE CacheInv'
    <3>1. ASSUME Miss(t) PROVE CacheInv'
      BY <3>1, OnlyItsPlace DEF Miss
    <3>2. ASSUME Sleep(t) PROVE CacheInv'
      <4>1. call[t] \in Asked
        BY <3>2 DEF Sleep, CacheInv, CacheShape
      <4> QED
        BY <3>2, <4>1, OnlyItsPlace DEF Sleep, MustWait
    <3> QED
      BY <2>2, <3>1, <3>2, HitKeeps, StartBuildKeeps, EndBuildKeeps, NotifyKeeps DEF Goes
  <2>3. CASE Clear
    BY <2>3 DEF Clear, CacheInv, CacheShape, FontsSharedRightly, OneOfEachKey, AnswersMatch,
                NoLostSleeper, Resident, InFlight
  <2>4. CASE UNCHANGED cacheVars
    BY <2>4 DEF cacheVars, CacheInv, CacheShape, FontsSharedRightly, OneOfEachKey, AnswersMatch,
                NoLostSleeper, Resident, InFlight
  <2> QED
    BY <2>1, <2>2, <2>3, <2>4 DEF CacheNext
<1> QED
  BY <1>1, <1>2, PTL DEF CacheSpec

(* A font is kept and built once at a time, an answer is what was asked    *)
(* for, and nobody sleeps on for a build that is over and notified.        *)
THEOREM FontsAreShared == ASSUME CacheAssumption PROVE CacheSpec => []FontsSharedRightly
BY CacheInvHolds, PTL DEF CacheInv

(* The bytes of a list of entries, entry by entry.                         *)
Weights(es) == [i \in DOMAIN es |-> Size[es[i].content]]

LEMMA WeightsAre ==
    ASSUME CacheAssumption, NEW es \in Seq(Fonts)
    PROVE  /\ IsFiniteSet(DOMAIN es) /\ Counts(Weights(es), DOMAIN es)
           /\ \A i \in DOMAIN es : es[i] \in Fonts /\ Weights(es)[i] = Size[es[i].content]
<1>1. DOMAIN es = 1..Len(es) /\ Len(es) \in Nat /\ \A i \in 1..Len(es) : es[i] \in Fonts
  BY ElementOfSeq
<1>2. IsFiniteSet(1..Len(es))
  BY <1>1, FS_Interval
<1>3. \A i \in DOMAIN es : es[i] \in Fonts /\ Weights(es)[i] = Size[es[i].content]
  BY <1>1 DEF Weights
<1>4. \A f \in Fonts : Size[f.content] \in Nat
  BY DEF Fonts, CacheAssumption
<1> QED
  BY <1>1, <1>2, <1>3, <1>4 DEF Counts

LEMMA BytesIs ==
    ASSUME CacheAssumption, NEW es \in Seq(Fonts)
    PROVE  Bytes(es) = SumOf(Weights(es), DOMAIN es) /\ Bytes(es) \in Nat
<1> DEFINE D == DOMAIN es
           w == Weights(es)
           it == CHOOSE it : it = [S \in SUBSET D |->
                    IF S = {} THEN 0 ELSE it[S \ {Pick(S)}] + Size[es[Pick(S)].content]]
           g == Summed(w, D)
<1>1. Bytes(es) = it[D]
  BY Zenon DEF Bytes, FoldSeq, FoldFunction, FoldFunctionOnSet, MapThenFoldSet, Pick
<1>2. IsFiniteSet(D) /\ Counts(w, D) /\ \A i \in D : w[i] = Size[es[i].content] /\ w[i] \in Nat
  BY WeightsAre DEF Counts
<1>3. Sums(g, w, D)
  BY <1>2, SummedIs
<1>4. \A S \in SUBSET D : S # {} => Pick(S) \in D /\ S \ {Pick(S)} \in SUBSET D
  BY PickIs
<1> HIDE DEF g, w, D
<1>5. g = [S \in SUBSET D |->
             IF S = {} THEN 0 ELSE g[S \ {Pick(S)}] + Size[es[Pick(S)].content]]
  <2>1. \A S \in SUBSET D : S # {} =>
            w[Pick(S)] + g[S \ {Pick(S)}] = g[S \ {Pick(S)}] + Size[es[Pick(S)].content]
    <3> SUFFICES ASSUME NEW S \in SUBSET D, S # {}
                 PROVE  w[Pick(S)] + g[S \ {Pick(S)}] = g[S \ {Pick(S)}] + Size[es[Pick(S)].content]
      OBVIOUS
    <3>1. Pick(S) \in D /\ S \ {Pick(S)} \in SUBSET D
      BY <1>4
    <3>2. w[Pick(S)] \in Nat /\ w[Pick(S)] = Size[es[Pick(S)].content] /\ g[S \ {Pick(S)}] \in Nat
      BY <1>2, <1>3, <3>1 DEF Sums
    <3> QED
      BY <3>2
  <2> QED
    BY <1>3, <2>1 DEF Sums
<1>6. it = [S \in SUBSET D |->
              IF S = {} THEN 0 ELSE it[S \ {Pick(S)}] + Size[es[Pick(S)].content]]
  BY <1>5, Zenon
<1> HIDE DEF it
<1>7. it[D] = SumOf(w, D)
  <2>1. it[{}] = 0
    BY <1>6
  <2>2. ASSUME NEW S \in SUBSET D, S # {}, it[S \ {Pick(S)}] \in Nat
        PROVE  it[S] = w[Pick(S)] + it[S \ {Pick(S)}]
    <3>1. Pick(S) \in D
      BY <1>4, <2>2
    <3>2. w[Pick(S)] \in Nat /\ w[Pick(S)] = Size[es[Pick(S)].content]
      BY <1>2, <3>1
    <3>3. it[S] = it[S \ {Pick(S)}] + Size[es[Pick(S)].content]
      BY <1>6, <2>2
    <3> QED
      BY <2>2, <3>2, <3>3
  <2>3. Adds(it, w, D)
    BY <2>1, <2>2 DEF Adds
  <2> QED
    BY <1>2, <2>3, SumIs
<1>8. SumOf(w, D) \in Nat
  BY <1>2, SumType
<1> QED
  BY <1>1, <1>7, <1>8 DEF w, D

LEMMA BytesAppended ==
    ASSUME CacheAssumption, NEW es \in Seq(Fonts), NEW e \in Fonts
    PROVE  Bytes(Append(es, e)) = Bytes(es) + Size[e.content]
<1> DEFINE fs == Append(es, e)
           n == Len(es) + 1
<1>1. /\ fs \in Seq(Fonts) /\ DOMAIN fs = 1..n /\ n \in Nat /\ DOMAIN es = 1..(n - 1)
      /\ \A j \in 1..(n - 1) : fs[j] = es[j]
      /\ fs[n] = e
  BY AppendProperties
<1> HIDE DEF fs, n
<1>2. (1..n) \ {n} = 1..(n - 1) /\ n \in 1..n
  <2>1. n \in Nat \ {0}
    BY <1>1 DEF n
  <2> QED
    BY <2>1
<1>3. IsFiniteSet(1..n) /\ Counts(Weights(fs), 1..n) /\ Weights(fs)[n] = Size[e.content]
  BY <1>1, <1>2, WeightsAre
<1>4. SumOf(Weights(fs), 1..n) = Weights(fs)[n] + SumOf(Weights(fs), 1..(n - 1))
  BY <1>2, <1>3, SumRemove
<1>5. SumOf(Weights(fs), 1..(n - 1)) = SumOf(Weights(es), 1..(n - 1))
  <2>1. IsFiniteSet(1..(n - 1)) /\ Counts(Weights(es), 1..(n - 1))
    BY <1>1, WeightsAre
  <2>2. AgreeOn(Weights(es), Weights(fs), 1..(n - 1))
    <3>1. \A j \in 1..(n - 1) : Weights(es)[j] = Size[es[j].content]
      BY <1>1, WeightsAre
    <3>2. \A j \in 1..n : Weights(fs)[j] = Size[fs[j].content]
      BY <1>1, WeightsAre
    <3>3. \A j \in 1..(n - 1) : j \in 1..n
      BY <1>1
    <3> QED
      BY <1>1, <3>1, <3>2, <3>3 DEF AgreeOn
  <2> QED
    BY <2>1, <2>2, SumSame
<1>6. Bytes(fs) = SumOf(Weights(fs), 1..n) /\ Bytes(es) = SumOf(Weights(es), 1..(n - 1)) /\ Bytes(es) \in Nat
  BY <1>1, BytesIs
<1>7. Size[e.content] \in Nat
  BY DEF Fonts, CacheAssumption
<1> QED
  BY <1>3, <1>4, <1>5, <1>6, <1>7 DEF fs

LEMMA BytesOfNone == ASSUME CacheAssumption PROVE Bytes(<<>>) = 0
<1>1. <<>> \in Seq(Fonts) /\ DOMAIN <<>> = {}
  OBVIOUS
<1> QED
  BY <1>1, BytesIs, SumEmpty

(* An entry that moves to the end weighs there what it weighed before.     *)
LEMMA BytesOfUsedLast ==
    ASSUME CacheAssumption, entries \in Seq(Fonts), NEW k, Resident(k)
    PROVE  Bytes(UsedLast(k)) = Bytes(entries) /\ Len(UsedLast(k)) = Len(entries)
<1> DEFINE p == Place(k)
           len == Len(entries)
           was(j) == IF j < p THEN j ELSE IF j = len THEN p ELSE j + 1
           q == [j \in 1..len |-> was(j)]
           now == UsedLast(k)
<1>1. len \in Nat /\ DOMAIN entries = 1..len /\ IsFiniteSet(1..len)
  BY FS_Interval
<1>2. p \in 1..len /\ now \in Seq(Fonts) /\ Len(now) = len
      /\ \A j \in 1..len : now[j] = entries[was(j)]
  BY UsedLastIs
<1> HIDE DEF p, len, now
<1>3. \A j \in 1..len : was(j) \in 1..len
  BY <1>1, <1>2
<1>4. \A i, j \in 1..len : was(i) = was(j) => i = j
  BY <1>1, <1>2
<1>5. ASSUME NEW z \in 1..len PROVE \E j \in 1..len : was(j) = z
  <2> DEFINE j == IF z < p THEN z ELSE IF z = p THEN len ELSE z - 1
  <2>1. j \in 1..len /\ was(j) = z
    BY <1>1, <1>2
  <2> HIDE DEF j
  <2> QED
    BY <2>1
<1> HIDE DEF was
<1>6. q \in [1..len -> 1..len] /\ \A j \in 1..len : q[j] = was(j)
  BY <1>3
<1> HIDE DEF q
<1>7. DOMAIN now = 1..len
  BY <1>1, <1>2
<1>8. Counts(Weights(entries), 1..len) /\ \A j \in 1..len : Weights(entries)[j] = Size[entries[j].content]
  BY <1>1, WeightsAre
<1>9. \A j \in 1..len : Weights(now)[j] = Size[now[j].content]
  BY <1>2, <1>7, WeightsAre
<1>10. ASSUME NEW j \in 1..len PROVE Weights(now)[j] = Weights(entries)[q[j]]
  <2>1. q[j] = was(j) /\ was(j) \in 1..len /\ now[j] = entries[was(j)]
    BY <1>2, <1>3, <1>6
  <2>2. Weights(now)[j] = Size[now[j].content]
    BY <1>9
  <2>3. Weights(entries)[was(j)] = Size[entries[was(j)].content]
    BY <1>8, <2>1
  <2> QED
    BY <2>1, <2>2, <2>3
<1>11. SumOf(Weights(now), 1..len) = SumOf(Weights(entries), 1..len)
  <2> DEFINE S == 1..len
             v == Weights(entries)
             w == Weights(now)
  <2>1. /\ IsFiniteSet(S) /\ q \in [S -> S] /\ Counts(v, S) /\ \A x \in S : w[x] = v[q[x]]
        /\ \A x, y \in S : q[x] = q[y] => x = y
        /\ \A z \in S : \E x \in S : q[x] = z
    BY <1>1, <1>4, <1>5, <1>6, <1>8, <1>10
  <2> HIDE DEF S, v, w
  <2>2. SumOf(w, S) = SumOf(v, S)
    BY <2>1, SumRenamed
  <2> QED
    BY <2>2 DEF S, v, w
<1> QED
  BY <1>1, <1>2, <1>7, <1>11, BytesIs DEF len, now

(* What is retained is what the entries weigh, and within the limits.      *)
Retention == RetentionExact /\ retained \in 0..Limit

LEMMA RetentionKept ==
    ASSUME CacheAssumption, CacheInv, Retention, [CacheNext]_cacheVars
    PROVE  Retention'
<1>1. entries \in Seq(Fonts) /\ Limit \in Nat /\ MaxEntries \in Nat
  BY DEF CacheInv, CacheShape, CacheAssumption
<1>2. ASSUME NEW t \in Threads, Hit(t) PROVE Retention'
  <2>1. retained' = retained /\ (entries' = entries \/ entries' = UsedLast(call[t].key))
        /\ Resident(call[t].key)
    BY <1>2 DEF Hit
  <2> QED
    BY <1>1, <2>1, BytesOfUsedLast DEF Retention, RetentionExact
<1>3. ASSUME NEW t \in Threads, NEW ok \in BOOLEAN, NEW grows \in BOOLEAN, EndBuild(t, ok, grows)
      PROVE  Retention'
  <2> DEFINE c == call[t].content
             e == [key |-> call[t].key, content |-> c]
  <2>1. e \in Fonts /\ e.content = c /\ c \in Contents
    BY <1>3 DEF EndBuild, CacheInv, CacheShape, Asked, Fonts
  <2>2. CASE ~ok
    BY <1>3, <2>2 DEF EndBuild, Retention, RetentionExact
  <2>3. CASE ok
    <3>1. PICK n \in 0..Len(entries) :
             /\ Evicts(n, Size[c])
             /\ entries' = IF grows THEN Append(Without(n), e) ELSE Without(n)
             /\ retained' = Charged(retained, Without(n), Size[c], grows)
      BY <1>3, <2>3 DEF EndBuild
    <3> DEFINE kept == Without(n)
    <3>2. kept \in Seq(Fonts)
      BY <1>1, WithoutKeeps, SharedIs DEF CacheInv
    <3>3. Len(kept) < MaxEntries /\ Bytes(kept) + Size[c] <= Limit
      BY <3>1 DEF Evicts, Fits
    <3>4. Size[c] \in Nat /\ Bytes(kept) \in Nat /\ Bytes(entries) \in Nat /\ Len(kept) \in Nat
      BY <1>1, <2>1, <3>2, BytesIs DEF CacheAssumption
    <3> HIDE DEF e, c, kept
    <3>5. retained' = Bytes(kept) + (IF grows THEN Size[c] ELSE 0)
      BY <3>1, <3>4 DEF Charged, Retention, RetentionExact, kept
    <3>6. Bytes(Append(kept, e)) = Bytes(kept) + Size[c] /\ Len(Append(kept, e)) = Len(kept) + 1
      BY <2>1, <3>2, BytesAppended, AppendProperties
    <3>7. CASE grows
      <4>1. entries' = Append(kept, e)
        BY <3>1, <3>7 DEF kept
      <4> QED
        BY <1>1, <3>3, <3>4, <3>5, <3>6, <3>7, <4>1 DEF Retention, RetentionExact
    <3>8. CASE ~grows
      <4>1. entries' = kept
        BY <3>1, <3>8 DEF kept
      <4> QED
        BY <1>1, <3>3, <3>4, <3>5, <3>8, <4>1 DEF Retention, RetentionExact
    <3> QED
      BY <3>7, <3>8
  <2> QED
    BY <2>2, <2>3
<1>4. CASE Clear
  <2>1. entries' = <<>> /\ retained' = 0
    <3>1. Bytes(entries) \in Nat
      BY <1>1, BytesIs
    <3> QED
      BY <1>4, <3>1 DEF Clear, Retention, RetentionExact
  <2> QED
    BY <1>1, <2>1, BytesOfNone DEF Retention, RetentionExact
<1>5. ASSUME UNCHANGED <<entries, retained>> PROVE Retention'
  BY <1>5 DEF Retention, RetentionExact
<1>6. ASSUME NEW t \in Threads, Goes(t) PROVE Retention'
  <2>1. CASE Miss(t) \/ Sleep(t) \/ Notify(t) \/ \E b \in BOOLEAN : StartBuild(t, b)
    BY <1>5, <2>1 DEF Miss, Sleep, Notify, StartBuild
  <2> QED
    BY <1>2, <1>3, <1>6, <2>1 DEF Goes
<1>7. ASSUME NEW t \in Threads, NEW k \in Keys, NEW c \in Contents, NEW build \in BOOLEAN,
             Call(t, k, c, build)
      PROVE  Retention'
  BY <1>5, <1>7 DEF Call
<1>8. CASE UNCHANGED cacheVars
  BY <1>5, <1>8 DEF cacheVars
<1> QED
  BY <1>4, <1>6, <1>7, <1>8 DEF CacheNext

LEMMA RetentionHolds == ASSUME CacheAssumption PROVE CacheSpec => []Retention
<1>1. CacheInit => Retention
  BY BytesOfNone DEF CacheInit, Retention, RetentionExact, CacheAssumption
<1>2. CacheInv /\ Retention /\ [CacheNext]_cacheVars => Retention'
  BY RetentionKept
<1> QED
  BY <1>1, <1>2, CacheInvHolds, PTL DEF CacheSpec

(* What the cache has charged is the bytes of its entries, exactly, and    *)
(* there are no more of them than it may have, whatever is built, evicted, *)
(* not recorded for want of memory, or cleared while a build is under way. *)
THEOREM RetentionIsExact == ASSUME CacheAssumption PROVE CacheSpec => []RetentionExact
<1>1. Retention => RetentionExact
  BY DEF Retention
<1> QED
  BY <1>1, RetentionHolds, PTL

(* The cache keeps its types, its bytes within the limit included, and its *)
(* list of builds names the threads that build, with their keys.           *)
THEOREM CacheTypeCorrect == ASSUME CacheAssumption PROVE CacheSpec => []CacheTypeOK
<1>1. CacheInv /\ Retention => CacheTypeOK
  BY DEF CacheInv, CacheShape, Retention, CacheTypeOK, Fonts
<1> QED
  BY <1>1, CacheInvHolds, RetentionHolds, PTL
------------------------------------------------------------------------------
(* The ledger and its shadow, for any classes, sizes and interval.         *)

(* A ledger whose total is the sum of its classes and whose peaks are none *)
(* below what they are the peaks of.                                       *)
Kept(l) == /\ l \in LedgerBooks
           /\ l.total = SumOf(l.current, Classes)
           /\ \A c \in Classes : l.current[c] <= l.peak[c]
           /\ l.total <= l.totalPeak

(* While no mismatch is recorded, the shadow has made every reservation    *)
(* the other has, and those that were injected; and no comparison was due  *)
(* since any of them.                                                      *)
ShadowIsAhead ==
    /\ \A c \in Classes : rust.reservations[c] >= cpp.reservations[c]
    /\ injected # {} => \E c \in Classes : rust.reservations[c] > cpp.reservations[c]
    /\ \A n \in injected : \A m \in (n + 1)..ops : ~CheckDue(m)

LedgerInv == /\ Kept(cpp) /\ Kept(rust) /\ mismatch \in BOOLEAN
             /\ ops \in 0..MaxOps /\ injected \subseteq 0..ops
             /\ BackendsAgree
             /\ ~mismatch => ShadowIsAhead

LEMMA BooksAre ==
    ASSUME NEW l \in LedgerBooks
    PROVE  /\ l.limit \in [Classes -> 0..Most] /\ l.current \in [Classes -> 0..Most]
           /\ l.peak \in [Classes -> 0..Most] /\ l.reservations \in [Classes -> Nat]
           /\ l.errors \in [Classes -> 0..1] /\ l.total \in 0..Most /\ l.totalPeak \in 0..Most
BY DEF LedgerBooks

LEMMA BooksEqual ==
    ASSUME NEW l \in LedgerBooks, NEW m \in LedgerBooks,
           l.limit = m.limit, l.current = m.current, l.peak = m.peak,
           l.reservations = m.reservations, l.errors = m.errors,
           l.total = m.total, l.totalPeak = m.totalPeak
    PROVE  l = m
BY DEF LedgerBooks

(* One class changes, and the total by as much.                            *)
LEMMA ClassMoves ==
    ASSUME LedgerAssumption, NEW f \in [Classes -> 0..Most], NEW c \in Classes, NEW n \in 0..Most
    PROVE  /\ SumOf(f, Classes) \in Nat /\ f[c] <= SumOf(f, Classes)
           /\ SumOf([f EXCEPT ![c] = n], Classes) = (SumOf(f, Classes) - f[c]) + n
<1> DEFINE g == [f EXCEPT ![c] = n]
<1>1. Counts(f, Classes) /\ Counts(g, Classes) /\ AgreeOn(f, g, Classes \ {c}) /\ g[c] = n
  BY DEF Counts, AgreeOn, LedgerAssumption
<1>2. IsFiniteSet(Classes)
  BY DEF LedgerAssumption
<1> HIDE DEF g
<1>3. SumOf(f, Classes) \in Nat /\ f[c] <= SumOf(f, Classes)
      /\ SumOf(g, Classes) = (SumOf(f, Classes) - f[c]) + g[c]
  BY <1>1, <1>2, SumChange
<1> QED
  BY <1>1, <1>3 DEF g

LEMMA ReservedKeeps ==
    ASSUME LedgerAssumption, NEW l, Kept(l), NEW c \in Classes, NEW n \in 0..Most
    PROVE  /\ Kept(Reserved(l, c, n)) /\ RustReserved(l, c, n) = Reserved(l, c, n)
           /\ IF Grants(l, c, n)
              THEN /\ Reserved(l, c, n).reservations = [l.reservations EXCEPT ![c] = @ + 1]
                   /\ Reserved(l, c, n).current = [l.current EXCEPT ![c] = @ + n]
                   /\ \A d \in Classes : Reserved(l, c, n).peak[d] >= l.peak[d]
                   /\ l.current[c] + n <= l.limit[c]
                   /\ Reserved(l, c, n) # l
              ELSE Reserved(l, c, n) = l
<1> DEFINE now == l.current[c] + n
           sum == l.total + n
           p == Larger(l.peak[c], now)
           u == Larger(l.totalPeak, sum)
           v == l.reservations[c] + 1
           r == [l EXCEPT !.current[c] = now, !.peak[c] = p, !.reservations[c] = v,
                          !.total = sum, !.totalPeak = u]
<1>1. /\ Most \in Nat /\ l \in LedgerBooks
      /\ l.current[c] \in 0..Most /\ l.limit[c] \in 0..Most /\ l.total \in 0..Most /\ l.totalPeak \in 0..Most
      /\ l.peak[c] \in 0..Most /\ l.reservations[c] \in Nat /\ v \in Nat
      /\ \A d \in Classes : l.current[d] \in 0..Most /\ l.peak[d] \in 0..Most /\ l.current[d] <= l.peak[d]
      /\ l.total = SumOf(l.current, Classes) /\ l.current \in [Classes -> 0..Most]
      /\ l.peak \in [Classes -> 0..Most] /\ l.reservations \in [Classes -> Nat]
  BY BooksAre DEF Kept, LedgerAssumption
<1>2. Grants(l, c, n) <=> ~(n > l.limit[c] \/ now > l.limit[c] \/ sum > Most)
  BY <1>1 DEF Grants
<1>3. CASE ~Grants(l, c, n)
  BY <1>2, <1>3 DEF Reserved, RustReserved
<1>4. CASE Grants(l, c, n)
  <2>1. now \in 0..Most /\ sum \in 0..Most /\ now <= l.limit[c]
    BY <1>1, <1>2, <1>4
  <2>2. p \in 0..Most /\ u \in 0..Most /\ p >= now /\ p >= l.peak[c] /\ u >= sum
    BY <1>1, <2>1 DEF Larger
  <2>3. Reserved(l, c, n) = r
    BY <1>1, <1>4, Zenon DEF Reserved
  <2>4. RustReserved(l, c, n) = [l EXCEPT !.current[c] = now, !.peak[c] = IF now > @ THEN now ELSE @,
                                          !.reservations[c] = @ + 1, !.total = sum,
                                          !.totalPeak = IF sum > @ THEN sum ELSE @]
    BY <1>2, <1>4 DEF RustReserved
  <2>5. p = (IF now > l.peak[c] THEN now ELSE l.peak[c])
        /\ u = (IF sum > l.totalPeak THEN sum ELSE l.totalPeak)
    BY <1>1, <2>1 DEF Larger
  <2>6. RustReserved(l, c, n) = r
    BY <2>4, <2>5, Zenon
  <2>7. /\ r \in LedgerBooks
        /\ r.current = [l.current EXCEPT ![c] = now] /\ r.peak = [l.peak EXCEPT ![c] = p]
        /\ r.reservations = [l.reservations EXCEPT ![c] = v] /\ r.total = sum /\ r.totalPeak = u
    <3> HIDE DEF now, sum, p, u, v, r
    <3>1. r = [l EXCEPT !.current[c] = now, !.peak[c] = p, !.reservations[c] = v,
                        !.total = sum, !.totalPeak = u]
      BY DEF r
    <3> QED
      BY <1>1, <2>1, <2>2, <3>1 DEF LedgerBooks
  <2> HIDE DEF p, u, r
  <2>8. SumOf(r.current, Classes) = r.total
    <3>1. SumOf([l.current EXCEPT ![c] = now], Classes) = (SumOf(l.current, Classes) - l.current[c]) + now
      BY <1>1, <2>1, ClassMoves
    <3> QED
      BY <1>1, <2>1, <2>7, <3>1
  <2>9. \A d \in Classes : r.current[d] <= r.peak[d] /\ r.peak[d] >= l.peak[d]
    BY <1>1, <2>1, <2>2, <2>7
  <2>10. Kept(r)
    BY <2>2, <2>7, <2>8, <2>9 DEF Kept
  <2>11. r # l
    BY <1>1, <2>7
  <2> QED
    BY <1>1, <1>4, <2>1, <2>3, <2>6, <2>7, <2>9, <2>10, <2>11
<1> QED
  BY <1>3, <1>4

LEMMA ReleasedKeeps ==
    ASSUME LedgerAssumption, NEW l, Kept(l), NEW c \in Classes, NEW n \in 0..Most
    PROVE  /\ Kept(Released(l, c, n)) /\ RustReleased(l, c, n) = Released(l, c, n)
           /\ Released(l, c, n).reservations = l.reservations
           /\ Released(l, c, n).peak = l.peak
           /\ \A d \in Classes : Released(l, c, n).current[d] <= l.current[d]
<1> DEFINE over == n > l.current[c]
           a == IF over THEN 0 ELSE l.current[c] - n
           e == IF over THEN 1 ELSE l.errors[c]
           t == IF over THEN l.total - l.current[c] ELSE l.total - n
           r == [l EXCEPT !.errors[c] = e, !.current[c] = a, !.total = t]
<1>1. /\ Most \in Nat /\ l \in LedgerBooks
      /\ l.current[c] \in 0..Most /\ l.total \in 0..Most /\ l.totalPeak \in 0..Most
      /\ l.errors[c] \in 0..1 /\ l.errors \in [Classes -> 0..1]
      /\ \A d \in Classes : l.current[d] \in 0..Most /\ l.peak[d] \in 0..Most /\ l.current[d] <= l.peak[d]
      /\ l.total = SumOf(l.current, Classes) /\ l.current \in [Classes -> 0..Most]
      /\ l.total <= l.totalPeak
  BY BooksAre DEF Kept, LedgerAssumption
<1>2. l.current[c] <= l.total
  BY <1>1, ClassMoves
<1>3. /\ a \in 0..Most /\ e \in 0..1 /\ t \in 0..Most /\ a <= l.current[c] /\ t <= l.total
      /\ t = (l.total - l.current[c]) + a
  BY <1>1, <1>2
<1>4. (n > l.current[c] \/ n > l.total) <=> over
  BY <1>1, <1>2
<1>5. (IF l.total < l.current[c] THEN l.total ELSE l.current[c]) = l.current[c]
      /\ (IF l.current[c] < l.total THEN l.current[c] ELSE l.total) = l.current[c]
  BY <1>1, <1>2
<1>6. l.errors = [l.errors EXCEPT ![c] = l.errors[c]]
  BY <1>1
<1>7. Released(l, c, n) = r
  <2>1. CASE over
    <3>1. Released(l, c, n) = [l EXCEPT !.errors[c] = 1, !.current[c] = 0, !.total = l.total - l.current[c]]
      BY <1>4, <1>5, <2>1, Zenon DEF Released
    <3> QED
      BY <2>1, <3>1
  <2>2. CASE ~over
    <3>1. Released(l, c, n) = [l EXCEPT !.current[c] = l.current[c] - n, !.total = l.total - n]
      BY <1>4, <2>2, Zenon DEF Released
    <3>2. a = l.current[c] - n /\ e = l.errors[c] /\ t = l.total - n
      BY <2>2
    <3> HIDE DEF a, e, t, over
    <3>3. [l EXCEPT !.current[c] = a, !.total = t] = [l EXCEPT !.errors[c] = l.errors[c], !.current[c] = a, !.total = t]
      BY <1>1, <1>6 DEF LedgerBooks
    <3> QED
      BY <3>1, <3>2, <3>3
  <2> QED
    BY <2>1, <2>2
<1>8. RustReleased(l, c, n) = r
  <2>1. RustReleased(l, c, n) = [l EXCEPT !.current[c] = IF over THEN 0 ELSE @ - n,
                      !.total = @ - (IF ~over THEN n ELSE l.current[c]), !.errors[c] = IF over THEN 1 ELSE @]
    BY <1>4, <1>5, Zenon DEF RustReleased
  <2>2. t = l.total - (IF ~over THEN n ELSE l.current[c])
    OBVIOUS
  <2>3. RustReleased(l, c, n) = [l EXCEPT !.current[c] = a, !.total = t, !.errors[c] = e]
    BY <2>1, <2>2, Zenon
  <2> HIDE DEF a, e, t, over
  <2> QED
    BY <1>1, <2>3 DEF LedgerBooks
<1> HIDE DEF a, e, t, over, r
<1>9. /\ r \in LedgerBooks
      /\ r.current = [l.current EXCEPT ![c] = a] /\ r.peak = l.peak
      /\ r.total = t /\ r.totalPeak = l.totalPeak /\ r.reservations = l.reservations
  <2>1. r = [l EXCEPT !.errors[c] = e, !.current[c] = a, !.total = t]
    BY DEF r
  <2> QED
    BY <1>1, <1>3, <2>1 DEF LedgerBooks
<1>10. SumOf(r.current, Classes) = r.total
  <2>1. SumOf([l.current EXCEPT ![c] = a], Classes) = (SumOf(l.current, Classes) - l.current[c]) + a
    BY <1>1, <1>3, ClassMoves
  <2> QED
    BY <1>1, <1>3, <1>9, <2>1
<1>11. \A d \in Classes : r.current[d] <= l.current[d] /\ r.current[d] <= r.peak[d]
  BY <1>1, <1>3, <1>9
<1>12. Kept(r)
  BY <1>1, <1>3, <1>9, <1>10, <1>11 DEF Kept
<1> QED
  BY <1>7, <1>8, <1>9, <1>11, <1>12

LEMMA LimitedKeeps ==
    ASSUME LedgerAssumption, NEW l, Kept(l), NEW c \in Classes, NEW n \in 0..Most
    PROVE  /\ Kept(Limited(l, c, n)) /\ RustLimited(l, c, n) = Limited(l, c, n)
           /\ Limited(l, c, n).reservations = l.reservations
           /\ Limited(l, c, n).current = l.current /\ Limited(l, c, n).peak = l.peak
<1> DEFINE r == Limited(l, c, n)
<1>1. /\ r \in LedgerBooks /\ r.current = l.current /\ r.peak = l.peak /\ r.total = l.total
      /\ r.totalPeak = l.totalPeak /\ r.reservations = l.reservations
  BY DEF Limited, Kept, LedgerBooks
<1>2. RustLimited(l, c, n) = r
  BY DEF RustLimited, Limited
<1> HIDE DEF r
<1> QED
  BY <1>1, <1>2 DEF Kept, r

LEMMA KeptAtFirst == ASSUME LedgerAssumption PROVE Kept(NewLedger)
<1>1. NewLedger \in LedgerBooks /\ NewLedger.current = [c \in Classes |-> 0]
      /\ NewLedger.peak = [c \in Classes |-> 0] /\ NewLedger.total = 0 /\ NewLedger.totalPeak = 0
  BY DEF NewLedger, LedgerBooks, LedgerAssumption
<1> DEFINE none == [c \in Classes |-> 0]
<1>2. Counts(none, Classes) /\ \A c \in Classes \ {} : none[c] = 0
  BY DEF Counts
<1>3. SumOf(none, Classes) = 0
  BY <1>2, SumOfPart, SumEmpty DEF LedgerAssumption
<1> QED
  BY <1>1, <1>3 DEF Kept

(* One operation on both books, which come out alike if they went in so.   *)
LEMMA DidKeeps ==
    ASSUME LedgerAssumption, LedgerInv, NEW l, NEW m, NEW differ \in BOOLEAN,
           Kept(l), Kept(m), Did(l, m, differ),
           cpp = rust => l = m /\ ~differ,
           ~mismatch /\ ~differ /\ ShadowIsAhead =>
               /\ \A c \in Classes : m.reservations[c] >= l.reservations[c]
               /\ injected # {} => \E c \in Classes : m.reservations[c] > l.reservations[c]
    PROVE  LedgerInv'
<1> USE DEF LedgerInv
<1>1. /\ ops \in Nat /\ ops < MaxOps /\ cpp' = l /\ rust' = m /\ ops' = ops + 1 /\ injected' = injected
      /\ mismatch' = (mismatch \/ differ \/ (CheckDue(ops + 1) /\ Differs(l, m)))
      /\ MaxOps \in Nat
  BY DEF Did, LedgerAssumption
<1>2. Kept(cpp)' /\ Kept(rust)' /\ mismatch' \in BOOLEAN
  BY <1>1 DEF Kept, CheckDue, Differs
<1>3. ops' \in 0..MaxOps /\ injected' \subseteq 0..ops'
  BY <1>1
<1>4. BackendsAgree'
  <2> SUFFICES ASSUME injected = {} PROVE l = m /\ ~mismatch'
    BY <1>1 DEF BackendsAgree
  <2>1. cpp = rust /\ ~mismatch
    BY DEF BackendsAgree
  <2>2. l = m /\ ~differ
    BY <2>1
  <2>3. ~Differs(l, m)
    BY <2>2 DEF Differs
  <2> QED
    BY <1>1, <2>1, <2>2, <2>3
<1>5. ASSUME ~mismatch' PROVE ShadowIsAhead'
  <2>1. ~mismatch /\ ~differ /\ ShadowIsAhead /\ ~(CheckDue(ops + 1) /\ Differs(l, m))
    BY <1>1, <1>5
  <2>2. /\ \A c \in Classes : m.reservations[c] >= l.reservations[c]
        /\ injected # {} => \E c \in Classes : m.reservations[c] > l.reservations[c]
    BY <2>1
  <2>3. injected # {} => ~CheckDue(ops + 1)
    <3> SUFFICES ASSUME injected # {} PROVE Differs(l, m)
      BY <2>1
    <3>1. PICK c \in Classes : m.reservations[c] > l.reservations[c]
      BY <2>2
    <3>2. l.reservations[c] \in Nat
      BY BooksAre DEF Kept
    <3> QED
      BY <3>1, <3>2 DEF Differs
  <2>4. \A n \in injected' : \A k \in (n + 1)..ops' : ~CheckDue(k)
    <3> SUFFICES ASSUME NEW n \in injected, NEW k \in (n + 1)..(ops + 1) PROVE ~CheckDue(k)
      BY <1>1
    <3>1. n \in Nat
      BY <1>1
    <3>2. k = ops + 1 \/ k \in (n + 1)..ops
      BY <1>1, <3>1
    <3> QED
      BY <2>1, <2>3, <3>2 DEF ShadowIsAhead
  <2> QED
    BY <1>1, <2>2, <2>4 DEF ShadowIsAhead
<1> QED
  BY <1>2, <1>3, <1>4, <1>5

LEMMA LedgerStep ==
    ASSUME LedgerAssumption, LedgerInv, [LedgerNext]_ledgerVars
    PROVE  LedgerInv'
<1>1. CASE UNCHANGED ledgerVars
  BY <1>1 DEF ledgerVars, LedgerInv, Kept, BackendsAgree, ShadowIsAhead
<1>2. ASSUME NEW c \in Classes, NEW n \in 0..Most, SetHardLimit(c, n) PROVE LedgerInv'
  <2>1. Kept(cpp) /\ Kept(rust)
    BY DEF LedgerInv
  <2>2. RustLimited(rust, c, n) = Limited(rust, c, n) /\ Kept(Limited(cpp, c, n)) /\ Kept(Limited(rust, c, n))
    BY <2>1, LimitedKeeps
  <2>3. Limited(cpp, c, n).reservations = cpp.reservations /\ Limited(rust, c, n).reservations = rust.reservations
    BY <2>1, LimitedKeeps
  <2>4. Did(Limited(cpp, c, n), Limited(rust, c, n), FALSE)
    BY <1>2, <2>2 DEF SetHardLimit
  <2> QED
    BY <2>2, <2>3, <2>4, DidKeeps DEF ShadowIsAhead
<1>3. ASSUME NEW c \in Classes, NEW n \in 0..Most, Release(c, n) PROVE LedgerInv'
  <2>1. Kept(cpp) /\ Kept(rust)
    BY DEF LedgerInv
  <2>2. RustReleased(rust, c, n) = Released(rust, c, n) /\ Kept(Released(cpp, c, n)) /\ Kept(Released(rust, c, n))
    BY <2>1, ReleasedKeeps
  <2>3. Released(cpp, c, n).reservations = cpp.reservations /\ Released(rust, c, n).reservations = rust.reservations
    BY <2>1, ReleasedKeeps
  <2>4. Did(Released(cpp, c, n), Released(rust, c, n), FALSE)
    BY <1>3, <2>2 DEF Release
  <2> QED
    BY <2>2, <2>3, <2>4, DidKeeps DEF ShadowIsAhead
<1>4. ASSUME NEW c \in Classes, NEW n \in 0..Most, TryReserve(c, n) PROVE LedgerInv'
  <2> DEFINE l == Reserved(cpp, c, n)
             m == Reserved(rust, c, n)
             differ == Grants(cpp, c, n) # (m # rust)
  <2>1. Kept(cpp) /\ Kept(rust)
    BY DEF LedgerInv
  <2>2. RustReserved(rust, c, n) = m /\ Kept(l) /\ Kept(m)
    BY <2>1, ReservedKeeps
  <2>3. Did(l, m, differ) /\ differ \in BOOLEAN
    BY <1>4, <2>2 DEF TryReserve
  <2>4. /\ Grants(cpp, c, n) => l.reservations = [cpp.reservations EXCEPT ![c] = @ + 1] /\ l # cpp
        /\ ~Grants(cpp, c, n) => l = cpp
        /\ m # rust => m.reservations = [rust.reservations EXCEPT ![c] = @ + 1]
    BY <2>1, ReservedKeeps
  <2>5. ASSUME cpp = rust PROVE l = m /\ ~differ
    <3>1. l = m
      BY <2>5
    <3>2. Grants(cpp, c, n) <=> l # cpp
      BY <2>4
    <3>3. (m # rust) = (l # cpp)
      BY <3>1, <2>5
    <3>4. Grants(cpp, c, n) \in BOOLEAN
      BY DEF Grants
    <3> QED
      BY <3>1, <3>2, <3>3, <3>4
  <2>6. ASSUME ~differ, ShadowIsAhead
        PROVE  /\ \A d \in Classes : m.reservations[d] >= l.reservations[d]
               /\ injected # {} => \E d \in Classes : m.reservations[d] > l.reservations[d]
    <3>1. cpp.reservations \in [Classes -> Nat] /\ rust.reservations \in [Classes -> Nat]
      BY <2>1, BooksAre DEF Kept
    <3>2. \/ m = rust /\ l = cpp
          \/ /\ m.reservations = [rust.reservations EXCEPT ![c] = @ + 1]
             /\ l.reservations = [cpp.reservations EXCEPT ![c] = @ + 1]
      BY <2>4, <2>6
    <3> HIDE DEF l, m
    <3> QED
      BY <2>6, <3>1, <3>2 DEF ShadowIsAhead
  <2> HIDE DEF l, m, differ
  <2> QED
    BY <2>2, <2>3, <2>5, <2>6, DidKeeps
<1>5. ASSUME NEW c \in Classes, NEW n \in 0..Most, InjectShadowReservation(c, n) PROVE LedgerInv'
  <2>1. Kept(cpp) /\ Kept(rust) /\ ops \in 0..MaxOps /\ injected \subseteq 0..ops /\ mismatch \in BOOLEAN
    BY DEF LedgerInv
  <2>2. /\ RustReserved(rust, c, n) = Reserved(rust, c, n) /\ Kept(Reserved(rust, c, n))
        /\ Reserved(rust, c, n) # rust
              => Reserved(rust, c, n).reservations = [rust.reservations EXCEPT ![c] = @ + 1]
    BY <2>1, ReservedKeeps
  <2>3. /\ rust' = Reserved(rust, c, n) /\ injected' = injected \cup {ops}
        /\ UNCHANGED <<cpp, ops, mismatch>> /\ Reserved(rust, c, n) # rust
    BY <1>5, <2>2 DEF InjectShadowReservation
  <2>4. rust'.reservations = [rust.reservations EXCEPT ![c] = @ + 1]
    BY <2>2, <2>3
  <2>5. Kept(cpp)' /\ Kept(rust)' /\ injected' \subseteq 0..ops' /\ injected' # {}
    BY <2>1, <2>2, <2>3 DEF Kept
  <2>6. cpp.reservations \in [Classes -> Nat] /\ rust.reservations \in [Classes -> Nat]
    BY <2>1, BooksAre DEF Kept
  <2>7. ASSUME ~mismatch' PROVE ShadowIsAhead'
    <3>1. ShadowIsAhead
      BY <2>3, <2>7 DEF LedgerInv
    <3>2. \A d \in Classes : rust'.reservations[d] >= cpp'.reservations[d]
      BY <2>3, <2>4, <2>6, <3>1 DEF ShadowIsAhead
    <3>3. rust'.reservations[c] > cpp'.reservations[c]
      BY <2>3, <2>4, <2>6, <3>1 DEF ShadowIsAhead
    <3>4. \A k \in injected' : \A j \in (k + 1)..ops' : ~CheckDue(j)
      <4> SUFFICES ASSUME NEW k \in injected', NEW j \in (k + 1)..ops PROVE ~CheckDue(j)
        BY <2>3
      <4>1. k \in injected
        BY <2>1, <2>3
      <4> QED
        BY <3>1, <4>1 DEF ShadowIsAhead
    <3> QED
      BY <3>2, <3>3, <3>4 DEF ShadowIsAhead
  <2> QED
    BY <2>1, <2>3, <2>5, <2>7 DEF LedgerInv, BackendsAgree
<1> QED
  BY <1>1, <1>2, <1>3, <1>4, <1>5 DEF LedgerNext

LEMMA LedgerInvHolds == ASSUME LedgerAssumption PROVE LedgerSpec => []LedgerInv
<1>1. LedgerInit => LedgerInv
  <2> SUFFICES ASSUME LedgerInit PROVE LedgerInv
    OBVIOUS
  <2>1. Kept(cpp) /\ Kept(rust) /\ cpp = rust /\ ops = 0 /\ mismatch = FALSE /\ injected = {}
    BY KeptAtFirst DEF LedgerInit
  <2>2. ops \in 0..MaxOps
    BY <2>1 DEF LedgerAssumption
  <2>3. ShadowIsAhead
    <3>1. \A c \in Classes : rust.reservations[c] \in Nat
      BY <2>1, BooksAre DEF Kept
    <3> QED
      BY <2>1, <3>1 DEF ShadowIsAhead
  <2> QED
    BY <2>1, <2>2, <2>3 DEF LedgerInv, BackendsAgree
<1>2. LedgerInv /\ [LedgerNext]_ledgerVars => LedgerInv'
  BY LedgerStep
<1> QED
  BY <1>1, <1>2, PTL DEF LedgerSpec

(* A multiple of the interval lies in every stretch of its length.         *)
LEMMA CheckComes ==
    ASSUME LedgerAssumption, NEW n \in Nat
    PROVE  \E m \in (n + 1)..(n + VerificationInterval) : CheckDue(m)
<1> DEFINE m == n + (VerificationInterval - (n % VerificationInterval))
<1>1. VerificationInterval \in Nat \ {0}
  BY DEF LedgerAssumption
<1>2. n % VerificationInterval \in 0..(VerificationInterval - 1)
  BY <1>1
<1>3. m % VerificationInterval = 0
  BY <1>1
<1>4. m \in (n + 1)..(n + VerificationInterval)
  BY <1>1, <1>2
<1> HIDE DEF m
<1> QED
  BY <1>3, <1>4 DEF CheckDue

LEMMA TotalAsSum ==
    ASSUME LedgerAssumption, NEW l \in LedgerBooks
    PROVE  MapThenSumSet(LAMBDA c : l.current[c], Classes) = SumOf(l.current, Classes)
<1> DEFINE v == l.current
           it == CHOOSE it : it = [S \in SUBSET Classes |->
                    IF S = {} THEN 0 ELSE l.current[Pick(S)] + it[S \ {Pick(S)}]]
           g == Summed(v, Classes)
<1>1. MapThenSumSet(LAMBDA c : l.current[c], Classes) = it[Classes]
  BY Zenon DEF MapThenSumSet, MapThenFoldSet, Pick
<1>2. IsFiniteSet(Classes) /\ Counts(v, Classes)
  BY BooksAre DEF LedgerAssumption, Counts
<1>3. Sums(g, v, Classes)
  BY <1>2, SummedIs
<1> HIDE DEF g
<1>4. g = [S \in SUBSET Classes |-> IF S = {} THEN 0 ELSE l.current[Pick(S)] + g[S \ {Pick(S)}]]
  BY <1>3 DEF Sums
<1>5. it = [S \in SUBSET Classes |-> IF S = {} THEN 0 ELSE l.current[Pick(S)] + it[S \ {Pick(S)}]]
  BY <1>4, Zenon
<1> HIDE DEF it
<1>6. Adds(it, v, Classes)
  BY <1>5 DEF Adds
<1>7. it[Classes] = SumOf(v, Classes)
  BY <1>2, <1>6, SumIs
<1> QED
  BY <1>1, <1>7

(* Both ledgers count exactly, agree as long as nobody tampers with one,   *)
(* and a tampered one is found out at the next comparison.                 *)
THEOREM LedgersAgree == ASSUME LedgerAssumption PROVE LedgerSpec => []LedgersExact
<1>1. LedgerInv => LedgersExact
  <2> SUFFICES ASSUME LedgerInv PROVE LedgersExact
    OBVIOUS
  <2>1. LedgerTypeOK
    BY DEF LedgerInv, LedgerTypeOK, Kept, LedgerAssumption
  <2>2. TotalIsSum
    BY TotalAsSum DEF LedgerInv, TotalIsSum, Kept
  <2>3. DivergenceCaught
    <3> SUFFICES ASSUME NEW n \in injected, ops >= n + VerificationInterval, ~mismatch PROVE FALSE
      BY DEF DivergenceCaught, LedgerInv
    <3>1. n \in Nat /\ ops \in Nat /\ VerificationInterval \in Nat
      BY DEF LedgerInv, LedgerAssumption
    <3>2. PICK m \in (n + 1)..(n + VerificationInterval) : CheckDue(m)
      BY <3>1, CheckComes
    <3>3. m \in (n + 1)..ops
      BY <3>1
    <3> QED
      BY <3>2, <3>3 DEF LedgerInv, ShadowIsAhead
  <2> QED
    BY <2>1, <2>2, <2>3 DEF LedgersExact, LedgerInv
<1> QED
  BY <1>1, LedgerInvHolds, PTL

(* No class grows beyond its limit and no peak is forgotten, whatever is   *)
(* reserved, released or limited, also when more comes back than was given.*)
THEOREM LimitsAreHonoured == ASSUME LedgerAssumption PROVE LedgerSpec => LimitsHonoured
<1> DEFINE Ok == \A c \in Classes :
             /\ cpp'.current[c] > cpp.current[c] => cpp'.current[c] <= cpp.limit[c]
             /\ cpp'.peak[c] >= cpp.peak[c] /\ cpp'.peak[c] >= cpp'.current[c]
             /\ cpp'.totalPeak >= cpp'.total
       Within == \A d \in Classes :
             /\ cpp'.current[d] > cpp.current[d] => cpp'.current[d] <= cpp.limit[d]
             /\ cpp'.peak[d] >= cpp.peak[d]
<1>1. ASSUME LedgerInv, LedgerInv', LedgerNext PROVE Ok
  <2>1. Kept(cpp) /\ Kept(cpp')
    BY <1>1 DEF LedgerInv, Kept
  <2>2. /\ \A d \in Classes : cpp'.peak[d] >= cpp'.current[d]
        /\ cpp'.totalPeak >= cpp'.total
        /\ \A d \in Classes : cpp.current[d] \in 0..Most /\ cpp.peak[d] \in 0..Most
    BY <2>1, BooksAre DEF Kept, LedgerAssumption
  <2>3. Within
    <3>1. ASSUME NEW c \in Classes, NEW n \in 0..Most, TryReserve(c, n) PROVE Within
      <4>1. cpp' = Reserved(cpp, c, n)
        BY <3>1 DEF TryReserve, Did
      <4>2. CASE Grants(cpp, c, n)
        <5>1. /\ cpp'.current = [cpp.current EXCEPT ![c] = @ + n] /\ cpp.current[c] + n <= cpp.limit[c]
              /\ \A d \in Classes : cpp'.peak[d] >= cpp.peak[d]
          BY <2>1, <4>1, <4>2, ReservedKeeps
        <5>2. cpp.current \in [Classes -> 0..Most]
          BY <2>1, BooksAre DEF Kept
        <5> QED
          BY <2>2, <5>1, <5>2
      <4>3. CASE ~Grants(cpp, c, n)
        <5>1. cpp' = cpp
          BY <2>1, <4>1, <4>3, ReservedKeeps
        <5> QED
          BY <2>2, <5>1 DEF LedgerAssumption
      <4> QED
        BY <4>2, <4>3
    <3>2. ASSUME NEW c \in Classes, NEW n \in 0..Most, Release(c, n)
          PROVE  \A d \in Classes : cpp'.current[d] <= cpp.current[d] /\ cpp'.peak[d] = cpp.peak[d]
      BY <2>1, <3>2, ReleasedKeeps DEF Release, Did
    <3>3. ASSUME NEW c \in Classes, NEW n \in 0..Most, SetHardLimit(c, n) \/ InjectShadowReservation(c, n)
          PROVE  \A d \in Classes : cpp'.current[d] = cpp.current[d] /\ cpp'.peak[d] = cpp.peak[d]
      BY <2>1, <3>3, LimitedKeeps DEF SetHardLimit, InjectShadowReservation, Did
    <3>4. \A d \in Classes : cpp'.current[d] \in 0..Most /\ cpp'.peak[d] \in 0..Most
      BY <2>1, BooksAre DEF Kept
    <3>5. Most \in Nat
      BY DEF LedgerAssumption
    <3>6. ASSUME \A d \in Classes : cpp'.current[d] <= cpp.current[d] /\ cpp'.peak[d] = cpp.peak[d] PROVE Within
      BY <2>2, <3>4, <3>5, <3>6
    <3>7. ASSUME \A d \in Classes : cpp'.current[d] = cpp.current[d] /\ cpp'.peak[d] = cpp.peak[d]
          PROVE  \A d \in Classes : cpp'.current[d] <= cpp.current[d] /\ cpp'.peak[d] = cpp.peak[d]
      BY <2>2, <3>4, <3>5, <3>7
    <3>8. ASSUME NEW c \in Classes, NEW n \in 0..Most,
                 Release(c, n) \/ SetHardLimit(c, n) \/ InjectShadowReservation(c, n) PROVE Within
      <4>1. CASE Release(c, n)
        BY <3>2, <3>6, <4>1
      <4>2. CASE SetHardLimit(c, n) \/ InjectShadowReservation(c, n)
        BY <3>3, <3>6, <3>7, <4>2
      <4> QED
        BY <3>8, <4>1, <4>2
    <3> QED
      BY <1>1, <3>1, <3>8, Zenon DEF LedgerNext
  <2> QED
    BY <2>2, <2>3
<1>2. LedgerInv /\ LedgerInv' /\ [LedgerNext]_ledgerVars => [Ok]_ledgerVars
  BY <1>1
<1> QED
  BY <1>2, LedgerInvHolds, PTL DEF LedgerSpec, LimitsHonoured
------------------------------------------------------------------------------
(* The cache of immutable blocks, for any blocks and budgets.              *)

BlockTiers == {"cold", "warm", "hot"}
Tables == [tier : [Blocks -> BlockTiers], older : SUBSET (Blocks \X Blocks),
           hot : Int, warm : Int, charged : Int]

(* Every two blocks of a set were touched one after the other.             *)
TotalOn(R, S) ==
    /\ \A x \in S : <<x, x>> \notin R
    /\ \A x, y \in S : x # y => <<x, y>> \in R \/ <<y, x>> \in R
    /\ \A x, y, z \in S : <<x, y>> \in R /\ <<y, z>> \in R => <<x, z>> \in R
InTurn(c) == c.older \in SUBSET (Present(c) \X Present(c)) /\ TotalOn(c.older, Present(c))

(* What the tiers hold is counted, but a block that is between them; what  *)
(* the ledger is ahead by is more.                                         *)
Weighed(c, between, more) ==
    /\ c.warm = SizeOf(InTier(c, "warm") \ {between}) /\ c.hot = SizeOf(InTier(c, "hot"))
    /\ c.charged = c.hot + c.warm + more
InOrder(c, between, more) == c \in Tables /\ InTurn(c) /\ Weighed(c, between, more)

(* What a step of a promotion makes of the tiers: nothing gets warmer, and *)
(* no warm block stays that is older than one that goes.                   *)
Cools(c, d, spared) ==
    /\ d.older = Among(c.older, Present(d))
    /\ \A x \in Blocks : /\ c.tier[x] = "cold" => d.tier[x] = "cold"
                         /\ c.tier[x] = "warm" => d.tier[x] \in {"warm", "cold"}
    /\ spared \in Blocks => d.tier[spared] = c.tier[spared]
    /\ \A x, y \in Blocks : /\ <<x, y>> \in c.older /\ c.tier[x] = "warm" /\ x # spared
                            /\ d.tier[y] = "cold"
                            => d.tier[x] = "cold"
------------------------------------------------------------------------------
(* What blocks weigh.                                                      *)
LEMMA SizesAre ==
    ASSUME BlockCacheAssumption, NEW S \in SUBSET Blocks
    PROVE  /\ SizeOf(S) = SumOf(BlockSize, S) /\ IsFiniteSet(S) /\ Counts(BlockSize, S)
           /\ SizeOf(S) \in Nat
<1> DEFINE it == CHOOSE it : it = [s \in SUBSET S |->
                    IF s = {} THEN 0 ELSE BlockSize[Pick(s)] + it[s \ {Pick(s)}]]
           f == Summed(BlockSize, S)
<1>1. SizeOf(S) = it[S]
  BY Zenon DEF SizeOf, MapThenSumSet, MapThenFoldSet, Pick
<1>2. IsFiniteSet(S) /\ Counts(BlockSize, S)
  BY FS_Subset DEF BlockCacheAssumption, Counts
<1>3. Sums(f, BlockSize, S)
  BY <1>2, SummedIs
<1> HIDE DEF f
<1>4. f = [s \in SUBSET S |-> IF s = {} THEN 0 ELSE BlockSize[Pick(s)] + f[s \ {Pick(s)}]]
  BY <1>3 DEF Sums
<1>5. it = [s \in SUBSET S |-> IF s = {} THEN 0 ELSE BlockSize[Pick(s)] + it[s \ {Pick(s)}]]
  BY <1>4, Zenon
<1> HIDE DEF it
<1>6. Adds(it, BlockSize, S)
  BY <1>5 DEF Adds
<1>7. it[S] = SumOf(BlockSize, S)
  BY <1>2, <1>6, SumIs
<1>8. SumOf(BlockSize, S) \in Nat
  BY <1>2, SumType
<1> QED
  BY <1>1, <1>2, <1>7, <1>8

LEMMA SizeEmpty == ASSUME BlockCacheAssumption PROVE SizeOf({}) = 0
BY SizesAre, SumEmpty

LEMMA SizeSplit ==
    ASSUME BlockCacheAssumption, NEW S \in SUBSET Blocks, NEW R \in SUBSET S
    PROVE  SizeOf(S) = SizeOf(R) + SizeOf(S \ R) /\ SizeOf(R) <= SizeOf(S)
<1>1. R \in SUBSET Blocks /\ S \ R \in SUBSET Blocks
  OBVIOUS
<1>2. /\ SumOf(BlockSize, S) = SumOf(BlockSize, R) + SumOf(BlockSize, S \ R)
      /\ SumOf(BlockSize, R) <= SumOf(BlockSize, S)
  BY SizesAre, SumSplit
<1>3. /\ SizeOf(S) = SumOf(BlockSize, S) /\ SizeOf(R) = SumOf(BlockSize, R)
      /\ SizeOf(S \ R) = SumOf(BlockSize, S \ R)
  BY <1>1, SizesAre
<1> QED
  BY <1>2, <1>3

LEMMA SizeWith ==
    ASSUME BlockCacheAssumption, NEW S \in SUBSET Blocks, NEW b \in Blocks \ S
    PROVE  SizeOf(S \cup {b}) = SizeOf(S) + BlockSize[b] /\ BlockSize[b] \in Nat \ {0}
<1> DEFINE R == S \cup {b}
<1>1. R \in SUBSET Blocks /\ b \in R /\ R \ {b} = S
  OBVIOUS
<1> HIDE DEF R
<1>2. SumOf(BlockSize, R) = BlockSize[b] + SumOf(BlockSize, S)
  BY <1>1, SizesAre, SumRemove
<1>3. BlockSize[b] \in Nat \ {0}
  BY DEF BlockCacheAssumption
<1> QED
  BY <1>1, <1>2, <1>3, SizesAre DEF R

(* In a finite set that was touched in turn one block was touched first.   *)
LEMMA FirstOf ==
    ASSUME NEW S, IsFiniteSet(S), S # {}, NEW R, TotalOn(R, S)
    PROVE  \E x \in S : \A y \in S \ {x} : <<x, y>> \in R
<1> DEFINE HasFirst(s) == \E x \in s : \A y \in s \ {x} : <<x, y>> \in R
           T == {n \in Nat : \A s \in SUBSET S : Cardinality(s) = n + 1 => HasFirst(s)}
<1>1. 0 \in T
  <2> SUFFICES ASSUME NEW s \in SUBSET S, Cardinality(s) = 1 PROVE HasFirst(s)
    OBVIOUS
  <2> HIDE DEF T, HasFirst
  <2>1. PICK x \in s : TRUE
    <3>1. s # {}
      BY PartIs
    <3> QED
      BY <3>1
  <2>2. \A y \in s : Cardinality(s \ {y}) = Cardinality(s) - 1
    BY PartIs
  <2>3. Cardinality(s \ {x}) = 0
    BY <2>1, <2>2
  <2>4. s \ {x} = {}
    BY <2>3, PartIs
  <2> QED
    BY <2>1, <2>4 DEF HasFirst
<1>2. ASSUME NEW n \in T PROVE n + 1 \in T
  <2>1. n \in Nat
    OBVIOUS
  <2> SUFFICES ASSUME NEW s \in SUBSET S, Cardinality(s) = n + 2 PROVE HasFirst(s)
    BY <2>1
  <2>2. PICK x \in s : TRUE
    <3> HIDE DEF T, HasFirst
    <3>1. s # {}
      BY <2>1, PartIs
    <3> QED
      BY <3>1
  <2>3. Cardinality(s \ {x}) = n + 1
    <3> HIDE DEF T, HasFirst
    <3>1. \A y \in s : Cardinality(s \ {y}) = Cardinality(s) - 1
      BY PartIs
    <3> QED
      BY <2>1, <2>2, <3>1
  <2>4. PICK y \in s \ {x} : \A z \in (s \ {x}) \ {y} : <<y, z>> \in R
    BY <2>3
  <2>5. CASE <<y, x>> \in R
    BY <2>2, <2>4, <2>5
  <2>6. CASE <<y, x>> \notin R
    <3>1. <<x, y>> \in R
      BY <2>2, <2>4, <2>6 DEF TotalOn
    <3>2. \A z \in s \ {x} : <<x, z>> \in R
      BY <2>2, <2>4, <3>1 DEF TotalOn
    <3> QED
      BY <2>2, <3>2
  <2> QED
    BY <2>5, <2>6
<1>3. T = Nat
  <2> HIDE DEF T
  <2>1. T \in SUBSET Nat
    BY DEF T
  <2> QED
    BY <1>1, <1>2, <2>1, Induction
<1>4. Cardinality(S) \in Nat /\ Cardinality(S) # 0 /\ S \in SUBSET S
  BY PartIs
<1>5. Cardinality(S) - 1 \in T /\ (Cardinality(S) - 1) + 1 = Cardinality(S)
  BY <1>3, <1>4
<1> QED
  BY <1>4, <1>5

LEMMA TotalOnPart ==
    ASSUME NEW R, NEW S, TotalOn(R, S), NEW s \in SUBSET S
    PROVE  TotalOn(R, s) /\ TotalOn({p \in R : p[1] \in s /\ p[2] \in s}, s)
BY DEF TotalOn

(* ... and one last.                                                       *)
LEMMA LastTouchedIs ==
    ASSUME NEW c, NEW S, IsFiniteSet(S), S # {}, TotalOn(c.older, S)
    PROVE  LastTouched(c, S) \in S /\ \A y \in S \ {LastTouched(c, S)} : <<y, LastTouched(c, S)>> \in c.older
<1> DEFINE R == {p \in S \X S : <<p[2], p[1]>> \in c.older}
<1>1. TotalOn(R, S)
  BY DEF TotalOn
<1>2. PICK x \in S : \A y \in S \ {x} : <<x, y>> \in R
  BY <1>1, FirstOf
<1>3. \A y \in S \ {x} : <<y, x>> \in c.older
  BY <1>2
<1> QED
  BY <1>3, Zenon DEF LastTouched
------------------------------------------------------------------------------
LEMMA CoolsThrough ==
    ASSUME NEW b, NEW c \in Tables, InTurn(c), NEW d \in Tables, NEW e \in Tables,
           Cools(c, d, b), Cools(d, e, b)
    PROVE  Cools(c, e, b)
<1>1. \A x \in Blocks : /\ c.tier[x] \in BlockTiers /\ d.tier[x] \in BlockTiers /\ e.tier[x] \in BlockTiers
  BY DEF Tables
<1>2. Present(e) \subseteq Present(d)
  BY DEF Cools, Present
<1>3. e.older = Among(c.older, Present(e))
  BY <1>2 DEF Cools, Among
<1>4. ASSUME NEW x \in Blocks, NEW y \in Blocks, <<x, y>> \in c.older, c.tier[x] = "warm",
             x # b, e.tier[y] = "cold"
      PROVE  e.tier[x] = "cold"
  <2>1. CASE d.tier[y] = "cold" \/ d.tier[x] = "cold"
    BY <1>4, <2>1 DEF Cools
  <2>2. CASE d.tier[y] # "cold" /\ d.tier[x] # "cold"
    <3>1. <<x, y>> \in d.older /\ d.tier[x] = "warm"
      BY <1>4, <2>2 DEF Cools, Among, Present
    <3> QED
      BY <1>4, <3>1 DEF Cools
  <2> QED
    BY <2>1, <2>2
<1> QED
  BY <1>1, <1>3, <1>4 DEF Cools

LEMMA CoolsItself ==
    ASSUME NEW b, NEW c \in Tables, InTurn(c) PROVE Cools(c, c, b)
<1>1. c.older = Among(c.older, Present(c))
  BY DEF InTurn, Among
<1>2. \A x, y \in Blocks : <<x, y>> \in c.older => c.tier[y] # "cold"
  BY DEF InTurn, Present
<1> QED
  BY <1>1, <1>2 DEF Cools

LEMMA EvictionCools ==
    ASSUME BlockCacheAssumption, NEW b, NEW more \in Int, NEW c, InOrder(c, b, more), NEW n \in Nat
    PROVE  LET d == EvictedTo(c, n, b) IN
           /\ InOrder(d, b, more) /\ Cools(c, d, b) /\ d.warm <= n
           /\ d.hot = c.hot /\ InTier(d, "hot") = InTier(c, "hot") /\ d.charged <= c.charged
<1> DEFINE W == InTier(c, "warm") \ {b}
           before(x) == {y \in W : <<y, x>> \in c.older}
           gone == {x \in W : c.warm - SizeOf(before(x)) > n}
           rest == W \ gone
           d == Evicted(c, gone)
<1>1. EvictedTo(c, n, b) = d
  BY Zenon DEF EvictedTo
<1>2. /\ c \in Tables /\ InTurn(c) /\ c.warm = SizeOf(W) /\ c.hot = SizeOf(InTier(c, "hot"))
      /\ c.charged = c.hot + c.warm + more
      /\ c.hot \in Int /\ c.warm \in Int /\ c.charged \in Int /\ c.tier \in [Blocks -> BlockTiers]
  BY DEF InOrder, Weighed, Tables
<1>3. /\ W \in SUBSET Blocks /\ W \subseteq Present(c) /\ gone \in SUBSET W /\ rest \in SUBSET W
      /\ \A x : before(x) \in SUBSET W
  BY DEF InTier, Present
<1>4. /\ TotalOn(c.older, Present(c)) /\ c.older \subseteq Present(c) \X Present(c)
  BY <1>2 DEF InTurn
<1>5. ASSUME NEW x \in gone, NEW y \in W, <<y, x>> \in c.older PROVE y \in gone
  <2>1. before(y) \subseteq before(x)
    BY <1>3, <1>4, <1>5 DEF TotalOn
  <2>2. SizeOf(before(y)) <= SizeOf(before(x)) /\ SizeOf(before(y)) \in Nat /\ SizeOf(before(x)) \in Nat
    <3>1. before(x) \in SUBSET Blocks /\ before(y) \in SUBSET Blocks
      BY <1>3
    <3> HIDE DEF before
    <3> QED
      BY <2>1, <3>1, SizeSplit, SizesAre
  <2>3. c.warm - SizeOf(before(x)) > n
    OBVIOUS
  <2>4. c.warm - SizeOf(before(y)) > n
    <3> HIDE DEF before
    <3> QED
      BY <1>2, <2>2, <2>3
  <2> QED
    BY <2>4
<1>6. /\ SizeOf(W) = SizeOf(gone) + SizeOf(rest) /\ SizeOf(W) \in Nat /\ SizeOf(gone) \in Nat
      /\ SizeOf(rest) \in Nat
  <2> HIDE DEF W, gone
  <2>1. gone \in SUBSET Blocks /\ rest \in SUBSET Blocks
    BY <1>3
  <2> QED
    BY <1>3, <2>1, SizeSplit, SizesAre
<1>7. SizeOf(rest) <= n
  <2>1. CASE rest = {}
    <3> HIDE DEF rest
    <3> QED
      BY <2>1, SizeEmpty
  <2>2. CASE rest # {}
    <3>1. IsFiniteSet(rest) /\ TotalOn(c.older, rest)
      <4> HIDE DEF W, gone, rest
      <4>1. rest \in SUBSET Blocks /\ rest \in SUBSET Present(c)
        BY <1>3
      <4> QED
        BY <1>4, <4>1, SizesAre, TotalOnPart
    <3>2. PICK x \in rest : \A y \in rest \ {x} : <<x, y>> \in c.older
      <4> HIDE DEF rest
      <4> QED
        BY <2>2, <3>1, FirstOf
    <3>3. before(x) \subseteq gone
      <4> SUFFICES ASSUME NEW y \in W, <<y, x>> \in c.older, y \in rest PROVE FALSE
        OBVIOUS
      <4> HIDE DEF W, gone, rest
      <4>1. x \in Present(c) /\ y \in Present(c)
        BY <1>3, <3>2
      <4> QED
        BY <1>4, <3>2, <4>1 DEF TotalOn
    <3>4. c.warm - SizeOf(before(x)) <= n
      <4>1. ~(c.warm - SizeOf(before(x)) > n)
        BY <3>2
      <4>2. SizeOf(before(x)) \in Nat
        <5> HIDE DEF before
        <5>1. before(x) \in SUBSET Blocks
          BY <1>3
        <5> QED
          BY <5>1, SizesAre
      <4> HIDE DEF before
      <4> QED
        BY <1>2, <4>1, <4>2
    <3>5. SizeOf(before(x)) <= SizeOf(gone) /\ SizeOf(before(x)) \in Nat
      <4> HIDE DEF before, gone, W
      <4>1. before(x) \in SUBSET Blocks /\ gone \in SUBSET Blocks
        BY <1>3
      <4> QED
        BY <3>3, <4>1, SizeSplit, SizesAre
    <3> HIDE DEF before, gone, rest, W
    <3> QED
      BY <1>2, <1>6, <3>4, <3>5
  <2> QED
    BY <2>1, <2>2
<1> HIDE DEF before, gone
<1>8. /\ d.tier = [x \in Blocks |-> IF x \in gone THEN "cold" ELSE c.tier[x]]
      /\ d.older = Among(c.older, Present(c) \ gone) /\ d.hot = c.hot
      /\ d.warm = c.warm - SizeOf(gone) /\ d.charged = c.charged - SizeOf(gone)
      /\ d = [tier |-> d.tier, older |-> d.older, hot |-> d.hot, warm |-> d.warm, charged |-> d.charged]
  BY DEF Evicted
<1> HIDE DEF d
<1>9. /\ \A x \in gone : d.tier[x] = "cold" /\ c.tier[x] = "warm" /\ x # b
      /\ \A x \in Blocks \ gone : d.tier[x] = c.tier[x]
  BY <1>3, <1>8 DEF InTier
<1>10. d \in Tables
  <2>1. d.tier \in [Blocks -> BlockTiers]
    BY <1>2, <1>8 DEF BlockTiers
  <2>2. d.older \in SUBSET (Blocks \X Blocks)
    BY <1>2, <1>8 DEF Among, Tables
  <2>3. d.hot \in Int /\ d.warm \in Int /\ d.charged \in Int
    BY <1>2, <1>6, <1>8
  <2> HIDE DEF W, rest
  <2> QED
    BY <1>8, <2>1, <2>2, <2>3 DEF Tables
<1>11. Present(d) = Present(c) \ gone
  BY <1>3, <1>9 DEF Present
<1>12. InTurn(d)
  <2>1. TotalOn(Among(c.older, Present(d)), Present(d))
    <3>1. Present(d) \in SUBSET Present(c)
      BY <1>11
    <3> QED
      BY <1>4, <3>1, TotalOnPart DEF Among
  <2>2. d.older \in SUBSET (Present(d) \X Present(d))
    BY <1>4, <1>8, <1>11 DEF Among
  <2> QED
    BY <1>8, <1>11, <2>1, <2>2 DEF InTurn
<1>13. InTier(d, "warm") \ {b} = rest /\ InTier(d, "hot") = InTier(c, "hot")
  BY <1>3, <1>9 DEF InTier
<1>14. Weighed(d, b, more)
  <2> HIDE DEF W, rest
  <2>1. d.warm = SizeOf(rest)
    BY <1>2, <1>6, <1>8
  <2>2. d.hot = SizeOf(InTier(d, "hot"))
    BY <1>2, <1>8, <1>13
  <2>3. d.charged = d.hot + d.warm + more
    BY <1>2, <1>6, <1>8
  <2> QED
    BY <1>13, <2>1, <2>2, <2>3 DEF Weighed
<1>15. Cools(c, d, b)
  <2>1. ASSUME NEW x \in Blocks, NEW y \in Blocks, <<x, y>> \in c.older, c.tier[x] = "warm", x # b,
               d.tier[y] = "cold"
        PROVE  d.tier[x] = "cold"
    <3>1. x \in W /\ y \in Present(c)
      BY <1>4, <2>1 DEF InTier
    <3>2. y \in gone
      BY <1>9, <2>1, <3>1 DEF Present
    <3> QED
      BY <1>5, <1>9, <2>1, <3>1, <3>2
  <2>2. \A x \in Blocks : /\ c.tier[x] = "cold" => d.tier[x] = "cold"
                          /\ c.tier[x] = "warm" => d.tier[x] \in {"warm", "cold"}
    BY <1>9
  <2>3. b \in Blocks => d.tier[b] = c.tier[b]
    BY <1>9
  <2> QED
    BY <1>8, <1>11, <2>1, <2>2, <2>3 DEF Cools
<1>16. d.warm <= n /\ d.charged <= c.charged
  <2> HIDE DEF W, rest
  <2> QED
    BY <1>2, <1>6, <1>7, <1>8
<1> QED
  BY <1>1, <1>8, <1>10, <1>12, <1>13, <1>14, <1>15, <1>16 DEF InOrder

(* What the demotion of the hot block h makes of the cache.                *)
DemotesOne(c, d, h, b, more) ==
    /\ InOrder(d, b, more) /\ Cools(c, d, b) /\ d.warm <= WarmBytes
    /\ d.hot = c.hot - BlockSize[h] /\ InTier(d, "hot") = InTier(c, "hot") \ {h}
    /\ d.charged <= c.charged

LEMMA DemotionCools ==
    ASSUME BlockCacheAssumption, NEW b \in Blocks, NEW more \in Int, NEW c, InOrder(c, b, more),
           c.tier[b] = "warm", NEW h \in InTier(c, "hot")
    PROVE  DemotesOne(c, Demoted(c, h, b), h, b, more)
<1> DEFINE m == [tier |-> Moved(c, h, "warm"), older |-> c.older, hot |-> c.hot - BlockSize[h],
                 warm |-> c.warm + BlockSize[h], charged |-> c.charged]
           hot == InTier(c, "hot") \ {h}
           warm == InTier(c, "warm") \ {b}
<1>1. /\ c \in Tables /\ InTurn(c) /\ c.warm = SizeOf(warm) /\ c.hot = SizeOf(InTier(c, "hot"))
      /\ c.charged = c.hot + c.warm + more
      /\ c.hot \in Int /\ c.warm \in Int /\ c.charged \in Int /\ c.tier \in [Blocks -> BlockTiers]
  BY DEF InOrder, Weighed, Tables
<1>2. h \in Blocks /\ c.tier[h] = "hot" /\ h # b
  BY DEF InTier
<1>3. /\ m.tier[h] = "warm" /\ m.tier \in [Blocks -> BlockTiers]
      /\ \A x \in Blocks \ {h} : m.tier[x] = c.tier[x]
  BY <1>1, <1>2 DEF Moved, BlockTiers
<1>4. /\ m.older = c.older /\ m.hot = c.hot - BlockSize[h] /\ m.warm = c.warm + BlockSize[h]
      /\ m.charged = c.charged
      /\ m = [tier |-> m.tier, older |-> c.older, hot |-> m.hot, warm |-> m.warm, charged |-> c.charged]
  OBVIOUS
<1> HIDE DEF m
<1>5. /\ InTier(m, "hot") = hot /\ InTier(m, "warm") \ {b} = warm \cup {h} /\ Present(m) = Present(c)
      /\ hot \in SUBSET Blocks /\ warm \in SUBSET Blocks /\ h \notin hot /\ h \notin warm
      /\ InTier(c, "hot") = hot \cup {h}
  BY <1>2, <1>3 DEF InTier, Present
<1> HIDE DEF hot, warm
<1>6. /\ SizeOf(warm \cup {h}) = SizeOf(warm) + BlockSize[h] /\ BlockSize[h] \in Nat
      /\ SizeOf(hot \cup {h}) = SizeOf(hot) + BlockSize[h] /\ SizeOf(hot) \in Nat
  BY <1>2, <1>5, SizeWith, SizesAre
<1>7. Weighed(m, b, more)
  <2>1. m.warm = SizeOf(warm \cup {h})
    BY <1>1, <1>4, <1>6
  <2>2. SizeOf(InTier(c, "hot")) = SizeOf(hot) + BlockSize[h]
    BY <1>5, <1>6
  <2>3. m.hot = SizeOf(hot)
    BY <1>1, <1>4, <1>6, <2>2
  <2>4. m.charged = m.hot + m.warm + more
    BY <1>1, <1>4, <1>6
  <2> QED
    BY <1>5, <2>1, <2>3, <2>4 DEF Weighed
<1>8. m \in Tables
  BY <1>1, <1>3, <1>4, <1>6 DEF Tables
<1>9. InTurn(m)
  BY <1>1, <1>4, <1>5 DEF InTurn
<1>10. InOrder(m, b, more)
  BY <1>7, <1>8, <1>9 DEF InOrder
<1>11. Cools(c, m, b)
  <2>1. m.older = Among(c.older, Present(m))
    BY <1>1, <1>4, <1>5 DEF InTurn, Among
  <2>2. \A x, y \in Blocks : <<x, y>> \in c.older => c.tier[y] # "cold" /\ m.tier[y] # "cold"
    BY <1>1, <1>2, <1>3 DEF InTurn, Present
  <2> QED
    BY <1>2, <1>3, <2>1, <2>2 DEF Cools
<1>12. WarmBytes \in Nat
  BY DEF BlockCacheAssumption
<1> DEFINE d == EvictedTo(m, WarmBytes, b)
<1>13. /\ InOrder(d, b, more) /\ Cools(m, d, b) /\ d.warm <= WarmBytes
       /\ d.hot = m.hot /\ InTier(d, "hot") = InTier(m, "hot") /\ d.charged <= m.charged
  BY <1>10, <1>12, EvictionCools
<1>14. Demoted(c, h, b) = d
  BY Zenon DEF Demoted, m
<1> HIDE DEF d
<1>15. Cools(c, d, b)
  BY <1>1, <1>8, <1>11, <1>13, CoolsThrough DEF InOrder
<1> QED
  BY <1>4, <1>5, <1>13, <1>14, <1>15 DEF hot, DemotesOne

(* A promotion demotes the hot blocks from the oldest, until it fits.      *)
LEMMA DemotionType ==
    ASSUME BlockCacheAssumption, NEW b, NEW c \in Tables, NEW h \in Blocks
    PROVE  Demoted(c, h, b) \in Tables
<1> DEFINE m == [tier |-> Moved(c, h, "warm"), older |-> c.older, hot |-> c.hot - BlockSize[h],
                 warm |-> c.warm + BlockSize[h], charged |-> c.charged]
           W == InTier(m, "warm") \ {b}
           before(x) == {y \in W : <<y, x>> \in m.older}
           gone == {x \in W : m.warm - SizeOf(before(x)) > WarmBytes}
           d == Evicted(m, gone)
<1>1. Demoted(c, h, b) = d
  BY Zenon DEF Demoted, EvictedTo
<1>2. gone \in SUBSET Blocks
  BY DEF InTier
<1> HIDE DEF W, before, gone
<1>3. SizeOf(gone) \in Nat
  BY <1>2, SizesAre
<1>4. BlockSize[h] \in Int
  BY DEF BlockCacheAssumption
<1>5. m.tier \in [Blocks -> BlockTiers]
  BY DEF Tables, Moved, BlockTiers
<1>6. m.older \in SUBSET (Blocks \X Blocks) /\ m.hot \in Int /\ m.warm \in Int /\ m.charged \in Int
  BY <1>4 DEF Tables
<1> HIDE DEF m
<1>7. [x \in Blocks |-> IF x \in gone THEN "cold" ELSE m.tier[x]] \in [Blocks -> BlockTiers]
  BY <1>5 DEF BlockTiers
<1>8. Among(m.older, Present(m) \ gone) \in SUBSET (Blocks \X Blocks)
  BY <1>6 DEF Among
<1>9. m.warm - SizeOf(gone) \in Int /\ m.charged - SizeOf(gone) \in Int
  BY <1>3, <1>6
<1>10. d \in Tables
  BY <1>6, <1>7, <1>8, <1>9 DEF Evicted, Tables
<1> QED
  BY <1>1, <1>10

HotRoom(b) == HotBytes - BlockSize[b]
Demotes(c, b, d, s) ==
    /\ Cools(c, d, b) /\ d.warm <= WarmBytes /\ d.charged <= c.charged
    /\ d.hot <= HotRoom(b) \/ InTier(d, "hot") = InTier(c, "hot") \ s

LEMMA DemotionsCool ==
    ASSUME BlockCacheAssumption, NEW b \in Blocks, NEW more \in Int, NEW c, InOrder(c, b, more),
           c.tier[b] = "warm", c.warm <= WarmBytes
    PROVE  LET S == InTier(c, "hot")
               d == MapThenFoldSet(LAMBDA h, acc : IF acc.hot <= HotBytes - BlockSize[b] THEN acc
                                                   ELSE Demoted(acc, h, b),
                                   c, LAMBDA h : h, LAMBDA s : LastTouched(c, s), S)
           IN InOrder(d, b, more) /\ Demotes(c, b, d, S)
<1> DEFINE S == InTier(c, "hot")
           it == CHOOSE it : it = [s \in SUBSET S |->
                    IF s = {} THEN c
                    ELSE IF it[s \ {LastTouched(c, s)}].hot <= HotBytes - BlockSize[b]
                         THEN it[s \ {LastTouched(c, s)}]
                         ELSE Demoted(it[s \ {LastTouched(c, s)}], LastTouched(c, s), b)]
           P == [s \in SUBSET S |-> LastTouched(c, s)]
           Demote(h, acc) == IF acc.hot <= HotRoom(b) THEN acc ELSE Demoted(acc, h, b)
           F == [p \in S \X Tables |-> Demote(p[1], p[2])]
<1>1. MapThenFoldSet(LAMBDA h, acc : IF acc.hot <= HotBytes - BlockSize[b] THEN acc
                                     ELSE Demoted(acc, h, b),
                     c, LAMBDA h : h, LAMBDA s : LastTouched(c, s), S) = it[S]
  BY Zenon DEF MapThenFoldSet
<1>2. /\ S \in SUBSET Blocks /\ IsFiniteSet(S) /\ c \in Tables /\ InTurn(c) /\ S \subseteq Present(c)
  <2>1. S \in SUBSET Blocks /\ S \subseteq Present(c)
    BY DEF InTier, Present
  <2> QED
    BY <2>1, SizesAre DEF InOrder
<1>3. \A s \in SUBSET S : s # {} => LastTouched(c, s) \in s
  <2> HIDE DEF S
  <2> TAKE s \in SUBSET S
  <2> HAVE s # {}
  <2>1. IsFiniteSet(s) /\ TotalOn(c.older, s)
    BY <1>2, FS_Subset, TotalOnPart DEF InTurn
  <2> QED
    BY <2>1, LastTouchedIs
<1>4. Chooses(P, S)
  BY <1>3 DEF Chooses
<1>5. F \in [S \X Tables -> Tables] /\ \A h \in S, acc \in Tables : F[<<h, acc>>] = Demote(h, acc)
  <2> HIDE DEF S
  <2>1. \A h \in S, acc \in Tables : Demote(h, acc) \in Tables
    BY <1>2, DemotionType
  <2> HIDE DEF Demote
  <2> QED
    BY <2>1
<1> HIDE DEF F
<1>6. PICK g \in [SUBSET S -> Tables] : ComputesAlong(g, F, c, S, P)
  <2> HIDE DEF S, P
  <2> QED
    BY <1>2, <1>4, <1>5, FoldAlong
<1> HIDE DEF S
<1>7. \A s \in SUBSET S : s # {} => s \ {LastTouched(c, s)} \in SUBSET S /\ LastTouched(c, s) \in S
  BY <1>3
<1>8. \A s \in SUBSET S : g[s] = IF s = {} THEN c ELSE Demote(LastTouched(c, s), g[s \ {LastTouched(c, s)}])
  <2> HIDE DEF Demote
  <2> QED
    BY <1>5, <1>6, <1>7 DEF ComputesAlong
<1>9. g = [s \in SUBSET S |->
              IF s = {} THEN c
              ELSE IF g[s \ {LastTouched(c, s)}].hot <= HotBytes - BlockSize[b]
                   THEN g[s \ {LastTouched(c, s)}]
                   ELSE Demoted(g[s \ {LastTouched(c, s)}], LastTouched(c, s), b)]
  <2>1. \A s \in SUBSET S : g[s] =
              IF s = {} THEN c
              ELSE IF g[s \ {LastTouched(c, s)}].hot <= HotBytes - BlockSize[b]
                   THEN g[s \ {LastTouched(c, s)}]
                   ELSE Demoted(g[s \ {LastTouched(c, s)}], LastTouched(c, s), b)
    BY <1>8, Zenon DEF HotRoom
  <2> QED
    BY <2>1, Zenon
<1>10. it = [s \in SUBSET S |->
              IF s = {} THEN c
              ELSE IF it[s \ {LastTouched(c, s)}].hot <= HotBytes - BlockSize[b]
                   THEN it[s \ {LastTouched(c, s)}]
                   ELSE Demoted(it[s \ {LastTouched(c, s)}], LastTouched(c, s), b)]
  BY <1>9, Zenon
<1> HIDE DEF it
<1>11. \A s \in SUBSET S : it[s] = IF s = {} THEN c
                                   ELSE Demote(LastTouched(c, s), it[s \ {LastTouched(c, s)}])
  BY <1>10, Zenon DEF HotRoom
<1> DEFINE Good(s) == InOrder(it[s], b, more) /\ Demotes(c, b, it[s], s)
           T == {n \in Nat : \A s \in SUBSET S : Cardinality(s) = n => Good(s)}
<1>12. 0 \in T
  <2>1. \A s \in SUBSET S : Cardinality(s) = 0 => s = {}
    BY <1>2, PartIs
  <2>2. it[{}] = c
    BY <1>11
  <2>3. InTier(c, "hot") \ {} = InTier(c, "hot") /\ c.charged <= c.charged
    BY <1>2 DEF Tables
  <2>4. Demotes(c, b, c, {})
    BY <1>2, <2>3, CoolsItself DEF Demotes
  <2> QED
    BY <2>1, <2>2, <2>4
<1>13. ASSUME NEW n \in T PROVE n + 1 \in T
  <2>1. n \in Nat
    OBVIOUS
  <2> SUFFICES ASSUME NEW s \in SUBSET S, Cardinality(s) = n + 1 PROVE Good(s)
    BY <2>1
  <2> DEFINE h == LastTouched(c, s)
             r == s \ {h}
             e == it[r]
  <2>2. s # {} /\ h \in s /\ r \in SUBSET S /\ Cardinality(r) = n
    <3> HIDE DEF T
    <3>1. s # {}
      BY <1>2, <2>1, PartIs
    <3> QED
      BY <1>2, <1>3, <2>1, <3>1, PartIs
  <2>3. InOrder(e, b, more) /\ Demotes(c, b, e, r)
    BY <2>2
  <2>4. it[s] = Demote(h, e)
    BY <1>11, <2>2
  <2> HIDE DEF h, r, e, T
  <2>5. CASE e.hot <= HotRoom(b)
    BY <2>3, <2>4, <2>5 DEF Demotes
  <2>6. CASE ~(e.hot <= HotRoom(b))
    <3>1. InTier(e, "hot") = InTier(c, "hot") \ r
      BY <2>3, <2>6 DEF Demotes
    <3>2. h \in InTier(e, "hot")
      BY <2>2, <3>1 DEF r, S
    <3>3. e.tier[b] = "warm"
      BY <2>3 DEF Demotes, Cools
    <3> DEFINE d == Demoted(e, h, b)
    <3>4. /\ InOrder(d, b, more) /\ Cools(e, d, b) /\ d.warm <= WarmBytes
          /\ InTier(d, "hot") = InTier(e, "hot") \ {h} /\ d.charged <= e.charged
      <4>1. DemotesOne(e, Demoted(e, h, b), h, b, more)
        BY <2>3, <3>2, <3>3, DemotionCools
      <4> QED
        BY <4>1 DEF DemotesOne
    <3>5. it[s] = d
      BY <2>4, <2>6
    <3> HIDE DEF d
    <3>6. d \in Tables /\ e \in Tables /\ InTurn(c)
      BY <1>2, <2>3, <3>4 DEF InOrder
    <3>7. Cools(c, d, b)
      BY <1>2, <2>3, <3>4, <3>6, CoolsThrough DEF Demotes
    <3>8. d.charged <= c.charged
      BY <1>2, <2>3, <3>4, <3>6 DEF Demotes, Tables
    <3>9. InTier(d, "hot") = InTier(c, "hot") \ s
      BY <2>2, <3>1, <3>4 DEF r
    <3> QED
      BY <3>4, <3>5, <3>7, <3>8, <3>9 DEF Demotes
  <2> QED
    BY <2>5, <2>6
<1>14. T = Nat
  <2> HIDE DEF T
  <2>1. T \in SUBSET Nat
    BY DEF T
  <2> QED
    BY <1>12, <1>13, <2>1, Induction
<1>15. Good(S)
  <2>1. Cardinality(S) \in Nat /\ S \in SUBSET S
    BY <1>2, PartIs
  <2> QED
    BY <1>14, <2>1
<1> QED
  BY <1>1, <1>15 DEF S

(* The block is hot then, and no tier has outgrown its budget.             *)
PromotesOne(c, d, b, more) ==
    /\ InOrder(d, NoBlock, more) /\ d.older = Among(c.older, Present(d))
    /\ d.tier[b] = "hot"
    /\ d.hot <= HotBytes /\ d.warm <= WarmBytes /\ d.charged <= c.charged
    /\ \A x, y \in Blocks : <<x, y>> \in c.older /\ c.tier[x] = "warm" /\ d.tier[y] = "cold"
                            => d.tier[x] # "warm"

LEMMA PromotionFits ==
    ASSUME BlockCacheAssumption, NEW b \in Blocks, NEW more \in Int, NEW c,
           InOrder(c, NoBlock, more), c.tier[b] = "warm", HotBytes > 0, c.warm <= WarmBytes
    PROVE  PromotesOne(c, Promoted(c, b), b, more)
<1> DEFINE out == [c EXCEPT !.warm = @ - BlockSize[b]]
           room == MapThenFoldSet(LAMBDA h, acc : IF acc.hot <= HotBytes - BlockSize[b] THEN acc
                                                  ELSE Demoted(acc, h, b),
                                  out, LAMBDA h : h, LAMBDA s : LastTouched(out, s),
                                  InTier(out, "hot"))
           d == [tier |-> Moved(room, b, "hot"), older |-> room.older,
                 hot |-> room.hot + BlockSize[b], warm |-> room.warm, charged |-> room.charged]
           W == InTier(c, "warm") \ {b}
           H == InTier(c, "hot")
<1>1. /\ c \in Tables /\ InTurn(c) /\ c.hot = SizeOf(H) /\ c.charged = c.hot + c.warm + more
      /\ c.warm = SizeOf(InTier(c, "warm") \ {NoBlock})
      /\ c.hot \in Int /\ c.warm \in Int /\ c.charged \in Int /\ c.tier \in [Blocks -> BlockTiers]
      /\ c.older \in SUBSET (Blocks \X Blocks)
  BY DEF InOrder, Weighed, Tables
<1>2. /\ HotBytes \in Nat /\ WarmBytes \in Nat /\ BlockSize[b] \in Nat \ {0}
      /\ BlockSize[b] <= HotBytes
  BY DEF BlockCacheAssumption
<1>3. /\ out.tier = c.tier /\ out.older = c.older /\ out.hot = c.hot /\ out.charged = c.charged
      /\ out.warm = c.warm - BlockSize[b] /\ out \in Tables
  BY <1>1, <1>2 DEF Tables
<1>4. Promoted(c, b) = d
  <2>1. InTier(c, "hot") = InTier(out, "hot")
    BY <1>3 DEF InTier
  <2> QED
    BY <2>1, Zenon DEF Promoted
<1> HIDE DEF out
<1>5. /\ InTier(out, "hot") = H /\ InTier(out, "warm") \ {b} = W /\ Present(out) = Present(c)
      /\ W \in SUBSET Blocks /\ b \notin W /\ H \in SUBSET Blocks
      /\ InTier(c, "warm") \ {NoBlock} = W \cup {b}
  BY <1>3 DEF InTier, Present, BlockCacheAssumption
<1> HIDE DEF W, H
<1>6. SizeOf(W \cup {b}) = SizeOf(W) + BlockSize[b] /\ SizeOf(W) \in Nat /\ SizeOf(H) \in Nat
  BY <1>5, SizeWith, SizesAre
<1>7. InOrder(out, b, more + BlockSize[b])
  <2>1. out.warm = SizeOf(W)
    <3>1. c.warm = SizeOf(W \cup {b})
      BY <1>1, <1>5
    <3>2. c.warm = SizeOf(W) + BlockSize[b]
      BY <1>6, <3>1
    <3> QED
      BY <1>2, <1>3, <1>6, <3>2
  <2>2. out.charged = out.hot + out.warm + (more + BlockSize[b])
    BY <1>1, <1>2, <1>3
  <2>3. InTurn(out)
    BY <1>1, <1>3, <1>5 DEF InTurn
  <2> QED
    BY <1>1, <1>3, <1>5, <2>1, <2>2, <2>3 DEF InOrder, Weighed
<1>8. InOrder(room, b, more + BlockSize[b]) /\ Demotes(out, b, room, InTier(out, "hot"))
  <2>1. more + BlockSize[b] \in Int /\ out.tier[b] = "warm" /\ out.warm <= WarmBytes
    BY <1>1, <1>2, <1>3
  <2> QED
    BY <1>7, <2>1, DemotionsCool
<1> HIDE DEF room
<1>9. /\ room \in Tables /\ InTurn(room) /\ room.warm = SizeOf(InTier(room, "warm") \ {b})
      /\ room.hot = SizeOf(InTier(room, "hot"))
      /\ room.charged = room.hot + room.warm + (more + BlockSize[b])
      /\ room.hot \in Int /\ room.warm \in Int /\ room.charged \in Int
      /\ room.tier \in [Blocks -> BlockTiers] /\ room.older \in SUBSET (Blocks \X Blocks)
  BY <1>8 DEF InOrder, Weighed, Tables
<1>10. room.tier[b] = "warm"
  BY <1>3, <1>8 DEF Demotes, Cools
<1>11. room.hot <= HotRoom(b)
  <2>1. CASE InTier(room, "hot") = InTier(out, "hot") \ InTier(out, "hot")
    <3>1. InTier(room, "hot") = {}
      BY <2>1
    <3>2. room.hot = 0
      BY <1>9, <3>1, SizeEmpty
    <3> QED
      BY <1>2, <3>2 DEF HotRoom
  <2> QED
    BY <1>8, <2>1 DEF Demotes
<1>12. /\ d.tier[b] = "hot" /\ d.tier \in [Blocks -> BlockTiers]
       /\ \A x \in Blocks \ {b} : d.tier[x] = room.tier[x]
  BY <1>9 DEF Moved, BlockTiers
<1>13. /\ d.older = room.older /\ d.hot = room.hot + BlockSize[b] /\ d.warm = room.warm
       /\ d.charged = room.charged
       /\ d = [tier |-> d.tier, older |-> room.older, hot |-> d.hot, warm |-> room.warm,
               charged |-> room.charged]
  OBVIOUS
<1> HIDE DEF d
<1>14. /\ InTier(d, "hot") = InTier(room, "hot") \cup {b} /\ b \notin InTier(room, "hot")
       /\ InTier(d, "warm") \ {NoBlock} = InTier(room, "warm") \ {b}
       /\ Present(d) = Present(room) /\ InTier(room, "hot") \in SUBSET Blocks
  BY <1>10, <1>12 DEF InTier, Present, BlockCacheAssumption
<1>15. InOrder(d, NoBlock, more)
  <2>1. d.hot = SizeOf(InTier(d, "hot"))
    <3>1. SizeOf(InTier(room, "hot") \cup {b}) = SizeOf(InTier(room, "hot")) + BlockSize[b]
      BY <1>14, SizeWith
    <3> QED
      BY <1>9, <1>13, <1>14, <3>1
  <2>2. d.charged = d.hot + d.warm + more
    BY <1>2, <1>9, <1>13
  <2>3. d \in Tables
    <3>1. d.hot \in Int
      BY <1>2, <1>9, <1>13
    <3> QED
      BY <1>9, <1>12, <1>13, <3>1 DEF Tables
  <2>4. InTurn(d)
    BY <1>9, <1>13, <1>14 DEF InTurn
  <2> QED
    BY <1>9, <1>13, <1>14, <2>1, <2>2, <2>3, <2>4 DEF InOrder, Weighed
<1>16. d.hot <= HotBytes /\ d.warm <= WarmBytes /\ d.charged <= c.charged
  BY <1>2, <1>3, <1>8, <1>9, <1>11, <1>13 DEF HotRoom, Demotes
<1>17. d.older = Among(c.older, Present(d))
  BY <1>3, <1>8, <1>13, <1>14 DEF Demotes, Cools
<1>18. ASSUME NEW x \in Blocks, NEW y \in Blocks, <<x, y>> \in c.older, c.tier[x] = "warm",
              d.tier[y] = "cold"
       PROVE  d.tier[x] # "warm"
  <2>1. CASE x = b
    BY <1>12, <2>1
  <2>2. CASE x # b
    <3>1. room.tier[y] = "cold"
      BY <1>12, <1>18
    <3>2. room.tier[x] = "cold"
      BY <1>3, <1>8, <1>18, <2>2, <3>1 DEF Demotes, Cools
    <3> QED
      BY <1>12, <2>2, <3>2
  <2> QED
    BY <2>1, <2>2
<1> QED
  BY <1>4, <1>12, <1>15, <1>16, <1>17, <1>18 DEF PromotesOne

(* A touch keeps the order of the others.                                  *)
LEMMA NewestIs ==
    ASSUME NEW c, InTurn(c), NEW b \in Blocks
    PROVE  LET R == Newest(c, b)
               S == Present(c) \cup {b}
           IN /\ R \in SUBSET (S \X S) /\ TotalOn(R, S)
              /\ \A x \in Present(c) \ {b} : <<x, b>> \in R
              /\ \A x, y \in Blocks \ {b} : <<x, y>> \in R <=> <<x, y>> \in c.older
<1> DEFINE R == Newest(c, b)
           S == Present(c) \cup {b}
           old == Present(c) \ {b}
<1>1. c.older \subseteq Present(c) \X Present(c) /\ TotalOn(c.older, Present(c))
  BY DEF InTurn
<1>2. \A x, y : <<x, y>> \in R <=> \/ x \in old /\ y \in old /\ <<x, y>> \in c.older
                                   \/ x \in old /\ y = b
  BY <1>1 DEF Newest, Among, Present
<1>3. R \in SUBSET (S \X S)
  BY <1>1 DEF Newest, Among
<1> HIDE DEF R
<1>4. TotalOn(R, S)
  BY <1>1, <1>2 DEF TotalOn
<1>5. Present(c) \in SUBSET Blocks
  BY DEF Present
<1>6. \A x, y \in Blocks \ {b} : <<x, y>> \in R <=> <<x, y>> \in c.older
  BY <1>1, <1>2
<1> QED
  BY <1>2, <1>3, <1>4, <1>6 DEF R
------------------------------------------------------------------------------
(* The tiers are ordered, counted and within their budgets; the last read  *)
(* left its block where it should be.                                      *)
BlockInv ==
    /\ InOrder(cache, NoBlock, lost) /\ lost \in Nat /\ BudgetsKept
    /\ last \in [block : Blocks, was : {"cold", "warm", "hot"}] \cup {NoRead}
    /\ ReadAgainIsHot

BlockTyped ==
    /\ cache \in Tables /\ InTurn(cache)
    /\ cache.warm = SizeOf(InTier(cache, "warm")) /\ cache.hot = SizeOf(InTier(cache, "hot"))
    /\ cache.charged = cache.hot + cache.warm + lost
    /\ cache.tier \in [Blocks -> BlockTiers]
    /\ cache.hot \in Nat /\ cache.warm \in Nat /\ cache.charged \in Nat
    /\ HotBytes \in Nat /\ WarmBytes \in Nat
    /\ InTier(cache, "hot") \in SUBSET Blocks /\ InTier(cache, "warm") \in SUBSET Blocks

LEMMA BlockInvIs ==
    ASSUME BlockCacheAssumption, BlockInv PROVE BlockTyped
<1>1. /\ cache \in Tables /\ InTurn(cache) /\ cache.warm = SizeOf(InTier(cache, "warm") \ {NoBlock})
      /\ cache.hot = SizeOf(InTier(cache, "hot")) /\ cache.charged = cache.hot + cache.warm + lost
      /\ cache.tier \in [Blocks -> BlockTiers] /\ lost \in Nat
  BY DEF BlockInv, InOrder, Weighed, Tables
<1>2. InTier(cache, "warm") \ {NoBlock} = InTier(cache, "warm")
  BY DEF InTier, BlockCacheAssumption
<1>3. InTier(cache, "hot") \in SUBSET Blocks /\ InTier(cache, "warm") \in SUBSET Blocks
  BY DEF InTier
<1>4. cache.hot \in Nat /\ cache.warm \in Nat
  <2>1. SizeOf(InTier(cache, "hot")) \in Nat /\ SizeOf(InTier(cache, "warm")) \in Nat
    BY <1>3, SizesAre
  <2> QED
    BY <1>1, <1>2, <2>1
<1>5. cache.charged \in Nat
  BY <1>1, <1>4
<1> QED
  BY <1>1, <1>2, <1>3, <1>4, <1>5 DEF BlockTyped, BlockCacheAssumption

LEMMA BlocksStart ==
    ASSUME BlockCacheAssumption, BlockInit PROVE BlockInv
<1>1. /\ cache.tier = [x \in Blocks |-> "cold"] /\ cache.older = {} /\ cache.hot = 0
      /\ cache.warm = 0 /\ cache.charged = 0 /\ cache = NoBlocks /\ lost = 0 /\ last = NoRead
  BY DEF BlockInit, NoBlocks
<1>2. InTier(cache, "warm") \ {NoBlock} = {} /\ InTier(cache, "hot") = {} /\ Present(cache) = {}
  BY <1>1 DEF InTier, Present
<1>3. cache \in Tables
  BY <1>1 DEF NoBlocks, Tables, BlockTiers
<1>4. InTurn(cache)
  BY <1>1, <1>2 DEF InTurn, TotalOn
<1>5. Weighed(cache, NoBlock, lost)
  BY <1>1, <1>2, SizeEmpty DEF Weighed
<1> QED
  BY <1>1, <1>3, <1>4, <1>5 DEF BlockInv, InOrder, BudgetsKept, ReadAgainIsHot, BlockCacheAssumption

(* What OlderGoesFirst says of one step.                                   *)
OlderWent ==
    \A x, y \in Blocks :
        <<x, y>> \in cache.older /\ cache.tier[x] = "warm" /\ cache'.tier[y] = "cold"
        => cache'.tier[x] # "warm"

LEMMA ResidentRead ==
    ASSUME BlockCacheAssumption, BlockInv, NEW b \in Blocks, ReadResident(b)
    PROVE  BlockInv' /\ OlderWent
<1> DEFINE was == cache.tier[b]
           c == Touched(cache, b)
<1>1. BlockTyped /\ BudgetsKept /\ lost \in Nat
  BY BlockInvIs DEF BlockInv
<1>2. /\ was # "cold" /\ lost' = lost /\ last' = [block |-> b, was |-> was]
      /\ cache' = IF was = "warm" /\ HotBytes > 0 THEN Promoted(c, b) ELSE c
  BY DEF ReadResident
<1>3. was \in BlockTiers
  BY <1>1 DEF BlockTyped
<1>4. /\ c.tier = cache.tier /\ c.hot = cache.hot /\ c.warm = cache.warm /\ c.charged = cache.charged
      /\ c.older = Newest(cache, b) /\ c = [cache EXCEPT !.older = Newest(cache, b)]
  BY <1>1 DEF Touched, BlockTyped, Tables
<1> HIDE DEF c
<1>5. /\ Present(c) = Present(cache) /\ InTier(c, "hot") = InTier(cache, "hot")
      /\ InTier(c, "warm") \ {NoBlock} = InTier(cache, "warm")
      /\ b \in Present(c) /\ Present(cache) \cup {b} = Present(cache)
      /\ Present(cache) \in SUBSET Blocks
  BY <1>2, <1>4 DEF Present, InTier, BlockCacheAssumption
<1>6. /\ c.older \in SUBSET (Present(c) \X Present(c)) /\ TotalOn(c.older, Present(c))
      /\ \A x \in Present(c) \ {b} : <<x, b>> \in c.older
      /\ \A x, y \in Blocks \ {b} : <<x, y>> \in c.older <=> <<x, y>> \in cache.older
  BY <1>1, <1>4, <1>5, NewestIs DEF BlockTyped
<1>7. InOrder(c, NoBlock, lost)
  <2>1. c.older \in SUBSET (Blocks \X Blocks)
    BY <1>5, <1>6
  <2>2. c \in Tables
    BY <1>1, <1>4, <2>1 DEF BlockTyped, Tables
  <2> QED
    BY <1>1, <1>4, <1>5, <1>6, <2>2 DEF InOrder, InTurn, Weighed, BlockTyped
<1>8. was = "hot" => HotBytes > 0
  <2> SUFFICES ASSUME was = "hot" PROVE HotBytes > 0
    OBVIOUS
  <2> DEFINE H == InTier(cache, "hot")
             r == H \ {b}
  <2>1. H \in SUBSET Blocks /\ b \in H /\ r \in SUBSET Blocks /\ b \notin r /\ H = r \cup {b}
    BY DEF InTier
  <2> HIDE DEF H, r
  <2>2. SizeOf(r \cup {b}) = SizeOf(r) + BlockSize[b] /\ BlockSize[b] \in Nat \ {0} /\ SizeOf(r) \in Nat
    BY <2>1, SizeWith, SizesAre
  <2>3. cache.hot = SizeOf(H) /\ cache.hot <= HotBytes /\ HotBytes \in Nat
    BY <1>1 DEF H, BlockTyped, BudgetsKept
  <2> QED
    BY <2>1, <2>2, <2>3
<1>9. CASE was = "warm" /\ HotBytes > 0
  <2>1. cache' = Promoted(c, b)
    BY <1>2, <1>9
  <2>2. PromotesOne(c, cache', b, lost)
    <3>1. c.tier[b] = "warm" /\ c.warm <= WarmBytes /\ lost \in Int
      BY <1>1, <1>4, <1>9 DEF BudgetsKept
    <3> QED
      BY <1>7, <1>9, <2>1, <3>1, PromotionFits
  <2>3. InOrder(cache', NoBlock, lost') /\ lost' \in Nat
    BY <1>1, <1>2, <2>2 DEF PromotesOne
  <2>4. BudgetsKept'
    <3>1. cache'.charged <= c.charged /\ cache'.hot <= HotBytes /\ cache'.warm <= WarmBytes
      BY <2>2 DEF PromotesOne
    <3>2. cache'.charged \in Int /\ c.charged \in Nat /\ HotBytes \in Nat /\ WarmBytes \in Nat
      BY <1>1, <1>4, <2>3 DEF InOrder, Tables, BlockTyped
    <3>3. c.charged <= HotBytes + WarmBytes
      BY <1>1, <1>4 DEF BudgetsKept
    <3>4. cache'.charged <= HotBytes + WarmBytes
      BY <3>1, <3>2, <3>3
    <3> QED
      BY <3>1, <3>4 DEF BudgetsKept
  <2>5. ReadAgainIsHot'
    <3>1. cache'.tier[b] = "hot" /\ cache'.older = Among(c.older, Present(cache'))
      BY <2>2 DEF PromotesOne
    <3>2. b \in Present(cache') /\ Present(cache') \subseteq Blocks
      BY <3>1 DEF Present
    <3>3. cache'.older \in SUBSET (Present(c) \X Present(c)) /\ InTurn(cache')
      BY <1>6, <2>3, <3>1 DEF Among, InOrder
    <3>4. \A x \in Present(cache') \ {b} : <<x, b>> \in cache'.older
      <4> SUFFICES ASSUME NEW x \in Present(cache') \ {b} PROVE <<x, b>> \in cache'.older
        OBVIOUS
      <4>1. <<x, b>> \in cache'.older \/ <<b, x>> \in cache'.older
        BY <3>2, <3>3 DEF InTurn, TotalOn
      <4>2. x \in Present(c)
        BY <3>3, <4>1
      <4>3. <<x, b>> \in c.older
        BY <1>6, <4>2
      <4> QED
        BY <3>1, <3>2, <4>3 DEF Among
    <3> QED
      BY <1>2, <1>9, <3>1, <3>4 DEF ReadAgainIsHot, Present
  <2>6. OlderWent
    <3> SUFFICES ASSUME NEW x \in Blocks, NEW y \in Blocks, <<x, y>> \in cache.older,
                        cache.tier[x] = "warm", cache'.tier[y] = "cold"
                 PROVE  cache'.tier[x] # "warm"
      BY DEF OlderWent
    <3>1. cache'.tier[b] = "hot"
      BY <2>2 DEF PromotesOne
    <3>2. CASE x = b
      BY <3>1, <3>2
    <3>3. CASE x # b
      <4>1. y # b
        BY <3>1
      <4>2. <<x, y>> \in c.older /\ c.tier[x] = "warm"
        BY <1>4, <1>6, <3>3, <4>1
      <4> QED
        BY <2>2, <4>2 DEF PromotesOne
    <3> QED
      BY <3>2, <3>3
  <2>7. last' \in [block : Blocks, was : {"cold", "warm", "hot"}]
    BY <1>2, <1>3 DEF BlockTiers
  <2> QED
    BY <2>3, <2>4, <2>5, <2>6, <2>7 DEF BlockInv
<1>10. CASE ~(was = "warm" /\ HotBytes > 0)
  <2>1. cache' = c /\ HotBytes \in Nat
    BY <1>1, <1>2, <1>10 DEF BlockTyped
  <2>2. ReadAgainIsHot'
    <3>1. cache'.tier[b] = IF was = "cold" \/ HotBytes = 0 THEN "warm" ELSE "hot"
      BY <1>2, <1>3, <1>4, <1>8, <1>10, <2>1 DEF BlockTiers
    <3> QED
      BY <1>2, <1>5, <1>6, <2>1, <3>1 DEF ReadAgainIsHot, Present
  <2>3. OlderWent
    BY <1>1, <1>4, <2>1 DEF OlderWent, BlockTyped, InTurn, Present
  <2>4. BudgetsKept'
    BY <1>1, <1>4, <2>1 DEF BudgetsKept
  <2>5. last' \in [block : Blocks, was : {"cold", "warm", "hot"}]
    BY <1>2, <1>3 DEF BlockTiers
  <2> QED
    BY <1>1, <1>2, <1>7, <2>1, <2>2, <2>3, <2>4, <2>5 DEF BlockInv
<1> QED
  BY <1>9, <1>10

(* Room in the warm tier goes from the oldest block.                       *)
LEMMA RoomIsMade ==
    ASSUME BlockCacheAssumption, BlockInv, NEW b \in Blocks, WarmBytes > 0
    PROVE  LET c == MadeRoom(b) IN
           /\ InOrder(c, NoBlock, lost) /\ c.hot <= HotBytes /\ c.warm + BlockSize[b] <= WarmBytes
           /\ c.charged <= HotBytes + WarmBytes /\ c.older = Among(cache.older, Present(c))
           /\ \A x \in Blocks : cache.tier[x] = "cold" => c.tier[x] = "cold"
           /\ \A x, y \in Blocks : /\ <<x, y>> \in cache.older /\ cache.tier[x] = "warm"
                                   /\ c.tier[y] = "cold"
                                   => c.tier[x] = "cold"
<1> DEFINE n == WarmBytes - BlockSize[b]
           c == EvictedTo(cache, n, NoBlock)
<1>1. n \in Nat /\ BlockSize[b] \in Nat /\ WarmBytes \in Nat /\ HotBytes \in Nat
      /\ n + BlockSize[b] = WarmBytes
  BY DEF BlockCacheAssumption
<1> HIDE DEF n
<1>2. InOrder(cache, NoBlock, lost) /\ lost \in Int /\ BudgetsKept /\ NoBlock \notin Blocks
  BY DEF BlockInv, BlockCacheAssumption
<1>3. /\ InOrder(c, NoBlock, lost) /\ Cools(cache, c, NoBlock) /\ c.warm <= n /\ c.hot = cache.hot
      /\ c.charged <= cache.charged
  BY <1>1, <1>2, EvictionCools
<1>4. MadeRoom(b) = c
  BY Zenon DEF MadeRoom, n
<1> HIDE DEF c
<1>5. c.hot \in Int /\ c.warm \in Int /\ c.charged \in Int /\ cache.charged \in Int
  BY <1>2, <1>3 DEF InOrder, Tables
<1>6. c.hot <= HotBytes /\ c.warm + BlockSize[b] <= WarmBytes /\ c.charged <= HotBytes + WarmBytes
  BY <1>1, <1>2, <1>3, <1>5 DEF BudgetsKept
<1>7. \A x, y \in Blocks : /\ <<x, y>> \in cache.older /\ cache.tier[x] = "warm"
                           /\ c.tier[y] = "cold"
                           => c.tier[x] = "cold"
  <2>1. \A x \in Blocks : x # NoBlock
    BY <1>2
  <2>2. \A x, y \in Blocks : /\ <<x, y>> \in cache.older /\ cache.tier[x] = "warm" /\ x # NoBlock
                             /\ c.tier[y] = "cold"
                             => c.tier[x] = "cold"
    BY <1>3 DEF Cools
  <2> QED
    BY <2>1, <2>2
<1> QED
  BY <1>3, <1>4, <1>6, <1>7 DEF Cools

LEMMA ColdRead ==
    ASSUME BlockCacheAssumption, BlockInv, NEW b \in Blocks, NEW throws \in BOOLEAN,
           ReadCold(b, throws)
    PROVE  BlockInv' /\ OlderWent
<1> DEFINE c == MadeRoom(b)
<1>1. BlockTyped /\ lost \in Nat
  BY BlockInvIs DEF BlockInv
<1>2. cache.tier[b] = "cold" /\ WarmBytes > 0
  BY DEF ReadCold
<1>3. /\ InOrder(c, NoBlock, lost) /\ c.hot <= HotBytes /\ c.warm + BlockSize[b] <= WarmBytes
      /\ c.charged <= HotBytes + WarmBytes /\ c.older = Among(cache.older, Present(c))
      /\ \A x \in Blocks : cache.tier[x] = "cold" => c.tier[x] = "cold"
      /\ \A x, y \in Blocks : /\ <<x, y>> \in cache.older /\ cache.tier[x] = "warm"
                              /\ c.tier[y] = "cold"
                              => c.tier[x] = "cold"
  BY <1>2, RoomIsMade
<1>4. /\ \/ /\ cache' = c /\ last' = NoRead /\ lost' = lost
         \/ /\ cache' = [c EXCEPT !.charged = @ + BlockSize[b]] /\ Reserves(c, BlockSize[b])
            /\ lost' = lost + BlockSize[b] /\ last' = NoRead
         \/ /\ cache' = Admitted(c, b) /\ Reserves(c, BlockSize[b])
            /\ last' = [block |-> b, was |-> "cold"] /\ lost' = lost
  BY Zenon DEF ReadCold
<1> HIDE DEF c
<1>5. /\ c \in Tables /\ InTurn(c) /\ c.warm = SizeOf(InTier(c, "warm") \ {NoBlock})
      /\ c.hot = SizeOf(InTier(c, "hot")) /\ c.charged = c.hot + c.warm + lost
      /\ c.tier \in [Blocks -> BlockTiers] /\ c.hot \in Int /\ c.warm \in Int /\ c.charged \in Int
      /\ c.older \in SUBSET (Blocks \X Blocks)
  BY <1>3 DEF InOrder, Weighed, Tables
<1>6. /\ BlockSize[b] \in Nat \ {0} /\ HotBytes \in Nat /\ WarmBytes \in Nat
      /\ NoBlock \notin Blocks /\ c.warm <= WarmBytes
  <2>1. BlockSize[b] \in Nat \ {0} /\ HotBytes \in Nat /\ WarmBytes \in Nat
    BY DEF BlockCacheAssumption
  <2> QED
    BY <1>3, <1>5, <2>1 DEF BlockCacheAssumption
<1>7. c.tier[b] = "cold"
  BY <1>2, <1>3
<1>8. \A x, y \in Blocks : <<x, y>> \in cache.older => x # b /\ y # b
  BY <1>1, <1>2 DEF BlockTyped, InTurn, Present
<1>9. ASSUME \A x \in Blocks \ {b} : cache'.tier[x] = c.tier[x] PROVE OlderWent
  BY <1>3, <1>8, <1>9 DEF OlderWent
<1>10. CASE cache' = c /\ last' = NoRead /\ lost' = lost
  BY <1>1, <1>3, <1>6, <1>9, <1>10 DEF BlockInv, BudgetsKept, ReadAgainIsHot
<1>11. CASE /\ cache' = [c EXCEPT !.charged = @ + BlockSize[b]] /\ Reserves(c, BlockSize[b])
            /\ lost' = lost + BlockSize[b] /\ last' = NoRead
  <2>1. /\ cache'.tier = c.tier /\ cache'.older = c.older /\ cache'.hot = c.hot
        /\ cache'.warm = c.warm /\ cache'.charged = c.charged + BlockSize[b] /\ cache' \in Tables
    BY <1>5, <1>6, <1>11 DEF Tables
  <2>2. /\ Present(cache') = Present(c) /\ InTier(cache', "hot") = InTier(c, "hot")
        /\ InTier(cache', "warm") = InTier(c, "warm")
    BY <2>1 DEF Present, InTier
  <2>3. InTurn(cache')
    BY <1>5, <2>1, <2>2 DEF InTurn
  <2>4. cache'.charged = cache'.hot + cache'.warm + lost' /\ lost' \in Nat
    BY <1>1, <1>5, <1>6, <1>11, <2>1
  <2>5. InOrder(cache', NoBlock, lost')
    BY <1>5, <2>1, <2>2, <2>3, <2>4 DEF InOrder, Weighed
  <2>6. BudgetsKept'
    BY <1>3, <1>6, <1>11, <2>1 DEF BudgetsKept, Reserves
  <2> QED
    BY <1>9, <1>11, <2>1, <2>4, <2>5, <2>6 DEF BlockInv, ReadAgainIsHot
<1>12. CASE /\ cache' = Admitted(c, b) /\ Reserves(c, BlockSize[b])
            /\ last' = [block |-> b, was |-> "cold"] /\ lost' = lost
  <2>1. /\ cache'.tier = Moved(c, b, "warm") /\ cache'.older = Newest(c, b) /\ cache'.hot = c.hot
        /\ cache'.warm = c.warm + BlockSize[b] /\ cache'.charged = c.charged + BlockSize[b]
        /\ cache' = [tier |-> cache'.tier, older |-> cache'.older, hot |-> cache'.hot,
                     warm |-> cache'.warm, charged |-> cache'.charged]
    BY <1>12 DEF Admitted
  <2>2. /\ cache'.tier[b] = "warm" /\ cache'.tier \in [Blocks -> BlockTiers]
        /\ \A x \in Blocks \ {b} : cache'.tier[x] = c.tier[x]
    BY <1>5, <2>1 DEF Moved, BlockTiers
  <2> DEFINE W == InTier(c, "warm") \ {NoBlock}
  <2>3. /\ Present(cache') = Present(c) \cup {b} /\ InTier(cache', "hot") = InTier(c, "hot")
        /\ InTier(cache', "warm") \ {NoBlock} = W \cup {b} /\ b \notin W /\ W \in SUBSET Blocks
        /\ Present(c) \in SUBSET Blocks
    BY <1>6, <1>7, <2>2 DEF Present, InTier
  <2> HIDE DEF W
  <2>4. /\ cache'.older \in SUBSET (Present(cache') \X Present(cache'))
        /\ TotalOn(cache'.older, Present(cache'))
        /\ \A x \in Present(c) \ {b} : <<x, b>> \in cache'.older
    <3>1. /\ Newest(c, b) \in SUBSET ((Present(c) \cup {b}) \X (Present(c) \cup {b}))
          /\ TotalOn(Newest(c, b), Present(c) \cup {b})
          /\ \A x \in Present(c) \ {b} : <<x, b>> \in Newest(c, b)
      BY <1>5, NewestIs
    <3> QED
      BY <2>1, <2>3, <3>1
  <2>5. InTurn(cache')
    BY <2>4 DEF InTurn
  <2>6. cache'.warm = SizeOf(InTier(cache', "warm") \ {NoBlock})
    <3>1. SizeOf(W \cup {b}) = SizeOf(W) + BlockSize[b]
      BY <2>3, SizeWith
    <3> QED
      BY <1>5, <2>1, <2>3, <3>1 DEF W
  <2>7. /\ cache'.hot = SizeOf(InTier(cache', "hot"))
        /\ cache'.charged = cache'.hot + cache'.warm + lost'
    BY <1>1, <1>5, <1>6, <1>12, <2>1, <2>3
  <2>8. cache' \in Tables
    <3>1. cache'.hot \in Int /\ cache'.warm \in Int /\ cache'.charged \in Int
      BY <1>5, <1>6, <2>1
    <3>2. cache'.older \in SUBSET (Blocks \X Blocks)
      BY <2>3, <2>4
    <3> QED
      BY <2>1, <2>2, <3>1, <3>2 DEF Tables
  <2>9. BudgetsKept'
    BY <1>3, <1>6, <1>12, <2>1 DEF BudgetsKept, Reserves
  <2>10. ReadAgainIsHot'
    BY <1>12, <2>2, <2>3, <2>4 DEF ReadAgainIsHot
  <2>11. last' \in [block : Blocks, was : {"cold", "warm", "hot"}]
    BY <1>12
  <2> QED
    BY <1>1, <1>9, <1>12, <2>2, <2>5, <2>6, <2>7, <2>8, <2>9, <2>10, <2>11
       DEF BlockInv, InOrder, Weighed
<1> QED
  BY <1>4, <1>10, <1>11, <1>12

LEMMA AllEvicted ==
    ASSUME BlockCacheAssumption, BlockInv, EvictAll PROVE BlockInv' /\ OlderWent
<1> DEFINE n == cache.charged - SizeOf(Present(cache))
           H == InTier(cache, "hot")
           W == InTier(cache, "warm")
           S == Present(cache)
<1>1. BlockTyped /\ lost \in Nat /\ BudgetsKept
  BY BlockInvIs DEF BlockInv
<1>2. H \in SUBSET S /\ S \ H = W /\ S \in SUBSET Blocks
  BY <1>1 DEF BlockTyped, InTier, Present, BlockTiers
<1>3. SizeOf(S) = cache.hot + cache.warm
  <2> HIDE DEF H, W, S
  <2>1. SizeOf(S) = SizeOf(H) + SizeOf(W)
    BY <1>2, SizeSplit
  <2>2. cache.hot = SizeOf(H) /\ cache.warm = SizeOf(W)
    BY <1>1 DEF BlockTyped, H, W
  <2> QED
    BY <2>1, <2>2
<1>4. n = lost
  BY <1>1, <1>3 DEF BlockTyped
<1>5. cache' = [NoBlocks EXCEPT !.charged = n] /\ last' = NoRead /\ lost' = lost
  BY DEF EvictAll
<1> HIDE DEF n
<1>6. /\ cache'.tier = [x \in Blocks |-> "cold"] /\ cache'.older = {} /\ cache'.hot = 0
      /\ cache'.warm = 0 /\ cache'.charged = lost /\ cache' \in Tables
  BY <1>1, <1>4, <1>5 DEF NoBlocks, Tables, BlockTiers
<1>7. InTier(cache', "warm") \ {NoBlock} = {} /\ InTier(cache', "hot") = {} /\ Present(cache') = {}
  BY <1>6 DEF InTier, Present
<1>8. InTurn(cache')
  BY <1>6, <1>7 DEF InTurn, TotalOn
<1>9. Weighed(cache', NoBlock, lost')
  <2>1. cache'.charged = cache'.hot + cache'.warm + lost'
    BY <1>1, <1>5, <1>6
  <2>2. cache'.warm = SizeOf({}) /\ cache'.hot = SizeOf({})
    BY <1>6, SizeEmpty
  <2> QED
    BY <1>7, <2>1, <2>2 DEF Weighed
<1>10. BudgetsKept'
  BY <1>1, <1>6 DEF BudgetsKept, BlockTyped
<1> QED
  BY <1>1, <1>5, <1>6, <1>8, <1>9, <1>10 DEF BlockInv, InOrder, ReadAgainIsHot, OlderWent

LEMMA BlockStep ==
    ASSUME BlockCacheAssumption, BlockInv, [BlockNext]_blockVars
    PROVE  BlockInv' /\ (BlockNext => OlderWent)
<1>1. CASE UNCHANGED blockVars
  <2>1. cache' = cache /\ last' = last /\ lost' = lost /\ BlockTyped
    BY <1>1, BlockInvIs DEF blockVars
  <2>2. BlockInv'
    BY <2>1 DEF BlockInv, BudgetsKept, ReadAgainIsHot
  <2>3. OlderWent
    BY <2>1 DEF OlderWent, BlockTyped, InTurn, Present
  <2> QED
    BY <2>2, <2>3
<1>2. CASE BlockNext
  <2>1. ASSUME NEW b \in Blocks, ReadUncached(b) PROVE BlockInv' /\ OlderWent
    <3>1. UNCHANGED blockVars
      BY <2>1 DEF ReadUncached
    <3>2. cache' = cache /\ BlockTyped
      BY <3>1, BlockInvIs DEF blockVars
    <3>3. OlderWent
      BY <3>2 DEF OlderWent, BlockTyped, InTurn, Present
    <3> QED
      BY <1>1, <3>1, <3>3
  <2> QED
    BY <1>2, <2>1, ResidentRead, ColdRead, AllEvicted DEF BlockNext
<1> QED
  BY <1>1, <1>2

(* Whatever is read, the bytes of the tiers and of the ledger are those of *)
(* the blocks that are present, neither tier outgrows its budget, and the  *)
(* block of the last read is where it should be: a second read finds it    *)
(* hot, last to go.                                                        *)
THEOREM BlocksAreAccounted ==
    ASSUME BlockCacheAssumption
    PROVE  BlockSpec => [](BlockCacheTypeOK /\ BytesExact /\ BudgetsKept /\ ReadAgainIsHot)
<1>1. BlockInit => BlockInv
  BY BlocksStart
<1>2. BlockInv /\ [BlockNext]_blockVars => BlockInv'
  BY BlockStep
<1>3. BlockInv => BlockCacheTypeOK /\ BytesExact /\ BudgetsKept /\ ReadAgainIsHot
  <2> SUFFICES ASSUME BlockInv PROVE BlockCacheTypeOK /\ BytesExact
    BY DEF BlockInv
  <2>1. BlockTyped
    BY BlockInvIs
  <2> QED
    BY <2>1 DEF BlockTyped, BlockInv, BlockCacheTypeOK, BytesExact, InTurn, TotalOn, BlockTiers
<1> QED
  BY <1>1, <1>2, <1>3, PTL DEF BlockSpec

(* No read lets a younger block go while an older warm one stays: evicting *)
(* from the oldest block, a promotion included, means what it says.        *)
THEOREM OlderAlwaysGoesFirst ==
    ASSUME BlockCacheAssumption
    PROVE  BlockSpec => OlderGoesFirst
<1>1. BlockInit => BlockInv
  BY BlocksStart
<1>2. BlockInv /\ [BlockNext]_blockVars => BlockInv'
  BY BlockStep
<1>3. BlockInv /\ [BlockNext]_blockVars => [OlderWent]_blockVars
  BY BlockStep
<1>4. [OlderWent]_blockVars <=>
      [\A x, y \in Blocks :
          <<x, y>> \in cache.older /\ cache.tier[x] = "warm" /\ cache'.tier[y] = "cold"
          => cache'.tier[x] # "warm"]_blockVars
  BY DEF OlderWent
<1> QED
  BY <1>1, <1>2, <1>3, <1>4, PTL DEF BlockSpec, OlderGoesFirst
==============================================================================
