-------------------------- MODULE ForegroundPoolProofs --------------------------
(***************************************************************************)
(* Proofs about the foreground layout mailbox, for any sessions, request   *)
(* identities and budget: it keeps the newest-request promise and counts   *)
(* its bytes exactly.  Then about ForegroundLayoutPool, for any number of  *)
(* client threads and workers: it uses the mailbox only as the mailbox     *)
(* allows, so that both hold of the whole; a session is run by at most one *)
(* worker, which finds it in place; no wakeup is lost.  When identities    *)
(* are not reused a session is queued once; when a session is one thread's *)
(* no request of it is stranded; and under both a run requeues its session *)
(* only for a request that waits.                                          *)
(***************************************************************************)
EXTENDS ForegroundLayoutPool, SetFolds

(* Identities and charges are positive; zero stands for "none".            *)
LEMMA ConstantsArePositive ==
    /\ \A id \in RequestIds : id \in Nat /\ id > 0
    /\ \A size \in Charges : size \in Nat /\ size > 0
    /\ MaxReadyBytes \in Nat
  BY HandoffAssumption

(* The fields of a mailbox, as the provers need them.                      *)
LEMMA MailboxFields ==
    ASSUME NEW m \in Mailbox
    PROVE  /\ m.latest \in Nat /\ m.pending \in Nat /\ m.running \in Nat
           /\ m.ready \in Nat /\ m.charge \in Nat
           /\ m.open \in BOOLEAN /\ m.active \in BOOLEAN /\ m.invalidated \in BOOLEAN
  <1>1. \A id \in MaybeId : id \in Nat
    BY ConstantsArePositive DEF MaybeId
  <1>2. \A size \in Charges \cup {0} : size \in Nat
    BY ConstantsArePositive
  <1>3. /\ m.latest \in MaybeId /\ m.pending \in MaybeId /\ m.running \in MaybeId
        /\ m.ready \in MaybeId /\ m.charge \in Charges \cup {0}
        /\ m.open \in BOOLEAN /\ m.active \in BOOLEAN /\ m.invalidated \in BOOLEAN
    BY DEF Mailbox
  <1>4. QED BY <1>1, <1>2, <1>3

LEMMA SameFields ==
    ASSUME NEW m \in Mailbox, NEW n \in Mailbox,
           m.open = n.open, m.active = n.active, m.latest = n.latest,
           m.pending = n.pending, m.running = n.running,
           m.invalidated = n.invalidated, m.ready = n.ready, m.charge = n.charge
    PROVE  m = n
  BY DEF Mailbox

(* Giving a result back leaves the byte count within the budget.           *)
LEMMA BytesWithoutType ==
    ASSUME NEW m \in Mailbox, readyBytes \in 0..MaxReadyBytes
    PROVE  BytesWithout(m) \in 0..MaxReadyBytes
  BY MailboxFields, ConstantsArePositive DEF BytesWithout

(* Each helper on a mailbox returns a mailbox.                             *)
LEMMA MailboxHelpersType ==
    ASSUME NEW m \in Mailbox
    PROVE  /\ WithoutReady(m) \in Mailbox
           /\ Unclaimed(m) \in Mailbox
           /\ Hidden(m) \in Mailbox
           /\ Claimed(m) \in Mailbox
  BY ZenonT(60) DEF WithoutReady, Unclaimed, Hidden, Claimed, Mailbox, MaybeId

LEMMA NewMailboxType ==
    /\ NoMailbox \in Mailbox
    /\ \A active \in BOOLEAN : NewMailbox(active) \in Mailbox
  BY DEF NoMailbox, NewMailbox, Mailbox, MaybeId

(* The charges, session by session; RetainedBytes is their sum.            *)
ChargeOf == [s \in Sessions |-> mail[s].charge]

LEMMA RetainedIsSum ==
    HandoffTypeOK => /\ Counts(ChargeOf, Sessions)
                     /\ RetainedBytes = SumOf(ChargeOf, Sessions)
                     /\ RetainedBytes \in Nat
  <1> SUFFICES ASSUME HandoffTypeOK
               PROVE  /\ Counts(ChargeOf, Sessions)
                      /\ RetainedBytes = SumOf(ChargeOf, Sessions)
                      /\ RetainedBytes \in Nat
    OBVIOUS
  <1> DEFINE it == CHOOSE it : it = [S \in SUBSET Sessions |->
                      IF S = {} THEN 0 ELSE mail[Pick(S)].charge + it[S \ {Pick(S)}]]
             g == Summed(ChargeOf, Sessions)
  <1>1. RetainedBytes = it[Sessions]
    BY Zenon DEF RetainedBytes, MapThenSumSet, MapThenFoldSet, Pick
  <1>2. Counts(ChargeOf, Sessions) /\ \A s \in Sessions : ChargeOf[s] = mail[s].charge
    BY MailboxFields DEF ChargeOf, HandoffTypeOK, Counts
  <1>3. IsFiniteSet(Sessions)
    BY HandoffAssumption
  <1>4. Sums(g, ChargeOf, Sessions)
    BY <1>2, <1>3, SummedIs
  <1>5. \A S \in SUBSET Sessions : S # {} => ChargeOf[Pick(S)] = mail[Pick(S)].charge
    BY <1>2, PickIs
  <1> HIDE DEF g
  <1>6. g = [S \in SUBSET Sessions |->
               IF S = {} THEN 0 ELSE mail[Pick(S)].charge + g[S \ {Pick(S)}]]
    BY <1>4, <1>5 DEF Sums
  <1>7. it = [S \in SUBSET Sessions |->
                IF S = {} THEN 0 ELSE mail[Pick(S)].charge + it[S \ {Pick(S)}]]
    BY <1>6, Zenon
  <1> HIDE DEF it
  <1>8. Adds(it, ChargeOf, Sessions)
    BY <1>5, <1>7 DEF Adds
  <1>9. RetainedBytes = SumOf(ChargeOf, Sessions)
    BY <1>1, <1>2, <1>3, <1>8, SumIs
  <1>10. SumOf(ChargeOf, Sessions) \in Nat
    BY <1>2, <1>3, SumType
  <1>11. QED
    BY <1>2, <1>9, <1>10

LEMMA HandoffTypeStep == HandoffTypeOK /\ [HandoffNext]_handoffVars => HandoffTypeOK'
  <1> SUFFICES ASSUME HandoffTypeOK, [HandoffNext]_handoffVars PROVE HandoffTypeOK'
    OBVIOUS
  <1> USE DEF HandoffTypeOK
  <1>1. ASSUME NEW s \in Sessions, NEW active \in BOOLEAN, OpenMailbox(s, active)
        PROVE  HandoffTypeOK'
    BY <1>1, NewMailboxType DEF OpenMailbox
  <1>2. ASSUME NEW s \in Sessions, CloseMailbox(s) PROVE HandoffTypeOK'
    BY <1>2, NewMailboxType, BytesWithoutType DEF CloseMailbox
  <1>3. ASSUME NEW s \in Sessions, ShowMailbox(s) PROVE HandoffTypeOK'
    BY ZenonT(60), <1>3 DEF ShowMailbox, Mailbox
  <1>4. ASSUME NEW s \in Sessions, HideMailbox(s) PROVE HandoffTypeOK'
    BY <1>4, MailboxHelpersType, BytesWithoutType DEF HideMailbox
  <1>5. ASSUME NEW s \in Sessions, NEW id \in RequestIds, Schedule(s, id)
        PROVE  HandoffTypeOK'
    <2>1. WithoutReady(mail[s]) \in Mailbox
      BY MailboxHelpersType
    <2>2. [WithoutReady(mail[s]) EXCEPT !.latest = id, !.pending = id] \in Mailbox
      BY <2>1 DEF Mailbox, MaybeId
    <2>3. QED BY <1>5, <2>2, BytesWithoutType DEF Schedule
  <1>6. ASSUME NEW s \in Sessions, TakePending(s) PROVE HandoffTypeOK'
    BY <1>6, MailboxHelpersType DEF TakePending
  <1>7. ASSUME NEW s \in Sessions, NEW id \in RequestIds, NEW size \in Charges,
               PublishReady(s, id, size)
        PROVE  HandoffTypeOK'
    <2>1. CASE DiscardStale(s, id)
      BY <2>1, MailboxHelpersType DEF DiscardStale
    <2>2. CASE DropOversized(s, id, size)
      BY <2>2, MailboxHelpersType DEF DropOversized
    <2>3. CASE DropOverBudget(s, id, size)
      BY <2>3, MailboxHelpersType, BytesWithoutType DEF DropOverBudget
    <2>4. CASE RetainReady(s, id, size)
      <3>1. Unclaimed(mail[s]) \in Mailbox
        BY MailboxHelpersType
      <3>2. [Unclaimed(mail[s]) EXCEPT !.ready = id, !.charge = size] \in Mailbox
        BY <3>1 DEF Mailbox, MaybeId
      <3>3. BytesWithout(mail[s]) \in 0..MaxReadyBytes
        BY BytesWithoutType
      <3>4. BytesWithout(mail[s]) + size \in 0..MaxReadyBytes
        BY <2>4, <3>3, ConstantsArePositive DEF RetainReady, Fits
      <3>5. QED BY <2>4, <3>2, <3>4 DEF RetainReady
    <2>5. QED BY <1>7, <2>1, <2>2, <2>3, <2>4 DEF PublishReady
  <1>8. ASSUME NEW s \in Sessions, TakeReady(s) PROVE HandoffTypeOK'
    BY <1>8, MailboxHelpersType, BytesWithoutType DEF TakeReady
  <1>9. ASSUME StopMailboxes PROVE HandoffTypeOK'
    <2>1. ASSUME NEW s \in Sessions
          PROVE  [Unclaimed(WithoutReady(mail[s])) EXCEPT !.active = FALSE, !.pending = 0]
                     \in Mailbox
      <3>1. Unclaimed(WithoutReady(mail[s])) \in Mailbox
        BY MailboxHelpersType
      <3>2. QED BY <3>1 DEF Mailbox, MaybeId
    <2>2. mail' \in [Sessions -> Mailbox]
      BY <1>9, <2>1 DEF StopMailboxes
    <2>3. readyBytes' \in 0..MaxReadyBytes
      <3>1. readyBytes' = IF RetainedBytes <= readyBytes THEN readyBytes - RetainedBytes ELSE 0
        BY <1>9 DEF StopMailboxes
      <3>2. QED BY <3>1, RetainedIsSum, ConstantsArePositive
    <2>4. QED BY <1>9, <2>2, <2>3 DEF StopMailboxes
  <1>10. CASE UNCHANGED handoffVars
    BY <1>10 DEF handoffVars
  <1>11. QED
    BY <1>1, <1>2, <1>3, <1>4, <1>5, <1>6, <1>7, <1>8, <1>9, <1>10 DEF HandoffNext

LEMMA HandoffTypeInit == HandoffInit => HandoffTypeOK
  <1> SUFFICES ASSUME HandoffInit PROVE HandoffTypeOK
    OBVIOUS
  <1>1. mail \in [Sessions -> Mailbox]
    BY NewMailboxType DEF HandoffInit
  <1>2. readyBytes \in 0..MaxReadyBytes
    BY ConstantsArePositive DEF HandoffInit
  <1>3. QED BY <1>1, <1>2 DEF HandoffInit, HandoffTypeOK

(* The state keeps its type, and the byte counter never passes the budget. *)
THEOREM HandoffTypeCorrect == HandoffSpec => []HandoffTypeOK
  BY HandoffTypeInit, HandoffTypeStep, PTL DEF HandoffSpec
--------------------------------------------------------------------------------
(* What each operation does to one mailbox keeps HoldsNewestOnly.          *)
LEMMA NewestOnlyOfHelpers ==
    ASSUME NEW m \in Mailbox, HoldsNewestOnly(m)
    PROVE  /\ HoldsNewestOnly(WithoutReady(m))
           /\ HoldsNewestOnly(Hidden(m))
           /\ HoldsNewestOnly([m EXCEPT !.active = TRUE])
           /\ HoldsNewestOnly(Claimed(m))
           /\ HoldsNewestOnly(Unclaimed(m))
  <1> USE MailboxFields DEF HoldsNewestOnly, Mailbox
  <1>1. HoldsNewestOnly(WithoutReady(m))
    BY DEF WithoutReady
  <1>2. HoldsNewestOnly(Hidden(m))
    BY DEF Hidden, WithoutReady
  <1>3. HoldsNewestOnly([m EXCEPT !.active = TRUE])
    OBVIOUS
  <1>4. HoldsNewestOnly(Claimed(m))
    BY DEF Claimed
  <1>5. HoldsNewestOnly(Unclaimed(m))
    BY DEF Unclaimed
  <1>6. QED BY <1>1, <1>2, <1>3, <1>4, <1>5

LEMMA NewestOnlyOfNewMailbox ==
    /\ HoldsNewestOnly(NoMailbox)
    /\ \A active \in BOOLEAN : HoldsNewestOnly(NewMailbox(active))
  BY DEF HoldsNewestOnly, NoMailbox, NewMailbox

LEMMA NewestOnlyOfSchedule ==
    ASSUME NEW m \in Mailbox, HoldsNewestOnly(m), m.active,
           NEW id \in RequestIds, id > m.latest
    PROVE  HoldsNewestOnly([WithoutReady(m) EXCEPT !.latest = id, !.pending = id])
  BY MailboxFields, ConstantsArePositive DEF HoldsNewestOnly, WithoutReady, Mailbox

LEMMA NewestOnlyOfRetain ==
    ASSUME NEW m \in Mailbox, HoldsNewestOnly(m), NEW id \in RequestIds, NEW size \in Charges,
           m.running = id, IsNewestAuthority(m, id)
    PROVE  HoldsNewestOnly([Unclaimed(m) EXCEPT !.ready = id, !.charge = size])
  BY MailboxFields, ConstantsArePositive
     DEF HoldsNewestOnly, IsNewestAuthority, Unclaimed, Mailbox

LEMMA NewestOnlyOfStopped ==
    ASSUME NEW m \in Mailbox
    PROVE  HoldsNewestOnly([Unclaimed(WithoutReady(m)) EXCEPT !.active = FALSE,
                                                              !.pending = 0])
  BY DEF HoldsNewestOnly, Unclaimed, WithoutReady, Mailbox

LEMMA NewestOnlyStep ==
    HandoffTypeOK /\ NewestOnly /\ [HandoffNext]_handoffVars => NewestOnly'
  <1> SUFFICES ASSUME HandoffTypeOK, NewestOnly, [HandoffNext]_handoffVars
               PROVE  NewestOnly'
    OBVIOUS
  <1> USE DEF HandoffTypeOK, NewestOnly
  <1>1. ASSUME NEW s \in Sessions, NEW active \in BOOLEAN, OpenMailbox(s, active)
        PROVE  NewestOnly'
    BY <1>1, NewestOnlyOfNewMailbox DEF OpenMailbox
  <1>2. ASSUME NEW s \in Sessions, CloseMailbox(s) PROVE NewestOnly'
    BY <1>2, NewestOnlyOfNewMailbox DEF CloseMailbox
  <1>3. ASSUME NEW s \in Sessions, ShowMailbox(s) PROVE NewestOnly'
    <2>1. mail' = [mail EXCEPT ![s] = [mail[s] EXCEPT !.active = TRUE]]
      BY <1>3 DEF ShowMailbox
    <2>2. HoldsNewestOnly([mail[s] EXCEPT !.active = TRUE])
      BY NewestOnlyOfHelpers
    <2>3. QED BY <2>1, <2>2
  <1>4. ASSUME NEW s \in Sessions, HideMailbox(s) PROVE NewestOnly'
    BY <1>4, NewestOnlyOfHelpers DEF HideMailbox
  <1>5. ASSUME NEW s \in Sessions, NEW id \in RequestIds, Schedule(s, id)
        PROVE  NewestOnly'
    <2>1. mail[s].active /\ id > mail[s].latest
      BY <1>5 DEF Schedule, Accepts
    <2>2. HoldsNewestOnly([WithoutReady(mail[s]) EXCEPT !.latest = id, !.pending = id])
      BY <2>1, NewestOnlyOfSchedule
    <2>3. QED BY <1>5, <2>2 DEF Schedule
  <1>6. ASSUME NEW s \in Sessions, TakePending(s) PROVE NewestOnly'
    BY <1>6, NewestOnlyOfHelpers DEF TakePending
  <1>7. ASSUME NEW s \in Sessions, NEW id \in RequestIds, NEW size \in Charges,
               PublishReady(s, id, size)
        PROVE  NewestOnly'
    <2>1. CASE DiscardStale(s, id)
      BY <2>1, NewestOnlyOfHelpers DEF DiscardStale
    <2>2. CASE DropOversized(s, id, size)
      BY <2>2, NewestOnlyOfHelpers DEF DropOversized
    <2>3. CASE DropOverBudget(s, id, size)
      <3>1. Unclaimed(mail[s]) \in Mailbox /\ HoldsNewestOnly(Unclaimed(mail[s]))
        BY MailboxHelpersType, NewestOnlyOfHelpers
      <3>2. HoldsNewestOnly(WithoutReady(Unclaimed(mail[s])))
        BY <3>1, NewestOnlyOfHelpers
      <3>3. QED BY <2>3, <3>2 DEF DropOverBudget
    <2>4. CASE RetainReady(s, id, size)
      <3>1. mail[s].running = id /\ IsNewestAuthority(mail[s], id)
        BY <2>4 DEF RetainReady, ClaimHeld
      <3>2. HoldsNewestOnly([Unclaimed(mail[s]) EXCEPT !.ready = id, !.charge = size])
        BY <3>1, NewestOnlyOfRetain
      <3>3. QED BY <2>4, <3>2 DEF RetainReady
    <2>5. QED BY <1>7, <2>1, <2>2, <2>3, <2>4 DEF PublishReady
  <1>8. ASSUME NEW s \in Sessions, TakeReady(s) PROVE NewestOnly'
    BY <1>8, NewestOnlyOfHelpers DEF TakeReady
  <1>9. ASSUME StopMailboxes PROVE NewestOnly'
    BY <1>9, NewestOnlyOfStopped DEF StopMailboxes
  <1>10. CASE UNCHANGED handoffVars
    BY <1>10 DEF handoffVars
  <1>11. QED
    BY <1>1, <1>2, <1>3, <1>4, <1>5, <1>6, <1>7, <1>8, <1>9, <1>10 DEF HandoffNext

(* Newer identities obsolete older pending, running and ready work.        *)
THEOREM NewestOnlyHolds == HandoffSpec => []NewestOnly
  <1>1. HandoffInit => NewestOnly
    BY NewestOnlyOfNewMailbox DEF HandoffInit, NewestOnly
  <1>2. QED
    BY <1>1, HandoffTypeInit, HandoffTypeStep, NewestOnlyStep, PTL DEF HandoffSpec
--------------------------------------------------------------------------------
(* The mailbox implements NewestRequest.                                   *)

(* A step that changes the mailbox of s alone changes its image alone.     *)
LEMMA ImageOfUpdate ==
    ASSUME HandoffTypeOK, NEW s \in Sessions, NEW m \in Mailbox,
           mail' = [mail EXCEPT ![s] = m]
    PROVE  /\ Shown' = IF m.active THEN Shown \cup {s} ELSE Shown \ {s}
           /\ Newest' = [Newest EXCEPT ![s] = m.latest]
           /\ OwedTo' = [OwedTo EXCEPT ![s] = Owed(m)]
           /\ AnswerFor' = [AnswerFor EXCEPT ![s] = m.ready]
  BY DEF HandoffTypeOK, Shown, Newest, OwedTo, AnswerFor

(* A step that leaves these four fields of s as they were is a stutter.    *)
LEMMA UpdateStutters ==
    ASSUME HandoffTypeOK, NEW s \in Sessions, NEW m \in Mailbox,
           mail' = [mail EXCEPT ![s] = m],
           m.active = mail[s].active, m.latest = mail[s].latest,
           Owed(m) = Owed(mail[s]), m.ready = mail[s].ready
    PROVE  UNCHANGED <<Shown, Newest, OwedTo, AnswerFor>>
  BY ImageOfUpdate, MailboxFields DEF HandoffTypeOK, Shown, Newest, OwedTo, AnswerFor

LEMMA PromiseInit == HandoffInit => Promise!Init
  BY ConstantsArePositive
     DEF HandoffInit, NoMailbox, Promise!Init, Shown, Newest, OwedTo, AnswerFor, Owed

(* No operation but CloseMailbox takes a session out of the map.           *)
LEMMA HelpersKeepOpen ==
    ASSUME NEW m \in Mailbox, m.open
    PROVE  /\ WithoutReady(m).open
           /\ Hidden(m).open
           /\ Claimed(m).open
           /\ Unclaimed(m).open
           /\ [m EXCEPT !.active = TRUE].open
           /\ \A id \in RequestIds, size \in Charges :
                 /\ [m EXCEPT !.latest = id, !.pending = id].open
                 /\ [m EXCEPT !.ready = id, !.charge = size].open
           /\ [m EXCEPT !.active = FALSE, !.pending = 0].open
  BY DEF WithoutReady, Hidden, Claimed, Unclaimed, Mailbox

LEMMA ClosedIsForgottenStep ==
    HandoffTypeOK /\ ClosedIsForgotten /\ [HandoffNext]_handoffVars => ClosedIsForgotten'
  <1> SUFFICES ASSUME HandoffTypeOK, ClosedIsForgotten, [HandoffNext]_handoffVars
               PROVE  ClosedIsForgotten'
    OBVIOUS
  <1> USE DEF HandoffTypeOK, ClosedIsForgotten
  <1>0. ASSUME NEW s \in Sessions, NEW m, m.open,
               mail' = [mail EXCEPT ![s] = m]
        PROVE  ClosedIsForgotten'
    BY <1>0
  <1>1. ASSUME NEW s \in Sessions, NEW active \in BOOLEAN, OpenMailbox(s, active)
        PROVE  ClosedIsForgotten'
    <2>1. NewMailbox(active).open
      BY DEF NewMailbox, NoMailbox
    <2>2. QED BY <1>0, <1>1, <2>1 DEF OpenMailbox
  <1>2. ASSUME NEW s \in Sessions, CloseMailbox(s) PROVE ClosedIsForgotten'
    BY <1>2 DEF CloseMailbox
  <1>3. ASSUME NEW s \in Sessions, ShowMailbox(s) PROVE ClosedIsForgotten'
    <2>1. mail' = [mail EXCEPT ![s] = [mail[s] EXCEPT !.active = TRUE]]
      BY <1>3 DEF ShowMailbox
    <2>2. [mail[s] EXCEPT !.active = TRUE].open
      BY <1>3, HelpersKeepOpen DEF ShowMailbox
    <2>3. QED BY <1>0, <2>1, <2>2
  <1>4. ASSUME NEW s \in Sessions, HideMailbox(s) PROVE ClosedIsForgotten'
    BY <1>0, <1>4, HelpersKeepOpen DEF HideMailbox
  <1>5. ASSUME NEW s \in Sessions, NEW id \in RequestIds, Schedule(s, id)
        PROVE  ClosedIsForgotten'
    <2>1. WithoutReady(mail[s]) \in Mailbox /\ WithoutReady(mail[s]).open
      BY <1>5, MailboxHelpersType, HelpersKeepOpen DEF Schedule, Accepts
    <2>2. [WithoutReady(mail[s]) EXCEPT !.latest = id, !.pending = id].open
      BY <2>1, HelpersKeepOpen
    <2>3. QED BY <1>0, <1>5, <2>2 DEF Schedule
  <1>6. ASSUME NEW s \in Sessions, TakePending(s) PROVE ClosedIsForgotten'
    BY <1>0, <1>6, HelpersKeepOpen DEF TakePending, CanTake
  <1>7. ASSUME NEW s \in Sessions, NEW id \in RequestIds, NEW size \in Charges,
               PublishReady(s, id, size)
        PROVE  ClosedIsForgotten'
    <2>1. mail[s].open
      BY <1>7 DEF PublishReady, DiscardStale, DropOversized, DropOverBudget, RetainReady,
                  ClaimHeld
    <2>2. Unclaimed(mail[s]) \in Mailbox /\ Unclaimed(mail[s]).open
      BY <2>1, MailboxHelpersType, HelpersKeepOpen
    <2>3. /\ WithoutReady(Unclaimed(mail[s])).open
          /\ [Unclaimed(mail[s]) EXCEPT !.ready = id, !.charge = size].open
      BY <2>2, HelpersKeepOpen
    <2>4. QED
      BY <1>0, <1>7, <2>2, <2>3
         DEF PublishReady, DiscardStale, DropOversized, DropOverBudget, RetainReady
  <1>8. ASSUME NEW s \in Sessions, TakeReady(s) PROVE ClosedIsForgotten'
    BY <1>0, <1>8, HelpersKeepOpen DEF TakeReady
  <1>9. ASSUME StopMailboxes PROVE ClosedIsForgotten'
    <2> SUFFICES ASSUME NEW s \in Sessions, ~mail'[s].open PROVE mail'[s] = NoMailbox
      OBVIOUS
    <2> DEFINE m == Unclaimed(WithoutReady(mail[s]))
    <2>1. mail'[s] = [m EXCEPT !.active = FALSE, !.pending = 0]
      BY <1>9 DEF StopMailboxes
    <2>2. mail[s].open => mail'[s].open
      BY <2>1, MailboxHelpersType, HelpersKeepOpen
    <2>3. mail[s] = NoMailbox
      BY <2>2
    <2>4. mail'[s] \in Mailbox
      BY HandoffTypeStep
    <2>5. /\ mail[s].open = FALSE /\ mail[s].active = FALSE /\ mail[s].invalidated = FALSE
          /\ mail[s].latest = 0 /\ mail[s].pending = 0 /\ mail[s].running = 0
          /\ mail[s].ready = 0 /\ mail[s].charge = 0
      BY <2>3 DEF NoMailbox
    <2>6. /\ mail'[s].open = mail[s].open /\ mail'[s].active = mail[s].active
          /\ mail'[s].invalidated = mail[s].invalidated
          /\ mail'[s].latest = mail[s].latest /\ mail'[s].pending = mail[s].pending
          /\ mail'[s].running = mail[s].running
          /\ mail'[s].ready = mail[s].ready /\ mail'[s].charge = mail[s].charge
      BY <2>1, <2>5, mail[s] \in Mailbox DEF Unclaimed, WithoutReady, Mailbox
    <2>7. QED BY <2>3, <2>4, <2>6, SameFields
  <1>10. CASE UNCHANGED handoffVars
    BY <1>10 DEF handoffVars
  <1>11. QED
    BY <1>1, <1>2, <1>3, <1>4, <1>5, <1>6, <1>7, <1>8, <1>9, <1>10 DEF HandoffNext

(* Every step of the mailbox is a step of the promise or changes nothing   *)
(* the promise speaks of.                                                  *)
LEMMA PromiseStep ==
    HandoffTypeOK /\ NewestOnly /\ ClosedIsForgotten /\ [HandoffNext]_handoffVars
        => Promise!Next \/ UNCHANGED <<Shown, Newest, OwedTo, AnswerFor>>
  <1> SUFFICES ASSUME HandoffTypeOK, NewestOnly, ClosedIsForgotten,
                      [HandoffNext]_handoffVars
               PROVE  Promise!Next \/ UNCHANGED <<Shown, Newest, OwedTo, AnswerFor>>
    OBVIOUS
  <1> USE DEF HandoffTypeOK
  <1>1. ASSUME NEW s \in Sessions, NEW active \in BOOLEAN, OpenMailbox(s, active)
        PROVE  Promise!Next
    <2> DEFINE m == NewMailbox(active)
    <2>1. mail' = [mail EXCEPT ![s] = m] /\ m \in Mailbox
      BY <1>1, NewMailboxType DEF OpenMailbox
    <2>2. m.active = active /\ m.latest = 0 /\ m.ready = 0 /\ Owed(m) = FALSE
      BY DEF NewMailbox, NoMailbox, Owed
    <2>3. mail[s].latest = 0 /\ mail[s].ready = 0 /\ Owed(mail[s]) = FALSE
      BY <1>1 DEF OpenMailbox, ClosedIsForgotten, NoMailbox, Owed
    <2> HIDE DEF m
    <2>4. CASE active
      <3>1. Promise!Show(s)
        BY <2>1, <2>2, <2>3, <2>4, ImageOfUpdate
           DEF Promise!Show, Newest, OwedTo, AnswerFor
      <3>2. QED BY <3>1 DEF Promise!Next
    <2>5. CASE ~active
      <3>1. /\ Shown' = Shown \ {s}
            /\ Newest' = [Newest EXCEPT ![s] = 0]
            /\ OwedTo' = [OwedTo EXCEPT ![s] = FALSE]
            /\ AnswerFor' = [AnswerFor EXCEPT ![s] = 0]
        <4>1. m.active = FALSE
          BY <2>2, <2>5
        <4>2. /\ Shown' = IF m.active THEN Shown \cup {s} ELSE Shown \ {s}
              /\ Newest' = [Newest EXCEPT ![s] = m.latest]
              /\ OwedTo' = [OwedTo EXCEPT ![s] = Owed(m)]
              /\ AnswerFor' = [AnswerFor EXCEPT ![s] = m.ready]
          BY <2>1, ImageOfUpdate
        <4>3. QED BY <2>2, <4>1, <4>2
      <3>2. Promise!Forget(s)
        BY <3>1 DEF Promise!Forget
      <3>3. QED BY <3>2 DEF Promise!Next
    <2>6. QED BY <2>4, <2>5
  <1>2. ASSUME NEW s \in Sessions, CloseMailbox(s) PROVE Promise!Next
    <2>1. mail' = [mail EXCEPT ![s] = NoMailbox] /\ NoMailbox \in Mailbox
      BY <1>2, NewMailboxType DEF CloseMailbox
    <2>2. Promise!Forget(s)
      BY <2>1, ImageOfUpdate DEF Promise!Forget, NoMailbox, Owed
    <2>3. QED BY <2>2 DEF Promise!Next
  <1>3. ASSUME NEW s \in Sessions, ShowMailbox(s) PROVE Promise!Next
    <2> DEFINE m == [mail[s] EXCEPT !.active = TRUE]
    <2>1. mail' = [mail EXCEPT ![s] = m] /\ m \in Mailbox
      BY <1>3 DEF ShowMailbox, Mailbox
    <2>2. /\ m.active /\ m.latest = mail[s].latest /\ m.ready = mail[s].ready
          /\ Owed(m) = Owed(mail[s])
      BY DEF Mailbox, Owed
    <2> HIDE DEF m
    <2>3. Promise!Show(s)
      BY <2>1, <2>2, ImageOfUpdate DEF Promise!Show, Newest, OwedTo, AnswerFor
    <2>4. QED BY <2>3 DEF Promise!Next
  <1>4. ASSUME NEW s \in Sessions, HideMailbox(s) PROVE Promise!Next
    <2> DEFINE m == Hidden(mail[s])
    <2>1. mail' = [mail EXCEPT ![s] = m] /\ m \in Mailbox
      BY <1>4, MailboxHelpersType DEF HideMailbox
    <2>2. ~m.active /\ m.latest = mail[s].latest /\ m.ready = 0 /\ Owed(m) = FALSE
      BY ZenonT(60), MailboxFields DEF Mailbox, Owed, Hidden, WithoutReady
    <2> HIDE DEF m
    <2>3. Promise!Hide({s})
      BY <2>1, <2>2, ImageOfUpdate DEF Promise!Hide, Newest, OwedTo, AnswerFor
    <2>4. QED BY <2>3 DEF Promise!Next
  <1>5. ASSUME NEW s \in Sessions, NEW id \in RequestIds, Schedule(s, id)
        PROVE  Promise!Next
    <2> DEFINE m == [WithoutReady(mail[s]) EXCEPT !.latest = id, !.pending = id]
    <2>1. m \in Mailbox
      <3>1. WithoutReady(mail[s]) \in Mailbox
        BY MailboxHelpersType
      <3>2. QED BY <3>1 DEF Mailbox, MaybeId
    <2>2. mail' = [mail EXCEPT ![s] = m] /\ mail[s].active /\ id > mail[s].latest
      BY <1>5 DEF Schedule, Accepts
    <2>3. /\ m.active = mail[s].active /\ m.latest = id /\ m.ready = 0
          /\ m.pending = id
      BY DEF Mailbox, WithoutReady
    <2>4. Owed(m) = TRUE
      BY <2>3, ConstantsArePositive DEF Owed
    <2> HIDE DEF m
    <2>5. Promise!Ask(s, id)
      BY <2>1, <2>2, <2>3, <2>4, ImageOfUpdate DEF Promise!Ask, Shown, Newest
    <2>6. QED BY <2>5 DEF Promise!Next
  <1>6. ASSUME NEW s \in Sessions, TakePending(s)
        PROVE  UNCHANGED <<Shown, Newest, OwedTo, AnswerFor>>
    <2> DEFINE m == Claimed(mail[s])
    <2>1. mail' = [mail EXCEPT ![s] = m] /\ m \in Mailbox /\ mail[s].pending # 0
      BY <1>6, MailboxHelpersType DEF TakePending, CanTake
    <2>2. /\ m.active = mail[s].active /\ m.latest = mail[s].latest
          /\ m.ready = mail[s].ready /\ m.running = mail[s].pending
          /\ m.invalidated = FALSE
      BY DEF Mailbox, Claimed
    <2>3. mail[s].pending = mail[s].latest
      BY <2>1 DEF NewestOnly, HoldsNewestOnly
    <2>4. Owed(m) = Owed(mail[s])
      BY <2>1, <2>2, <2>3 DEF Owed
    <2> HIDE DEF m
    <2>5. QED BY <2>1, <2>2, <2>4, UpdateStutters
  <1>7. ASSUME NEW s \in Sessions, NEW id \in RequestIds, NEW size \in Charges,
               PublishReady(s, id, size)
        PROVE  Promise!Next \/ UNCHANGED <<Shown, Newest, OwedTo, AnswerFor>>
    <2> DEFINE u == Unclaimed(mail[s])
    <2>1. /\ mail[s].running = id /\ mail[s].running # 0
          /\ mail[s] \in Mailbox /\ HoldsNewestOnly(mail[s])
      BY <1>7 DEF PublishReady, DiscardStale, DropOversized, DropOverBudget, RetainReady,
                  ClaimHeld, NewestOnly
    <2>2. /\ u \in Mailbox /\ u.running = 0 /\ u.active = mail[s].active
          /\ u.latest = mail[s].latest /\ u.pending = mail[s].pending
          /\ u.ready = mail[s].ready
      BY <2>1, MailboxHelpersType DEF Unclaimed, Mailbox
    <2>3. mail[s].ready = 0 /\ (mail[s].active \/ mail[s].invalidated)
      BY <2>1 DEF HoldsNewestOnly
    <2>4. IsNewestAuthority(mail[s], id)
              => /\ mail[s].pending = 0 /\ mail[s].active /\ mail[s].latest = id
                 /\ Owed(mail[s]) = TRUE
      BY <2>1, MailboxFields DEF HoldsNewestOnly, IsNewestAuthority, Owed
    <2> HIDE DEF u
    <2>5. CASE DiscardStale(s, id)
      <3>1. mail' = [mail EXCEPT ![s] = u]
        BY <2>5 DEF DiscardStale, u
      <3>2. Owed(u) = Owed(mail[s])
        BY <2>1, <2>2, <2>3, <2>5, MailboxFields
           DEF DiscardStale, IsNewestAuthority, HoldsNewestOnly, Owed
      <3>3. QED BY <2>2, <3>1, <3>2, UpdateStutters
    <2>6. ASSUME NEW m \in Mailbox, mail' = [mail EXCEPT ![s] = m],
                 IsNewestAuthority(mail[s], id), m.active = mail[s].active,
                 m.latest = mail[s].latest, m.pending = 0, m.running = 0, m.ready = 0
          PROVE  Promise!GiveUp(s)
      <3>1. Owed(m) = FALSE
        BY <2>6 DEF Owed
      <3>2. QED
        BY ZenonT(60), <2>3, <2>4, <2>6, <3>1, ImageOfUpdate
           DEF Promise!GiveUp, Shown, Newest, OwedTo, AnswerFor
    <2>7. CASE DropOversized(s, id, size)
      <3>1. mail' = [mail EXCEPT ![s] = u] /\ IsNewestAuthority(mail[s], id)
        BY <2>7 DEF DropOversized, u
      <3>2. QED BY <2>2, <2>3, <2>4, <2>6, <3>1 DEF Promise!Next
    <2>8. CASE DropOverBudget(s, id, size)
      <3>1. mail' = [mail EXCEPT ![s] = WithoutReady(u)] /\ IsNewestAuthority(mail[s], id)
        BY <2>8 DEF DropOverBudget, u
      <3>2. /\ WithoutReady(u) \in Mailbox /\ WithoutReady(u).ready = 0
            /\ WithoutReady(u).active = u.active /\ WithoutReady(u).latest = u.latest
            /\ WithoutReady(u).pending = u.pending /\ WithoutReady(u).running = u.running
        BY ZenonT(60), <2>2, MailboxHelpersType DEF WithoutReady, Mailbox
      <3>3. QED BY <2>2, <2>4, <2>6, <3>1, <3>2 DEF Promise!Next
    <2>9. CASE RetainReady(s, id, size)
      <3> DEFINE m == [u EXCEPT !.ready = id, !.charge = size]
      <3>1. mail' = [mail EXCEPT ![s] = m] /\ IsNewestAuthority(mail[s], id)
        BY <2>9 DEF RetainReady, u
      <3>2. /\ m \in Mailbox /\ m.active = u.active /\ m.latest = u.latest
            /\ m.pending = u.pending /\ m.running = u.running /\ m.ready = id
        BY <2>2 DEF Mailbox, MaybeId
      <3> HIDE DEF m
      <3>3. Owed(m) = FALSE
        BY <2>2, <2>4, <3>1, <3>2 DEF Owed
      <3>4. /\ Shown' = Shown \cup {s}
            /\ Newest' = [Newest EXCEPT ![s] = id]
            /\ OwedTo' = [OwedTo EXCEPT ![s] = FALSE]
            /\ AnswerFor' = [AnswerFor EXCEPT ![s] = id]
        <4>1. m.active = TRUE /\ m.latest = id
          BY <2>2, <2>4, <3>1, <3>2, MailboxFields
        <4>2. /\ Shown' = IF m.active THEN Shown \cup {s} ELSE Shown \ {s}
              /\ Newest' = [Newest EXCEPT ![s] = m.latest]
              /\ OwedTo' = [OwedTo EXCEPT ![s] = Owed(m)]
              /\ AnswerFor' = [AnswerFor EXCEPT ![s] = m.ready]
          BY <3>1, <3>2, ImageOfUpdate
        <4>3. QED BY <3>2, <3>3, <4>1, <4>2
      <3>5. s \in Shown /\ Newest[s] = id /\ OwedTo[s]
        BY <2>4, <3>1 DEF Shown, Newest, OwedTo
      <3>6. UNCHANGED <<Shown, Newest>>
        BY <3>4, <3>5 DEF Shown, Newest
      <3>7. Promise!Answer(s)
        BY <3>4, <3>5, <3>6 DEF Promise!Answer
      <3>8. QED BY <3>7 DEF Promise!Next
    <2>10. QED BY <1>7, <2>5, <2>7, <2>8, <2>9 DEF PublishReady
  <1>8. ASSUME NEW s \in Sessions, TakeReady(s) PROVE Promise!Next
    <2> DEFINE m == WithoutReady(mail[s])
    <2>1. mail' = [mail EXCEPT ![s] = m] /\ m \in Mailbox /\ mail[s].ready # 0
      BY <1>8, MailboxHelpersType DEF TakeReady
    <2>2. /\ m.active = mail[s].active /\ m.latest = mail[s].latest /\ m.ready = 0
          /\ Owed(m) = Owed(mail[s])
      BY DEF Mailbox, WithoutReady, Owed
    <2> HIDE DEF m
    <2>3. Promise!Collect(s)
      BY <2>1, <2>2, ImageOfUpdate DEF Promise!Collect, Shown, Newest, OwedTo, AnswerFor
    <2>4. QED BY <2>3 DEF Promise!Next
  <1>9. ASSUME StopMailboxes PROVE Promise!Next
    <2>1. ASSUME NEW s \in Sessions
          PROVE  /\ ~mail'[s].active /\ mail'[s].latest = mail[s].latest
                 /\ mail'[s].ready = 0 /\ Owed(mail'[s]) = FALSE
      BY <1>9 DEF StopMailboxes, Unclaimed, WithoutReady, Mailbox, Owed
    <2>2. Promise!Hide(Sessions)
      BY <2>1 DEF Promise!Hide, Shown, Newest, OwedTo, AnswerFor
    <2>3. QED BY <2>2 DEF Promise!Next
  <1>10. CASE UNCHANGED handoffVars
    BY <1>10 DEF handoffVars, Shown, Newest, OwedTo, AnswerFor
  <1>11. QED
    BY <1>1, <1>2, <1>3, <1>4, <1>5, <1>6, <1>7, <1>8, <1>9, <1>10 DEF HandoffNext

(* Whatever the workers publish and in whatever order the calls arrive,    *)
(* only the newest request of a session is answered, at most once, and     *)
(* only while the session has stayed shown.                                *)
THEOREM HandoffKeepsPromise == HandoffSpec => KeepsPromise
  <1>1. HandoffInit => ClosedIsForgotten
    BY DEF HandoffInit, ClosedIsForgotten
  <1>2. HandoffInit => NewestOnly
    BY NewestOnlyOfNewMailbox DEF HandoffInit, NewestOnly
  <1>3. QED
    BY <1>1, <1>2, HandoffTypeInit, HandoffTypeStep, NewestOnlyStep, ClosedIsForgottenStep,
       PromiseInit, PromiseStep, PTL
       DEF HandoffSpec, KeepsPromise, Promise!Spec, Promise!vars
--------------------------------------------------------------------------------
(* The bytes.  What one mailbox is charged with changes, and the sum by as *)
(* much; what a mailbox gives back is there to be taken.                   *)
LEMMA RetainedOfUpdate ==
    ASSUME HandoffTypeOK, HandoffTypeOK', readyBytes = RetainedBytes, NEW s \in Sessions, NEW m,
           mail' = [mail EXCEPT ![s] = m]
    PROVE  /\ BytesWithout(mail[s]) = readyBytes - mail[s].charge
           /\ mail[s].charge \in Nat /\ readyBytes \in Nat
           /\ RetainedBytes' = (readyBytes - mail[s].charge) + m.charge
  <1> DEFINE v == ChargeOf
             w == ChargeOf'
  <1>1. Counts(v, Sessions) /\ readyBytes = SumOf(v, Sessions)
    BY RetainedIsSum
  <1>2. Counts(w, Sessions) /\ RetainedBytes' = SumOf(w, Sessions)
    <2>1. (Counts(ChargeOf, Sessions) /\ RetainedBytes = SumOf(ChargeOf, Sessions))'
      BY RetainedIsSum, PTL
    <2>2. QED BY <2>1
  <1>3. /\ v[s] = mail[s].charge /\ w[s] = m.charge
        /\ AgreeOn(v, w, Sessions \ {s})
    BY DEF ChargeOf, HandoffTypeOK, AgreeOn
  <1>4. IsFiniteSet(Sessions)
    BY HandoffAssumption
  <1> HIDE DEF v, w
  <1>5. /\ SumOf(v, Sessions) \in Nat /\ v[s] <= SumOf(v, Sessions)
        /\ SumOf(w, Sessions) = (SumOf(v, Sessions) - v[s]) + w[s]
    BY <1>1, <1>2, <1>3, <1>4, SumChange
  <1>6. v[s] \in Nat
    BY <1>1 DEF Counts
  <1>7. QED BY <1>1, <1>2, <1>3, <1>5, <1>6 DEF BytesWithout

LEMMA ReadyBytesStep ==
    HandoffTypeOK /\ ClosedIsForgotten /\ ReadyBytesExact /\ [HandoffNext]_handoffVars
        => ReadyBytesExact'
  <1> SUFFICES ASSUME HandoffTypeOK, ClosedIsForgotten, ReadyBytesExact,
                      [HandoffNext]_handoffVars
               PROVE  ReadyBytesExact'
    OBVIOUS
  <1>0. HandoffTypeOK' /\ readyBytes = RetainedBytes /\ \A s \in Sessions : mail[s] \in Mailbox
    BY HandoffTypeStep DEF ReadyBytesExact, HandoffTypeOK
  <1>a. readyBytes' = RetainedBytes' => ReadyBytesExact'
    BY <1>0, ConstantsArePositive DEF ReadyBytesExact, HandoffTypeOK
  <1>b. ASSUME NEW s \in Sessions, NEW m, mail' = [mail EXCEPT ![s] = m], m.charge \in Nat,
               readyBytes' = (readyBytes - mail[s].charge) + m.charge
        PROVE  ReadyBytesExact'
    <2>1. RetainedBytes' = (readyBytes - mail[s].charge) + m.charge
      BY <1>0, <1>b, RetainedOfUpdate
    <2>2. QED BY <1>a, <1>b, <2>1
  <1>c. ASSUME NEW s \in Sessions, NEW m, mail' = [mail EXCEPT ![s] = m], m.charge \in Nat,
               readyBytes' = BytesWithout(mail[s]) + m.charge
        PROVE  ReadyBytesExact'
    <2>1. BytesWithout(mail[s]) = readyBytes - mail[s].charge
      BY <1>0, <1>c, RetainedOfUpdate
    <2>2. QED BY <1>b, <1>c, <2>1
  <1>d. ASSUME NEW s \in Sessions, NEW m, mail' = [mail EXCEPT ![s] = m],
               m.charge = mail[s].charge, readyBytes' = readyBytes
        PROVE  ReadyBytesExact'
    <2>1. mail[s].charge \in Nat /\ readyBytes \in Nat
      BY <1>0, <1>d, RetainedOfUpdate
    <2>2. m.charge \in Nat /\ readyBytes' = (readyBytes - mail[s].charge) + m.charge
      BY <1>d, <2>1
    <2>3. QED BY <1>b, <1>d, <2>2
  <1>e. ASSUME NEW s \in Sessions, NEW m, mail' = [mail EXCEPT ![s] = m],
               m.charge = 0, readyBytes' = BytesWithout(mail[s])
        PROVE  ReadyBytesExact'
    <2>1. BytesWithout(mail[s]) \in Nat
      BY <1>0, BytesWithoutType, ConstantsArePositive DEF HandoffTypeOK
    <2>2. m.charge \in Nat /\ readyBytes' = BytesWithout(mail[s]) + m.charge
      BY <1>e, <2>1
    <2>3. QED BY <1>c, <1>e, <2>2
  <1>1. ASSUME NEW s \in Sessions, NEW active \in BOOLEAN, OpenMailbox(s, active)
        PROVE  ReadyBytesExact'
    <2>1. mail[s].charge = 0 /\ NewMailbox(active).charge = 0
      BY <1>1 DEF OpenMailbox, ClosedIsForgotten, NoMailbox, NewMailbox
    <2>2. QED BY <1>1, <1>d, <2>1 DEF OpenMailbox
  <1>2. ASSUME NEW s \in Sessions, CloseMailbox(s) PROVE ReadyBytesExact'
    <2>1. NoMailbox.charge = 0
      BY DEF NoMailbox
    <2>2. QED BY <1>2, <1>e, <2>1 DEF CloseMailbox
  <1>3. ASSUME NEW s \in Sessions, ShowMailbox(s) PROVE ReadyBytesExact'
    <2> DEFINE m == [mail[s] EXCEPT !.active = TRUE]
    <2>1. mail' = [mail EXCEPT ![s] = m] /\ readyBytes' = readyBytes
      BY <1>3 DEF ShowMailbox
    <2>2. m.charge = mail[s].charge
      BY <1>0 DEF Mailbox
    <2> HIDE DEF m
    <2>3. QED BY <1>d, <2>1, <2>2
  <1>4. ASSUME NEW s \in Sessions, HideMailbox(s) PROVE ReadyBytesExact'
    <2>1. Hidden(mail[s]).charge = 0
      BY <1>0 DEF Hidden, WithoutReady, Mailbox
    <2>2. QED BY <1>4, <1>e, <2>1 DEF HideMailbox
  <1>5. ASSUME NEW s \in Sessions, NEW id \in RequestIds, Schedule(s, id)
        PROVE  ReadyBytesExact'
    <2> DEFINE m == [WithoutReady(mail[s]) EXCEPT !.latest = id, !.pending = id]
    <2>1. mail' = [mail EXCEPT ![s] = m] /\ readyBytes' = BytesWithout(mail[s])
      BY <1>5 DEF Schedule
    <2>2. m.charge = 0
      BY <1>0 DEF WithoutReady, Mailbox
    <2> HIDE DEF m
    <2>3. QED BY <1>e, <2>1, <2>2
  <1>6. ASSUME NEW s \in Sessions, TakePending(s) PROVE ReadyBytesExact'
    <2>1. Claimed(mail[s]).charge = mail[s].charge
      BY <1>0 DEF Claimed, Mailbox
    <2>2. QED BY <1>6, <1>d, <2>1 DEF TakePending
  <1>7. ASSUME NEW s \in Sessions, NEW id \in RequestIds, NEW size \in Charges,
               PublishReady(s, id, size)
        PROVE  ReadyBytesExact'
    <2> DEFINE u == Unclaimed(mail[s])
               m == [u EXCEPT !.ready = id, !.charge = size]
    <2>1. u.charge = mail[s].charge /\ u \in Mailbox
      BY <1>0, MailboxHelpersType DEF Unclaimed, Mailbox
    <2> HIDE DEF u
    <2>2. WithoutReady(u).charge = 0 /\ m.charge = size /\ size \in Nat
      BY <2>1, ConstantsArePositive DEF WithoutReady, Mailbox
    <2> HIDE DEF m
    <2>3. \/ mail' = [mail EXCEPT ![s] = u] /\ readyBytes' = readyBytes
          \/ mail' = [mail EXCEPT ![s] = WithoutReady(u)] /\ readyBytes' = BytesWithout(mail[s])
          \/ mail' = [mail EXCEPT ![s] = m] /\ readyBytes' = BytesWithout(mail[s]) + size
      BY <1>7 DEF PublishReady, DiscardStale, DropOversized, DropOverBudget, RetainReady, u, m
    <2>4. QED BY <1>c, <1>d, <1>e, <2>1, <2>2, <2>3
  <1>8. ASSUME NEW s \in Sessions, TakeReady(s) PROVE ReadyBytesExact'
    <2>1. WithoutReady(mail[s]).charge = 0
      BY <1>0 DEF WithoutReady, Mailbox
    <2>2. QED BY <1>8, <1>e, <2>1 DEF TakeReady
  <1>9. ASSUME StopMailboxes PROVE ReadyBytesExact'
    <2>1. readyBytes' = 0
      <3>1. readyBytes \in Nat /\ RetainedBytes = readyBytes
        BY <1>0, RetainedIsSum
      <3>2. readyBytes' = IF RetainedBytes <= readyBytes THEN readyBytes - RetainedBytes ELSE 0
        BY <1>9 DEF StopMailboxes
      <3>3. QED BY <3>1, <3>2
    <2>2. ASSUME NEW s \in Sessions PROVE ChargeOf'[s] = 0
      <3>1. mail'[s] = [Unclaimed(WithoutReady(mail[s])) EXCEPT !.active = FALSE, !.pending = 0]
        BY <1>9 DEF StopMailboxes
      <3>2. mail'[s].charge = 0
        BY <1>0, <3>1 DEF Unclaimed, WithoutReady, Mailbox
      <3>3. QED BY <3>2 DEF ChargeOf
    <2>3. (Counts(ChargeOf, Sessions) /\ RetainedBytes = SumOf(ChargeOf, Sessions))'
      BY <1>0, RetainedIsSum, PTL
    <2> DEFINE w == ChargeOf'
    <2>4. Counts(w, Sessions) /\ RetainedBytes' = SumOf(w, Sessions) /\ \A s \in Sessions : w[s] = 0
      BY <2>2, <2>3
    <2> HIDE DEF w
    <2>5. SumOf(w, Sessions) = 0
      BY <2>4, HandoffAssumption, SumOfPart, SumEmpty
    <2>6. QED BY <1>a, <2>1, <2>4, <2>5
  <1>10. CASE UNCHANGED handoffVars
    <2>1. RetainedBytes' = RetainedBytes
      <3>1. (RetainedBytes = SumOf(ChargeOf, Sessions))'
        BY <1>0, RetainedIsSum, PTL
      <3>2. ChargeOf' = ChargeOf
        BY <1>10 DEF handoffVars, ChargeOf
      <3>3. QED BY <3>1, <3>2, RetainedIsSum
    <2>2. QED BY <1>0, <1>10, <1>a, <2>1 DEF handoffVars
  <1>11. QED
    BY <1>1, <1>2, <1>3, <1>4, <1>5, <1>6, <1>7, <1>8, <1>9, <1>10 DEF HandoffNext

(* The process-wide byte count is what the sessions retain, whatever was   *)
(* hidden, closed, replaced, refused or stopped in between, and so within  *)
(* its budget.                                                             *)
THEOREM ReadyBytesAreExact == HandoffSpec => []ReadyBytesExact
  <1>1. HandoffInit => ClosedIsForgotten
    BY DEF HandoffInit, ClosedIsForgotten
  <1>2. HandoffInit => ReadyBytesExact
    <2> SUFFICES ASSUME HandoffInit PROVE ReadyBytesExact
      OBVIOUS
    <2>1. Counts(ChargeOf, Sessions) /\ RetainedBytes = SumOf(ChargeOf, Sessions)
      BY HandoffTypeInit, RetainedIsSum
    <2>2. \A s \in Sessions : ChargeOf[s] = 0
      BY DEF HandoffInit, ChargeOf, NoMailbox
    <2>3. SumOf(ChargeOf, Sessions) = 0
      BY <2>1, <2>2, HandoffAssumption, SumOfPart, SumEmpty
    <2>4. QED
      BY <2>1, <2>3, ConstantsArePositive DEF HandoffInit, ReadyBytesExact
  <1>3. QED
    BY <1>1, <1>2, HandoffTypeInit, HandoffTypeStep, ClosedIsForgottenStep, ReadyBytesStep, PTL
       DEF HandoffSpec
--------------------------------------------------------------------------------
(* The pool.                                                               *)

(* A busy worker holds a session, and an executing one a request; a call   *)
(* that is under way for a session holds it.                               *)
WorkerFrames == {f \in Frame(WorkerPlaces) :
                    /\ f.at \in {"claim", "execute", "finish"} => f.session \in Sessions
                    /\ f.at = "execute" => f.id \in RequestIds}

ClientFrames == {f \in Frame(ClientPlaces) :
                    f.at \notin {"idle", "stopMailboxes", "join"} => f.session \in Sessions}

ThreadsOK == /\ worker \in [Workers -> WorkerFrames]
             /\ client \in [Clients -> ClientFrames]

OwnStateOK == /\ pool \in [Sessions -> PoolSession]
              /\ queue \in Seq(Sessions)
              /\ poolStopped \in BOOLEAN
              /\ opens \in [Sessions -> 0..MaxOpens]
              /\ ThreadsOK

LEMMA NoEntries == <<>> \in Seq(Sessions)
  OBVIOUS

LEMMA RestingFrames ==
    /\ \A place \in {"absent", "idle", "asleep", "exited"} : Resting(place) \in WorkerFrames
    /\ Resting("idle") \in ClientFrames
  BY DEF Resting, WorkerFrames, ClientFrames, Frame, WorkerPlaces, ClientPlaces, MaybeId

(* Notifying threads leaves them with frames of their own.                 *)
LEMMA NotifiedFrames ==
    /\ \A ws \in [Workers -> WorkerFrames] :
          /\ NotifyOneWorker(ws) \subseteq [Workers -> WorkerFrames]
          /\ NotifyAllWorkers(ws) \in [Workers -> WorkerFrames]
    /\ \A cs \in [Clients -> ClientFrames] : NotifyAllClients(cs) \in [Clients -> ClientFrames]
  <1>1. ASSUME NEW ws \in [Workers -> WorkerFrames]
        PROVE  NotifyOneWorker(ws) \subseteq [Workers -> WorkerFrames]
    BY RestingFrames DEF NotifyOneWorker
  <1>2. ASSUME NEW ws \in [Workers -> WorkerFrames]
        PROVE  NotifyAllWorkers(ws) \in [Workers -> WorkerFrames]
    BY RestingFrames DEF NotifyAllWorkers
  <1>3. ASSUME NEW f \in ClientFrames, f.at = "closeAsleep"
        PROVE  [f EXCEPT !.at = "closeWait"] \in ClientFrames
    BY <1>3 DEF ClientFrames, Frame, ClientPlaces
  <1>4. ASSUME NEW cs \in [Clients -> ClientFrames]
        PROVE  NotifyAllClients(cs) \in [Clients -> ClientFrames]
    BY <1>3 DEF NotifyAllClients
  <1> QED
    BY <1>1, <1>2, <1>4

(* A client that moves on keeps its session and request.                   *)
LEMMA ClientMoves ==
    ASSUME NEW c \in Clients, NEW place, ThreadsOK, 
           place \in ClientPlaces,
           place \in {"idle", "stopMailboxes", "join"} \/ client[c].session \in Sessions
    PROVE  [client EXCEPT ![c].at = place] \in [Clients -> ClientFrames]
  <1>1. [client[c] EXCEPT !.at = place] \in ClientFrames
    BY DEF ThreadsOK, ClientFrames, Frame
  <1> QED
    BY <1>1 DEF ThreadsOK

LEMMA ClientEnters ==
    ASSUME NEW c \in Clients, NEW s \in Sessions, NEW id \in MaybeId, ThreadsOK
    PROVE  \A place \in ClientPlaces :
              [client EXCEPT ![c] = [at |-> place, session |-> s, id |-> id]]
                  \in [Clients -> ClientFrames]
  BY DEF ThreadsOK, ClientFrames, Frame

LEMMA ClientRests ==
    ASSUME NEW c \in Clients, ThreadsOK
    PROVE  [client EXCEPT ![c] = Resting("idle")] \in [Clients -> ClientFrames]
  BY RestingFrames DEF ThreadsOK

LEMMA WorkerRests ==
    ASSUME NEW w \in Workers, ThreadsOK
    PROVE  \A place \in {"idle", "asleep", "exited"} :
              [worker EXCEPT ![w] = Resting(place)] \in [Workers -> WorkerFrames]
  BY RestingFrames DEF ThreadsOK

LEMMA WorkerFinishes ==
    ASSUME NEW w \in Workers, ThreadsOK, worker[w].at \in {"claim", "execute"}
    PROVE  [worker EXCEPT ![w].at = "finish"] \in [Workers -> WorkerFrames]
  <1>1. [worker[w] EXCEPT !.at = "finish"] \in WorkerFrames
    BY DEF ThreadsOK, WorkerFrames, Frame, WorkerPlaces
  <1> QED
    BY <1>1 DEF ThreadsOK

(* enqueue_locked leaves the pool, the queue and the workers in their types. *)
LEMMA EnqueueTypes ==
    ASSUME NEW s \in Sessions, NEW ps \in [Sessions -> PoolSession],
           NEW ws \in [Workers -> WorkerFrames], queue \in Seq(Sessions),
           Enqueue(s, ps, ws)
    PROVE  /\ pool' \in [Sessions -> PoolSession]
           /\ queue' \in Seq(Sessions)
           /\ worker' \in [Workers -> WorkerFrames]
  <1>1. CASE ps[s].queued \/ ~ps[s].active \/ poolStopped
    BY <1>1 DEF Enqueue
  <1>2. CASE ~(ps[s].queued \/ ~ps[s].active \/ poolStopped)
    <2>1. /\ pool' = [ps EXCEPT ![s].queued = TRUE]
          /\ queue' = Append(queue, s)
          /\ worker' \in NotifyOneWorker(ws)
      BY <1>2 DEF Enqueue
    <2>2. [ps[s] EXCEPT !.queued = TRUE] \in PoolSession
      BY DEF PoolSession
    <2> QED
      BY <2>1, <2>2, NotifiedFrames
  <1> QED
    BY <1>1, <1>2

LEMMA PoolSessionUpdates ==
    ASSUME NEW p \in PoolSession
    PROVE  /\ NoSession \in PoolSession
           /\ \A active \in BOOLEAN :
                 /\ [NoSession EXCEPT !.open = TRUE, !.active = active] \in PoolSession
                 /\ [p EXCEPT !.active = active] \in PoolSession
           /\ [p EXCEPT !.active = FALSE, !.rerun = FALSE] \in PoolSession
           /\ [p EXCEPT !.active = FALSE, !.queued = FALSE, !.rerun = FALSE] \in PoolSession
           /\ [p EXCEPT !.queued = FALSE] \in PoolSession
           /\ [p EXCEPT !.rerun = TRUE] \in PoolSession
           /\ [p EXCEPT !.queued = FALSE, !.running = TRUE] \in PoolSession
           /\ [p EXCEPT !.running = FALSE, !.rerun = FALSE] \in PoolSession
           /\ \A id \in MaybeId : [p EXCEPT !.latest = id] \in PoolSession
  BY DEF PoolSession, NoSession, MaybeId
--------------------------------------------------------------------------------
(* The pool does to its mailbox only what the mailbox allows.              *)
LEMMA PoolStepIsHandoffStep ==
    HandoffTypeOK /\ ThreadsOK /\ [PoolNext]_vars => [HandoffNext]_handoffVars
<1> SUFFICES ASSUME HandoffTypeOK, ThreadsOK, [PoolNext]_vars
             PROVE  [HandoffNext]_handoffVars
  OBVIOUS
<1>1. ASSUME NEW c \in Clients, NEW s \in Sessions,
             \/ \E active \in BOOLEAN : OpenSession(c, s, active)
             \/ WorkerStartFails(c, s)
             \/ ShowSession(c, s)
             \/ HideSession(c, s)
             \/ \E id \in RequestIds : RequestSchedule(c, s, id)
             \/ CollectReady(c, s)
             \/ CloseBegin(c, s)
      PROVE  [HandoffNext]_handoffVars
  <2>1. CASE \E active \in BOOLEAN : OpenSession(c, s, active)
    BY <2>1 DEF OpenSession, HandoffNext
  <2>2. CASE WorkerStartFails(c, s)
    BY <2>2 DEF WorkerStartFails
  <2>3. CASE ShowSession(c, s)
    BY <2>3 DEF ShowSession, HandoffNext
  <2>4. CASE HideSession(c, s)
    BY <2>4 DEF HideSession, HandoffNext
  <2>5. CASE \E id \in RequestIds : RequestSchedule(c, s, id)
    BY <2>5 DEF RequestSchedule, HandoffNext
  <2>6. CASE CollectReady(c, s)
    BY <2>6 DEF CollectReady, HandoffNext
  <2>7. CASE CloseBegin(c, s)
    BY <2>7 DEF CloseBegin
  <2> QED
    BY <1>1, <2>1, <2>2, <2>3, <2>4, <2>5, <2>6, <2>7
<1>2. ASSUME NEW c \in Clients, StopBegin(c) \/ ClientStep(c)
      PROVE  [HandoffNext]_handoffVars
  <2>1. CASE \/ StopBegin(c) \/ RequestEnqueue(c) \/ CloseSleep(c) \/ CloseErase(c)
             \/ CloseFindsNothing(c) \/ StopJoined(c)
    BY <2>1 DEF StopBegin, RequestEnqueue, CloseSleep, CloseErase, CloseFindsNothing, StopJoined
  <2>2. CASE CloseHide(c)
    <3>1. client[c].session \in Sessions
      BY <2>2 DEF CloseHide, ThreadsOK, ClientFrames
    <3> QED
      BY <2>2, <3>1 DEF CloseHide, HandoffNext
  <2>3. CASE CloseMailboxLast(c)
    <3>1. client[c].session \in Sessions
      BY <2>3 DEF CloseMailboxLast, ThreadsOK, ClientFrames
    <3> QED
      BY <2>3, <3>1 DEF CloseMailboxLast, HandoffNext
  <2>4. CASE StopHandoff(c)
    BY <2>4 DEF StopHandoff, HandoffNext
  <2> QED
    BY <1>2, <2>1, <2>2, <2>3, <2>4 DEF ClientStep
<1>3. ASSUME NEW w \in Workers, WorkerStep(w)
      PROVE  [HandoffNext]_handoffVars
  <2>1. CASE WaitForWork(w) \/ WorkerExit(w) \/ SkipEntry(w) \/ StartRun(w) \/ FinishRun(w)
    BY <2>1 DEF WaitForWork, WorkerExit, SkipEntry, StartRun, FinishRun
  <2>2. CASE ClaimPending(w)
    <3>1. worker[w].session \in Sessions
      BY <2>2 DEF ClaimPending, ThreadsOK, WorkerFrames
    <3> QED
      BY <2>2, <3>1 DEF ClaimPending, HandoffNext
  <2>3. ASSUME NEW size \in Charges, PublishRun(w, size)
        PROVE  [HandoffNext]_handoffVars
    <3>1. worker[w].session \in Sessions /\ worker[w].id \in RequestIds
      BY <2>3 DEF PublishRun, ThreadsOK, WorkerFrames
    <3> QED
      BY <2>3, <3>1 DEF PublishRun, HandoffNext
  <2> QED
    BY <1>3, <2>1, <2>2, <2>3 DEF WorkerStep
<1>4. CASE SpuriousWake
  BY <1>4 DEF SpuriousWake
<1>5. CASE UNCHANGED vars
  BY <1>5 DEF vars
<1> QED
  BY <1>1, <1>2, <1>3, <1>4, <1>5 DEF PoolNext, ClientCall
--------------------------------------------------------------------------------
(* Every step keeps what the pool itself holds in its types.               *)
LEMMA OwnStateStep ==
    HandoffTypeOK /\ OwnStateOK /\ [PoolNext]_vars => OwnStateOK'
<1> SUFFICES ASSUME HandoffTypeOK, OwnStateOK, [PoolNext]_vars
             PROVE  OwnStateOK'
  OBVIOUS
<1>a. /\ ThreadsOK
      /\ \A c \in Clients : client[c] \in ClientFrames
      /\ \A w \in Workers : worker[w] \in WorkerFrames
      /\ \A s \in Sessions : pool[s] \in PoolSession
  BY DEF OwnStateOK, ThreadsOK
<1>b. \A W \in SUBSET Workers : Started(W) \in [Workers -> WorkerFrames]
  BY <1>a, RestingFrames DEF Started
<1> USE DEF OwnStateOK
<1>1. ASSUME NEW c \in Clients, NEW s \in Sessions, NEW active \in BOOLEAN,
             OpenSession(c, s, active)
      PROVE  OwnStateOK'
  <2>1. [NoSession EXCEPT !.open = TRUE, !.active = active] \in PoolSession
    BY <1>a, PoolSessionUpdates
  <2>2. opens[s] + 1 \in 0..MaxOpens
    BY <1>1, PoolAssumption DEF OpenSession
  <2> QED
    BY <1>1, <1>a, <1>b, <2>1, <2>2 DEF OpenSession, ThreadsOK
<1>2. ASSUME NEW c \in Clients, NEW s \in Sessions, WorkerStartFails(c, s)
      PROVE  OwnStateOK'
  BY <1>2, <1>a, <1>b DEF WorkerStartFails, ThreadsOK, poolVars
<1>3. ASSUME NEW c \in Clients, NEW s \in Sessions, ShowSession(c, s)
      PROVE  OwnStateOK'
  BY <1>3, <1>a, PoolSessionUpdates DEF ShowSession, ThreadsOK, threadVars
<1>4. ASSUME NEW c \in Clients, NEW s \in Sessions, HideSession(c, s)
      PROVE  OwnStateOK'
  BY <1>4, <1>a, PoolSessionUpdates DEF HideSession, ThreadsOK, threadVars
<1>5. ASSUME NEW c \in Clients, NEW s \in Sessions, NEW id \in RequestIds,
             RequestSchedule(c, s, id)
      PROVE  OwnStateOK'
  <2>1. client' \in [Clients -> ClientFrames]
    BY <1>5, <1>a, ClientEnters DEF RequestSchedule, MaybeId, ClientPlaces
  <2> QED
    BY <1>5, <1>a, <2>1 DEF RequestSchedule, ThreadsOK, poolVars
<1>6. ASSUME NEW c \in Clients, NEW s \in Sessions, CollectReady(c, s)
      PROVE  OwnStateOK'
  BY <1>6, <1>a DEF CollectReady, ThreadsOK, poolVars, threadVars
<1>7. ASSUME NEW c \in Clients, NEW s \in Sessions, CloseBegin(c, s)
      PROVE  OwnStateOK'
  <2>1. client' \in [Clients -> ClientFrames]
    BY <1>7, <1>a, ClientEnters DEF CloseBegin, MaybeId, ClientPlaces
  <2> QED
    BY <1>7, <1>a, <2>1, PoolSessionUpdates DEF CloseBegin, ThreadsOK
<1>8. ASSUME NEW c \in Clients, StopBegin(c) PROVE OwnStateOK'
  <2>1. client' \in [Clients -> ClientFrames]
    BY <1>8, <1>a, ClientMoves DEF StopBegin, Goto, ClientPlaces
  <2>2. worker' \in [Workers -> WorkerFrames]
    BY <1>8, NotifiedFrames DEF StopBegin, ThreadsOK
  <2>3. pool' \in [Sessions -> PoolSession]
    BY <1>8, <1>a, PoolSessionUpdates DEF StopBegin
  <2>4. /\ queue' \in Seq(Sessions)
        /\ poolStopped' \in BOOLEAN
        /\ UNCHANGED opens
    BY <1>8, NoEntries DEF StopBegin
  <2> QED
    BY <2>1, <2>2, <2>3, <2>4 DEF ThreadsOK
<1>9. ASSUME NEW c \in Clients, RequestEnqueue(c) PROVE OwnStateOK'
  <2> DEFINE s == client[c].session
             ps == [pool EXCEPT ![s].latest = client[c].id]
  <2>1. s \in Sessions /\ client[c].id \in MaybeId
    BY <1>9, <1>a DEF RequestEnqueue, ClientFrames, Frame
  <2>2. ps \in [Sessions -> PoolSession]
    BY <1>a, <2>1, PoolSessionUpdates
  <2>3. client' \in [Clients -> ClientFrames]
    BY <1>9, <1>a, ClientRests DEF RequestEnqueue, Return
  <2>4. /\ pool' \in [Sessions -> PoolSession]
        /\ queue' \in Seq(Sessions)
        /\ worker' \in [Workers -> WorkerFrames]
    <3>1. CASE poolStopped \/ ~pool[s].open \/ ~pool[s].active
      BY <1>9, <3>1 DEF RequestEnqueue, ThreadsOK
    <3>2. CASE ~(poolStopped \/ ~pool[s].open \/ ~pool[s].active) /\ pool[s].running
      <4>1. pool' = [ps EXCEPT ![s].rerun = TRUE] /\ UNCHANGED <<queue, worker>>
        BY <1>9, <3>2 DEF RequestEnqueue
      <4>2. [ps[s] EXCEPT !.rerun = TRUE] \in PoolSession
        BY <2>1, <2>2, PoolSessionUpdates
      <4> HIDE DEF ps
      <4> QED
        BY <4>1, <4>2, <2>1, <2>2 DEF ThreadsOK
    <3>3. CASE ~(poolStopped \/ ~pool[s].open \/ ~pool[s].active) /\ ~pool[s].running
      <4>1. Enqueue(s, ps, worker)
        BY <1>9, <3>3 DEF RequestEnqueue
      <4> HIDE DEF ps, s
      <4> QED
        BY <4>1, <2>1, <2>2, EnqueueTypes DEF ThreadsOK
    <3> QED
      BY <3>1, <3>2, <3>3
  <2> QED
    BY <1>9, <2>3, <2>4 DEF RequestEnqueue, ThreadsOK
<1>10. ASSUME NEW c \in Clients, CloseHide(c) PROVE OwnStateOK'
  <2>1. client' \in [Clients -> ClientFrames]
    BY <1>10, <1>a, ClientMoves DEF CloseHide, Goto, ClientPlaces, ClientFrames
  <2> QED
    BY <1>10, <1>a, <2>1 DEF CloseHide, ThreadsOK, poolVars
<1>11. ASSUME NEW c \in Clients, CloseSleep(c) PROVE OwnStateOK'
  <2>1. client' \in [Clients -> ClientFrames]
    BY <1>11, <1>a, ClientMoves DEF CloseSleep, Goto, ClientPlaces, ClientFrames
  <2> QED
    BY <1>11, <1>a, <2>1 DEF CloseSleep, ThreadsOK, poolVars
<1>12. ASSUME NEW c \in Clients, CloseErase(c) PROVE OwnStateOK'
  <2>1. [client EXCEPT ![c].at = "closeMailbox"] \in [Clients -> ClientFrames]
    BY <1>12, <1>a, ClientMoves DEF CloseErase, ClientPlaces, ClientFrames
  <2>2. client' \in [Clients -> ClientFrames]
    BY <1>12, <2>1, NotifiedFrames DEF CloseErase
  <2> QED
    BY <1>12, <1>a, <2>2, PoolSessionUpdates DEF CloseErase, ThreadsOK
<1>13. ASSUME NEW c \in Clients, CloseFindsNothing(c) PROVE OwnStateOK'
  BY <1>13, <1>a, ClientRests DEF CloseFindsNothing, Return, ThreadsOK, poolVars
<1>14. ASSUME NEW c \in Clients, CloseMailboxLast(c) PROVE OwnStateOK'
  BY <1>14, <1>a, ClientRests DEF CloseMailboxLast, Return, ThreadsOK, poolVars
<1>15. ASSUME NEW c \in Clients, StopHandoff(c) PROVE OwnStateOK'
  <2>1. client' \in [Clients -> ClientFrames]
    BY <1>15, <1>a, ClientMoves DEF StopHandoff, Goto, ClientPlaces
  <2> QED
    BY <1>15, <1>a, <2>1 DEF StopHandoff, ThreadsOK, poolVars
<1>16. ASSUME NEW c \in Clients, StopJoined(c) PROVE OwnStateOK'
  <2>1. client' \in [Clients -> ClientFrames]
    BY <1>16, <1>a, ClientRests, NotifiedFrames DEF StopJoined
  <2>2. pool' \in [Sessions -> PoolSession]
    BY <1>16, <1>a, PoolSessionUpdates DEF StopJoined
  <2> QED
    BY <1>16, <1>a, <2>1, <2>2 DEF StopJoined, ThreadsOK
<1>17. ASSUME NEW w \in Workers, WaitForWork(w) PROVE OwnStateOK'
  BY <1>17, <1>a, WorkerRests DEF WaitForWork, ThreadsOK, poolVars
<1>18. ASSUME NEW w \in Workers, WorkerExit(w) PROVE OwnStateOK'
  BY <1>18, <1>a, WorkerRests DEF WorkerExit, ThreadsOK, poolVars
<1>c. queue # <<>> => Head(queue) \in Sessions /\ Tail(queue) \in Seq(Sessions)
  OBVIOUS
<1>19. ASSUME NEW w \in Workers, SkipEntry(w) PROVE OwnStateOK'
  <2>1. client' \in [Clients -> ClientFrames]
    BY <1>19, <1>a, NotifiedFrames DEF SkipEntry, ThreadsOK
  <2>2. pool' \in [Sessions -> PoolSession]
    BY <1>19, <1>a, <1>c, PoolSessionUpdates DEF SkipEntry
  <2> QED
    BY <1>19, <1>a, <1>c, <2>1, <2>2 DEF SkipEntry, ThreadsOK
<1>20. ASSUME NEW w \in Workers, StartRun(w) PROVE OwnStateOK'
  <2>1. Head(queue) \in Sessions /\ queue' \in Seq(Sessions)
    BY <1>20, <1>c DEF StartRun
  <2>2. pool' \in [Sessions -> PoolSession]
    BY <1>20, <1>a, <2>1, PoolSessionUpdates DEF StartRun
  <2>3. [at |-> "claim", session |-> Head(queue), id |-> 0] \in WorkerFrames
    BY <2>1 DEF WorkerFrames, Frame, WorkerPlaces, MaybeId
  <2>4. worker' \in [Workers -> WorkerFrames]
    BY <1>20, <2>3 DEF StartRun, ThreadsOK
  <2> QED
    BY <1>20, <1>a, <2>1, <2>2, <2>4 DEF StartRun, ThreadsOK
<1>21. ASSUME NEW w \in Workers, ClaimPending(w) PROVE OwnStateOK'
  <2> DEFINE s == worker[w].session
  <2>1. s \in Sessions /\ worker[w].at = "claim"
    BY <1>21, <1>a DEF ClaimPending, WorkerFrames
  <2>2. worker' \in [Workers -> WorkerFrames]
    <3>1. CASE CanTake(s)
      <4>1. mail[s].pending \in RequestIds
        BY <3>1, <2>1 DEF CanTake, HandoffTypeOK, Mailbox, MaybeId
      <4>2. [worker[w] EXCEPT !.at = "execute", !.id = mail[s].pending] \in WorkerFrames
        BY <4>1, <2>1, <1>a DEF WorkerFrames, Frame, WorkerPlaces, MaybeId
      <4> QED
        BY <1>21, <3>1, <4>2 DEF ClaimPending, ThreadsOK
    <3>2. CASE ~CanTake(s)
      BY <1>21, <3>2, <2>1, <1>a, WorkerFinishes DEF ClaimPending
    <3> QED
      BY <3>1, <3>2
  <2> QED
    BY <1>21, <1>a, <2>2 DEF ClaimPending, ThreadsOK, poolVars
<1>22. ASSUME NEW w \in Workers, NEW size \in Charges, PublishRun(w, size) PROVE OwnStateOK'
  <2>1. worker' \in [Workers -> WorkerFrames]
    BY <1>22, <1>a, WorkerFinishes DEF PublishRun
  <2> QED
    BY <1>22, <1>a, <2>1 DEF PublishRun, ThreadsOK, poolVars
<1>23. ASSUME NEW w \in Workers, FinishRun(w) PROVE OwnStateOK'
  <2> DEFINE s == worker[w].session
             ps == [pool EXCEPT ![s] = [@ EXCEPT !.running = FALSE, !.rerun = FALSE]]
             ws == [worker EXCEPT ![w] = Resting("idle")]
  <2>1. s \in Sessions
    BY <1>23, <1>a DEF FinishRun, WorkerFrames
  <2>2. ps \in [Sessions -> PoolSession]
    BY <2>1, <1>a, PoolSessionUpdates
  <2>3. ws \in [Workers -> WorkerFrames]
    BY <1>a, WorkerRests
  <2>4. client' \in [Clients -> ClientFrames]
    BY <1>23, NotifiedFrames DEF FinishRun, ThreadsOK
  <2>5. \/ Enqueue(s, ps, ws)
        \/ pool' = ps /\ worker' = ws /\ UNCHANGED queue
    BY <1>23 DEF FinishRun
  <2>6. UNCHANGED <<poolStopped, opens>>
    BY <1>23 DEF FinishRun
  <2> HIDE DEF s, ps, ws
  <2>7. /\ pool' \in [Sessions -> PoolSession]
        /\ queue' \in Seq(Sessions)
        /\ worker' \in [Workers -> WorkerFrames]
    BY <2>1, <2>2, <2>3, <2>5, EnqueueTypes
  <2> QED
    BY <2>4, <2>6, <2>7 DEF ThreadsOK
<1>24. CASE SpuriousWake
  <2>1. worker' \in [Workers -> WorkerFrames]
    BY <1>24, <1>a, WorkerRests DEF SpuriousWake, ThreadsOK
  <2>2. client' \in [Clients -> ClientFrames]
    <3>1. CASE UNCHANGED client
      BY <3>1 DEF ThreadsOK
    <3>2. ASSUME NEW c \in Clients, client[c].at = "closeAsleep", Goto(c, "closeWait")
          PROVE  client' \in [Clients -> ClientFrames]
      BY <3>2, <1>a, ClientMoves DEF Goto, ClientPlaces, ClientFrames
    <3> QED
      BY <1>24, <3>1, <3>2 DEF SpuriousWake
  <2> QED
    BY <1>24, <2>1, <2>2 DEF SpuriousWake, ThreadsOK, poolVars
<1>25. CASE UNCHANGED vars
  BY <1>25 DEF vars, poolVars, threadVars, ThreadsOK
<1> QED
  BY <1>1, <1>2, <1>3, <1>4, <1>5, <1>6, <1>7, <1>8, <1>9, <1>10, <1>11, <1>12, <1>13,
     <1>14, <1>15, <1>16, <1>17, <1>18, <1>19, <1>20, <1>21, <1>22, <1>23, <1>24, <1>25
     DEF PoolNext, ClientCall, ClientStep, WorkerStep

LEMMA PoolTypeInit == PoolInit => HandoffTypeOK /\ OwnStateOK
<1> SUFFICES ASSUME PoolInit PROVE HandoffTypeOK /\ OwnStateOK
  OBVIOUS
<1>1. HandoffTypeOK
  BY HandoffTypeInit DEF PoolInit
<1>2. NoSession \in PoolSession
  BY DEF NoSession, PoolSession, MaybeId
<1>3. ThreadsOK
  BY RestingFrames DEF PoolInit, ThreadsOK
<1>4. queue \in Seq(Sessions)
  BY NoEntries DEF PoolInit
<1>5. opens \in [Sessions -> 0..MaxOpens]
  BY PoolAssumption DEF PoolInit
<1>6. pool \in [Sessions -> PoolSession] /\ poolStopped \in BOOLEAN
  BY <1>2 DEF PoolInit
<1> QED
  BY <1>1, <1>3, <1>4, <1>5, <1>6 DEF OwnStateOK

LEMMA PoolTypeStep ==
    HandoffTypeOK /\ OwnStateOK /\ [PoolNext]_vars => HandoffTypeOK' /\ OwnStateOK'
  BY OwnStateStep, PoolStepIsHandoffStep, HandoffTypeStep DEF OwnStateOK

(* The pool, its queue, its threads and the mailbox keep their types, the  *)
(* byte budget included, whatever the clients and the workers do.          *)
THEOREM PoolTypeCorrect == PoolSpec => []PoolTypeOK
<1>1. HandoffTypeOK /\ OwnStateOK => PoolTypeOK
  <2>1. WorkerFrames \subseteq Frame(WorkerPlaces) /\ ClientFrames \subseteq Frame(ClientPlaces)
    BY DEF WorkerFrames, ClientFrames
  <2> QED
    BY <2>1 DEF OwnStateOK, ThreadsOK, PoolTypeOK
<1> QED
  BY <1>1, PoolTypeInit, PoolTypeStep, PTL DEF PoolSpec

(* The promise of the mailbox is a promise of the pool: however threads    *)
(* interleave, only the newest request is answered, once, while shown.     *)
THEOREM PoolKeepsPromise == PoolSpec => KeepsPromise
<1>1. PoolInit => HandoffInit
  BY DEF PoolInit
<1>2. PoolSpec => HandoffSpec
  BY <1>1, PoolTypeInit, PoolTypeStep, PoolStepIsHandoffStep, PTL
     DEF PoolSpec, HandoffSpec, OwnStateOK
<1> QED
  BY <1>2, HandoffKeepsPromise

(* So is the count of the bytes: no thread can make it drift from what the *)
(* sessions retain.                                                        *)
THEOREM PoolBytesAreExact == PoolSpec => []ReadyBytesExact
<1>1. PoolInit => HandoffInit
  BY DEF PoolInit
<1>2. PoolSpec => HandoffSpec
  BY <1>1, PoolTypeInit, PoolTypeStep, PoolStepIsHandoffStep, PTL
     DEF PoolSpec, HandoffSpec, OwnStateOK
<1> QED
  BY <1>2, ReadyBytesAreExact
--------------------------------------------------------------------------------
(* RunOwnsSession is not inductive alone: what keeps the mailbox of an     *)
(* open session in place while it is closed and opened again is that the   *)
(* one client that erased the session has yet to close its mailbox.        *)
ClosersAlone ==
    /\ \A s \in Sessions : pool[s].open => mail[s].open
    /\ \A c \in Clients : client[c].at = "closeMailbox" =>
          /\ ~pool[client[c].session].open
          /\ mail[client[c].session].open
          /\ \A d \in Clients \ {c} : client[d].at = "closeMailbox" =>
                client[d].session # client[c].session

PoolSound == HandoffTypeOK /\ OwnStateOK /\ ClosersAlone /\ RunOwnsSession

(* Waking threads touches neither busy workers nor clients that close.     *)
LEMMA NotifyTouchesSleepers ==
    /\ \A ws \in [Workers -> WorkerFrames] : \A vs \in NotifyOneWorker(ws) : \A w \in Workers :
          vs[w] = ws[w] \/ (ws[w].at = "asleep" /\ vs[w].at = "idle")
    /\ \A ws \in [Workers -> WorkerFrames] : \A w \in Workers :
          NotifyAllWorkers(ws)[w] = ws[w]
              \/ (ws[w].at = "asleep" /\ NotifyAllWorkers(ws)[w].at = "idle")
    /\ \A cs \in [Clients -> ClientFrames] : \A c \in Clients :
          NotifyAllClients(cs)[c] = cs[c]
              \/ (cs[c].at = "closeAsleep" /\ NotifyAllClients(cs)[c].at = "closeWait")
<1>1. ASSUME NEW ws \in [Workers -> WorkerFrames], NEW vs \in NotifyOneWorker(ws),
             NEW w \in Workers
      PROVE  vs[w] = ws[w] \/ (ws[w].at = "asleep" /\ vs[w].at = "idle")
  BY DEF NotifyOneWorker, Resting
<1>2. ASSUME NEW ws \in [Workers -> WorkerFrames], NEW w \in Workers
      PROVE  \/ NotifyAllWorkers(ws)[w] = ws[w]
             \/ ws[w].at = "asleep" /\ NotifyAllWorkers(ws)[w].at = "idle"
  BY DEF NotifyAllWorkers, Resting
<1>3. ASSUME NEW cs \in [Clients -> ClientFrames], NEW c \in Clients
      PROVE  \/ NotifyAllClients(cs)[c] = cs[c]
             \/ cs[c].at = "closeAsleep" /\ NotifyAllClients(cs)[c].at = "closeWait"
  <2>1. cs[c] \in Frame(ClientPlaces)
    BY DEF ClientFrames
  <2> QED
    BY <2>1 DEF NotifyAllClients, Frame
<1> QED
  BY <1>1, <1>2, <1>3

(* A step that leaves the busy workers alone, and of each session what     *)
(* RunOwnsSession looks at, keeps it.                                      *)
SameRuns == /\ \A w \in Workers : /\ Busy(w) <=> Busy(w)'
                                  /\ Busy(w) => worker'[w] = worker[w]
            /\ \A s \in Sessions : /\ pool'[s].running = pool[s].running
                                   /\ pool[s].open /\ pool[s].running => pool'[s].open
                                   /\ mail'[s].running = mail[s].running
            /\ handoffStopped' = handoffStopped

LEMMA SameRunsKeep ==
    ThreadsOK /\ RunOwnsSession /\ SameRuns => RunOwnsSession'
<1> SUFFICES ASSUME ThreadsOK, RunOwnsSession, SameRuns PROVE RunOwnsSession'
  OBVIOUS
<1>1. ASSUME NEW w \in Workers, Busy(w)
      PROVE  worker[w].session \in Sessions
  BY <1>1 DEF ThreadsOK, WorkerFrames, Busy
<1>2. ASSUME NEW w \in Workers, Busy(w)'
      PROVE  /\ Busy(w) /\ worker'[w] = worker[w] /\ worker[w].session \in Sessions
             /\ pool[worker[w].session].open /\ pool[worker[w].session].running
             /\ pool'[worker[w].session].open /\ pool'[worker[w].session].running
             /\ mail'[worker[w].session].running = mail[worker[w].session].running
  BY <1>1, <1>2 DEF SameRuns, RunOwnsSession
<1>3. ASSUME NEW w \in Workers, Busy(w)'
      PROVE  LET s == worker'[w].session IN
             /\ pool'[s].open /\ pool'[s].running
             /\ \A v \in Workers \ {w} : Busy(v)' => worker'[v].session # s
             /\ mail'[s].running = IF worker'[w].at = "execute" /\ ~handoffStopped'
                                   THEN worker'[w].id ELSE 0
  <2>1. Busy(w) /\ worker'[w] = worker[w]
    BY <1>2, <1>3
  <2>2. \A v \in Workers \ {w} : Busy(v)' => worker'[v].session # worker[w].session
    BY <1>2, <2>1 DEF RunOwnsSession
  <2>3. mail[worker[w].session].running = IF worker[w].at = "execute" /\ ~handoffStopped
                                          THEN worker[w].id ELSE 0
    BY <2>1 DEF RunOwnsSession
  <2> QED
    BY <1>2, <1>3, <2>1, <2>2, <2>3 DEF SameRuns
<1>4. ASSUME NEW s \in Sessions, pool'[s].running \/ mail'[s].running # 0
      PROVE  \E w \in Workers : Busy(w)' /\ worker'[w].session = s
  <2>1. PICK w \in Workers : Busy(w) /\ worker[w].session = s
    BY <1>4 DEF SameRuns, RunOwnsSession
  <2> QED
    BY <2>1 DEF SameRuns
<1> QED
  BY <1>3, <1>4 DEF RunOwnsSession

(* What no mailbox operation but claiming, publishing, closing, opening    *)
(* and stopping does: change the running request.                          *)
LEMMA HelpersKeepRunning ==
    ASSUME NEW m \in Mailbox
    PROVE  /\ WithoutReady(m).running = m.running
           /\ Hidden(m).running = m.running
           /\ \A id : [WithoutReady(m) EXCEPT !.latest = id, !.pending = id].running = m.running
           /\ [m EXCEPT !.active = TRUE].running = m.running
  BY DEF WithoutReady, Hidden, Mailbox

LEMMA ClosedNotRunning ==
    ASSUME ThreadsOK, RunOwnsSession, NEW s \in Sessions, pool \in [Sessions -> PoolSession],
           ~pool[s].open \/ \A w \in Workers : ~Busy(w)
    PROVE  pool[s].running = FALSE /\ mail[s].running = 0
<1>1. ~pool[s].running /\ mail[s].running = 0
  BY DEF RunOwnsSession
<1> QED
  BY <1>1 DEF PoolSession

(* The steps of clients: none of them starts, changes or ends a run, but   *)
(* that stopping the mailboxes takes the running requests away.            *)
LEMMA ClientKeepsRuns ==
    ASSUME HandoffTypeOK, OwnStateOK, ClosersAlone, RunOwnsSession,
           NEW c \in Clients, ClientCall(c) \/ (ClientStep(c) /\ ~StopHandoff(c))
    PROVE  SameRuns
<1>a. /\ ThreadsOK
      /\ worker \in [Workers -> WorkerFrames] /\ client \in [Clients -> ClientFrames]
      /\ pool \in [Sessions -> PoolSession] /\ mail \in [Sessions -> Mailbox]
      /\ \A s \in Sessions : pool[s] \in PoolSession /\ mail[s] \in Mailbox
  BY DEF OwnStateOK, ThreadsOK, HandoffTypeOK
<1>b. \A s \in Sessions : ~pool[s].open => pool[s].running = FALSE /\ mail[s].running = 0
  BY <1>a, ClosedNotRunning
<1>c. \A W \in SUBSET Workers : \A w \in Workers :
          Started(W)[w] = worker[w] \/ (worker[w].at = "absent" /\ Started(W)[w].at = "idle")
  BY <1>a DEF Started, Resting
<1>1. ASSUME NEW s \in Sessions, NEW active \in BOOLEAN, OpenSession(c, s, active)
      PROVE  SameRuns
  <2>1. ~pool[s].open /\ pool[s].running = FALSE /\ mail[s].running = 0
    BY <1>1, <1>b DEF OpenSession
  <2>2. NewMailbox(active).running = 0
    BY DEF NewMailbox, NoMailbox
  <2>3. [NoSession EXCEPT !.open = TRUE, !.active = active].running = FALSE
    BY DEF NoSession
  <2>4. \A t \in Sessions : /\ pool'[t].running = pool[t].running
                            /\ pool[t].open => pool'[t].open
    BY <1>1, <1>a, <2>1, <2>3 DEF OpenSession
  <2>5. \A t \in Sessions : mail'[t].running = mail[t].running
    BY <1>1, <1>a, <2>1, <2>2 DEF OpenSession, OpenMailbox
  <2>6. handoffStopped' = handoffStopped
    BY <1>1 DEF OpenSession, OpenMailbox
  <2>7. \A w \in Workers : /\ Busy(w) <=> Busy(w)'
                           /\ Busy(w) => worker'[w] = worker[w]
    BY <1>1, <1>c DEF OpenSession, Busy
  <2> QED
    BY <2>4, <2>5, <2>6, <2>7 DEF SameRuns
<1>2. ASSUME NEW s \in Sessions, WorkerStartFails(c, s) PROVE SameRuns
  <2>1. \A w \in Workers : /\ Busy(w) <=> Busy(w)'
                           /\ Busy(w) => worker'[w] = worker[w]
    BY <1>2, <1>c DEF WorkerStartFails, Busy
  <2> QED
    BY <1>2, <2>1 DEF WorkerStartFails, SameRuns, handoffVars, poolVars
<1>3. ASSUME NEW s \in Sessions, ShowSession(c, s) PROVE SameRuns
  <2>1. \A t \in Sessions : mail'[t].running = mail[t].running
    BY <1>3, <1>a, HelpersKeepRunning DEF ShowSession, ShowMailbox
  <2>2. \A t \in Sessions : pool'[t].running = pool[t].running /\ pool'[t].open = pool[t].open
    BY <1>3, <1>a DEF ShowSession, PoolSession
  <2> QED
    BY <1>3, <2>1, <2>2 DEF ShowSession, ShowMailbox, SameRuns, threadVars, Busy
<1>4. ASSUME NEW s \in Sessions, HideSession(c, s) PROVE SameRuns
  <2>1. \A t \in Sessions : mail'[t].running = mail[t].running
    BY <1>4, <1>a, HelpersKeepRunning DEF HideSession, HideMailbox
  <2>2. \A t \in Sessions : pool'[t].running = pool[t].running /\ pool'[t].open = pool[t].open
    BY <1>4, <1>a DEF HideSession, PoolSession
  <2> QED
    BY <1>4, <2>1, <2>2 DEF HideSession, HideMailbox, SameRuns, threadVars, Busy
<1>5. ASSUME NEW s \in Sessions, NEW id \in RequestIds, RequestSchedule(c, s, id)
      PROVE  SameRuns
  <2>1. \A t \in Sessions : mail'[t].running = mail[t].running
    BY <1>5, <1>a, HelpersKeepRunning DEF RequestSchedule, Schedule
  <2> QED
    BY <1>5, <2>1 DEF RequestSchedule, Schedule, SameRuns, poolVars, Busy
<1>6. ASSUME NEW s \in Sessions, CollectReady(c, s) PROVE SameRuns
  <2>1. \A t \in Sessions : mail'[t].running = mail[t].running
    BY <1>6, <1>a, HelpersKeepRunning DEF CollectReady, TakeReady
  <2> QED
    BY <1>6, <2>1 DEF CollectReady, TakeReady, SameRuns, poolVars, threadVars, Busy
<1>7. ASSUME NEW s \in Sessions, CloseBegin(c, s) PROVE SameRuns
  <2>1. \A t \in Sessions : pool'[t].running = pool[t].running /\ pool'[t].open = pool[t].open
    BY <1>7, <1>a DEF CloseBegin, PoolSession
  <2> QED
    BY <1>7, <2>1 DEF CloseBegin, SameRuns, handoffVars, Busy
<1>8. ASSUME StopBegin(c) PROVE SameRuns
  <2>1. \A t \in Sessions : pool'[t].running = pool[t].running /\ pool'[t].open = pool[t].open
    BY <1>8, <1>a DEF StopBegin, PoolSession
  <2>2. \A w \in Workers : /\ Busy(w) <=> Busy(w)'
                           /\ Busy(w) => worker'[w] = worker[w]
    BY ZenonT(60), <1>8, <1>a, NotifyTouchesSleepers DEF StopBegin, Busy
  <2> QED
    BY <1>8, <2>1, <2>2 DEF StopBegin, SameRuns, handoffVars
<1>9. ASSUME RequestEnqueue(c) PROVE SameRuns
  <2> DEFINE s == client[c].session
             ps == [pool EXCEPT ![s].latest = client[c].id]
  <2>1. s \in Sessions
    BY <1>9, <1>a DEF RequestEnqueue, ClientFrames
  <2>2. /\ ps \in [Sessions -> PoolSession]
        /\ \A t \in Sessions : ps[t].running = pool[t].running /\ ps[t].open = pool[t].open
    <3>1. client[c].id \in MaybeId
      BY <1>a DEF ClientFrames, Frame
    <3>2. [pool[s] EXCEPT !.latest = client[c].id] \in PoolSession
      BY <3>1, <2>1, <1>a, PoolSessionUpdates
    <3> QED
      BY <3>2, <2>1, <1>a DEF PoolSession
  <2>3. \/ UNCHANGED <<pool, queue, worker>>
        \/ pool' = [ps EXCEPT ![s].rerun = TRUE] /\ UNCHANGED <<queue, worker>>
        \/ Enqueue(s, ps, worker)
    BY <1>9 DEF RequestEnqueue
  <2>4. handoffStopped' = handoffStopped /\ mail' = mail
    BY <1>9 DEF RequestEnqueue, handoffVars
  <2> HIDE DEF ps, s
  <2>5. \/ pool' = pool \/ pool' = ps \/ pool' = [ps EXCEPT ![s].rerun = TRUE]
        \/ pool' = [ps EXCEPT ![s].queued = TRUE]
    BY <2>3 DEF Enqueue
  <2>6. \A t \in Sessions : pool'[t].running = pool[t].running /\ pool'[t].open = pool[t].open
    BY <2>1, <2>2, <2>5, <1>a DEF PoolSession
  <2>7. worker' = worker \/ worker' \in NotifyOneWorker(worker)
    BY <2>3 DEF Enqueue
  <2>8. \A w \in Workers : /\ Busy(w) <=> Busy(w)'
                           /\ Busy(w) => worker'[w] = worker[w]
    BY <2>7, <1>a, NotifyTouchesSleepers DEF Busy
  <2> QED
    BY <2>4, <2>6, <2>8 DEF SameRuns
<1>10. ASSUME CloseHide(c) PROVE SameRuns
  <2>1. client[c].session \in Sessions
    BY <1>10, <1>a DEF CloseHide, ClientFrames
  <2>2. \A t \in Sessions : mail'[t].running = mail[t].running
    BY <1>10, <1>a, <2>1, HelpersKeepRunning DEF CloseHide, HideMailbox, handoffVars
  <2>3. handoffStopped' = handoffStopped
    BY <1>10 DEF CloseHide, HideMailbox, handoffVars
  <2> QED
    BY <1>10, <2>2, <2>3 DEF CloseHide, SameRuns, poolVars, Busy
<1>11. ASSUME CloseSleep(c) \/ CloseFindsNothing(c) PROVE SameRuns
  BY <1>11 DEF CloseSleep, CloseFindsNothing, SameRuns, poolVars, handoffVars, Busy
<1>12. ASSUME CloseErase(c) PROVE SameRuns
  <2>1. client[c].session \in Sessions
    BY <1>12, <1>a DEF CloseErase, ClientFrames
  <2>2. pool[client[c].session].running = FALSE
    BY <1>12, <1>a, <2>1 DEF CloseErase, PoolSession
  <2>3. \A t \in Sessions : /\ pool'[t].running = pool[t].running
                            /\ pool[t].open /\ pool[t].running => pool'[t].open
    BY <1>12, <1>a, <2>1, <2>2 DEF CloseErase, NoSession
  <2> QED
    BY <1>12, <2>3 DEF CloseErase, SameRuns, handoffVars, Busy
<1>13. ASSUME CloseMailboxLast(c) PROVE SameRuns
  <2>1. client[c].session \in Sessions
    BY <1>13, <1>a DEF CloseMailboxLast, ClientFrames
  <2>2. mail[client[c].session].running = 0
    BY <1>13, <1>b, <2>1 DEF CloseMailboxLast, ClosersAlone
  <2>3. \A t \in Sessions : mail'[t].running = mail[t].running
    BY <1>13, <1>a, <2>1, <2>2 DEF CloseMailboxLast, CloseMailbox, NoMailbox, handoffVars
  <2>4. handoffStopped' = handoffStopped
    BY <1>13 DEF CloseMailboxLast, CloseMailbox, handoffVars
  <2> QED
    BY <1>13, <2>3, <2>4 DEF CloseMailboxLast, SameRuns, poolVars, Busy
<1>14. ASSUME StopJoined(c) PROVE SameRuns
  <2>1. \A w \in Workers : ~Busy(w)
    BY <1>14 DEF StopJoined, Busy
  <2>2. \A t \in Sessions : pool[t].running = FALSE
    BY <2>1, <1>a, ClosedNotRunning
  <2>3. \A t \in Sessions : pool'[t].running = FALSE
    BY <1>14 DEF StopJoined, NoSession
  <2> QED
    BY <1>14, <2>2, <2>3 DEF StopJoined, SameRuns, handoffVars, Busy
<1> QED
  BY <1>1, <1>2, <1>3, <1>4, <1>5, <1>6, <1>7, <1>8, <1>9, <1>10, <1>11, <1>12, <1>13, <1>14
     DEF ClientCall, ClientStep

(* The four steps that start, change or end a run.                         *)
LEMMA StartRunOwns ==
    ASSUME HandoffTypeOK, OwnStateOK, RunOwnsSession, NEW w \in Workers, StartRun(w)
    PROVE  RunOwnsSession'
<1> DEFINE s == Head(queue)
<1>a. /\ worker \in [Workers -> WorkerFrames] /\ pool \in [Sessions -> PoolSession]
      /\ \A t \in Sessions : pool[t] \in PoolSession
      /\ s \in Sessions /\ ~Busy(w)
  BY DEF StartRun, OwnStateOK, ThreadsOK, Busy
<1>1. /\ worker' = [worker EXCEPT ![w] = [at |-> "claim", session |-> s, id |-> 0]]
      /\ pool' = [pool EXCEPT ![s] = [@ EXCEPT !.queued = FALSE, !.running = TRUE]]
      /\ mail' = mail /\ handoffStopped' = handoffStopped
      /\ pool[s].open /\ ~pool[s].running
  BY DEF StartRun, Runnable, handoffVars
<1>2. pool'[s].open /\ pool'[s].running /\ \A t \in Sessions \ {s} : pool'[t] = pool[t]
  BY <1>a, <1>1 DEF PoolSession
<1>3. mail[s].running = 0 /\ \A v \in Workers : Busy(v) => worker[v].session # s
  BY <1>a, <1>1 DEF RunOwnsSession
<1>4. /\ worker'[w].at = "claim" /\ worker'[w].session = s /\ Busy(w)'
      /\ \A v \in Workers \ {w} : worker'[v] = worker[v] /\ (Busy(v)' <=> Busy(v))
  BY <1>a, <1>1 DEF Busy
<1> HIDE DEF s
<1>5. \A v \in Workers : Busy(v) => worker[v].session \in Sessions
  BY <1>a DEF WorkerFrames, Busy
<1>6. ASSUME NEW v \in Workers, Busy(v)'
      PROVE  LET t == worker'[v].session IN
             /\ pool'[t].open /\ pool'[t].running
             /\ \A u \in Workers \ {v} : Busy(u)' => worker'[u].session # t
             /\ mail'[t].running = IF worker'[v].at = "execute" /\ ~handoffStopped'
                                   THEN worker'[v].id ELSE 0
  <2>1. CASE v = w
    BY <2>1, <1>1, <1>2, <1>3, <1>4
  <2>2. CASE v # w
    <3>1. Busy(v) /\ worker'[v] = worker[v] /\ worker[v].session \in Sessions \ {s}
      BY <2>2, <1>3, <1>4, <1>5, <1>6
    <3>2. \A u \in Workers \ {v} : Busy(u)' => worker'[u].session # worker[v].session
      BY <3>1, <1>4 DEF RunOwnsSession
    <3> QED
      BY <3>1, <3>2, <1>1, <1>2 DEF RunOwnsSession
  <2> QED
    BY <2>1, <2>2
<1>7. ASSUME NEW t \in Sessions, pool'[t].running \/ mail'[t].running # 0
      PROVE  \E v \in Workers : Busy(v)' /\ worker'[v].session = t
  <2>1. CASE t = s
    BY <2>1, <1>4
  <2>2. CASE t # s
    <3>1. PICK v \in Workers : Busy(v) /\ worker[v].session = t
      BY <2>2, <1>1, <1>2, <1>7 DEF RunOwnsSession
    <3> QED
      BY <3>1, <1>4, <1>a
  <2> QED
    BY <2>1, <2>2
<1> QED
  BY <1>6, <1>7 DEF RunOwnsSession

(* A busy worker w goes from "claim" or "execute" to its next busy place,  *)
(* and only the running request of its session changes with it.            *)
LEMMA BusyStepOwns ==
    ASSUME OwnStateOK, RunOwnsSession, NEW w \in Workers, Busy(w), Busy(w)',
           pool' = pool, handoffStopped' = handoffStopped,
           \A v \in Workers \ {w} : worker'[v] = worker[v],
           worker'[w].session = worker[w].session,
           \A t \in Sessions \ {worker[w].session} : mail'[t].running = mail[t].running,
           mail'[worker[w].session].running =
               IF worker'[w].at = "execute" /\ ~handoffStopped THEN worker'[w].id ELSE 0
    PROVE  RunOwnsSession'
<1>1. /\ \A v \in Workers : Busy(v) => worker[v].session \in Sessions
      /\ \A v \in Workers : Busy(v)' <=> Busy(v)
      /\ \A v \in Workers : worker'[v].session = worker[v].session
  BY DEF OwnStateOK, ThreadsOK, WorkerFrames, Busy
<1>2. ASSUME NEW v \in Workers, Busy(v)'
      PROVE  LET t == worker'[v].session IN
             /\ pool'[t].open /\ pool'[t].running
             /\ \A u \in Workers \ {v} : Busy(u)' => worker'[u].session # t
             /\ mail'[t].running = IF worker'[v].at = "execute" /\ ~handoffStopped'
                                   THEN worker'[v].id ELSE 0
  <2>1. Busy(v) /\ worker'[v].session = worker[v].session /\ worker[v].session \in Sessions
    BY <1>1, <1>2
  <2>2. /\ pool'[worker[v].session].open /\ pool'[worker[v].session].running
        /\ \A u \in Workers \ {v} : Busy(u)' => worker'[u].session # worker[v].session
    BY <1>1, <2>1 DEF RunOwnsSession
  <2>3. CASE v = w
    BY <2>1, <2>2, <2>3
  <2>4. CASE v # w
    <3>1. worker[v].session # worker[w].session /\ worker'[v] = worker[v]
      BY <2>1, <2>4 DEF RunOwnsSession
    <3>2. mail'[worker[v].session].running = mail[worker[v].session].running
      BY <2>1, <3>1
    <3>3. mail[worker[v].session].running = IF worker[v].at = "execute" /\ ~handoffStopped
                                            THEN worker[v].id ELSE 0
      BY <2>1 DEF RunOwnsSession
    <3> QED
      BY <2>1, <2>2, <3>1, <3>2, <3>3
  <2> QED
    BY <2>3, <2>4
<1>3. ASSUME NEW t \in Sessions, pool'[t].running \/ mail'[t].running # 0
      PROVE  \E v \in Workers : Busy(v)' /\ worker'[v].session = t
  <2>1. CASE t = worker[w].session
    BY <2>1, <1>1
  <2>2. CASE t # worker[w].session
    <3>1. PICK v \in Workers : Busy(v) /\ worker[v].session = t
      BY <2>2, <1>3 DEF RunOwnsSession
    <3> QED
      BY <3>1, <1>1
  <2> QED
    BY <2>1, <2>2
<1> QED
  BY <1>2, <1>3 DEF RunOwnsSession

LEMMA ClaimPendingOwns ==
    ASSUME HandoffTypeOK, OwnStateOK, RunOwnsSession, NEW w \in Workers, ClaimPending(w)
    PROVE  RunOwnsSession'
<1> DEFINE s == worker[w].session
<1>a. /\ worker \in [Workers -> WorkerFrames] /\ mail \in [Sessions -> Mailbox]
      /\ worker[w] \in Frame(WorkerPlaces)
      /\ worker[w].at = "claim" /\ Busy(w) /\ s \in Sessions /\ mail[s] \in Mailbox
  BY DEF ClaimPending, OwnStateOK, ThreadsOK, HandoffTypeOK, Busy, WorkerFrames
<1>1. pool' = pool /\ handoffStopped' = handoffStopped
  BY DEF ClaimPending, TakePending, poolVars, handoffVars
<1>2. mail[s].running = 0
  BY <1>a DEF RunOwnsSession
<1>3. \A v \in Workers \ {w} : worker'[v] = worker[v]
  BY <1>a DEF ClaimPending
<1>4. CASE CanTake(s)
  <2>1. /\ mail' = [mail EXCEPT ![s] = Claimed(@)]
        /\ worker' = [worker EXCEPT ![w] = [@ EXCEPT !.at = "execute", !.id = mail[s].pending]]
    BY <1>4 DEF ClaimPending, TakePending
  <2>2. Claimed(mail[s]).running = mail[s].pending
    BY <1>a DEF Claimed, Mailbox
  <2>3. /\ mail'[s].running = mail[s].pending
        /\ \A t \in Sessions \ {s} : mail'[t].running = mail[t].running
    BY <1>a, <2>1, <2>2
  <2>4. /\ worker'[w].at = "execute" /\ worker'[w].id = mail[s].pending
        /\ worker'[w].session = s
    BY <1>a, <2>1 DEF Frame
  <2>5. ~handoffStopped /\ Busy(w)'
    BY <1>4, <2>4 DEF CanTake, Busy
  <2> QED
    BY <1>a, <1>1, <1>3, <2>3, <2>4, <2>5, BusyStepOwns
<1>5. CASE ~CanTake(s)
  <2>1. mail' = mail /\ worker' = [worker EXCEPT ![w].at = "finish"]
    BY <1>5 DEF ClaimPending, handoffVars
  <2>2. worker'[w].at = "finish" /\ worker'[w].session = s /\ Busy(w)'
    BY <1>a, <2>1 DEF Frame, Busy
  <2> QED
    BY <1>a, <1>1, <1>2, <1>3, <2>1, <2>2, BusyStepOwns
<1> QED
  BY <1>4, <1>5

LEMMA PublishRunOwns ==
    ASSUME HandoffTypeOK, OwnStateOK, ClosersAlone, RunOwnsSession,
           NEW w \in Workers, NEW size \in Charges, PublishRun(w, size)
    PROVE  RunOwnsSession'
<1> DEFINE s == worker[w].session
           id == worker[w].id
<1>a. /\ worker \in [Workers -> WorkerFrames] /\ mail \in [Sessions -> Mailbox]
      /\ worker[w] \in Frame(WorkerPlaces)
      /\ worker[w].at = "execute" /\ Busy(w) /\ s \in Sessions /\ mail[s] \in Mailbox
      /\ id \in RequestIds
  BY DEF PublishRun, OwnStateOK, ThreadsOK, HandoffTypeOK, Busy, WorkerFrames
<1>1. pool' = pool /\ handoffStopped' = handoffStopped
  BY DEF PublishRun, PublishReady, DiscardStale, DropOversized, DropOverBudget, RetainReady,
         poolVars, handoffVars
<1>2. \A v \in Workers \ {w} : worker'[v] = worker[v]
  BY <1>a DEF PublishRun
<1>3. worker'[w].at = "finish" /\ worker'[w].session = s /\ Busy(w)'
  BY <1>a DEF PublishRun, Frame, Busy
<1>4. CASE ClaimHeld(s, id)
  <2>1. /\ Unclaimed(mail[s]).running = 0
        /\ WithoutReady(Unclaimed(mail[s])).running = 0
        /\ [Unclaimed(mail[s]) EXCEPT !.ready = id, !.charge = size].running = 0
    BY <1>a DEF Unclaimed, WithoutReady, Mailbox
  <2>2. PublishReady(s, id, size)
    BY <1>4 DEF PublishRun
  <2>3. \/ mail' = [mail EXCEPT ![s] = Unclaimed(@)]
        \/ mail' = [mail EXCEPT ![s] = WithoutReady(Unclaimed(@))]
        \/ mail' = [mail EXCEPT ![s] = [Unclaimed(@) EXCEPT !.ready = id, !.charge = size]]
    BY <2>2 DEF PublishReady, DiscardStale, DropOversized, DropOverBudget, RetainReady
  <2> HIDE DEF s, id
  <2>4. /\ mail'[s].running = 0
        /\ \A t \in Sessions \ {s} : mail'[t].running = mail[t].running
    BY <1>a, <2>1, <2>3
  <2> QED
    BY <1>a, <1>1, <1>2, <1>3, <2>4, BusyStepOwns DEF s
<1>5. CASE ~ClaimHeld(s, id)
  <2>1. mail' = mail
    BY <1>5 DEF PublishRun, handoffVars
  <2>2. pool[s].open /\ mail[s].open
    BY <1>a DEF RunOwnsSession, ClosersAlone
  <2>3. mail[s].running = IF ~handoffStopped THEN id ELSE 0
    BY <1>a DEF RunOwnsSession
  <2>4. mail[s].running = 0
    BY <1>5, <1>a, <2>2, <2>3, ConstantsArePositive DEF ClaimHeld
  <2> QED
    BY <1>a, <1>1, <1>2, <1>3, <2>1, <2>4, BusyStepOwns
<1> QED
  BY <1>4, <1>5

LEMMA FinishRunOwns ==
    ASSUME HandoffTypeOK, OwnStateOK, RunOwnsSession, NEW w \in Workers, FinishRun(w)
    PROVE  RunOwnsSession'
<1> DEFINE s == worker[w].session
           ps == [pool EXCEPT ![s] = [@ EXCEPT !.running = FALSE, !.rerun = FALSE]]
           ws == [worker EXCEPT ![w] = Resting("idle")]
<1>a. /\ worker \in [Workers -> WorkerFrames] /\ pool \in [Sessions -> PoolSession]
      /\ \A t \in Sessions : pool[t] \in PoolSession
      /\ worker[w].at = "finish" /\ Busy(w) /\ s \in Sessions
      /\ mail' = mail /\ handoffStopped' = handoffStopped
  BY DEF FinishRun, OwnStateOK, ThreadsOK, Busy, WorkerFrames, handoffVars
<1>b. /\ mail[s].running = 0
      /\ \A v \in Workers \ {w} : Busy(v) => worker[v].session # s
  BY <1>a DEF RunOwnsSession
<1>1. /\ ps \in [Sessions -> PoolSession] /\ ps[s].running = FALSE
      /\ \A t \in Sessions \ {s} : ps[t] = pool[t]
  <2>1. [pool[s] EXCEPT !.running = FALSE, !.rerun = FALSE] \in PoolSession
    BY <1>a, PoolSessionUpdates
  <2>2. [pool[s] EXCEPT !.running = FALSE, !.rerun = FALSE].running = FALSE
    BY <1>a DEF PoolSession
  <2> QED
    BY <1>a, <2>1, <2>2
<1>2. /\ ws \in [Workers -> WorkerFrames] /\ ws[w].at = "idle"
      /\ \A v \in Workers \ {w} : ws[v] = worker[v]
  BY <1>a, RestingFrames DEF Resting
<1>3. \/ pool' = ps /\ worker' = ws
      \/ Enqueue(s, ps, ws)
  BY DEF FinishRun
<1> HIDE DEF s, ps, ws
<1>4. pool' = ps \/ pool' = [ps EXCEPT ![s].queued = TRUE]
  BY <1>3 DEF Enqueue
<1>5. pool'[s].running = FALSE /\ \A t \in Sessions \ {s} : pool'[t] = pool[t]
  <2>1. ps[s] \in PoolSession
    BY <1>1, <1>a
  <2>2. [ps[s] EXCEPT !.queued = TRUE].running = FALSE
    BY <1>1, <2>1 DEF PoolSession
  <2> QED
    BY <1>1, <1>4, <1>a, <2>2
<1>6. worker' = ws \/ worker' \in NotifyOneWorker(ws)
  BY <1>3 DEF Enqueue
<1>7. \A v \in Workers : worker'[v] = ws[v] \/ (ws[v].at = "asleep" /\ worker'[v].at = "idle")
  BY <1>2, <1>6, NotifyTouchesSleepers
<1>8. /\ ~Busy(w)'
      /\ \A v \in Workers \ {w} : (Busy(v)' <=> Busy(v)) /\ (Busy(v) => worker'[v] = worker[v])
  BY <1>2, <1>7 DEF Busy
<1>9. \A v \in Workers : Busy(v) => worker[v].session \in Sessions
  BY <1>a DEF WorkerFrames, Busy
<1>10. ASSUME NEW v \in Workers, Busy(v)'
       PROVE  LET t == worker'[v].session IN
              /\ pool'[t].open /\ pool'[t].running
              /\ \A u \in Workers \ {v} : Busy(u)' => worker'[u].session # t
              /\ mail'[t].running = IF worker'[v].at = "execute" /\ ~handoffStopped'
                                    THEN worker'[v].id ELSE 0
  <2>1. /\ v # w /\ Busy(v) /\ worker'[v] = worker[v]
        /\ worker[v].session \in Sessions \ {s}
    BY <1>10, <1>8, <1>9, <1>b DEF s
  <2>2. pool'[worker[v].session].open /\ pool'[worker[v].session].running
    BY <1>5, <2>1 DEF RunOwnsSession
  <2>3. \A u \in Workers \ {v} : Busy(u)' => worker'[u].session # worker[v].session
    BY <2>1, <1>8 DEF RunOwnsSession
  <2>4. mail[worker[v].session].running = IF worker[v].at = "execute" /\ ~handoffStopped
                                          THEN worker[v].id ELSE 0
    BY <2>1 DEF RunOwnsSession
  <2> QED
    BY <1>a, <2>1, <2>2, <2>3, <2>4
<1>11. ASSUME NEW t \in Sessions, pool'[t].running \/ mail'[t].running # 0
       PROVE  \E v \in Workers : Busy(v)' /\ worker'[v].session = t
  <2>1. t # s
    BY <1>11, <1>5, <1>a, <1>b DEF s
  <2>2. PICK v \in Workers : Busy(v) /\ worker[v].session = t
    BY <1>11, <1>5, <1>a, <2>1 DEF RunOwnsSession
  <2> QED
    BY <2>1, <2>2, <1>8 DEF s
<1> QED
  BY <1>10, <1>11 DEF RunOwnsSession

(* Stopping the mailboxes takes every running request away, and the busy   *)
(* workers, which are left to finish, no longer claim to hold one.         *)
LEMMA StopHandoffOwns ==
    ASSUME HandoffTypeOK, OwnStateOK, RunOwnsSession, NEW c \in Clients, StopHandoff(c)
    PROVE  RunOwnsSession'
<1>0. StopMailboxes
  BY DEF StopHandoff
<1>1. /\ pool' = pool /\ worker' = worker
      /\ \A v \in Workers : Busy(v)' <=> Busy(v)
  BY DEF StopHandoff, poolVars, Busy
<1>2. \A v \in Workers : Busy(v) => worker[v].session \in Sessions
  BY DEF OwnStateOK, ThreadsOK, WorkerFrames, Busy
<1>3. ASSUME NEW t \in Sessions PROVE mail'[t].running = 0
  <2> DEFINE m == Unclaimed(WithoutReady(mail[t]))
  <2>1. mail'[t] = [m EXCEPT !.active = FALSE, !.pending = 0]
    BY <1>0, Zenon DEF StopMailboxes
  <2>2. m.running = 0
    BY DEF Unclaimed, WithoutReady, HandoffTypeOK, Mailbox
  <2> QED
    BY <2>1, <2>2
<1>4. ASSUME NEW v \in Workers, Busy(v)
      PROVE  LET t == worker[v].session IN
             /\ pool[t].open /\ pool[t].running /\ mail'[t].running = 0
             /\ \A u \in Workers \ {v} : Busy(u) => worker[u].session # t
  BY <1>2, <1>3, <1>4 DEF RunOwnsSession
<1>5. ASSUME NEW t \in Sessions, pool[t].running
      PROVE  \E v \in Workers : Busy(v) /\ worker[v].session = t
  BY <1>5 DEF RunOwnsSession
<1>6. handoffStopped' = TRUE
  BY <1>0, Zenon DEF StopMailboxes
<1> QED
  BY <1>1, <1>3, <1>4, <1>5, <1>6 DEF RunOwnsSession

(* Workers that wait, exit or pass over an entry, and spurious wakeups.    *)
LEMMA IdleStepsKeepRuns ==
    ASSUME OwnStateOK,
           \/ \E w \in Workers : WaitForWork(w) \/ WorkerExit(w) \/ SkipEntry(w)
           \/ SpuriousWake
           \/ UNCHANGED vars
    PROVE  SameRuns
<1>a. /\ worker \in [Workers -> WorkerFrames] /\ pool \in [Sessions -> PoolSession]
      /\ \A t \in Sessions : pool[t] \in PoolSession
  BY DEF OwnStateOK, ThreadsOK
<1>1. ASSUME NEW w \in Workers, WaitForWork(w) \/ WorkerExit(w) PROVE SameRuns
  <2>1. \A v \in Workers : (Busy(v) <=> Busy(v)') /\ (Busy(v) => worker'[v] = worker[v])
    BY <1>1, <1>a DEF WaitForWork, WorkerExit, Busy, Resting
  <2> QED
    BY <1>1, <2>1 DEF WaitForWork, WorkerExit, SameRuns, poolVars, handoffVars
<1>2. ASSUME NEW w \in Workers, SkipEntry(w) PROVE SameRuns
  <2>1. Head(queue) \in Sessions
    BY <1>2 DEF SkipEntry, OwnStateOK
  <2>2. \A t \in Sessions : pool'[t].running = pool[t].running /\ pool'[t].open = pool[t].open
    BY <1>2, <1>a, <2>1 DEF SkipEntry, PoolSession
  <2> QED
    BY <1>2, <2>2 DEF SkipEntry, SameRuns, handoffVars, Busy
<1>3. ASSUME SpuriousWake PROVE SameRuns
  <2>1. \A v \in Workers : (Busy(v) <=> Busy(v)') /\ (Busy(v) => worker'[v] = worker[v])
    BY <1>3, <1>a DEF SpuriousWake, Busy, Resting
  <2> QED
    BY <1>3, <2>1 DEF SpuriousWake, SameRuns, poolVars, handoffVars
<1>4. ASSUME UNCHANGED vars PROVE SameRuns
  BY <1>4 DEF vars, poolVars, handoffVars, threadVars, SameRuns, Busy
<1> QED
  BY <1>1, <1>2, <1>3, <1>4

(* Every mailbox operation but closing leaves the open sessions open.      *)
MailStepOtherThanClosing ==
    \/ \E s \in Sessions, active \in BOOLEAN : OpenMailbox(s, active)
    \/ \E s \in Sessions : ShowMailbox(s) \/ HideMailbox(s) \/ TakePending(s) \/ TakeReady(s)
    \/ \E s \in Sessions, id \in RequestIds : Schedule(s, id)
    \/ \E s \in Sessions, id \in RequestIds, size \in Charges : PublishReady(s, id, size)
    \/ StopMailboxes
    \/ UNCHANGED handoffVars

MailOpensKeep == \A s \in Sessions : mail[s].open => mail'[s].open

LEMMA MailStepKeepsOpen ==
    ASSUME HandoffTypeOK, MailStepOtherThanClosing
    PROVE  MailOpensKeep
<1>a. mail \in [Sessions -> Mailbox] /\ \A s \in Sessions : mail[s] \in Mailbox
  BY DEF HandoffTypeOK
<1>1. ASSUME NEW s \in Sessions, NEW active \in BOOLEAN, OpenMailbox(s, active)
      PROVE  MailOpensKeep
  BY <1>1, <1>a DEF OpenMailbox, MailOpensKeep
<1>2. ASSUME NEW s \in Sessions,
             ShowMailbox(s) \/ HideMailbox(s) \/ TakePending(s) \/ TakeReady(s)
      PROVE  MailOpensKeep
  BY <1>2, <1>a, HelpersKeepOpen
     DEF ShowMailbox, HideMailbox, TakePending, CanTake, TakeReady, MailOpensKeep
<1>3. ASSUME NEW s \in Sessions, NEW id \in RequestIds, Schedule(s, id) PROVE MailOpensKeep
  <2>1. WithoutReady(mail[s]) \in Mailbox /\ WithoutReady(mail[s]).open
    BY <1>3, <1>a, MailboxHelpersType, HelpersKeepOpen DEF Schedule, Accepts
  <2>2. [WithoutReady(mail[s]) EXCEPT !.latest = id, !.pending = id].open
    BY <2>1, HelpersKeepOpen
  <2> QED
    BY <1>a, <1>3, <2>2 DEF Schedule, MailOpensKeep
<1>4. ASSUME NEW s \in Sessions, NEW id \in RequestIds, NEW size \in Charges,
             PublishReady(s, id, size)
      PROVE  MailOpensKeep
  <2>1. Unclaimed(mail[s]) \in Mailbox /\ Unclaimed(mail[s]).open
    BY <1>4, <1>a, MailboxHelpersType, HelpersKeepOpen
       DEF PublishReady, DiscardStale, DropOversized, DropOverBudget, RetainReady, ClaimHeld
  <2>2. /\ WithoutReady(Unclaimed(mail[s])).open
        /\ [Unclaimed(mail[s]) EXCEPT !.ready = id, !.charge = size].open
    BY <2>1, HelpersKeepOpen
  <2>3. \/ mail' = [mail EXCEPT ![s] = Unclaimed(@)]
        \/ mail' = [mail EXCEPT ![s] = WithoutReady(Unclaimed(@))]
        \/ mail' = [mail EXCEPT ![s] = [Unclaimed(@) EXCEPT !.ready = id, !.charge = size]]
    BY <1>4 DEF PublishReady, DiscardStale, DropOversized, DropOverBudget, RetainReady
  <2> QED
    BY <1>a, <2>1, <2>2, <2>3 DEF MailOpensKeep
<1>5. ASSUME StopMailboxes PROVE MailOpensKeep
  <2> SUFFICES ASSUME NEW s \in Sessions, mail[s].open PROVE mail'[s].open
    BY DEF MailOpensKeep
  <2> DEFINE m == Unclaimed(WithoutReady(mail[s]))
  <2>1. mail'[s] = [m EXCEPT !.active = FALSE, !.pending = 0]
    BY <1>5, Zenon DEF StopMailboxes
  <2>2. WithoutReady(mail[s]) \in Mailbox /\ WithoutReady(mail[s]).open
    BY <1>a, MailboxHelpersType, HelpersKeepOpen
  <2>3. m \in Mailbox /\ m.open
    BY <2>2, MailboxHelpersType, HelpersKeepOpen
  <2> HIDE DEF m
  <2> QED
    BY <2>1, <2>3, HelpersKeepOpen
<1>6. ASSUME UNCHANGED handoffVars PROVE MailOpensKeep
  BY <1>6 DEF handoffVars, MailOpensKeep
<1> QED
  BY <1>1, <1>2, <1>3, <1>4, <1>5, <1>6 DEF MailStepOtherThanClosing

(* Closers are only disturbed by a step that opens a pool session, lets a  *)
(* mailbox go, or takes one more client to the closing of a mailbox.       *)
LEMMA ClosersAloneKept ==
    ASSUME ClosersAlone, MailOpensKeep,
           \A s \in Sessions : pool'[s].open => pool[s].open,
           \A c \in Clients : client'[c].at = "closeMailbox" =>
               client[c].at = "closeMailbox" /\ client'[c].session = client[c].session,
           \A c \in Clients : client[c].at = "closeMailbox" => client[c].session \in Sessions
    PROVE  ClosersAlone'
  BY DEF ClosersAlone, MailOpensKeep

(* Opening a session opens its mailbox, which no client can be closing.    *)
LEMMA OpenSessionClosersAlone ==
    ASSUME HandoffTypeOK, OwnStateOK, ClosersAlone, NEW c \in Clients, NEW s \in Sessions,
           NEW active \in BOOLEAN, OpenSession(c, s, active)
    PROVE  ClosersAlone'
<1>1. /\ client' = client /\ ~mail[s].open
      /\ \A t \in Sessions \ {s} : pool'[t] = pool[t]
      /\ mail' = [mail EXCEPT ![s] = NewMailbox(active)]
  BY DEF OpenSession, OpenMailbox, OwnStateOK
<1>2. mail'[s].open /\ \A t \in Sessions \ {s} : mail'[t] = mail[t]
  BY <1>1 DEF HandoffTypeOK, NewMailbox, NoMailbox
<1>3. ASSUME NEW d \in Clients, client[d].at = "closeMailbox"
      PROVE  client[d].session \in Sessions \ {s}
  BY <1>1, <1>3 DEF ClosersAlone, OwnStateOK, ThreadsOK, ClientFrames
<1>4. \A t \in Sessions : pool'[t].open => mail'[t].open
  BY <1>1, <1>2 DEF ClosersAlone
<1>5. ASSUME NEW d \in Clients, client'[d].at = "closeMailbox"
      PROVE  /\ ~pool'[client'[d].session].open
             /\ mail'[client'[d].session].open
             /\ \A e \in Clients \ {d} : client'[e].at = "closeMailbox" =>
                   client'[e].session # client'[d].session
  BY <1>1, <1>2, <1>3, <1>5 DEF ClosersAlone
<1> QED
  BY <1>4, <1>5 DEF ClosersAlone

(* The client that erases an open session is the only one to close its     *)
(* mailbox, since the others erased sessions that are gone.                *)
LEMMA CloseEraseClosersAlone ==
    ASSUME HandoffTypeOK, OwnStateOK, ClosersAlone, NEW c \in Clients, CloseErase(c)
    PROVE  ClosersAlone'
<1> DEFINE s == client[c].session
           cs == [client EXCEPT ![c].at = "closeMailbox"]
<1>a. client \in [Clients -> ClientFrames] /\ client[c].at = "closeWait"
  BY DEF CloseErase, OwnStateOK, ThreadsOK
<1>1. /\ s \in Sessions /\ pool[s].open /\ mail' = mail
      /\ pool' = [pool EXCEPT ![s] = NoSession] /\ client' = NotifyAllClients(cs)
  BY <1>a DEF CloseErase, ClientFrames, handoffVars
<1>2. ~pool'[s].open /\ mail[s].open /\ \A t \in Sessions \ {s} : pool'[t] = pool[t]
  BY <1>1 DEF ClosersAlone, OwnStateOK, NoSession
<1>3. [client[c] EXCEPT !.at = "closeMailbox"] \in ClientFrames
  BY <1>a, <1>1 DEF ClientFrames, Frame, ClientPlaces
<1>4. /\ cs \in [Clients -> ClientFrames] /\ cs[c].session = s
      /\ \A d \in Clients \ {c} : cs[d] = client[d]
  BY <1>a, <1>3 DEF ClientFrames, Frame
<1> HIDE DEF s, cs
<1>5. \A d \in Clients : client'[d] = cs[d] \/ client'[d].at = "closeWait"
  BY <1>1, <1>4, NotifyTouchesSleepers
<1>6. ASSUME NEW d \in Clients, client'[d].at = "closeMailbox"
      PROVE  \/ d = c /\ client'[d].session = s
             \/ d # c /\ client'[d] = client[d] /\ client[d].session \in Sessions \ {s}
  BY <1>4, <1>5, <1>6, <1>a, <1>1 DEF ClosersAlone, ClientFrames
<1>7. ASSUME NEW d \in Clients, client'[d].at = "closeMailbox"
      PROVE  /\ ~pool'[client'[d].session].open
             /\ mail'[client'[d].session].open
             /\ \A e \in Clients \ {d} : client'[e].at = "closeMailbox" =>
                   client'[e].session # client'[d].session
  <2>1. CASE d = c
    BY <2>1, <1>6, <1>7, <1>2, <1>1
  <2>2. CASE d # c
    <3>1. client'[d] = client[d] /\ client[d].session \in Sessions \ {s}
      BY <2>2, <1>6, <1>7
    <3>2. ~pool'[client[d].session].open /\ mail[client[d].session].open
      BY <3>1, <1>2, <1>7 DEF ClosersAlone
    <3>3. ASSUME NEW e \in Clients \ {d}, client'[e].at = "closeMailbox"
          PROVE  client'[e].session # client[d].session
      BY <3>1, <3>3, <1>6, <1>7 DEF ClosersAlone
    <3> QED
      BY <3>1, <3>2, <3>3, <1>1
  <2> QED
    BY <2>1, <2>2
<1>8. \A t \in Sessions : pool'[t].open => mail'[t].open
  BY <1>1, <1>2 DEF ClosersAlone
<1> QED
  BY <1>7, <1>8 DEF ClosersAlone

LEMMA CloseMailboxLastClosersAlone ==
    ASSUME HandoffTypeOK, OwnStateOK, ClosersAlone, NEW c \in Clients, CloseMailboxLast(c)
    PROVE  ClosersAlone'
<1> DEFINE s == client[c].session
<1>1. /\ client[c].at = "closeMailbox" /\ pool' = pool
      /\ \A d \in Clients \ {c} : client'[d] = client[d]
      /\ client'[c].at = "idle"
  BY DEF CloseMailboxLast, Return, Resting, poolVars, OwnStateOK, ThreadsOK
<1>2. s \in Sessions /\ ~pool[s].open
  BY <1>1 DEF ClosersAlone, OwnStateOK, ThreadsOK, ClientFrames
<1>3. \A t \in Sessions \ {s} : mail'[t] = mail[t]
  BY <1>2 DEF CloseMailboxLast, CloseMailbox, handoffVars, HandoffTypeOK
<1>4. ASSUME NEW d \in Clients, client'[d].at = "closeMailbox"
      PROVE  d # c /\ client'[d] = client[d] /\ client[d].session \in Sessions \ {s}
  BY <1>1, <1>4 DEF ClosersAlone, OwnStateOK, ThreadsOK, ClientFrames
<1> HIDE DEF s
<1>5. ASSUME NEW d \in Clients, client'[d].at = "closeMailbox"
      PROVE  /\ ~pool'[client'[d].session].open
             /\ mail'[client'[d].session].open
             /\ \A e \in Clients \ {d} : client'[e].at = "closeMailbox" =>
                   client'[e].session # client'[d].session
  BY <1>1, <1>3, <1>4, <1>5 DEF ClosersAlone
<1>6. \A t \in Sessions : pool'[t].open => mail'[t].open
  BY <1>1, <1>2, <1>3 DEF ClosersAlone
<1> QED
  BY <1>5, <1>6 DEF ClosersAlone

(* A worker's step, a client's call and the rest of it, as far as the      *)
(* closing of sessions is concerned.                                       *)
NobodyCloses ==
    /\ MailStepOtherThanClosing
    /\ \A s \in Sessions : pool'[s].open => pool[s].open
    /\ \A c \in Clients : client'[c].at = "closeMailbox" => client'[c] = client[c]

LEMMA NobodyClosesKeeps ==
    ASSUME HandoffTypeOK, OwnStateOK, ClosersAlone, NobodyCloses
    PROVE  ClosersAlone'
<1>1. MailOpensKeep
  BY MailStepKeepsOpen DEF NobodyCloses
<1>2. \A c \in Clients : client[c].at = "closeMailbox" => client[c].session \in Sessions
  BY DEF OwnStateOK, ThreadsOK, ClientFrames
<1> QED
  BY <1>1, <1>2, ClosersAloneKept DEF NobodyCloses

LEMMA WorkersCloseNothing ==
    ASSUME HandoffTypeOK, OwnStateOK, NEW w \in Workers, WorkerStep(w)
    PROVE  NobodyCloses
<1>a. /\ pool \in [Sessions -> PoolSession] /\ \A t \in Sessions : pool[t] \in PoolSession
      /\ client \in [Clients -> ClientFrames]
      /\ worker \in [Workers -> WorkerFrames] /\ worker[w] \in WorkerFrames
      /\ queue # <<>> => Head(queue) \in Sessions
  BY DEF OwnStateOK, ThreadsOK
<1>b. \A c \in Clients : NotifyAllClients(client)[c].at = "closeMailbox" =>
                             NotifyAllClients(client)[c] = client[c]
  BY <1>a, NotifyTouchesSleepers
<1>1. ASSUME WaitForWork(w) \/ WorkerExit(w) PROVE NobodyCloses
  BY <1>1 DEF WaitForWork, WorkerExit, NobodyCloses, MailStepOtherThanClosing, poolVars
<1>2. ASSUME SkipEntry(w) PROVE NobodyCloses
  <2>1. \A t \in Sessions : pool'[t].open = pool[t].open
    BY <1>a, <1>2 DEF SkipEntry, PoolSession
  <2> QED
    BY <1>b, <1>2, <2>1 DEF SkipEntry, NobodyCloses, MailStepOtherThanClosing
<1>3. ASSUME StartRun(w) PROVE NobodyCloses
  <2>1. \A t \in Sessions : pool'[t].open = pool[t].open
    BY <1>a, <1>3 DEF StartRun, PoolSession
  <2> QED
    BY <1>3, <2>1 DEF StartRun, NobodyCloses, MailStepOtherThanClosing
<1>4. ASSUME ClaimPending(w) PROVE NobodyCloses
  <2>1. worker[w].session \in Sessions
    BY <1>a, <1>4 DEF ClaimPending, WorkerFrames
  <2>2. MailStepOtherThanClosing
    BY <1>4, <2>1 DEF ClaimPending, MailStepOtherThanClosing
  <2> QED
    BY <1>4, <2>2 DEF ClaimPending, NobodyCloses, poolVars
<1>5. ASSUME NEW size \in Charges, PublishRun(w, size) PROVE NobodyCloses
  <2>1. worker[w].session \in Sessions /\ worker[w].id \in RequestIds
    BY <1>a, <1>5 DEF PublishRun, WorkerFrames
  <2>2. MailStepOtherThanClosing
    BY <1>5, <2>1 DEF PublishRun, MailStepOtherThanClosing
  <2> QED
    BY <1>5, <2>2 DEF PublishRun, NobodyCloses, poolVars
<1>6. ASSUME FinishRun(w) PROVE NobodyCloses
  <2> DEFINE s == worker[w].session
             ps == [pool EXCEPT ![s] = [@ EXCEPT !.running = FALSE, !.rerun = FALSE]]
             ws == [worker EXCEPT ![w] = Resting("idle")]
  <2>1. s \in Sessions
    BY <1>a, <1>6 DEF FinishRun, WorkerFrames
  <2>2. [pool[s] EXCEPT !.running = FALSE, !.rerun = FALSE] \in PoolSession
    <3>1. pool[s] \in PoolSession
      BY <1>a, <2>1
    <3> QED
      BY <3>1 DEF PoolSession
  <2>3. /\ ps \in [Sessions -> PoolSession]
        /\ \A t \in Sessions : ps[t] \in PoolSession /\ ps[t].open = pool[t].open
    BY <1>a, <2>1, <2>2 DEF PoolSession
  <2>4. \/ pool' = ps /\ worker' = ws
        \/ Enqueue(s, ps, ws)
    BY <1>6 DEF FinishRun
  <2> HIDE DEF s, ps, ws
  <2>5. pool' = ps \/ pool' = [ps EXCEPT ![s].queued = TRUE]
    BY <2>4 DEF Enqueue
  <2>6. \A t \in Sessions : pool'[t].open = pool[t].open
    BY <2>1, <2>3, <2>5 DEF PoolSession
  <2> QED
    BY <1>b, <1>6, <2>6 DEF FinishRun, NobodyCloses, MailStepOtherThanClosing
<1> QED
  BY <1>1, <1>2, <1>3, <1>4, <1>5, <1>6 DEF WorkerStep

LEMMA ClientsCloseOneByOne ==
    ASSUME HandoffTypeOK, OwnStateOK, ClosersAlone, NEW c \in Clients,
           ClientCall(c) \/ ClientStep(c)
    PROVE  ClosersAlone'
<1>a. /\ pool \in [Sessions -> PoolSession] /\ \A t \in Sessions : pool[t] \in PoolSession
      /\ client \in [Clients -> ClientFrames] /\ client[c] \in Frame(ClientPlaces)
      /\ client[c].at \notin {"idle", "stopMailboxes", "join"} => client[c].session \in Sessions
  BY DEF OwnStateOK, ThreadsOK, ClientFrames
<1>b. ASSUME NEW f, client' = [client EXCEPT ![c] = f], f.at # "closeMailbox"
      PROVE  \A d \in Clients : client'[d].at = "closeMailbox" => client'[d] = client[d]
  BY <1>a, <1>b
<1>c. ASSUME NEW place, Goto(c, place), place # "closeMailbox"
      PROVE  \A d \in Clients : client'[d].at = "closeMailbox" => client'[d] = client[d]
  <2>1. client' = [client EXCEPT ![c] = [client[c] EXCEPT !.at = place]]
    BY <1>c DEF Goto
  <2>2. [client[c] EXCEPT !.at = place].at # "closeMailbox"
    BY <1>a, <1>c DEF Frame
  <2> QED
    BY <1>b, <2>1, <2>2
<1>d. ASSUME Return(c)
      PROVE  \A d \in Clients : client'[d].at = "closeMailbox" => client'[d] = client[d]
  <2>1. Resting("idle").at # "closeMailbox"
    BY DEF Resting
  <2> QED
    BY <1>b, <1>d, <2>1 DEF Return
<1>1. ASSUME NEW s \in Sessions, NEW active \in BOOLEAN, OpenSession(c, s, active)
      PROVE  ClosersAlone'
  BY <1>1, OpenSessionClosersAlone
<1>2. ASSUME NEW s \in Sessions, WorkerStartFails(c, s) PROVE NobodyCloses
  BY <1>2 DEF WorkerStartFails, NobodyCloses, MailStepOtherThanClosing, poolVars
<1>3. ASSUME NEW s \in Sessions, ShowSession(c, s) PROVE NobodyCloses
  <2>1. \A t \in Sessions : pool'[t].open = pool[t].open
    BY <1>3, <1>a DEF ShowSession, PoolSession
  <2> QED
    BY <1>3, <2>1 DEF ShowSession, NobodyCloses, MailStepOtherThanClosing, threadVars
<1>4. ASSUME NEW s \in Sessions, HideSession(c, s) PROVE NobodyCloses
  <2>1. \A t \in Sessions : pool'[t].open = pool[t].open
    BY <1>4, <1>a DEF HideSession, PoolSession
  <2> QED
    BY <1>4, <2>1 DEF HideSession, NobodyCloses, MailStepOtherThanClosing, threadVars
<1>5. ASSUME NEW s \in Sessions, NEW id \in RequestIds, RequestSchedule(c, s, id)
      PROVE  NobodyCloses
  <2>1. \A d \in Clients : client'[d].at = "closeMailbox" => client'[d] = client[d]
    BY <1>5, <1>b DEF RequestSchedule
  <2> QED
    BY <1>5, <2>1 DEF RequestSchedule, NobodyCloses, MailStepOtherThanClosing, poolVars
<1>6. ASSUME NEW s \in Sessions, CollectReady(c, s) PROVE NobodyCloses
  BY <1>6 DEF CollectReady, NobodyCloses, MailStepOtherThanClosing, threadVars, poolVars
<1>7. ASSUME NEW s \in Sessions, CloseBegin(c, s) PROVE NobodyCloses
  <2>1. \A t \in Sessions : pool'[t].open = pool[t].open
    BY <1>7, <1>a DEF CloseBegin, PoolSession
  <2>2. \A d \in Clients : client'[d].at = "closeMailbox" => client'[d] = client[d]
    BY <1>7, <1>b DEF CloseBegin
  <2> QED
    BY <1>7, <2>1, <2>2 DEF CloseBegin, NobodyCloses, MailStepOtherThanClosing
<1>8. ASSUME StopBegin(c) PROVE NobodyCloses
  <2>1. /\ pool' = [s \in Sessions |->
                      [pool[s] EXCEPT !.active = FALSE, !.queued = FALSE, !.rerun = FALSE]]
        /\ Goto(c, "stopMailboxes") /\ UNCHANGED handoffVars
    BY <1>8, Zenon DEF StopBegin
  <2>2. ASSUME NEW p \in PoolSession
        PROVE  [p EXCEPT !.active = FALSE, !.queued = FALSE, !.rerun = FALSE].open = p.open
    BY DEF PoolSession
  <2>3. \A t \in Sessions : pool'[t].open = pool[t].open
    BY <1>a, <2>1, <2>2, Zenon
  <2>4. \A d \in Clients : client'[d].at = "closeMailbox" => client'[d] = client[d]
    BY <1>c, <2>1, Zenon
  <2> QED
    BY <2>1, <2>3, <2>4, Zenon DEF NobodyCloses, MailStepOtherThanClosing
<1>9. ASSUME RequestEnqueue(c) PROVE NobodyCloses
  <2> DEFINE s == client[c].session
             ps == [pool EXCEPT ![s].latest = client[c].id]
  <2>1. s \in Sessions
    BY <1>9, <1>a DEF RequestEnqueue
  <2>2. [pool[s] EXCEPT !.latest = client[c].id] \in PoolSession
    <3>1. client[c].id \in MaybeId /\ pool[s] \in PoolSession
      BY <1>a, <2>1 DEF Frame
    <3> QED
      BY <3>1 DEF PoolSession
  <2>3. /\ ps \in [Sessions -> PoolSession]
        /\ \A t \in Sessions : ps[t] \in PoolSession /\ ps[t].open = pool[t].open
    BY <1>a, <2>1, <2>2 DEF PoolSession
  <2>4. \/ UNCHANGED <<pool, queue, worker>>
        \/ pool' = [ps EXCEPT ![s].rerun = TRUE] /\ UNCHANGED <<queue, worker>>
        \/ Enqueue(s, ps, worker)
    BY <1>9 DEF RequestEnqueue
  <2> HIDE DEF s, ps
  <2>5. \/ pool' = pool \/ pool' = ps \/ pool' = [ps EXCEPT ![s].rerun = TRUE]
        \/ pool' = [ps EXCEPT ![s].queued = TRUE]
    BY <2>4 DEF Enqueue
  <2>6. \A t \in Sessions : pool'[t].open = pool[t].open
    BY <2>1, <2>3, <2>5 DEF PoolSession
  <2>7. Return(c) /\ UNCHANGED handoffVars
    BY <1>9 DEF RequestEnqueue
  <2> QED
    BY <1>d, <2>6, <2>7 DEF NobodyCloses, MailStepOtherThanClosing
<1>10. ASSUME CloseHide(c) PROVE NobodyCloses
  <2>1. MailStepOtherThanClosing
    BY <1>10, <1>a DEF CloseHide, MailStepOtherThanClosing
  <2>2. \A d \in Clients : client'[d].at = "closeMailbox" => client'[d] = client[d]
    BY <1>10, <1>c DEF CloseHide
  <2> QED
    BY <1>10, <2>1, <2>2 DEF CloseHide, NobodyCloses, poolVars
<1>11. ASSUME CloseSleep(c) \/ CloseFindsNothing(c) PROVE NobodyCloses
  <2>1. \A d \in Clients : client'[d].at = "closeMailbox" => client'[d] = client[d]
    BY <1>11, <1>c, <1>d DEF CloseSleep, CloseFindsNothing
  <2> QED
    BY <1>11, <2>1
       DEF CloseSleep, CloseFindsNothing, NobodyCloses, MailStepOtherThanClosing, poolVars
<1>12. ASSUME StopHandoff(c) PROVE NobodyCloses
  <2>1. \A d \in Clients : client'[d].at = "closeMailbox" => client'[d] = client[d]
    BY <1>12, <1>c DEF StopHandoff
  <2>2. StopMailboxes /\ pool' = pool
    BY <1>12 DEF StopHandoff, poolVars
  <2>3. MailStepOtherThanClosing
    BY <2>2, Zenon DEF MailStepOtherThanClosing
  <2> QED
    BY <2>1, <2>2, <2>3 DEF NobodyCloses
<1>13. ASSUME StopJoined(c) PROVE NobodyCloses
  <2> DEFINE cs == [client EXCEPT ![c] = Resting("idle")]
  <2>1. client' = NotifyAllClients(cs) /\ cs \in [Clients -> ClientFrames]
    BY <1>13, <1>a, RestingFrames DEF StopJoined
  <2>2. \A d \in Clients : cs[d].at = "closeMailbox" => cs[d] = client[d]
    BY <1>a DEF Resting
  <2> HIDE DEF cs
  <2>3. \A d \in Clients : client'[d].at = "closeMailbox" => client'[d] = client[d]
    BY <2>1, <2>2, NotifyTouchesSleepers
  <2>4. \A t \in Sessions : pool'[t].open = FALSE
    BY <1>13 DEF StopJoined, NoSession
  <2> QED
    BY <1>13, <2>3, <2>4 DEF StopJoined, NobodyCloses, MailStepOtherThanClosing
<1> QED
  BY <1>1, <1>2, <1>3, <1>4, <1>5, <1>6, <1>7, <1>8, <1>9, <1>10, <1>11, <1>12, <1>13,
     NobodyClosesKeeps, CloseEraseClosersAlone, CloseMailboxLastClosersAlone
     DEF ClientCall, ClientStep

LEMMA ClosersAloneStep ==
    ASSUME HandoffTypeOK, OwnStateOK, ClosersAlone, [PoolNext]_vars
    PROVE  ClosersAlone'
<1>1. ASSUME SpuriousWake PROVE NobodyCloses
  <2>1. UNCHANGED handoffVars /\ pool' = pool
    BY <1>1 DEF SpuriousWake, poolVars
  <2>2. \A d \in Clients : client'[d].at = "closeMailbox" => client'[d] = client[d]
    BY <1>1 DEF SpuriousWake, Goto, OwnStateOK, ThreadsOK, ClientFrames, Frame
  <2> QED
    BY <2>1, <2>2 DEF NobodyCloses, MailStepOtherThanClosing
<1>2. ASSUME UNCHANGED vars PROVE NobodyCloses
  BY <1>2 DEF vars, poolVars, threadVars, NobodyCloses, MailStepOtherThanClosing
<1> QED
  BY <1>1, <1>2, WorkersCloseNothing, ClientsCloseOneByOne, NobodyClosesKeeps DEF PoolNext
--------------------------------------------------------------------------------
LEMMA PoolSoundInit == PoolInit => PoolSound
<1> SUFFICES ASSUME PoolInit PROVE PoolSound
  OBVIOUS
<1>1. HandoffTypeOK /\ OwnStateOK
  BY PoolTypeInit
<1>2. /\ \A s \in Sessions : pool[s].open = FALSE /\ pool[s].running = FALSE
      /\ \A s \in Sessions : mail[s].running = 0
      /\ \A w \in Workers : worker[w].at = "absent"
      /\ \A c \in Clients : client[c].at = "idle"
  BY DEF PoolInit, HandoffInit, NoSession, NoMailbox, Resting
<1> QED
  BY <1>1, <1>2 DEF PoolSound, ClosersAlone, RunOwnsSession, Busy

LEMMA PoolSoundStep == PoolSound /\ [PoolNext]_vars => PoolSound'
<1> SUFFICES ASSUME PoolSound, [PoolNext]_vars PROVE PoolSound'
  OBVIOUS
<1>a. HandoffTypeOK /\ OwnStateOK /\ ThreadsOK /\ ClosersAlone /\ RunOwnsSession
  BY DEF PoolSound, OwnStateOK
<1>1. HandoffTypeOK' /\ OwnStateOK'
  BY <1>a, PoolTypeStep
<1>2. ClosersAlone'
  BY <1>a, ClosersAloneStep
<1>3. ASSUME NEW c \in Clients, ClientCall(c) \/ (ClientStep(c) /\ ~StopHandoff(c))
      PROVE  RunOwnsSession'
  BY <1>3, <1>a, ClientKeepsRuns, SameRunsKeep
<1>4. ASSUME NEW c \in Clients, StopHandoff(c) PROVE RunOwnsSession'
  BY <1>4, <1>a, StopHandoffOwns
<1>5. ASSUME NEW w \in Workers, WaitForWork(w) \/ WorkerExit(w) \/ SkipEntry(w)
      PROVE  RunOwnsSession'
  BY <1>5, <1>a, IdleStepsKeepRuns, SameRunsKeep
<1>6. ASSUME SpuriousWake \/ UNCHANGED vars PROVE RunOwnsSession'
  BY <1>6, <1>a, IdleStepsKeepRuns, SameRunsKeep
<1>7. ASSUME NEW w \in Workers, StartRun(w) \/ ClaimPending(w) \/ FinishRun(w)
      PROVE  RunOwnsSession'
  BY <1>7, <1>a, StartRunOwns, ClaimPendingOwns, FinishRunOwns
<1>8. ASSUME NEW w \in Workers, NEW size \in Charges, PublishRun(w, size)
      PROVE  RunOwnsSession'
  BY <1>8, <1>a, PublishRunOwns
<1>9. RunOwnsSession'
  BY <1>3, <1>4, <1>5, <1>6, <1>7, <1>8 DEF PoolNext, WorkerStep
<1> QED
  BY <1>1, <1>2, <1>9 DEF PoolSound

(* However many workers and clients there are, a session is run by at most *)
(* one worker, which finds it open until it has finished, and the request  *)
(* the worker executes is the one its mailbox says is running.  A session  *)
(* is running for its worker only, so that a close is not kept waiting by  *)
(* a run that nobody performs.                                             *)
THEOREM RunsAreOwned == PoolSpec => []RunOwnsSession
<1>1. PoolInit => PoolSound
  BY PoolSoundInit
<1>2. PoolSound /\ [PoolNext]_vars => PoolSound'
  BY PoolSoundStep
<1>3. PoolSound => RunOwnsSession
  BY DEF PoolSound
<1> QED
  BY <1>1, <1>2, <1>3, PTL DEF PoolSpec
--------------------------------------------------------------------------------
(* The workers in a place.                                                 *)
At(ws, place) == {w \in Workers : ws[w].at = place}

(* Every entry has a worker on its way to it as long as another sleeps.    *)
Attended(ws) == At(ws, "asleep") # {} => Cardinality(At(ws, "idle")) >= Len(queue)

LEMMA AttendedIs == NoLostWakeup <=> Attended(worker)
BY DEF NoLostWakeup, Attended, At

LEMMA PlacesAreFinite ==
    ASSUME IsFiniteSet(Workers), NEW ws, NEW place
    PROVE  IsFiniteSet(At(ws, place)) /\ Cardinality(At(ws, place)) \in Nat
<1>1. At(ws, place) \subseteq Workers
  BY DEF At
<1> QED
  BY <1>1, FS_Subset, FS_CardinalityType

(* What falls asleep and what leaves the way to the queue, if anything     *)
(* does, needs the queue to get shorter.                                   *)
LEMMA AttendedKept ==
    ASSUME IsFiniteSet(Workers), OwnStateOK, NEW ws, Attended(ws),
           At(worker', "asleep") \subseteq At(ws, "asleep"),
           At(ws, "idle") \subseteq At(worker', "idle"),
           queue' \in Seq(Sessions), Len(queue') <= Len(queue)
    PROVE  Attended(worker)'
<1>1. Cardinality(At(ws, "idle")) <= Cardinality(At(worker', "idle"))
  BY PlacesAreFinite, FS_Subset
<1>2. Len(queue) \in Nat /\ Len(queue') \in Nat
  BY DEF OwnStateOK
<1>3. Cardinality(At(ws, "idle")) \in Nat /\ Cardinality(At(worker', "idle")) \in Nat
  BY PlacesAreFinite
<1> QED
  BY <1>1, <1>2, <1>3 DEF Attended, At

(* An entry is added together with a worker that is woken for it.          *)
LEMMA EnqueueAttends ==
    ASSUME IsFiniteSet(Workers), OwnStateOK, NEW s \in Sessions, NEW ps,
           NEW ws \in [Workers -> WorkerFrames], Attended(ws), Enqueue(s, ps, ws)
    PROVE  Attended(worker)'
<1>1. CASE worker' = ws /\ UNCHANGED queue
  <2>1. queue' \in Seq(Sessions) /\ Len(queue') <= Len(queue)
    BY <1>1 DEF OwnStateOK
  <2> QED
    BY <1>1, <2>1, AttendedKept
<1>2. CASE queue' = Append(queue, s) /\ worker' \in NotifyOneWorker(ws)
  <2>1. CASE At(ws, "asleep") = {}
    <3>1. worker' = ws
      BY <1>2, <2>1 DEF NotifyOneWorker, At
    <3> QED
      BY <2>1, <3>1 DEF Attended, At
  <2>2. CASE At(ws, "asleep") # {}
    <3>1. PICK w \in At(ws, "asleep") : worker' = [ws EXCEPT ![w] = Resting("idle")]
      BY <1>2, <2>2 DEF NotifyOneWorker, At
    <3>2. At(worker', "idle") = At(ws, "idle") \cup {w} /\ w \notin At(ws, "idle")
      BY <3>1 DEF At, Resting
    <3>3. Cardinality(At(worker', "idle")) = Cardinality(At(ws, "idle")) + 1
      BY <3>2, PlacesAreFinite, FS_AddElement
    <3>4. Len(queue') = Len(queue) + 1 /\ Len(queue) \in Nat
      BY <1>2 DEF OwnStateOK
    <3>5. Cardinality(At(ws, "idle")) \in Nat
      BY PlacesAreFinite
    <3> QED
      BY <2>2, <3>3, <3>4, <3>5 DEF Attended, At
  <2> QED
    BY <2>1, <2>2
<1> QED
  BY <1>1, <1>2 DEF Enqueue

LEMMA AttendedStep ==
    ASSUME IsFiniteSet(Workers), OwnStateOK, Attended(worker), [PoolNext]_vars
    PROVE  Attended(worker)'
<1>a. /\ worker \in [Workers -> WorkerFrames] /\ queue \in Seq(Sessions)
      /\ Len(queue) \in Nat
  BY DEF OwnStateOK, ThreadsOK
<1>b. ASSUME UNCHANGED <<worker, queue>> PROVE Attended(worker)'
  BY <1>b DEF Attended, At
<1>c. ASSUME At(worker', "asleep") \subseteq At(worker, "asleep"),
             At(worker, "idle") \subseteq At(worker', "idle"),
             queue' \in Seq(Sessions), Len(queue') <= Len(queue)
      PROVE  Attended(worker)'
  BY <1>c, AttendedKept
<1>1. ASSUME NEW c \in Clients, NEW s \in Sessions,
             \/ \E active \in BOOLEAN : OpenSession(c, s, active)
             \/ WorkerStartFails(c, s)
      PROVE  Attended(worker)'
  <2>1. PICK W : worker' = Started(W)
    BY <1>1 DEF OpenSession, WorkerStartFails
  <2>2. /\ At(worker', "asleep") \subseteq At(worker, "asleep")
        /\ At(worker, "idle") \subseteq At(worker', "idle")
    BY <2>1 DEF Started, At, Resting
  <2>3. UNCHANGED queue
    BY <1>1 DEF OpenSession, WorkerStartFails, poolVars
  <2> QED
    BY <1>a, <1>c, <2>2, <2>3
<1>2. ASSUME NEW c \in Clients, NEW s \in Sessions,
             \/ ShowSession(c, s) \/ HideSession(c, s) \/ CollectReady(c, s)
             \/ \E id \in RequestIds : RequestSchedule(c, s, id)
             \/ CloseBegin(c, s)
      PROVE  Attended(worker)'
  BY <1>2, <1>b DEF ShowSession, HideSession, CollectReady, RequestSchedule, CloseBegin,
                    poolVars, threadVars
<1>3. ASSUME NEW c \in Clients,
             \/ CloseHide(c) \/ CloseSleep(c) \/ CloseErase(c) \/ CloseFindsNothing(c)
             \/ CloseMailboxLast(c) \/ StopHandoff(c) \/ StopJoined(c)
      PROVE  Attended(worker)'
  BY <1>3, <1>b DEF CloseHide, CloseSleep, CloseErase, CloseFindsNothing, CloseMailboxLast,
                    StopHandoff, StopJoined, poolVars
<1>4. ASSUME NEW c \in Clients, RequestEnqueue(c) PROVE Attended(worker)'
  <2>1. client[c].session \in Sessions
    BY <1>4 DEF RequestEnqueue, OwnStateOK, ThreadsOK, ClientFrames
  <2>2. CASE UNCHANGED <<worker, queue>>
    BY <2>2, <1>b
  <2>3. ASSUME NEW ps, Enqueue(client[c].session, ps, worker) PROVE Attended(worker)'
    BY <1>a, <2>1, <2>3, EnqueueAttends
  <2> QED
    BY <1>4, <2>2, <2>3 DEF RequestEnqueue
<1>5. ASSUME NEW c \in Clients, StopBegin(c) PROVE Attended(worker)'
  <2>1. At(worker', "asleep") = {}
    BY <1>5 DEF StopBegin, NotifyAllWorkers, At, Resting
  <2> QED
    BY <2>1 DEF Attended, At
<1>6. ASSUME NEW w \in Workers, WaitForWork(w) \/ WorkerExit(w) PROVE Attended(worker)'
  <2>1. queue' = <<>> /\ Len(queue') = 0
    BY <1>6 DEF WaitForWork, WorkerExit, poolVars
  <2>2. Cardinality(At(worker', "idle")) \in Nat
    BY PlacesAreFinite
  <2> QED
    BY <2>1, <2>2 DEF Attended, At
<1>7. ASSUME NEW w \in Workers, SkipEntry(w) PROVE Attended(worker)'
  <2>1. queue' \in Seq(Sessions) /\ Len(queue') <= Len(queue) /\ UNCHANGED worker
    BY <1>7, <1>a DEF SkipEntry
  <2> QED
    BY <1>c, <2>1 DEF At
<1>8. ASSUME NEW w \in Workers, StartRun(w) PROVE Attended(worker)'
  <2>1. Len(queue') = Len(queue) - 1
    BY <1>8, <1>a DEF StartRun
  <2>2. /\ At(worker', "idle") = At(worker, "idle") \ {w} /\ w \in At(worker, "idle")
        /\ At(worker', "asleep") = At(worker, "asleep")
    BY <1>8, <1>a DEF StartRun, At
  <2>3. Cardinality(At(worker', "idle")) = Cardinality(At(worker, "idle")) - 1
    BY <2>2, PlacesAreFinite, FS_RemoveElement
  <2>4. Cardinality(At(worker, "idle")) \in Nat
    BY PlacesAreFinite
  <2> QED
    BY <1>a, <2>1, <2>2, <2>3, <2>4 DEF Attended, At
<1>9. ASSUME NEW w \in Workers, ClaimPending(w) \/ \E size \in Charges : PublishRun(w, size)
      PROVE  Attended(worker)'
  <2>1. /\ At(worker', "asleep") = At(worker, "asleep")
        /\ At(worker', "idle") = At(worker, "idle")
    BY <1>9, <1>a DEF ClaimPending, PublishRun, At, WorkerFrames, Frame
  <2>2. UNCHANGED queue
    BY <1>9 DEF ClaimPending, PublishRun, poolVars
  <2> QED
    BY <1>a, <1>c, <2>1, <2>2
<1>10. ASSUME NEW w \in Workers, FinishRun(w) PROVE Attended(worker)'
  <2> DEFINE ws == [worker EXCEPT ![w] = Resting("idle")]
  <2>1. ws \in [Workers -> WorkerFrames] /\ worker[w].session \in Sessions
    BY <1>10, <1>a, RestingFrames DEF FinishRun, WorkerFrames
  <2>2. /\ At(ws, "asleep") = At(worker, "asleep")
        /\ At(worker, "idle") \subseteq At(ws, "idle")
    BY <1>10, <1>a DEF FinishRun, At, Resting
  <2> HIDE DEF ws
  <2>3. Attended(ws)
    <3>1. Cardinality(At(worker, "idle")) <= Cardinality(At(ws, "idle"))
      BY <2>2, PlacesAreFinite, FS_Subset
    <3>2. Cardinality(At(worker, "idle")) \in Nat /\ Cardinality(At(ws, "idle")) \in Nat
      BY PlacesAreFinite
    <3> QED
      BY <1>a, <2>2, <3>1, <3>2 DEF Attended
  <2>4. ASSUME NEW ps, Enqueue(worker[w].session, ps, ws) PROVE Attended(worker)'
    BY <2>1, <2>3, <2>4, EnqueueAttends
  <2>5. CASE worker' = ws /\ UNCHANGED queue
    BY <2>3, <2>5 DEF Attended, At
  <2> QED
    BY <1>10, <2>4, <2>5 DEF FinishRun, ws
<1>11. CASE SpuriousWake
  <2>1. /\ At(worker', "asleep") \subseteq At(worker, "asleep")
        /\ At(worker, "idle") \subseteq At(worker', "idle")
    BY <1>11, <1>a DEF SpuriousWake, At, Resting
  <2>2. UNCHANGED queue
    BY <1>11 DEF SpuriousWake, poolVars
  <2> QED
    BY <1>a, <1>c, <2>1, <2>2
<1>12. CASE UNCHANGED vars
  BY <1>12, <1>b DEF vars, poolVars, threadVars
<1> QED
  BY <1>1, <1>2, <1>3, <1>4, <1>5, <1>6, <1>7, <1>8, <1>9, <1>10, <1>11, <1>12
     DEF PoolNext, ClientCall, ClientStep, WorkerStep

(* No wakeup is lost: however many workers the pool has, as long as one of *)
(* them sleeps every entry has another on its way to it, though an entry   *)
(* wakes one worker at most and a worker looks at the queue before it sleeps. *)
THEOREM WakeupsAreNotLost ==
    ASSUME IsFiniteSet(Workers) PROVE PoolSpec => []NoLostWakeup
<1>1. PoolInit => Attended(worker)
  BY DEF PoolInit, Attended, At, Resting
<1>2. OwnStateOK /\ Attended(worker) /\ [PoolNext]_vars => Attended(worker)'
  BY AttendedStep
<1> QED
  BY <1>1, <1>2, PoolTypeInit, PoolTypeStep, AttendedIs, PTL DEF PoolSpec
--------------------------------------------------------------------------------
(* What the updates of a pool session leave in its fields.                 *)
Fields(p, open, active, queued, running, rerun, latest) ==
    /\ p.open = open /\ p.active = active /\ p.queued = queued
    /\ p.running = running /\ p.rerun = rerun /\ p.latest = latest

LEMMA PoolFields ==
    ASSUME NEW p \in PoolSession
    PROVE  /\ \A b \in BOOLEAN : Fields([p EXCEPT !.active = b],
                                     p.open, b, p.queued, p.running, p.rerun, p.latest)
           /\ Fields([p EXCEPT !.active = FALSE, !.rerun = FALSE],
                     p.open, FALSE, p.queued, p.running, FALSE, p.latest)
           /\ Fields([p EXCEPT !.active = FALSE, !.queued = FALSE, !.rerun = FALSE],
                     p.open, FALSE, FALSE, p.running, FALSE, p.latest)
           /\ \A b \in BOOLEAN : Fields([p EXCEPT !.queued = b],
                                     p.open, p.active, b, p.running, p.rerun, p.latest)
           /\ Fields([p EXCEPT !.queued = FALSE, !.running = TRUE],
                     p.open, p.active, FALSE, TRUE, p.rerun, p.latest)
           /\ Fields([p EXCEPT !.rerun = TRUE],
                     p.open, p.active, p.queued, p.running, TRUE, p.latest)
           /\ Fields([p EXCEPT !.running = FALSE, !.rerun = FALSE],
                     p.open, p.active, p.queued, FALSE, FALSE, p.latest)
           /\ \A id \in MaybeId : Fields([p EXCEPT !.latest = id],
                                     p.open, p.active, p.queued, p.running, p.rerun, id)
  BY DEF PoolSession, Fields

(* An entry is of a session that was opened, and marked as queued for as   *)
(* long as the session is open.  An identity that is opened once is        *)
(* therefore queued once: when its session is closed, its entry is the     *)
(* last one.                                                               *)
EntriesAreMarked ==
    /\ QueuedAtMostOnce
    /\ \A i \in 1..Len(queue) : LET s == queue[i] IN
          opens[s] # 0 /\ (pool[s].open => pool[s].queued)
    /\ \A s \in Sessions : /\ pool[s].open => opens[s] # 0
                           /\ pool[s].active => pool[s].open

LEMMA EntriesKept ==
    ASSUME EntriesAreMarked, OwnStateOK, UNCHANGED <<queue, opens>>,
           \A s \in Sessions : /\ pool'[s].open => pool[s].open /\ (pool[s].queued => pool'[s].queued)
                               /\ pool'[s].active => pool'[s].open
    PROVE  EntriesAreMarked'
<1>1. \A i \in 1..Len(queue) : queue[i] \in Sessions
  BY DEF OwnStateOK
<1> QED
  BY <1>1 DEF EntriesAreMarked, QueuedAtMostOnce

(* An entry is added for a session that has none.                          *)
LEMMA EnqueueMarks ==
    ASSUME EntriesAreMarked, OwnStateOK, NEW s \in Sessions, NEW ps \in [Sessions -> PoolSession],
           NEW ws, Enqueue(s, ps, ws), UNCHANGED opens, pool[s].open,
           \A t \in Sessions : /\ ps[t].open <=> pool[t].open
                               /\ ps[t].queued <=> pool[t].queued
                               /\ ps[t].active => ps[t].open
    PROVE  EntriesAreMarked'
<1>a. /\ queue \in Seq(Sessions) /\ \A i \in 1..Len(queue) : queue[i] \in Sessions
  BY DEF OwnStateOK
<1>1. CASE pool' = ps /\ UNCHANGED queue
  BY <1>1, EntriesKept
<1>2. CASE /\ ~ps[s].queued /\ pool' = [ps EXCEPT ![s].queued = TRUE]
           /\ queue' = Append(queue, s)
  <2>1. \A i \in 1..Len(queue) : queue[i] # s
    BY <1>2 DEF EntriesAreMarked
  <2>2. /\ Len(queue') = Len(queue) + 1
        /\ \A i \in 1..Len(queue) : queue'[i] = queue[i]
        /\ queue'[Len(queue) + 1] = s
    BY <1>2, <1>a
  <2>3. \A t \in Sessions : /\ pool'[t].open = ps[t].open /\ pool'[t].active = ps[t].active
                            /\ pool'[t].queued = (t = s \/ ps[t].queued)
    <3>1. \A t \in Sessions : ps[t] \in PoolSession
      OBVIOUS
    <3> QED
      BY <1>2, <3>1 DEF PoolSession
  <2>4. Len(queue) \in Nat
    BY <1>a
  <2>5. QueuedAtMostOnce'
    BY <2>1, <2>2, <2>4 DEF EntriesAreMarked, QueuedAtMostOnce
  <2>6. ASSUME NEW i \in 1..Len(queue')
        PROVE  opens'[queue'[i]] # 0 /\ (pool'[queue'[i]].open => pool'[queue'[i]].queued)
    <3>1. CASE i = Len(queue) + 1
      <4>1. queue'[i] = s /\ pool'[s].queued /\ opens[s] # 0
        BY <2>2, <2>3, <3>1 DEF EntriesAreMarked
      <4> QED
        BY <4>1
    <3>2. CASE i \in 1..Len(queue)
      <4>1. queue'[i] = queue[i] /\ queue[i] \in Sessions
        BY <1>a, <2>2, <3>2
      <4>2. opens[queue[i]] # 0 /\ (pool[queue[i]].open => pool[queue[i]].queued)
        BY <3>2 DEF EntriesAreMarked
      <4> QED
        BY <2>3, <4>1, <4>2
    <3> QED
      BY <2>2, <2>4, <3>1, <3>2
  <2>7. \A t \in Sessions : /\ pool'[t].open => opens'[t] # 0
                            /\ pool'[t].active => pool'[t].open
    BY <2>3 DEF EntriesAreMarked
  <2> QED
    BY <2>5, <2>6, <2>7 DEF EntriesAreMarked
<1> QED
  BY <1>1, <1>2 DEF Enqueue

(* An entry is taken from the queue together with its mark.                *)
LEMMA TakenEntry ==
    ASSUME EntriesAreMarked, OwnStateOK, queue # <<>>, queue' = Tail(queue), UNCHANGED opens,
           \A s \in Sessions : /\ pool'[s].open <=> pool[s].open
                               /\ pool'[s].active <=> pool[s].active
                               /\ s # Head(queue) => pool'[s].queued = pool[s].queued
    PROVE  EntriesAreMarked'
<1>1. /\ queue \in Seq(Sessions) /\ Len(queue) \in Nat \ {0}
      /\ Len(queue') = Len(queue) - 1
      /\ \A i \in 1..Len(queue') : i + 1 \in 1..Len(queue) /\ queue'[i] = queue[i + 1]
  BY DEF OwnStateOK
<1>2. \A i \in 1..Len(queue') : queue'[i] \in Sessions /\ queue'[i] # Head(queue)
  <2> SUFFICES ASSUME NEW i \in 1..Len(queue')
               PROVE  queue'[i] \in Sessions /\ queue'[i] # Head(queue)
    OBVIOUS
  <2>1. queue[i + 1] \in Sessions /\ Head(queue) = queue[1] /\ i + 1 # 1 /\ 1 \in 1..Len(queue)
    BY <1>1
  <2> QED
    BY <1>1, <2>1 DEF EntriesAreMarked, QueuedAtMostOnce
<1>3. QueuedAtMostOnce'
  <2> SUFFICES ASSUME NEW i \in 1..Len(queue'), NEW j \in 1..Len(queue'), queue'[i] = queue'[j]
               PROVE  i = j
    BY DEF QueuedAtMostOnce
  <2>1. i + 1 = j + 1
    BY <1>1 DEF EntriesAreMarked, QueuedAtMostOnce
  <2> QED
    BY <2>1
<1>4. \A i \in 1..Len(queue') :
         opens'[queue'[i]] # 0 /\ (pool'[queue'[i]].open => pool'[queue'[i]].queued)
  BY <1>1, <1>2 DEF EntriesAreMarked
<1> QED
  BY <1>3, <1>4 DEF EntriesAreMarked

LEMMA EntriesStep ==
    ASSUME MaxOpens <= 1, OwnStateOK, EntriesAreMarked, [PoolNext]_vars
    PROVE  EntriesAreMarked'
<1>a. /\ pool \in [Sessions -> PoolSession] /\ \A t \in Sessions : pool[t] \in PoolSession
      /\ queue \in Seq(Sessions) /\ opens \in [Sessions -> 0..MaxOpens]
      /\ \A i \in 1..Len(queue) : queue[i] \in Sessions
  BY DEF OwnStateOK
<1>b. ASSUME UNCHANGED <<pool, queue, opens>> PROVE EntriesAreMarked'
  BY <1>b, EntriesKept DEF EntriesAreMarked
<1>1. ASSUME NEW c \in Clients, NEW s \in Sessions, NEW active \in BOOLEAN, OpenSession(c, s, active)
      PROVE  EntriesAreMarked'
  <2>1. /\ opens[s] = 0 /\ opens' = [opens EXCEPT ![s] = 1] /\ UNCHANGED queue
        /\ pool' = [pool EXCEPT ![s] = [NoSession EXCEPT !.open = TRUE, !.active = active]]
    <3>1. opens[s] < MaxOpens /\ opens[s] \in 0..MaxOpens /\ MaxOpens \in Nat
      BY <1>1, <1>a, PoolAssumption DEF OpenSession
    <3>2. opens[s] = 0
      BY <3>1
    <3> QED
      BY <1>1, <3>2 DEF OpenSession
  <2>2. \A i \in 1..Len(queue) : queue[i] # s
    BY <2>1 DEF EntriesAreMarked
  <2>3. /\ \A t \in Sessions : t # s => pool'[t] = pool[t] /\ opens'[t] = opens[t]
        /\ opens'[s] = 1 /\ pool'[s].open
    BY <1>a, <2>1 DEF NoSession
  <2> QED
    BY <1>a, <2>1, <2>2, <2>3 DEF EntriesAreMarked, QueuedAtMostOnce
<1>2. ASSUME NEW c \in Clients, NEW s \in Sessions,
             ShowSession(c, s) \/ HideSession(c, s) \/ CloseBegin(c, s)
      PROVE  EntriesAreMarked'
  <2>1. \A t \in Sessions : /\ pool'[t].open = pool[t].open /\ pool'[t].queued = pool[t].queued
                            /\ pool'[t].active => pool'[t].open
    <3>1. \/ pool' = [pool EXCEPT ![s].active = TRUE] /\ pool[s].open
          \/ pool' = [pool EXCEPT ![s] = [@ EXCEPT !.active = FALSE, !.rerun = FALSE]]
      BY <1>2 DEF ShowSession, HideSession, CloseBegin
    <3>2. CASE pool' = [pool EXCEPT ![s].active = TRUE] /\ pool[s].open
      BY <1>a, <3>2, PoolFields DEF Fields, EntriesAreMarked
    <3>3. CASE pool' = [pool EXCEPT ![s] = [@ EXCEPT !.active = FALSE, !.rerun = FALSE]]
      BY <1>a, <3>3, PoolFields DEF Fields, EntriesAreMarked
    <3> QED
      BY <3>1, <3>2, <3>3
  <2>2. UNCHANGED <<queue, opens>>
    BY <1>2 DEF ShowSession, HideSession, CloseBegin
  <2> QED
    BY <2>1, <2>2, EntriesKept DEF EntriesAreMarked
<1>3. ASSUME NEW c \in Clients, NEW s \in Sessions,
             \/ WorkerStartFails(c, s) \/ CollectReady(c, s)
             \/ \E id \in RequestIds : RequestSchedule(c, s, id)
      PROVE  EntriesAreMarked'
  BY <1>3, <1>b DEF WorkerStartFails, CollectReady, RequestSchedule, poolVars
<1>4. ASSUME NEW c \in Clients,
             \/ CloseHide(c) \/ CloseSleep(c) \/ CloseFindsNothing(c)
             \/ CloseMailboxLast(c) \/ StopHandoff(c)
      PROVE  EntriesAreMarked'
  BY <1>4, <1>b DEF CloseHide, CloseSleep, CloseFindsNothing, CloseMailboxLast, StopHandoff, poolVars
<1>5. ASSUME NEW c \in Clients, CloseErase(c) \/ StopJoined(c) PROVE EntriesAreMarked'
  <2>1. \A t \in Sessions : pool'[t] = pool[t] \/ pool'[t] = NoSession
    BY <1>5, <1>a DEF CloseErase, StopJoined
  <2>2. UNCHANGED <<queue, opens>>
    BY <1>5 DEF CloseErase, StopJoined
  <2> QED
    BY <2>1, <2>2, EntriesKept DEF EntriesAreMarked, NoSession
<1>6. ASSUME NEW c \in Clients, RequestEnqueue(c) PROVE EntriesAreMarked'
  <2> DEFINE s == client[c].session
             ps == [pool EXCEPT ![s].latest = client[c].id]
  <2>1. s \in Sessions /\ client[c].id \in MaybeId /\ UNCHANGED opens
    BY <1>6 DEF RequestEnqueue, OwnStateOK, ThreadsOK, ClientFrames, Frame
  <2>2. /\ ps \in [Sessions -> PoolSession]
        /\ \A t \in Sessions : /\ ps[t].open <=> pool[t].open
                               /\ ps[t].queued <=> pool[t].queued
                               /\ ps[t].active <=> pool[t].active
    BY ZenonT(60), <2>1, <1>a DEF PoolSession
  <2> HIDE DEF ps
  <2>3. CASE UNCHANGED <<pool, queue>>
    BY <2>1, <2>3, <1>b
  <2>4. CASE pool' = [ps EXCEPT ![s].rerun = TRUE] /\ UNCHANGED queue
    <3>1. \A t \in Sessions : /\ pool'[t].open = ps[t].open /\ pool'[t].queued = ps[t].queued
                              /\ pool'[t].active = ps[t].active
      <4>1. \A t \in Sessions : ps[t] \in PoolSession
        BY <2>2
      <4> QED
        BY <2>1, <2>2, <2>4, <4>1 DEF PoolSession
    <3> QED
      BY <2>1, <2>2, <2>4, <3>1, EntriesKept DEF EntriesAreMarked
  <2>5. CASE pool[s].open /\ Enqueue(s, ps, worker)
    BY <2>1, <2>2, <2>5, EnqueueMarks DEF EntriesAreMarked
  <2> QED
    BY <1>6, <2>3, <2>4, <2>5 DEF RequestEnqueue, ps
<1>7. ASSUME NEW c \in Clients, StopBegin(c) PROVE EntriesAreMarked'
  <2>1. queue' = <<>> /\ UNCHANGED opens
    BY <1>7 DEF StopBegin
  <2>2. \A t \in Sessions : pool'[t].open = pool[t].open /\ pool'[t].active = FALSE
    BY <1>7, <1>a DEF StopBegin, PoolSession
  <2>3. Len(queue') = 0 /\ 1..Len(queue') = {}
    BY <2>1
  <2> QED
    BY <2>1, <2>2, <2>3 DEF EntriesAreMarked, QueuedAtMostOnce
<1>8. ASSUME NEW w \in Workers, SkipEntry(w) \/ StartRun(w) PROVE EntriesAreMarked'
  <2>1. queue # <<>> /\ queue' = Tail(queue) /\ UNCHANGED opens /\ Head(queue) \in Sessions
    BY <1>8, <1>a DEF SkipEntry, StartRun
  <2>2. \A s \in Sessions : /\ pool'[s].open = pool[s].open /\ pool'[s].active = pool[s].active
                            /\ s # Head(queue) => pool'[s].queued = pool[s].queued
    <3> DEFINE h == Head(queue)
    <3>1. \/ pool' = [pool EXCEPT ![h].queued = FALSE]
          \/ pool' = [pool EXCEPT ![h] = [@ EXCEPT !.queued = FALSE, !.running = TRUE]]
      BY <1>8 DEF SkipEntry, StartRun
    <3> HIDE DEF h
    <3>2. h \in Sessions
      BY <2>1 DEF h
    <3>3. \A s \in Sessions : /\ pool'[s].open = pool[s].open /\ pool'[s].active = pool[s].active
                              /\ s # h => pool'[s].queued = pool[s].queued
      <4>1. \/ pool'[h] = [pool[h] EXCEPT !.queued = FALSE]
            \/ pool'[h] = [pool[h] EXCEPT !.queued = FALSE, !.running = TRUE]
        BY <1>a, <3>1, <3>2
      <4>2. \A s \in Sessions : s # h => pool'[s] = pool[s]
        BY <1>a, <3>1, <3>2
      <4>3. pool'[h].open = pool[h].open /\ pool'[h].active = pool[h].active
        <5>1. pool[h] \in PoolSession
          BY <1>a, <3>2
        <5> QED
          BY <4>1, <5>1 DEF PoolSession
      <4> QED
        BY <4>2, <4>3
    <3> QED
      BY <3>3 DEF h
  <2> QED
    BY <2>1, <2>2, TakenEntry
<1>9. ASSUME NEW w \in Workers,
             \/ WaitForWork(w) \/ WorkerExit(w) \/ ClaimPending(w)
             \/ \E size \in Charges : PublishRun(w, size)
      PROVE  EntriesAreMarked'
  BY <1>9, <1>b DEF WaitForWork, WorkerExit, ClaimPending, PublishRun, poolVars
<1>10. ASSUME NEW w \in Workers, FinishRun(w) PROVE EntriesAreMarked'
  <2> DEFINE s == worker[w].session
             ps == [pool EXCEPT ![s] = [@ EXCEPT !.running = FALSE, !.rerun = FALSE]]
  <2>1. s \in Sessions /\ UNCHANGED opens
    BY <1>10 DEF FinishRun, OwnStateOK, ThreadsOK, WorkerFrames
  <2>2. /\ ps \in [Sessions -> PoolSession]
        /\ \A t \in Sessions : /\ ps[t].open <=> pool[t].open
                               /\ ps[t].queued <=> pool[t].queued
                               /\ ps[t].active <=> pool[t].active
    BY ZenonT(60), <2>1, <1>a DEF PoolSession
  <2> HIDE DEF ps
  <2>3. CASE pool' = ps /\ UNCHANGED queue
    BY <2>1, <2>2, <2>3, EntriesKept DEF EntriesAreMarked
  <2>4. CASE pool[s].open /\ Enqueue(s, ps, [worker EXCEPT ![w] = Resting("idle")])
    BY <2>1, <2>2, <2>4, EnqueueMarks DEF EntriesAreMarked
  <2> QED
    BY <1>10, <2>3, <2>4 DEF FinishRun, ps
<1>11. CASE SpuriousWake
  BY <1>11, <1>b DEF SpuriousWake, poolVars
<1>12. CASE UNCHANGED vars
  BY <1>12, <1>b DEF vars, poolVars
<1> QED
  BY <1>1, <1>2, <1>3, <1>4, <1>5, <1>6, <1>7, <1>8, <1>9, <1>10, <1>11, <1>12
     DEF PoolNext, ClientCall, ClientStep, WorkerStep

LEMMA EntriesAreMarkedAlways == ASSUME MaxOpens <= 1 PROVE PoolSpec => []EntriesAreMarked
<1>1. PoolInit => EntriesAreMarked
  BY DEF PoolInit, EntriesAreMarked, QueuedAtMostOnce, NoSession
<1>2. OwnStateOK /\ EntriesAreMarked /\ [PoolNext]_vars => EntriesAreMarked'
  BY EntriesStep
<1> QED
  BY <1>1, <1>2, PoolTypeInit, PoolTypeStep, PTL DEF PoolSpec

(* "a session is queued at most once": for any number of threads, as long  *)
(* as no identity is opened twice (otherwise the queue may hold a session twice). *)
THEOREM QueuedOnce == ASSUME MaxOpens <= 1 PROVE PoolSpec => []QueuedAtMostOnce
<1>1. EntriesAreMarked => QueuedAtMostOnce
  BY DEF EntriesAreMarked
<1> QED
  BY <1>1, EntriesAreMarkedAlways, PTL
--------------------------------------------------------------------------------
(* One thread calls for a session, as one UI thread does.                  *)
OneCallerEach == \A c, d \in Clients : c # d => Serves[c] \cap Serves[d] = {}

ClosePlaces == {"closeHide", "closeWait", "closeAsleep", "closeMailbox"}
CallPlaces == ClosePlaces \cup {"enqueue"}

InCall(c, s) == client[c].at \in CallPlaces /\ client[c].session = s
Enqueues(c, s) == client[c].at = "enqueue" /\ client[c].session = s
Closes(c, s) == client[c].at \in ClosePlaces /\ client[c].session = s
HidesNext(c, s) == client[c].at = "closeHide" /\ client[c].session = s
Runs(w, s) == Busy(w) /\ worker[w].session = s
HasEntry(s) == \E i \in 1..Len(queue) : queue[i] = s

CallsOwn == \A c \in Clients : client[c].at \in CallPlaces => client[c].session \in Serves[c]

StopsInOrder == /\ \A c \in Clients : client[c].at \in {"stopMailboxes", "join"} => poolStopped
                /\ handoffStopped => poolStopped

(* Who will look at the pending request of session s.                      *)
Served(s) ==
    \/ pool[s].queued
    \/ \E w \in Workers : /\ Runs(w, s)
                          /\ \/ worker[w].at = "claim"
                             \/ pool[s].rerun /\ pool[s].latest = mail[s].pending
    \/ \E c \in Clients : Enqueues(c, s) /\ client[c].id = mail[s].pending

(* What keeps the pending request of session s from being stranded.  A     *)
(* session that is shown is open, and a mark is backed by an entry; the    *)
(* request under way is the one that is pending if any is; a run is older  *)
(* than what is pending; the pool and the mailbox agree on who is shown    *)
(* but for a close under way.                                              *)
MarksBacked(s) == /\ pool[s].active => pool[s].open /\ ~poolStopped
                  /\ pool[s].queued => ~pool[s].running /\ HasEntry(s)

CallIsPending(s) == \A c \in Clients : Enqueues(c, s) =>
                       client[c].id # 0 /\ mail[s].pending \in {0, client[c].id}

RunsAreOlder(s) == \A w \in Workers : Runs(w, s) =>
                      /\ worker[w].at = "claim" => worker[w].id = 0
                      /\ worker[w].id <= mail[s].latest
                      /\ mail[s].pending # 0 => worker[w].id < mail[s].pending

ShownAgrees(s) == /\ mail[s].active => \/ pool[s].active \/ poolStopped
                                       \/ \E c \in Clients : HidesNext(c, s)
                  /\ \A c \in Clients : Closes(c, s) => ~pool[s].active

PendingServed(s) == mail[s].pending # 0 /\ pool[s].active => Served(s)

Tended(s) == /\ MarksBacked(s) /\ CallIsPending(s) /\ RunsAreOlder(s)
             /\ ShownAgrees(s) /\ PendingServed(s)

PoolTended == /\ PoolSound /\ NewestOnly /\ ClosedIsForgotten
              /\ CallsOwn /\ StopsInOrder
              /\ \A s \in Sessions : Tended(s)
--------------------------------------------------------------------------------
(* What a step must leave alone for session t not to notice it.            *)
WorkersKeep(t) ==
    \A w \in Workers : /\ Runs(w, t)' <=> Runs(w, t)
                       /\ Runs(w, t) => /\ worker'[w].id = worker[w].id
                                        /\ worker'[w].at = "claim" <=> worker[w].at = "claim"

ClientsKeep(t) ==
    \A c \in Clients : /\ Enqueues(c, t)' <=> Enqueues(c, t)
                       /\ Enqueues(c, t) => client'[c].id = client[c].id
                       /\ HidesNext(c, t)' <=> HidesNext(c, t)
                       /\ Closes(c, t)' => Closes(c, t)

MailIs(t, pending, latest, active) ==
    mail'[t].pending = pending /\ mail'[t].latest = latest /\ mail'[t].active = active

MailKeeps(t) == MailIs(t, mail[t].pending, mail[t].latest, mail[t].active)

Untouched(t) == /\ WorkersKeep(t) /\ ClientsKeep(t) /\ MailKeeps(t)
                /\ pool'[t] = pool[t]

LEMMA KeptTended ==
    ASSUME NEW t \in Sessions, Tended(t), WorkersKeep(t), ClientsKeep(t), MailKeeps(t),
           pool'[t] = pool[t], UNCHANGED poolStopped, HasEntry(t) => HasEntry(t)'
    PROVE  Tended(t)' /\ Untouched(t)
<1>1. MarksBacked(t)' /\ ShownAgrees(t)'
  BY DEF Tended, MarksBacked, ShownAgrees, ClientsKeep, MailKeeps, MailIs
<1>2. CallIsPending(t)'
  BY DEF Tended, CallIsPending, ClientsKeep, MailKeeps, MailIs
<1>3. RunsAreOlder(t)'
  BY DEF Tended, RunsAreOlder, WorkersKeep, MailKeeps, MailIs
<1>4. PendingServed(t)'
  BY DEF Tended, PendingServed, WorkersKeep, ClientsKeep, MailKeeps, MailIs, Served
<1> QED
  BY <1>1, <1>2, <1>3, <1>4 DEF Tended, Untouched

LEMMA RunsStayOlder ==
    ASSUME NEW s \in Sessions, Tended(s), WorkersKeep(s), mail'[s].latest = mail[s].latest,
           mail'[s].pending \in {0, mail[s].pending}
    PROVE  RunsAreOlder(s)'
BY DEF Tended, RunsAreOlder, WorkersKeep

LEMMA CallStaysPending ==
    ASSUME NEW s \in Sessions, Tended(s), mail'[s].pending \in {0, mail[s].pending},
           \A c \in Clients : Enqueues(c, s)' => Enqueues(c, s) /\ client'[c].id = client[c].id
    PROVE  CallIsPending(s)'
BY DEF Tended, CallIsPending

(* Threads that only fall asleep, wake up or are at work for others.       *)
WorkerStays(w) ==
    \/ worker'[w] = worker[w]
    \/ ~Busy(w) /\ ~Busy(w)'
    \/ /\ Busy(w) /\ Busy(w)' /\ worker'[w].session = worker[w].session
       /\ worker'[w].id = worker[w].id /\ (worker'[w].at = "claim" <=> worker[w].at = "claim")

ClientStays(c) ==
    \/ client'[c] = client[c]
    \/ /\ client[c].at \in {"closeWait", "closeAsleep"}
       /\ client'[c].at \in {"closeWait", "closeAsleep"}
       /\ client'[c].session = client[c].session

LEMMA WorkersStay ==
    ASSUME NEW t \in Sessions,
           \A w \in Workers : WorkerStays(w) \/ (~Runs(w, t) /\ ~Runs(w, t)')
    PROVE  WorkersKeep(t)
BY DEF WorkersKeep, WorkerStays, Runs, Busy

LEMMA ClientsStay ==
    ASSUME NEW t \in Sessions,
           \A c \in Clients : ClientStays(c) \/ (~InCall(c, t) /\ ~InCall(c, t)')
    PROVE  ClientsKeep(t)
BY DEF ClientsKeep, ClientStays, InCall, Enqueues, Closes, HidesNext, CallPlaces, ClosePlaces

(* What each operation of the mailbox does to the fields that matter here. *)
MailFields(m, pending, latest, active) ==
    m.pending = pending /\ m.latest = latest /\ m.active = active

LEMMA HelperFields ==
    ASSUME NEW m \in Mailbox
    PROVE  /\ MailFields(WithoutReady(m), m.pending, m.latest, m.active)
           /\ MailFields(Unclaimed(m), m.pending, m.latest, m.active)
           /\ MailFields(Hidden(m), 0, m.latest, FALSE)
           /\ MailFields(Claimed(m), 0, m.latest, m.active)
           /\ MailFields([m EXCEPT !.active = TRUE], m.pending, m.latest, TRUE)
           /\ MailFields([m EXCEPT !.active = FALSE, !.pending = 0], 0, m.latest, FALSE)
           /\ MailFields(NoMailbox, 0, 0, FALSE)
           /\ \A active \in BOOLEAN : MailFields(NewMailbox(active), 0, 0, active)
<1>1. /\ MailFields(WithoutReady(m), m.pending, m.latest, m.active)
      /\ MailFields(Unclaimed(m), m.pending, m.latest, m.active)
  BY DEF Mailbox, MailFields, WithoutReady, Unclaimed
<1>2. WithoutReady(m) \in Mailbox
  BY MailboxHelpersType
<1>3. MailFields(Hidden(m), 0, m.latest, FALSE)
  BY <1>1, <1>2 DEF Mailbox, MailFields, Hidden
<1>4. /\ MailFields(Claimed(m), 0, m.latest, m.active)
      /\ MailFields([m EXCEPT !.active = TRUE], m.pending, m.latest, TRUE)
      /\ MailFields([m EXCEPT !.active = FALSE, !.pending = 0], 0, m.latest, FALSE)
  BY DEF Mailbox, MailFields, Claimed
<1>5. /\ MailFields(NoMailbox, 0, 0, FALSE)
      /\ \A active \in BOOLEAN : MailFields(NewMailbox(active), 0, 0, active)
  BY DEF MailFields, NoMailbox, NewMailbox
<1> QED
  BY <1>1, <1>3, <1>4, <1>5

LEMMA MailEffects ==
    ASSUME HandoffTypeOK, NEW s \in Sessions
    PROVE  /\ \A active \in BOOLEAN : OpenMailbox(s, active) => MailIs(s, 0, 0, active)
           /\ CloseMailbox(s) => MailIs(s, 0, 0, FALSE)
           /\ ShowMailbox(s) => MailIs(s, mail[s].pending, mail[s].latest, TRUE)
           /\ HideMailbox(s) => MailIs(s, 0, mail[s].latest, FALSE)
           /\ TakePending(s) => MailIs(s, 0, mail[s].latest, mail[s].active)
           /\ TakeReady(s) => MailKeeps(s)
           /\ \A id \in RequestIds : Schedule(s, id) => MailIs(s, id, id, TRUE)
           /\ \A id \in RequestIds, size \in Charges : PublishReady(s, id, size) => MailKeeps(s)
           /\ StopMailboxes => MailIs(s, 0, mail[s].latest, FALSE)
<1>a. mail[s] \in Mailbox /\ mail \in [Sessions -> Mailbox]
  BY DEF HandoffTypeOK
<1>b. \A m, pending, latest, active :
         mail'[s] = m /\ MailFields(m, pending, latest, active) => MailIs(s, pending, latest, active)
  BY DEF MailIs, MailFields
<1>1. /\ \A active \in BOOLEAN : OpenMailbox(s, active) => mail'[s] = NewMailbox(active)
      /\ CloseMailbox(s) => mail'[s] = NoMailbox
      /\ ShowMailbox(s) => mail'[s] = [mail[s] EXCEPT !.active = TRUE]
      /\ HideMailbox(s) => mail'[s] = Hidden(mail[s])
      /\ TakePending(s) => mail'[s] = Claimed(mail[s])
      /\ TakeReady(s) => mail'[s] = WithoutReady(mail[s])
  BY <1>a DEF OpenMailbox, CloseMailbox, ShowMailbox, HideMailbox, TakePending, TakeReady
<1>2. /\ \A active \in BOOLEAN : OpenMailbox(s, active) => MailIs(s, 0, 0, active)
      /\ CloseMailbox(s) => MailIs(s, 0, 0, FALSE)
      /\ ShowMailbox(s) => MailIs(s, mail[s].pending, mail[s].latest, TRUE)
      /\ HideMailbox(s) => MailIs(s, 0, mail[s].latest, FALSE)
      /\ TakePending(s) => MailIs(s, 0, mail[s].latest, mail[s].active)
      /\ TakeReady(s) => MailKeeps(s)
  BY <1>a, <1>b, <1>1, HelperFields, Zenon DEF MailKeeps
<1>3. \A id \in RequestIds : Schedule(s, id) => MailIs(s, id, id, TRUE)
  BY <1>a DEF Schedule, Accepts, MailIs, WithoutReady, Mailbox
<1>4. ASSUME NEW id \in RequestIds, NEW size \in Charges, PublishReady(s, id, size)
      PROVE  MailKeeps(s)
  BY ZenonT(60), <1>4, <1>a DEF PublishReady, DiscardStale, DropOversized, DropOverBudget, RetainReady,
                    Unclaimed, WithoutReady, MailIs, MailKeeps, Mailbox
<1>5. StopMailboxes => MailIs(s, 0, mail[s].latest, FALSE)
  <2> DEFINE m == Unclaimed(WithoutReady(mail[s]))
  <2>1. m \in Mailbox /\ MailFields(m, mail[s].pending, mail[s].latest, mail[s].active)
    <3>1. /\ WithoutReady(mail[s]) \in Mailbox
          /\ MailFields(WithoutReady(mail[s]), mail[s].pending, mail[s].latest, mail[s].active)
      BY <1>a, MailboxHelpersType, HelperFields, Zenon
    <3>2. /\ m \in Mailbox
          /\ MailFields(m, WithoutReady(mail[s]).pending, WithoutReady(mail[s]).latest,
                           WithoutReady(mail[s]).active)
      BY <3>1, MailboxHelpersType, HelperFields, Zenon
    <3> QED
      BY <3>1, <3>2 DEF MailFields
  <2>2. StopMailboxes => mail'[s] = [m EXCEPT !.active = FALSE, !.pending = 0]
    BY DEF StopMailboxes
  <2> HIDE DEF m
  <2> QED
    <3>1. MailFields([m EXCEPT !.active = FALSE, !.pending = 0], 0, m.latest, FALSE)
      BY <2>1, HelperFields, Zenon
    <3> QED
      BY <2>1, <2>2, <3>1 DEF MailFields, MailIs
<1> QED
  BY <1>2, <1>3, <1>4, <1>5

LEMMA MailOfOthers ==
    ASSUME HandoffTypeOK, NEW s \in Sessions, NEW t \in Sessions, t # s,
           \/ \E active \in BOOLEAN : OpenMailbox(s, active)
           \/ CloseMailbox(s) \/ ShowMailbox(s) \/ HideMailbox(s) \/ TakePending(s) \/ TakeReady(s)
           \/ \E id \in RequestIds : Schedule(s, id)
           \/ \E id \in RequestIds, size \in Charges : PublishReady(s, id, size)
           \/ UNCHANGED handoffVars
    PROVE  MailKeeps(t)
<1>1. mail'[t] = mail[t]
  BY DEF HandoffTypeOK, OpenMailbox, CloseMailbox, ShowMailbox, HideMailbox, TakePending,
         TakeReady, Schedule, PublishReady, DiscardStale, DropOversized, DropOverBudget,
         RetainReady, handoffVars
<1> QED
  BY <1>1 DEF MailKeeps, MailIs
--------------------------------------------------------------------------------
(* A step moves one thread; the others stay, or are woken.                 *)
LEMMA OneClientMoves ==
    ASSUME OwnStateOK, NEW c \in Clients, ClientCall(c) \/ ClientStep(c)
    PROVE  \A d \in Clients \ {c} : ClientStays(d)
<1>a. client \in [Clients -> ClientFrames] /\ \A d \in Clients : client[d] \in ClientFrames
  BY DEF OwnStateOK, ThreadsOK
<1>b. ASSUME NEW cs \in [Clients -> ClientFrames], NEW d \in Clients, cs[d] = client[d],
             client' = NotifyAllClients(cs)
      PROVE  ClientStays(d)
  BY <1>a, <1>b DEF NotifyAllClients, ClientStays, ClientFrames, Frame
<1>1. CASE ClientCall(c)
  BY <1>1, <1>a DEF ClientCall, OpenSession, WorkerStartFails, ShowSession, HideSession,
                    CollectReady, RequestSchedule, CloseBegin, StopBegin, Goto, threadVars,
                    ClientStays
<1>2. CASE \/ RequestEnqueue(c) \/ CloseHide(c) \/ CloseSleep(c) \/ CloseFindsNothing(c)
           \/ CloseMailboxLast(c) \/ StopHandoff(c)
  BY <1>2, <1>a DEF RequestEnqueue, CloseHide, CloseSleep, CloseFindsNothing, CloseMailboxLast,
                    StopHandoff, Goto, Return, ClientStays
<1>3. CASE CloseErase(c)
  <2>1. [client EXCEPT ![c].at = "closeMailbox"] \in [Clients -> ClientFrames]
    BY <1>3, <1>a, ClientMoves DEF CloseErase, ClientPlaces, ClientFrames, OwnStateOK
  <2>2. client' = NotifyAllClients([client EXCEPT ![c].at = "closeMailbox"])
    BY <1>3 DEF CloseErase
  <2> QED
    BY <1>a, <1>b, <2>1, <2>2
<1>4. CASE StopJoined(c)
  <2>1. [client EXCEPT ![c] = Resting("idle")] \in [Clients -> ClientFrames]
    BY ClientRests DEF OwnStateOK
  <2>2. client' = NotifyAllClients([client EXCEPT ![c] = Resting("idle")])
    BY <1>4 DEF StopJoined
  <2> QED
    BY <1>a, <1>b, <2>1, <2>2
<1> QED
  BY <1>1, <1>2, <1>3, <1>4 DEF ClientStep

LEMMA NotifiedStay ==
    ASSUME OwnStateOK, client' = NotifyAllClients(client)
    PROVE  \A d \in Clients : ClientStays(d)
BY DEF OwnStateOK, ThreadsOK, NotifyAllClients, ClientStays, ClientFrames, Frame

(* Where a call goes, it goes for the session it was made for.             *)
LEMMA CallsGoOn ==
    ASSUME OwnStateOK, NEW c \in Clients, ClientStep(c)
    PROVE  /\ client'[c].at \in CallPlaces =>
                 client[c].at \in CallPlaces /\ client'[c].session = client[c].session
           /\ client[c].at \in CallPlaces \cup {"stopMailboxes", "join"}
<1>a. client \in [Clients -> ClientFrames] /\ client[c] \in ClientFrames
  BY DEF OwnStateOK, ThreadsOK
<1>1. CASE \/ RequestEnqueue(c) \/ CloseFindsNothing(c) \/ CloseMailboxLast(c)
  <2>1. client'[c].at = "idle"
    BY <1>1, <1>a DEF RequestEnqueue, CloseFindsNothing, CloseMailboxLast, Return, Resting
  <2> QED
    BY <1>1, <2>1 DEF RequestEnqueue, CloseFindsNothing, CloseMailboxLast, CallPlaces, ClosePlaces
<1>2. CASE CloseHide(c) \/ CloseSleep(c) \/ StopHandoff(c)
  BY <1>2, <1>a DEF CloseHide, CloseSleep, StopHandoff, Goto, CallPlaces, ClosePlaces,
                    ClientFrames, Frame
<1>3. CASE CloseErase(c)
  <2>1. [client EXCEPT ![c].at = "closeMailbox"] \in [Clients -> ClientFrames]
    BY <1>3, <1>a, ClientMoves DEF CloseErase, ClientPlaces, ClientFrames, OwnStateOK
  <2>2. client'[c] = [client EXCEPT ![c].at = "closeMailbox"][c]
    BY <1>3, <1>a, <2>1 DEF CloseErase, NotifyAllClients, ClientFrames, Frame
  <2> QED
    BY <1>3, <1>a, <2>2 DEF CloseErase, CallPlaces, ClosePlaces, ClientFrames, Frame
<1>4. CASE StopJoined(c)
  <2>1. client'[c].at = "idle"
    BY <1>4, <1>a DEF StopJoined, NotifyAllClients, Resting
  <2> QED
    BY <1>4, <2>1 DEF StopJoined, CallPlaces, ClosePlaces
<1> QED
  BY <1>1, <1>2, <1>3, <1>4 DEF ClientStep

LEMMA CallsBegin ==
    ASSUME OwnStateOK, NEW c \in Clients, ClientCall(c)
    PROVE  /\ client[c].at = "idle"
           /\ \/ UNCHANGED client
              \/ client'[c].at \in {"enqueue", "closeHide"} /\ client'[c].session \in Serves[c]
              \/ client'[c].at = "stopMailboxes" /\ poolStopped'
<1>a. client \in [Clients -> ClientFrames] /\ client[c] \in ClientFrames
  BY DEF OwnStateOK, ThreadsOK
<1>1. ASSUME NEW s \in Sessions,
             \/ \E active \in BOOLEAN : OpenSession(c, s, active)
             \/ WorkerStartFails(c, s) \/ ShowSession(c, s) \/ HideSession(c, s)
             \/ CollectReady(c, s)
      PROVE  client[c].at = "idle" /\ UNCHANGED client
  BY <1>1 DEF OpenSession, WorkerStartFails, ShowSession, HideSession, CollectReady, threadVars,
              Calling
<1>2. ASSUME NEW s \in Sessions, CloseBegin(c, s) \/ \E id \in RequestIds : RequestSchedule(c, s, id)
      PROVE  /\ client[c].at = "idle"
             /\ client'[c].at \in {"enqueue", "closeHide"} /\ client'[c].session \in Serves[c]
  BY <1>2, <1>a DEF CloseBegin, RequestSchedule, Calling
<1>3. ASSUME StopBegin(c)
      PROVE  client[c].at = "idle" /\ client'[c].at = "stopMailboxes" /\ poolStopped'
  BY <1>3, <1>a DEF StopBegin, Goto, ClientFrames, Frame
<1> QED
  BY <1>1, <1>2, <1>3 DEF ClientCall

(* A call by c for s is the only one for s.                                *)
LEMMA OneCallFor ==
    ASSUME OneCallerEach, CallsOwn, NEW c \in Clients, NEW s \in Sessions, s \in Serves[c],
           client[c].at \notin CallPlaces
    PROVE  \A d \in Clients : ~InCall(d, s)
BY DEF OneCallerEach, CallsOwn, InCall

LEMMA CallsOwnStep ==
    ASSUME OwnStateOK, CallsOwn, [PoolNext]_vars
    PROVE  CallsOwn'
<1>a. client \in [Clients -> ClientFrames] /\ \A d \in Clients : client[d] \in ClientFrames
  BY DEF OwnStateOK, ThreadsOK
<1>b. ASSUME NEW d \in Clients, ClientStays(d), client'[d].at \in CallPlaces
      PROVE  client'[d].session \in Serves[d]
  BY <1>b DEF ClientStays, CallsOwn, CallPlaces, ClosePlaces
<1>1. ASSUME NEW c \in Clients, ClientCall(c), client'[c].at \in CallPlaces
      PROVE  client'[c].session \in Serves[c]
  BY <1>1, CallsBegin DEF CallPlaces, ClosePlaces
<1>2. ASSUME NEW c \in Clients, ClientStep(c), client'[c].at \in CallPlaces
      PROVE  client'[c].session \in Serves[c]
  BY <1>2, CallsGoOn DEF CallsOwn
<1>3. ASSUME NEW c \in Clients, ClientCall(c) \/ ClientStep(c) PROVE CallsOwn'
  BY <1>3, <1>1, <1>2, <1>b, OneClientMoves DEF CallsOwn
<1>4. ASSUME \A d \in Clients : ClientStays(d) PROVE CallsOwn'
  BY <1>4, <1>b DEF CallsOwn
<1>5. ASSUME NEW w \in Workers, WorkerStep(w) PROVE \A d \in Clients : ClientStays(d)
  BY <1>5, NotifiedStay DEF WorkerStep, WaitForWork, WorkerExit, SkipEntry, StartRun, ClaimPending,
                            PublishRun, FinishRun, ClientStays
<1>6. SpuriousWake => \A d \in Clients : ClientStays(d)
  BY <1>a DEF SpuriousWake, Goto, ClientStays, ClientFrames, Frame
<1>7. UNCHANGED vars => \A d \in Clients : ClientStays(d)
  BY DEF vars, threadVars, ClientStays
<1> QED
  BY <1>3, <1>4, <1>5, <1>6, <1>7 DEF PoolNext

LEMMA StopsInOrderStep ==
    ASSUME OwnStateOK, StopsInOrder, [PoolNext]_vars
    PROVE  StopsInOrder'
<1>a. client \in [Clients -> ClientFrames] /\ \A d \in Clients : client[d] \in ClientFrames
  BY DEF OwnStateOK, ThreadsOK
<1>b. poolStopped => poolStopped'
  BY ZenonT(60) DEF PoolNext, ClientCall, ClientStep, WorkerStep, OpenSession, WorkerStartFails,
         ShowSession, HideSession, RequestSchedule, CollectReady, CloseBegin, StopBegin,
         RequestEnqueue, CloseHide, CloseSleep, CloseErase, CloseFindsNothing, CloseMailboxLast,
         StopHandoff, StopJoined, WaitForWork, WorkerExit, SkipEntry, StartRun, ClaimPending,
         PublishRun, FinishRun, SpuriousWake, poolVars, vars
<1>c. handoffStopped' => handoffStopped \/ \E c \in Clients : StopHandoff(c)
  <2>1. ASSUME NEW c \in Clients, NEW s \in Sessions,
               \/ \E active \in BOOLEAN : OpenSession(c, s, active)
               \/ WorkerStartFails(c, s) \/ ShowSession(c, s) \/ HideSession(c, s)
               \/ \E id \in RequestIds : RequestSchedule(c, s, id)
               \/ CollectReady(c, s) \/ CloseBegin(c, s)
        PROVE  UNCHANGED handoffStopped
    BY <2>1 DEF OpenSession, WorkerStartFails, ShowSession, HideSession, RequestSchedule,
                CollectReady, CloseBegin, handoffVars, OpenMailbox, ShowMailbox, HideMailbox,
                Schedule, TakeReady
  <2>2. ASSUME NEW c \in Clients, StopBegin(c) \/ (ClientStep(c) /\ ~StopHandoff(c))
        PROVE  UNCHANGED handoffStopped
    BY <2>2 DEF ClientStep, StopBegin, RequestEnqueue, CloseHide, CloseSleep, CloseErase,
                CloseFindsNothing, CloseMailboxLast, StopJoined, handoffVars, HideMailbox,
                CloseMailbox
  <2>3. ASSUME NEW w \in Workers, WorkerStep(w) PROVE UNCHANGED handoffStopped
    BY <2>3 DEF WorkerStep, WaitForWork, WorkerExit, SkipEntry, StartRun, ClaimPending,
                PublishRun, FinishRun, handoffVars, TakePending, PublishReady, DiscardStale,
                DropOversized, DropOverBudget, RetainReady
  <2>4. SpuriousWake \/ UNCHANGED vars => UNCHANGED handoffStopped
    BY DEF SpuriousWake, vars, handoffVars
  <2> QED
    BY <2>1, <2>2, <2>3, <2>4 DEF PoolNext, ClientCall
<1>d. handoffStopped' => poolStopped'
  BY <1>b, <1>c DEF StopsInOrder, StopHandoff
<1>1. ASSUME NEW c \in Clients, ClientCall(c), client'[c].at \in {"stopMailboxes", "join"}
      PROVE  poolStopped'
  BY <1>1, CallsBegin
<1>2. ASSUME NEW c \in Clients, ClientStep(c), client'[c].at \in {"stopMailboxes", "join"}
      PROVE  poolStopped'
  <2>1. StopHandoff(c) \/ client'[c].at \notin {"stopMailboxes", "join"}
    <3>1. ASSUME RequestEnqueue(c) \/ CloseFindsNothing(c) \/ CloseMailboxLast(c)
                 \/ CloseHide(c) \/ CloseSleep(c)
          PROVE  client'[c].at \notin {"stopMailboxes", "join"}
      BY <3>1, <1>a DEF RequestEnqueue, CloseFindsNothing, CloseMailboxLast, CloseHide, CloseSleep,
                        Goto, Return, Resting, ClientFrames, Frame
    <3>2. ASSUME CloseErase(c) PROVE client'[c].at \notin {"stopMailboxes", "join"}
      <4>1. [client EXCEPT ![c].at = "closeMailbox"] \in [Clients -> ClientFrames]
        BY <3>2, <1>a, ClientMoves DEF CloseErase, ClientPlaces, ClientFrames, OwnStateOK
      <4> QED
        BY <3>2, <1>a, <4>1 DEF CloseErase, NotifyAllClients, ClientFrames, Frame
    <3>3. ASSUME StopJoined(c) PROVE client'[c].at \notin {"stopMailboxes", "join"}
      BY <3>3, <1>a DEF StopJoined, NotifyAllClients, Resting
    <3> QED
      BY <1>2, <3>1, <3>2, <3>3 DEF ClientStep
  <2> QED
    BY <1>2, <1>b, <2>1 DEF StopHandoff, StopsInOrder
<1>3. ASSUME NEW d \in Clients, ClientStays(d), client'[d].at \in {"stopMailboxes", "join"}
      PROVE  poolStopped'
  BY <1>3, <1>b DEF ClientStays, StopsInOrder
<1>4. ASSUME NEW c \in Clients, ClientCall(c) \/ ClientStep(c) PROVE StopsInOrder'
  BY <1>4, <1>d, <1>1, <1>2, <1>3, OneClientMoves DEF StopsInOrder
<1>5. ASSUME \A d \in Clients : ClientStays(d) PROVE StopsInOrder'
  BY <1>5, <1>d, <1>3 DEF StopsInOrder
<1>6. ASSUME NEW w \in Workers, WorkerStep(w) PROVE \A d \in Clients : ClientStays(d)
  BY <1>6, NotifiedStay DEF WorkerStep, WaitForWork, WorkerExit, SkipEntry, StartRun, ClaimPending,
                            PublishRun, FinishRun, ClientStays
<1>7. SpuriousWake => \A d \in Clients : ClientStays(d)
  BY <1>a DEF SpuriousWake, Goto, ClientStays, ClientFrames, Frame
<1>8. UNCHANGED vars => \A d \in Clients : ClientStays(d)
  BY DEF vars, threadVars, ClientStays
<1> QED
  BY <1>4, <1>5, <1>6, <1>7, <1>8 DEF PoolNext
--------------------------------------------------------------------------------
(* A session with whose threads, mailbox, record and entries nothing       *)
(* happens stays tended.                                                   *)
LEMMA OtherTended ==
    ASSUME NEW t \in Sessions, Tended(t), MailKeeps(t), pool'[t] = pool[t],
           UNCHANGED poolStopped, HasEntry(t) => HasEntry(t)',
           \A w \in Workers : WorkerStays(w) \/ (~Runs(w, t) /\ ~Runs(w, t)'),
           \A c \in Clients : ClientStays(c) \/ (~InCall(c, t) /\ ~InCall(c, t)')
    PROVE  Tended(t)' /\ Untouched(t)
BY KeptTended, WorkersStay, ClientsStay

LEMMA EntriesAfter ==
    ASSUME OwnStateOK, NEW s \in Sessions, NEW t \in Sessions
    PROVE  /\ UNCHANGED queue => (HasEntry(t)' <=> HasEntry(t))
           /\ queue' = Append(queue, s) => HasEntry(s)' /\ (HasEntry(t) => HasEntry(t)')
           /\ queue # <<>> /\ queue' = Tail(queue) /\ t # Head(queue) =>
                 (HasEntry(t) => HasEntry(t)')
<1>a. queue \in Seq(Sessions) /\ Len(queue) \in Nat
  BY DEF OwnStateOK
<1>1. UNCHANGED queue => (HasEntry(t)' <=> HasEntry(t))
  BY DEF HasEntry
<1>2. ASSUME queue' = Append(queue, s) PROVE HasEntry(s)' /\ (HasEntry(t) => HasEntry(t)')
  <2>1. /\ Len(queue') = Len(queue) + 1 /\ queue'[Len(queue) + 1] = s
        /\ \A i \in 1..Len(queue) : queue'[i] = queue[i]
    BY <1>a, <1>2
  <2> QED
    BY <1>a, <2>1 DEF HasEntry
<1>3. ASSUME queue # <<>>, queue' = Tail(queue), t # Head(queue), HasEntry(t) PROVE HasEntry(t)'
  <2>1. PICK i \in 1..Len(queue) : queue[i] = t
    BY <1>3 DEF HasEntry
  <2>2. i # 1
    BY <1>3, <1>a, <2>1
  <2>3. i - 1 \in 1..Len(queue') /\ queue'[i - 1] = t
    BY <1>3, <1>a, <2>1, <2>2
  <2> QED
    BY <2>3 DEF HasEntry
<1> QED
  BY <1>1, <1>2, <1>3

(* What is known of a session before a step.                               *)
LEMMA TendedFacts ==
    ASSUME PoolTended, NEW s \in Sessions
    PROVE  /\ HandoffTypeOK /\ OwnStateOK /\ CallsOwn /\ ClosersAlone /\ RunOwnsSession
           /\ \A t \in Sessions : Tended(t)
           /\ mail[s] \in Mailbox /\ pool[s] \in PoolSession /\ pool \in [Sessions -> PoolSession]
           /\ client \in [Clients -> ClientFrames] /\ worker \in [Workers -> WorkerFrames]
           /\ mail[s].latest \in Nat /\ mail[s].pending \in Nat /\ mail[s].running \in Nat
           /\ mail[s].pending # 0 => mail[s].active /\ mail[s].pending = mail[s].latest
           /\ ~mail[s].open => MailFields(mail[s], 0, 0, FALSE)
           /\ pool[s].open => mail[s].open
           /\ \A w \in Workers : worker[w].id \in Nat
           /\ \A c \in Clients : client[c].id \in Nat
           /\ \A w \in Workers : Runs(w, s) =>
                 /\ pool[s].open /\ pool[s].running
                 /\ \A v \in Workers : Runs(v, s) => v = w
                 /\ worker[w].at # "execute" => mail[s].running = 0
           /\ pool[s].running => \E w \in Workers : Runs(w, s)
           /\ handoffStopped => poolStopped
<1>1. /\ HandoffTypeOK /\ OwnStateOK /\ CallsOwn /\ ClosersAlone /\ RunOwnsSession
      /\ NewestOnly /\ ClosedIsForgotten /\ StopsInOrder /\ \A t \in Sessions : Tended(t)
  BY DEF PoolTended, PoolSound
<1>2. /\ mail[s] \in Mailbox /\ pool[s] \in PoolSession /\ pool \in [Sessions -> PoolSession]
      /\ client \in [Clients -> ClientFrames] /\ worker \in [Workers -> WorkerFrames]
  BY <1>1 DEF HandoffTypeOK, OwnStateOK, ThreadsOK
<1>3. mail[s].latest \in Nat /\ mail[s].pending \in Nat /\ mail[s].running \in Nat
  BY <1>2, MailboxFields
<1>4. mail[s].pending # 0 => mail[s].active /\ mail[s].pending = mail[s].latest
  BY <1>1 DEF NewestOnly, HoldsNewestOnly
<1>5. ~mail[s].open => MailFields(mail[s], 0, 0, FALSE)
  BY <1>1 DEF ClosedIsForgotten, NoMailbox, MailFields
<1>6. MaybeId \subseteq Nat
  BY ConstantsArePositive DEF MaybeId
<1>7. /\ \A w \in Workers : worker[w].id \in Nat
      /\ \A c \in Clients : client[c].id \in Nat
  <2>1. /\ \A w \in Workers : worker[w].id \in MaybeId
        /\ \A c \in Clients : client[c].id \in MaybeId
    BY <1>2 DEF WorkerFrames, ClientFrames, Frame
  <2> QED
    BY <1>6, <2>1
<1>8. \A w \in Workers : Runs(w, s) =>
         /\ pool[s].open /\ pool[s].running
         /\ \A v \in Workers : Runs(v, s) => v = w
         /\ worker[w].at # "execute" => mail[s].running = 0
  BY <1>1 DEF RunOwnsSession, Runs
<1>9. pool[s].running => \E w \in Workers : Runs(w, s)
  BY <1>1 DEF RunOwnsSession, Runs
<1>10. (pool[s].open => mail[s].open) /\ (handoffStopped => poolStopped)
  BY <1>1 DEF ClosersAlone, StopsInOrder
<1> QED
  BY <1>1, <1>2, <1>3, <1>4, <1>5, <1>7, <1>8, <1>9, <1>10
--------------------------------------------------------------------------------
(* Steps that change nothing a session is tended by.                       *)
LEMMA QuietTended ==
    ASSUME PoolTended, NEW t \in Sessions,
           \/ \E c \in Clients, s \in Sessions : WorkerStartFails(c, s) \/ CollectReady(c, s)
           \/ \E c \in Clients : CloseSleep(c)
           \/ \E w \in Workers : WaitForWork(w) \/ WorkerExit(w)
           \/ \E w \in Workers, size \in Charges : PublishRun(w, size)
           \/ SpuriousWake \/ UNCHANGED vars
    PROVE  Tended(t)' /\ Untouched(t)
<1>a. /\ HandoffTypeOK /\ OwnStateOK /\ Tended(t)
      /\ client \in [Clients -> ClientFrames] /\ worker \in [Workers -> WorkerFrames]
  BY TendedFacts
<1>b. ASSUME UNCHANGED <<pool, queue, poolStopped>>, MailKeeps(t),
             \A w \in Workers : WorkerStays(w), \A c \in Clients : ClientStays(c)
      PROVE  Tended(t)' /\ Untouched(t)
  BY <1>a, <1>b, OtherTended, EntriesAfter
<1>c. UNCHANGED handoffVars => MailKeeps(t)
  BY DEF handoffVars, MailKeeps, MailIs
<1>d. /\ UNCHANGED worker => \A w \in Workers : WorkerStays(w)
      /\ UNCHANGED client => \A c \in Clients : ClientStays(c)
  BY DEF WorkerStays, ClientStays
<1>1. ASSUME NEW c \in Clients, NEW s \in Sessions, WorkerStartFails(c, s) PROVE Tended(t)' /\ Untouched(t)
  <2>1. \A w \in Workers : WorkerStays(w)
    BY <1>1, <1>a DEF WorkerStartFails, Started, WorkerStays, Busy, Resting
  <2> QED
    BY <1>1, <1>b, <1>c, <1>d, <2>1 DEF WorkerStartFails, poolVars
<1>2. ASSUME NEW c \in Clients, NEW s \in Sessions, CollectReady(c, s) PROVE Tended(t)' /\ Untouched(t)
  <2>1. MailKeeps(t)
    BY <1>2, <1>a, MailEffects, MailOfOthers DEF CollectReady
  <2> QED
    BY <1>2, <1>b, <1>d, <2>1 DEF CollectReady, poolVars, threadVars
<1>3. ASSUME NEW c \in Clients, CloseSleep(c) PROVE Tended(t)' /\ Untouched(t)
  <2>1. \A d \in Clients : ClientStays(d)
    BY <1>3, <1>a DEF CloseSleep, Goto, ClientStays, ClientFrames, Frame
  <2> QED
    BY <1>3, <1>b, <1>c, <1>d, <2>1 DEF CloseSleep, poolVars
<1>4. ASSUME NEW w \in Workers, WaitForWork(w) \/ WorkerExit(w) PROVE Tended(t)' /\ Untouched(t)
  <2>1. \A v \in Workers : WorkerStays(v)
    BY <1>4, <1>a DEF WaitForWork, WorkerExit, WorkerStays, Busy, Resting
  <2> QED
    BY <1>4, <1>b, <1>c, <1>d, <2>1 DEF WaitForWork, WorkerExit, poolVars
<1>5. ASSUME NEW w \in Workers, NEW size \in Charges, PublishRun(w, size) PROVE Tended(t)' /\ Untouched(t)
  <2>1. \A v \in Workers : WorkerStays(v)
    BY <1>5, <1>a DEF PublishRun, WorkerStays, Busy, WorkerFrames, Frame
  <2>2. worker[w].session \in Sessions /\ worker[w].id \in RequestIds
    BY <1>5, <1>a DEF PublishRun, WorkerFrames
  <2>3. MailKeeps(t)
    BY <1>5, <1>a, <1>c, <2>2, MailEffects, MailOfOthers DEF PublishRun
  <2> QED
    BY <1>5, <1>b, <1>d, <2>1, <2>3 DEF PublishRun, poolVars
<1>6. ASSUME SpuriousWake PROVE Tended(t)' /\ Untouched(t)
  <2>1. \A v \in Workers : WorkerStays(v)
    BY <1>6, <1>a DEF SpuriousWake, WorkerStays, Busy, Resting
  <2>2. \A d \in Clients : ClientStays(d)
    BY <1>6, <1>a DEF SpuriousWake, Goto, ClientStays, ClientFrames, Frame
  <2> QED
    BY <1>6, <1>b, <1>c, <2>1, <2>2 DEF SpuriousWake, poolVars
<1>7. UNCHANGED vars => Tended(t)' /\ Untouched(t)
  BY <1>b, <1>c, <1>d DEF vars, poolVars, threadVars
<1> QED
  BY <1>1, <1>2, <1>3, <1>4, <1>5, <1>6, <1>7
--------------------------------------------------------------------------------
(* A call by c for s made from outside: no other call for s is under way.  *)
LEMMA OpenSessionTended ==
    ASSUME PoolTended, OneCallerEach, NEW c \in Clients, NEW s \in Sessions,
           NEW active \in BOOLEAN, OpenSession(c, s, active), NEW t \in Sessions
    PROVE  Tended(t)' /\ (t # s => Untouched(t))
<1>a. /\ client[c].at = "idle" /\ s \in Serves[c] /\ ~poolStopped /\ ~pool[s].open
      /\ OpenMailbox(s, active) /\ worker' = Started(Workers)
      /\ pool' = [pool EXCEPT ![s] = [NoSession EXCEPT !.open = TRUE, !.active = active]]
      /\ UNCHANGED <<queue, poolStopped, client>>
  BY DEF OpenSession, Calling
<1>b. /\ \A d \in Clients : ClientStays(d)
      /\ \A w \in Workers : WorkerStays(w)
  BY <1>a, TendedFacts DEF ClientStays, WorkerStays, Started, Busy, Resting
<1>1. CASE t # s
  <2>1. pool'[t] = pool[t]
    BY <1>a, <1>1, TendedFacts
  <2> QED
    BY <1>a, <1>b, <1>1, <2>1, TendedFacts, OtherTended, EntriesAfter, MailOfOthers
<1>2. CASE t = s
  <2>1. \A d \in Clients : ~InCall(d, s) /\ client'[d] = client[d]
    BY <1>a, OneCallFor, TendedFacts DEF CallPlaces, ClosePlaces
  <2>2. \A w \in Workers : ~Runs(w, s)'
    <3>1. \A w \in Workers : ~Runs(w, s)
      BY <1>a, TendedFacts
    <3> QED
      BY <1>b, <3>1 DEF WorkerStays, Runs, Busy
  <2>3. pool'[s].open /\ pool'[s].active = active /\ ~pool'[s].queued
    BY <1>a, TendedFacts DEF NoSession
  <2>4. MailIs(s, 0, 0, active)
    BY <1>a, TendedFacts, MailEffects
  <2> QED
    BY <1>a, <1>2, <2>1, <2>2, <2>3, <2>4
       DEF Tended, MarksBacked, CallIsPending, RunsAreOlder, ShownAgrees, PendingServed,
           MailIs, InCall, Enqueues, Closes, CallPlaces, ClosePlaces
<1> QED
  BY <1>1, <1>2

LEMMA ShowHideTended ==
    ASSUME PoolTended, OneCallerEach, NEW c \in Clients, NEW s \in Sessions,
           ShowSession(c, s) \/ HideSession(c, s), NEW t \in Sessions
    PROVE  Tended(t)' /\ (t # s => Untouched(t))
<1>a. /\ client[c].at = "idle" /\ s \in Serves[c] /\ ~poolStopped /\ pool[s].open
      /\ UNCHANGED <<queue, poolStopped, worker, client>>
  BY DEF ShowSession, HideSession, Calling, threadVars
<1>b. /\ \A d \in Clients : ClientStays(d)
      /\ \A w \in Workers : WorkerStays(w)
  BY <1>a DEF ClientStays, WorkerStays
<1>c. ShowMailbox(s) \/ HideMailbox(s)
  BY DEF ShowSession, HideSession
<1>1. CASE t # s
  <2>1. pool'[t] = pool[t]
    BY <1>1, TendedFacts DEF ShowSession, HideSession
  <2> QED
    BY <1>a, <1>b, <1>c, <1>1, <2>1, TendedFacts, OtherTended, EntriesAfter, MailOfOthers
<1>2. CASE t = s
  <2>1. /\ \A d \in Clients : ~InCall(d, s) /\ ~InCall(d, s)'
        /\ \A d \in Clients : ~Enqueues(d, s)' /\ ~Closes(d, s)' /\ ~HidesNext(d, s)
                              /\ ~Enqueues(d, s)
    BY <1>a, OneCallFor, TendedFacts
       DEF CallPlaces, ClosePlaces, InCall, Enqueues, Closes, HidesNext
  <2>2. WorkersKeep(s) /\ (HasEntry(s)' <=> HasEntry(s))
    BY <1>a, <1>b, WorkersStay, TendedFacts, EntriesAfter
  <2>3. CASE ShowSession(c, s)
    <3>1. Fields(pool'[s], pool[s].open, TRUE, pool[s].queued, pool[s].running, pool[s].rerun,
                 pool[s].latest)
      BY <2>3, TendedFacts, PoolFields DEF ShowSession
    <3>2. MailIs(s, mail[s].pending, mail[s].latest, TRUE)
      BY <2>3, TendedFacts, MailEffects DEF ShowSession
    <3>3. mail[s].pending # 0 => Served(s)
      BY <1>a, <2>1, TendedFacts DEF Tended, ShownAgrees, PendingServed
    <3>4. RunsAreOlder(s)'
      BY <2>2, <3>2, RunsStayOlder, TendedFacts DEF MailIs
    <3>5. PendingServed(s)'
      BY <2>1, <2>2, <3>1, <3>2, <3>3 DEF PendingServed, Served, WorkersKeep, MailIs, Fields
    <3>6. MarksBacked(s)' /\ CallIsPending(s)' /\ ShownAgrees(s)'
      BY <1>a, <2>1, <2>2, <3>1, TendedFacts
         DEF Tended, MarksBacked, CallIsPending, ShownAgrees, Fields
    <3> QED
      BY <1>2, <3>4, <3>5, <3>6 DEF Tended
  <2>4. CASE HideSession(c, s)
    <3>1. Fields(pool'[s], pool[s].open, FALSE, pool[s].queued, pool[s].running, FALSE,
                 pool[s].latest)
      BY <2>4, TendedFacts, PoolFields DEF HideSession
    <3>2. MailIs(s, 0, mail[s].latest, FALSE)
      BY <2>4, TendedFacts, MailEffects DEF HideSession
    <3>3. RunsAreOlder(s)'
      BY <2>2, <3>2, RunsStayOlder, TendedFacts DEF MailIs
    <3>4. /\ MarksBacked(s)' /\ CallIsPending(s)' /\ ShownAgrees(s)' /\ PendingServed(s)'
      BY <1>a, <2>1, <2>2, <3>1, <3>2, TendedFacts
         DEF Tended, MarksBacked, CallIsPending, ShownAgrees, PendingServed, MailIs, Fields
    <3> QED
      BY <1>2, <3>3, <3>4 DEF Tended
  <2> QED
    BY <2>3, <2>4
<1> QED
  BY <1>1, <1>2
--------------------------------------------------------------------------------
LEMMA RequestScheduleTended ==
    ASSUME PoolTended, OneCallerEach, NEW c \in Clients, NEW s \in Sessions,
           NEW id \in RequestIds, RequestSchedule(c, s, id), NEW t \in Sessions
    PROVE  Tended(t)' /\ (t # s => Untouched(t))
<1>a. /\ client[c].at = "idle" /\ s \in Serves[c] /\ Schedule(s, id)
      /\ client' = [client EXCEPT ![c] = [at |-> "enqueue", session |-> s, id |-> id]]
      /\ UNCHANGED <<pool, queue, poolStopped, worker>>
  BY DEF RequestSchedule, Calling, poolVars
<1>b. /\ \A d \in Clients \ {c} : client'[d] = client[d]
      /\ \A w \in Workers : WorkerStays(w)
      /\ client'[c] = [at |-> "enqueue", session |-> s, id |-> id]
  BY <1>a, TendedFacts DEF WorkerStays
<1>1. CASE t # s
  <2>1. \A d \in Clients : ClientStays(d) \/ (~InCall(d, t) /\ ~InCall(d, t)')
    BY <1>a, <1>b, <1>1 DEF ClientStays, InCall, CallPlaces, ClosePlaces
  <2> QED
    BY <1>a, <1>b, <1>1, <2>1, TendedFacts, OtherTended, EntriesAfter, MailOfOthers
<1>2. CASE t = s
  <2>1. /\ \A d \in Clients : ~InCall(d, s)
        /\ \A d \in Clients \ {c} : ~InCall(d, s)'
    BY ZenonT(60), <1>a, <1>b, OneCallFor, TendedFacts DEF CallPlaces, ClosePlaces, InCall
  <2>2. WorkersKeep(s) /\ (HasEntry(s)' <=> HasEntry(s))
    BY <1>a, <1>b, WorkersStay, TendedFacts, EntriesAfter
  <2>3. MailIs(s, id, id, TRUE) /\ id > mail[s].latest /\ id \in Nat /\ id # 0 /\ mail[s].active
    <3>1. MailIs(s, id, id, TRUE)
      BY <1>a, TendedFacts, MailEffects
    <3>2. id > mail[s].latest /\ mail[s].active
      BY <1>a DEF Schedule, Accepts
    <3>3. id \in Nat /\ id # 0
      BY ConstantsArePositive
    <3> QED
      BY <3>1, <3>2, <3>3
  <2>4. /\ \A d \in Clients : Enqueues(d, s)' => d = c /\ client'[d].id = id
        /\ Enqueues(c, s)'
        /\ \A d \in Clients : ~Closes(d, s)' /\ ~HidesNext(d, s)
    BY <1>b, <2>1 DEF Enqueues, Closes, HidesNext, InCall, CallPlaces, ClosePlaces
  <2>5. \A w \in Workers : Runs(w, s) => worker[w].id < id
    <3>1. \A w \in Workers : Runs(w, s) => worker[w].id <= mail[s].latest
      BY TendedFacts DEF Tended, RunsAreOlder
    <3>2. mail[s].latest \in Nat /\ \A w \in Workers : worker[w].id \in Nat
      BY TendedFacts
    <3> QED
      BY <2>3, <3>1, <3>2
  <2>6. Served(s)'
    BY <2>3, <2>4 DEF Served, MailIs
  <2>7. \A w \in Workers : Runs(w, s)' =>
           /\ worker'[w].at = "claim" => worker'[w].id = 0
           /\ worker'[w].id <= id /\ worker'[w].id < id
    <3> SUFFICES ASSUME NEW w \in Workers, Runs(w, s)'
                 PROVE  /\ worker'[w].at = "claim" => worker'[w].id = 0
                        /\ worker'[w].id <= id /\ worker'[w].id < id
      OBVIOUS
    <3>1. Runs(w, s) /\ worker' = worker
      BY <1>a, <2>2 DEF WorkersKeep
    <3>2. worker[w].at = "claim" => worker[w].id = 0
      BY <3>1, TendedFacts DEF Tended, RunsAreOlder
    <3>3. worker[w].id \in Nat
      BY TendedFacts
    <3> QED
      BY <2>3, <2>5, <3>1, <3>2, <3>3
  <2>8. MarksBacked(s)' /\ CallIsPending(s)' /\ ShownAgrees(s)'
    BY <1>a, <2>2, <2>3, <2>4, TendedFacts
       DEF Tended, MarksBacked, CallIsPending, ShownAgrees, MailIs
  <2>9. RunsAreOlder(s)' /\ PendingServed(s)'
    BY <2>3, <2>6, <2>7 DEF RunsAreOlder, PendingServed, MailIs
  <2> QED
    BY <1>2, <2>8, <2>9 DEF Tended
<1> QED
  BY <1>1, <1>2

(* The second half of a request marks the session, or leaves a rerun to    *)
(* the worker it finds running.                                            *)
LEMMA RequestEnqueueTended ==
    ASSUME PoolTended, OneCallerEach, NEW c \in Clients, RequestEnqueue(c), NEW t \in Sessions,
           NEW s \in Sessions, s = client[c].session, NEW id \in MaybeId, id = client[c].id
    PROVE  Tended(t)' /\ (t # s => Untouched(t))
<1> DEFINE ps == [pool EXCEPT ![s].latest = id]
<1>a. /\ client[c].at = "enqueue" /\ Return(c) /\ UNCHANGED <<handoffVars, poolStopped>>
      /\ s \in Sessions /\ id \in MaybeId
  BY DEF RequestEnqueue
<1>b. /\ \A d \in Clients \ {c} : client'[d] = client[d]
      /\ client'[c] = Resting("idle")
  BY <1>a, TendedFacts DEF Return
<1>c. \A u \in Sessions : MailKeeps(u)
  BY <1>a DEF MailKeeps, MailIs, handoffVars
<1>d. /\ ps \in [Sessions -> PoolSession] /\ ps[s] \in PoolSession
      /\ Fields(ps[s], pool[s].open, pool[s].active, pool[s].queued, pool[s].running,
                pool[s].rerun, id)
      /\ \A u \in Sessions \ {s} : ps[u] = pool[u]
  <2>1. [pool[s] EXCEPT !.latest = id] \in PoolSession
    BY <1>a, TendedFacts, PoolSessionUpdates
  <2>2. Fields([pool[s] EXCEPT !.latest = id], pool[s].open, pool[s].active, pool[s].queued,
               pool[s].running, pool[s].rerun, id)
    BY <1>a, TendedFacts, PoolFields
  <2> QED
    BY <1>a, <2>1, <2>2, TendedFacts
<1>e. \/ /\ poolStopped \/ ~pool[s].open \/ ~pool[s].active
         /\ UNCHANGED <<pool, queue, worker>>
      \/ /\ pool[s].running /\ pool' = [ps EXCEPT ![s].rerun = TRUE] /\ UNCHANGED <<queue, worker>>
      \/ ~pool[s].running /\ pool[s].active /\ ~poolStopped /\ Enqueue(s, ps, worker)
  BY DEF RequestEnqueue
<1>f. \A w \in Workers : WorkerStays(w)
  <2>1. worker' = worker \/ worker' \in NotifyOneWorker(worker)
    BY <1>e DEF Enqueue
  <2>2. \A w \in Workers : worker'[w] = worker[w]
                           \/ (worker[w].at = "asleep" /\ worker'[w].at = "idle")
    <3>1. worker \in [Workers -> WorkerFrames]
      BY TendedFacts
    <3>2. ASSUME worker' \in NotifyOneWorker(worker), NEW w \in Workers
          PROVE  worker'[w] = worker[w] \/ (worker[w].at = "asleep" /\ worker'[w].at = "idle")
      BY <3>1, <3>2, NotifyTouchesSleepers
    <3> QED
      BY <2>1, <3>2
  <2> QED
    BY <2>2 DEF WorkerStays, Busy
<1>g. /\ queue' = queue \/ queue' = Append(queue, s)
      /\ \A u \in Sessions \ {s} : pool'[u] = pool[u]
  <2> HIDE DEF ps
  <2> QED
    BY <1>a, <1>d, <1>e DEF Enqueue
<1> HIDE DEF ps
<1>1. CASE t # s
  <2>1. \A d \in Clients : ClientStays(d) \/ (~InCall(d, t) /\ ~InCall(d, t)')
    BY <1>a, <1>b, <1>1 DEF ClientStays, InCall, CallPlaces, ClosePlaces, Resting
  <2>2. HasEntry(t) => HasEntry(t)'
    BY <1>a, <1>g, TendedFacts, EntriesAfter
  <2> QED
    BY <1>a, <1>c, <1>f, <1>g, <1>1, <2>1, <2>2, TendedFacts, OtherTended
<1>2. CASE t = s
  <2>1. /\ Enqueues(c, s)
        /\ \A d \in Clients : ~Enqueues(d, s)' /\ ~Closes(d, s)' /\ ~HidesNext(d, s)
    <3>1. \A d \in Clients \ {c} : ~InCall(d, s)
      BY <1>a, TendedFacts DEF CallsOwn, OneCallerEach, InCall, CallPlaces, ClosePlaces
    <3> QED
      BY <1>a, <1>b, <3>1 DEF Enqueues, Closes, HidesNext, InCall, CallPlaces, ClosePlaces, Resting
  <2>2. mail[s].pending \in {0, id}
    BY <1>a, <2>1, TendedFacts DEF Tended, CallIsPending
  <2>3. WorkersKeep(s) /\ (HasEntry(s) => HasEntry(s)')
    BY <1>a, <1>f, <1>g, WorkersStay, TendedFacts, EntriesAfter
  <2>4. MailKeeps(s) /\ UNCHANGED poolStopped
    BY <1>a, <1>c
  <2>r. RunsAreOlder(s)'
    BY <2>3, <2>4, RunsStayOlder, TendedFacts DEF MailKeeps, MailIs
  <2>m. /\ mail'[s].active = mail[s].active /\ mail'[s].pending = mail[s].pending
        /\ \A d \in Clients : HidesNext(d, s) => FALSE
    BY <2>1, <2>4 DEF MailKeeps, MailIs
  <2>c. CallIsPending(s)'
    BY <2>1 DEF CallIsPending
  <2>5. CASE UNCHANGED pool /\ (poolStopped \/ ~pool[s].open \/ ~pool[s].active)
    <3>1. ~pool[s].active
      BY <1>a, <2>5, TendedFacts DEF Tended, MarksBacked
    <3>2. MarksBacked(s)' /\ ShownAgrees(s)' /\ PendingServed(s)'
      BY <2>1, <2>3, <2>4, <2>5, <2>m, <3>1, TendedFacts
         DEF Tended, MarksBacked, ShownAgrees, PendingServed
    <3> QED
      BY <1>2, <2>r, <2>c, <3>2 DEF Tended
  <2>6. CASE pool[s].running /\ pool' = [ps EXCEPT ![s].rerun = TRUE]
    <3>1. Fields(pool'[s], pool[s].open, pool[s].active, pool[s].queued, TRUE, TRUE, id)
      <4>1. pool'[s] = [ps[s] EXCEPT !.rerun = TRUE]
        BY <1>a, <1>d, <2>6
      <4> QED
        BY <1>d, <2>6, <4>1, PoolFields DEF Fields
    <3>2. PICK w \in Workers : Runs(w, s)
      BY <1>a, <2>6, TendedFacts
    <3>3. mail[s].pending # 0 => Served(s)'
      BY <2>2, <2>3, <2>4, <3>1, <3>2 DEF Served, Fields, MailKeeps, MailIs, WorkersKeep
    <3>4. MarksBacked(s)' /\ ShownAgrees(s)' /\ PendingServed(s)'
      BY <2>1, <2>3, <2>4, <2>6, <2>m, <3>1, <3>3, TendedFacts
         DEF Tended, MarksBacked, ShownAgrees, PendingServed, Fields
    <3> QED
      BY <1>2, <2>r, <2>c, <3>4 DEF Tended
  <2>7. CASE ~pool[s].running /\ pool[s].active /\ ~poolStopped /\ Enqueue(s, ps, worker)
    <3> DEFINE Queued == /\ pool'[s].open = pool[s].open /\ pool'[s].active /\ pool'[s].queued
                         /\ ~pool'[s].running /\ HasEntry(s)'
    <3>1. ASSUME ps[s].queued PROVE Queued
      <4>1. pool'[s] = ps[s]
        BY <2>7, <3>1 DEF Enqueue
      <4>2. HasEntry(s)
        BY <1>d, <3>1, TendedFacts DEF Tended, MarksBacked, Fields
      <4> QED
        BY <1>d, <2>3, <2>7, <3>1, <4>1, <4>2 DEF Fields
    <3>2. ASSUME ~ps[s].queued PROVE Queued
      <4>1. pool' = [ps EXCEPT ![s].queued = TRUE] /\ queue' = Append(queue, s)
        BY <1>d, <2>7, <3>2 DEF Enqueue, Fields
      <4>2. pool'[s] = [ps[s] EXCEPT !.queued = TRUE]
        BY <1>d, <4>1
      <4>3. HasEntry(s)'
        BY <4>1, TendedFacts, EntriesAfter
      <4>4. Fields(pool'[s], ps[s].open, ps[s].active, TRUE, ps[s].running, ps[s].rerun,
                   ps[s].latest)
        BY <1>d, <4>2, PoolFields
      <4> QED
        BY <1>d, <2>7, <4>3, <4>4 DEF Fields
    <3>3. /\ pool'[s].open = pool[s].open /\ pool'[s].active /\ pool'[s].queued
          /\ ~pool'[s].running /\ HasEntry(s)'
      BY <3>1, <3>2
    <3>4. MarksBacked(s)' /\ ShownAgrees(s)' /\ PendingServed(s)'
      BY <2>1, <2>4, <2>7, <2>m, <3>3, TendedFacts
         DEF Tended, MarksBacked, ShownAgrees, PendingServed, Served
    <3> QED
      BY <1>2, <2>r, <2>c, <3>4 DEF Tended
  <2> QED
    BY <1>e, <2>5, <2>6, <2>7
<1> QED
  BY <1>1, <1>2

LEMMA CloseBeginTended ==
    ASSUME PoolTended, OneCallerEach, NEW c \in Clients, NEW s \in Sessions, CloseBegin(c, s),
           NEW t \in Sessions
    PROVE  Tended(t)' /\ (t # s => Untouched(t))
<1>a. /\ client[c].at = "idle" /\ s \in Serves[c] /\ pool[s].open
      /\ client' = [client EXCEPT ![c] = [at |-> "closeHide", session |-> s, id |-> 0]]
      /\ UNCHANGED <<handoffVars, queue, poolStopped, worker>>
  BY DEF CloseBegin, Calling
<1>b. /\ \A d \in Clients \ {c} : client'[d] = client[d]
      /\ \A w \in Workers : WorkerStays(w)
      /\ client'[c] = [at |-> "closeHide", session |-> s, id |-> 0]
      /\ MailKeeps(t)
  BY <1>a, TendedFacts DEF WorkerStays, MailKeeps, MailIs, handoffVars
<1>1. CASE t # s
  <2>1. \A d \in Clients : ClientStays(d) \/ (~InCall(d, t) /\ ~InCall(d, t)')
    BY <1>a, <1>b, <1>1 DEF ClientStays, InCall, CallPlaces, ClosePlaces
  <2>2. pool'[t] = pool[t]
    BY <1>1, TendedFacts DEF CloseBegin
  <2> QED
    BY <1>a, <1>b, <1>1, <2>1, <2>2, TendedFacts, OtherTended, EntriesAfter
<1>2. CASE t = s
  <2>1. /\ \A d \in Clients : ~InCall(d, s)
        /\ \A d \in Clients \ {c} : ~InCall(d, s)'
    BY ZenonT(60), <1>a, <1>b, OneCallFor, TendedFacts DEF CallPlaces, ClosePlaces, InCall
  <2>2. WorkersKeep(s) /\ (HasEntry(s)' <=> HasEntry(s))
    BY <1>a, <1>b, WorkersStay, TendedFacts, EntriesAfter
  <2>3. /\ \A d \in Clients : ~Enqueues(d, s)'
        /\ HidesNext(c, s)'
    BY <1>b, <2>1 DEF Enqueues, HidesNext, InCall, CallPlaces, ClosePlaces
  <2>4. Fields(pool'[s], pool[s].open, FALSE, pool[s].queued, pool[s].running, FALSE,
               pool[s].latest)
    BY TendedFacts, PoolFields DEF CloseBegin
  <2>5. RunsAreOlder(s)'
    BY <1>b, <1>2, <2>2, RunsStayOlder, TendedFacts DEF MailKeeps, MailIs
  <2>6. MarksBacked(s)' /\ CallIsPending(s)' /\ ShownAgrees(s)' /\ PendingServed(s)'
    BY <1>a, <2>2, <2>3, <2>4, TendedFacts
       DEF Tended, MarksBacked, CallIsPending, ShownAgrees, PendingServed, Fields
  <2> QED
    BY <1>2, <2>5, <2>6 DEF Tended
<1> QED
  BY <1>1, <1>2

LEMMA CloseHideTended ==
    ASSUME PoolTended, OneCallerEach, NEW c \in Clients, CloseHide(c), NEW t \in Sessions,
           NEW s \in Sessions, s = client[c].session
    PROVE  Tended(t)' /\ (t # s => Untouched(t))
<1>a. /\ client[c].at = "closeHide" /\ s \in Sessions /\ client[c] \in ClientFrames
      /\ UNCHANGED <<pool, queue, poolStopped, worker>>
      /\ IF mail[s].open /\ ~handoffStopped THEN HideMailbox(s) ELSE UNCHANGED handoffVars
  BY TendedFacts DEF CloseHide, poolVars
<1>b. /\ \A d \in Clients \ {c} : client'[d] = client[d]
      /\ \A w \in Workers : WorkerStays(w)
      /\ client'[c].at = "closeWait" /\ client'[c].session = s
  BY <1>a, TendedFacts DEF WorkerStays, CloseHide, Goto, ClientFrames, Frame
<1>1. CASE t # s
  <2>1. \A d \in Clients : ClientStays(d) \/ (~InCall(d, t) /\ ~InCall(d, t)')
    BY <1>a, <1>b, <1>1 DEF ClientStays, InCall, CallPlaces, ClosePlaces
  <2>2. MailKeeps(t)
    BY <1>a, <1>1, TendedFacts, MailOfOthers
  <2> QED
    BY <1>a, <1>b, <1>1, <2>1, <2>2, TendedFacts, OtherTended, EntriesAfter
<1>2. CASE t = s
  <2>1. /\ \A d \in Clients \ {c} : ~InCall(d, s)
        /\ \A d \in Clients : ~Enqueues(d, s)'
        /\ ~pool[s].active
    <3>1. \A d \in Clients \ {c} : ~InCall(d, s)
      BY <1>a, TendedFacts DEF CallsOwn, OneCallerEach, InCall, CallPlaces, ClosePlaces
    <3>2. ~pool[s].active
      BY <1>a, TendedFacts DEF Tended, ShownAgrees, Closes, ClosePlaces
    <3> QED
      BY <1>a, <1>b, <3>1, <3>2 DEF Enqueues, InCall, CallPlaces, ClosePlaces
  <2>2. WorkersKeep(s) /\ (HasEntry(s)' <=> HasEntry(s))
    BY <1>a, <1>b, WorkersStay, TendedFacts, EntriesAfter
  <2>3. CASE mail[s].open /\ ~handoffStopped
    <3>1. MailIs(s, 0, mail[s].latest, FALSE)
      BY <1>a, <2>3, TendedFacts, MailEffects
    <3>2. RunsAreOlder(s)'
      BY <2>2, <3>1, RunsStayOlder, TendedFacts DEF MailIs
    <3>3. MarksBacked(s)' /\ CallIsPending(s)' /\ ShownAgrees(s)' /\ PendingServed(s)'
      BY <1>a, <2>1, <2>2, <3>1, TendedFacts
         DEF Tended, MarksBacked, CallIsPending, ShownAgrees, PendingServed, MailIs
    <3> QED
      BY <1>2, <3>2, <3>3 DEF Tended
  <2>4. CASE ~(mail[s].open /\ ~handoffStopped)
    <3>1. MailKeeps(s)
      BY <1>a, <2>4 DEF MailKeeps, MailIs, handoffVars
    <3>2. mail[s].active => poolStopped
      BY <1>a, <2>4, TendedFacts DEF MailFields
    <3>3. RunsAreOlder(s)'
      BY <2>2, <3>1, RunsStayOlder, TendedFacts DEF MailKeeps, MailIs
    <3>4. MarksBacked(s)' /\ CallIsPending(s)' /\ ShownAgrees(s)' /\ PendingServed(s)'
      BY <1>a, <2>1, <2>2, <3>1, <3>2, TendedFacts
         DEF Tended, MarksBacked, CallIsPending, ShownAgrees, PendingServed, MailIs, MailKeeps
    <3> QED
      BY <1>2, <3>3, <3>4 DEF Tended
  <2> QED
    BY <2>3, <2>4
<1> QED
  BY <1>1, <1>2
--------------------------------------------------------------------------------
LEMMA CloseEraseTended ==
    ASSUME PoolTended, NEW c \in Clients, CloseErase(c), NEW t \in Sessions,
           NEW s \in Sessions, s = client[c].session
    PROVE  Tended(t)' /\ (t # s => Untouched(t))
<1> DEFINE cs == [client EXCEPT ![c].at = "closeMailbox"]
<1>a. /\ client[c].at = "closeWait" /\ pool[s].open /\ ~pool[s].running
      /\ pool' = [pool EXCEPT ![s] = NoSession] /\ client' = NotifyAllClients(cs)
      /\ UNCHANGED <<handoffVars, queue, poolStopped, worker>>
      /\ client \in [Clients -> ClientFrames]
  BY TendedFacts DEF CloseErase
<1>b. cs \in [Clients -> ClientFrames] /\ cs[c].at = "closeMailbox" /\ cs[c].session = s
  <2>1. cs \in [Clients -> ClientFrames]
    BY <1>a, ClientMoves, TendedFacts DEF ClientPlaces, ClientFrames, OwnStateOK
  <2> QED
    BY <1>a, <2>1 DEF ClientFrames, Frame
<1>c. /\ client'[c].at = "closeMailbox" /\ client'[c].session = s
      /\ \A d \in Clients \ {c} : ClientStays(d)
  <2>1. \A d \in Clients \ {c} : cs[d] = client[d]
    BY <1>a
  <2> HIDE DEF cs
  <2> QED
    BY <1>a, <1>b, <2>1 DEF NotifyAllClients, ClientStays, ClientFrames, Frame
<1>d. MailKeeps(t) /\ \A w \in Workers : WorkerStays(w)
  BY <1>a DEF MailKeeps, MailIs, handoffVars, WorkerStays
<1> HIDE DEF cs
<1>1. CASE t # s
  <2>1. \A d \in Clients : ClientStays(d) \/ (~InCall(d, t) /\ ~InCall(d, t)')
    BY <1>c, <1>1 DEF InCall
  <2>2. pool'[t] = pool[t]
    BY <1>a, <1>1, TendedFacts
  <2> QED
    BY <1>a, <1>d, <2>1, <2>2, TendedFacts, OtherTended, EntriesAfter
<1>2. CASE t = s
  <2>1. pool'[s] = NoSession
    BY <1>a, TendedFacts
  <2>2. \A w \in Workers : ~Runs(w, s) /\ ~Runs(w, s)'
    BY <1>a, TendedFacts DEF Runs, Busy
  <2>3. \A d \in Clients : /\ Enqueues(d, s)' <=> Enqueues(d, s)
                           /\ Enqueues(d, s) => client'[d] = client[d]
                           /\ HidesNext(d, s)' <=> HidesNext(d, s)
    BY <1>a, <1>c DEF ClientStays, Enqueues, HidesNext
  <2>4. ~pool[s].active
    BY <1>a, TendedFacts DEF Tended, ShownAgrees, Closes, ClosePlaces
  <2>5. MarksBacked(s)' /\ ShownAgrees(s)' /\ PendingServed(s)'
    BY <1>a, <1>d, <1>2, <2>1, <2>3, <2>4, TendedFacts
       DEF Tended, MarksBacked, ShownAgrees, PendingServed, NoSession, MailKeeps, MailIs
  <2>6. CallIsPending(s)'
    BY <1>d, <1>2, <2>3, CallStaysPending, TendedFacts DEF MailKeeps, MailIs
  <2>7. RunsAreOlder(s)'
    BY <2>2 DEF RunsAreOlder
  <2> QED
    BY <1>2, <2>5, <2>6, <2>7 DEF Tended
<1> QED
  BY <1>1, <1>2

LEMMA CloseFindsNothingTended ==
    ASSUME PoolTended, NEW c \in Clients, CloseFindsNothing(c), NEW t \in Sessions
    PROVE  Tended(t)' /\ Untouched(t)
<1>a. /\ client[c].at = "closeWait" /\ client \in [Clients -> ClientFrames]
      /\ client' = [client EXCEPT ![c] = Resting("idle")]
      /\ UNCHANGED <<handoffVars, pool, queue, poolStopped, worker>>
  BY TendedFacts DEF CloseFindsNothing, Return, poolVars
<1>1. MailKeeps(t) /\ WorkersKeep(t)
  BY <1>a, WorkersStay DEF MailKeeps, MailIs, handoffVars, WorkerStays
<1>2. ClientsKeep(t)
  <2>1. client'[c].at = "idle" /\ \A d \in Clients \ {c} : client'[d] = client[d]
    BY <1>a DEF Resting
  <2> QED
    BY <1>a, <2>1 DEF ClientsKeep, Enqueues, HidesNext, Closes, ClosePlaces
<1> QED
  BY <1>a, <1>1, <1>2, KeptTended, EntriesAfter, TendedFacts

LEMMA CloseMailboxTended ==
    ASSUME PoolTended, NEW c \in Clients, CloseMailboxLast(c), NEW t \in Sessions,
           NEW s \in Sessions, s = client[c].session
    PROVE  Tended(t)' /\ (t # s => Untouched(t))
<1>a. /\ client[c].at = "closeMailbox" /\ client \in [Clients -> ClientFrames]
      /\ client' = [client EXCEPT ![c] = Resting("idle")]
      /\ CloseMailbox(s) /\ ~pool[s].open
      /\ UNCHANGED <<pool, queue, poolStopped, worker>>
  BY TendedFacts DEF CloseMailboxLast, Return, poolVars, ClosersAlone
<1>b. WorkersKeep(t)
  BY <1>a, WorkersStay DEF WorkerStays
<1>c. ClientsKeep(t)
  <2>1. client'[c].at = "idle" /\ \A d \in Clients \ {c} : client'[d] = client[d]
    BY <1>a DEF Resting
  <2> QED
    BY <1>a, <2>1 DEF ClientsKeep, Enqueues, HidesNext, Closes, ClosePlaces
<1>1. CASE t # s
  <2>1. MailKeeps(t)
    BY <1>a, <1>1, TendedFacts, MailOfOthers
  <2> QED
    BY <1>a, <1>b, <1>c, <2>1, KeptTended, EntriesAfter, TendedFacts
<1>2. CASE t = s
  <2>1. MailIs(s, 0, 0, FALSE)
    BY <1>a, TendedFacts, MailEffects
  <2>2. RunsAreOlder(s)'
    <3>1. \A w \in Workers : ~Runs(w, s)
      BY <1>a, TendedFacts
    <3> QED
      BY <1>b, <1>2, <3>1 DEF RunsAreOlder, WorkersKeep
  <2>3. CallIsPending(s)'
    BY <1>c, <1>2, <2>1, CallStaysPending, TendedFacts DEF ClientsKeep, MailIs
  <2>5. MarksBacked(s)'
    BY <1>a, EntriesAfter, TendedFacts DEF Tended, MarksBacked
  <2>4. ShownAgrees(s)' /\ PendingServed(s)'
    BY <1>a, <1>c, <1>2, <2>1, TendedFacts
       DEF Tended, ShownAgrees, PendingServed, ClientsKeep, MailIs
  <2> QED
    BY <1>2, <2>2, <2>3, <2>4, <2>5 DEF Tended
<1> QED
  BY <1>1, <1>2
--------------------------------------------------------------------------------
LEMMA StopBeginTended ==
    ASSUME PoolTended, NEW c \in Clients, StopBegin(c), NEW t \in Sessions
    PROVE  Tended(t)'
<1>a. /\ client[c].at = "idle" /\ poolStopped' /\ UNCHANGED handoffVars
      /\ worker' = NotifyAllWorkers(worker) /\ worker \in [Workers -> WorkerFrames]
      /\ Goto(c, "stopMailboxes") /\ client \in [Clients -> ClientFrames]
      /\ pool' = [u \in Sessions |->
                    [pool[u] EXCEPT !.active = FALSE, !.queued = FALSE, !.rerun = FALSE]]
  BY TendedFacts DEF StopBegin
<1>1. MailKeeps(t) /\ WorkersKeep(t)
  <2>1. \A w \in Workers : WorkerStays(w)
    BY <1>a DEF NotifyAllWorkers, WorkerStays, Busy, Resting
  <2> QED
    BY <1>a, <2>1, WorkersStay DEF MailKeeps, MailIs, handoffVars
<1>2. ClientsKeep(t)
  <2>1. client'[c].at = "stopMailboxes" /\ \A d \in Clients \ {c} : client'[d] = client[d]
    BY <1>a DEF Goto, ClientFrames, Frame
  <2> QED
    BY <1>a, <2>1 DEF ClientsKeep, Enqueues, HidesNext, Closes, ClosePlaces
<1>3. ~pool'[t].active /\ ~pool'[t].queued
  <2>1. Fields(pool'[t], pool[t].open, FALSE, FALSE, pool[t].running, FALSE, pool[t].latest)
    BY <1>a, PoolFields, TendedFacts
  <2> QED
    BY <2>1 DEF Fields
<1>4. RunsAreOlder(t)'
  BY <1>1, RunsStayOlder, TendedFacts DEF MailKeeps, MailIs
<1>5. CallIsPending(t)'
  BY <1>1, <1>2, TendedFacts DEF Tended, CallIsPending, ClientsKeep, MailKeeps, MailIs
<1>6. MarksBacked(t)' /\ ShownAgrees(t)' /\ PendingServed(t)'
  BY <1>a, <1>3 DEF MarksBacked, ShownAgrees, PendingServed
<1> QED
  BY <1>4, <1>5, <1>6 DEF Tended

LEMMA StopHandoffTended ==
    ASSUME PoolTended, NEW c \in Clients, StopHandoff(c), NEW t \in Sessions
    PROVE  Tended(t)'
<1>a. /\ client[c].at = "stopMailboxes" /\ StopMailboxes /\ Goto(c, "join")
      /\ UNCHANGED <<pool, queue, poolStopped, worker>>
      /\ client \in [Clients -> ClientFrames]
  BY TendedFacts DEF StopHandoff, poolVars
<1>1. WorkersKeep(t) /\ MailIs(t, 0, mail[t].latest, FALSE)
  BY <1>a, WorkersStay, MailEffects, TendedFacts DEF WorkerStays
<1>2. ClientsKeep(t)
  <2>1. client'[c].at = "join" /\ \A d \in Clients \ {c} : client'[d] = client[d]
    BY <1>a DEF Goto, ClientFrames, Frame
  <2> QED
    BY <1>a, <2>1 DEF ClientsKeep, Enqueues, HidesNext, Closes, ClosePlaces
<1>3. RunsAreOlder(t)'
  BY <1>1, RunsStayOlder, TendedFacts DEF MailIs
<1>4. CallIsPending(t)'
  BY <1>1, <1>2, CallStaysPending, TendedFacts DEF ClientsKeep, MailIs
<1>6. MarksBacked(t)'
  BY <1>a, EntriesAfter, TendedFacts DEF Tended, MarksBacked
<1>5. ShownAgrees(t)' /\ PendingServed(t)'
  BY <1>a, <1>1, <1>2, TendedFacts DEF Tended, ShownAgrees, PendingServed, ClientsKeep, MailIs
<1> QED
  BY <1>3, <1>4, <1>5, <1>6 DEF Tended

LEMMA StopJoinedTended ==
    ASSUME PoolTended, NEW c \in Clients, StopJoined(c), NEW t \in Sessions
    PROVE  Tended(t)'
<1> DEFINE cs == [client EXCEPT ![c] = Resting("idle")]
<1>a. /\ client[c].at = "join" /\ poolStopped /\ pool'[t] = NoSession
      /\ \A w \in Workers : ~Busy(w)
      /\ client' = NotifyAllClients(cs) /\ client \in [Clients -> ClientFrames]
      /\ UNCHANGED <<handoffVars, poolStopped, worker>>
  BY TendedFacts DEF StopJoined, Busy, PoolTended, StopsInOrder
<1>1. MailKeeps(t) /\ \A w \in Workers : ~Runs(w, t)'
  BY <1>a DEF MailKeeps, MailIs, handoffVars, Runs, Busy
<1>2. \A d \in Clients : Enqueues(d, t)' => Enqueues(d, t) /\ client'[d].id = client[d].id
  <2>1. cs \in [Clients -> ClientFrames] /\ cs[c] = Resting("idle")
        /\ \A d \in Clients \ {c} : cs[d] = client[d]
    BY <1>a, ClientRests, TendedFacts DEF OwnStateOK
  <2> HIDE DEF cs
  <2> QED
    BY <1>a, <2>1 DEF Enqueues, NotifyAllClients, ClientFrames, Frame, Resting
<1>3. CallIsPending(t)' /\ RunsAreOlder(t)'
  BY <1>1, <1>2, TendedFacts DEF Tended, CallIsPending, RunsAreOlder, MailKeeps, MailIs
<1>4. MarksBacked(t)' /\ ShownAgrees(t)' /\ PendingServed(t)'
  BY <1>a DEF MarksBacked, ShownAgrees, PendingServed, NoSession
<1> QED
  BY <1>3, <1>4 DEF Tended
--------------------------------------------------------------------------------
LEMMA SkipEntryTended ==
    ASSUME PoolTended, NEW w \in Workers, SkipEntry(w), NEW t \in Sessions,
           NEW s \in Sessions, s = Head(queue)
    PROVE  Tended(t)' /\ (t # s => Untouched(t))
<1>a. /\ queue # <<>> /\ queue' = Tail(queue) /\ ~Runnable(s)
      /\ pool' = [pool EXCEPT ![s].queued = FALSE] /\ client' = NotifyAllClients(client)
      /\ UNCHANGED <<handoffVars, poolStopped, worker>>
  BY DEF SkipEntry
<1>b. MailKeeps(t) /\ WorkersKeep(t) /\ ClientsKeep(t)
  BY <1>a, NotifiedStay, TendedFacts, WorkersStay, ClientsStay
     DEF MailKeeps, MailIs, handoffVars, WorkerStays
<1>1. CASE t # s
  <2>1. pool'[t] = pool[t]
    BY <1>a, <1>1, TendedFacts
  <2> QED
    BY <1>a, <1>b, <1>1, <2>1, KeptTended, EntriesAfter, TendedFacts
<1>2. CASE t = s
  <2>1. Fields(pool'[s], pool[s].open, pool[s].active, FALSE, pool[s].running, pool[s].rerun,
               pool[s].latest)
    BY <1>a, TendedFacts, PoolFields
  <2>2. RunsAreOlder(s)' /\ CallIsPending(s)'
    BY <1>b, <1>2, RunsStayOlder, CallStaysPending, TendedFacts DEF MailKeeps, MailIs, ClientsKeep
  <2>3. pool[s].active => ~pool[s].queued
    BY <1>a, TendedFacts DEF Runnable, Tended, MarksBacked
  <2>4. MarksBacked(s)' /\ ShownAgrees(s)'
    BY <1>a, <1>b, <1>2, <2>1, TendedFacts
       DEF Tended, MarksBacked, ShownAgrees, Fields, ClientsKeep, MailKeeps, MailIs
  <2>5. PendingServed(s)'
    <3>1. mail[s].pending # 0 /\ pool[s].active => Served(s)
      BY TendedFacts DEF Tended, PendingServed
    <3>2. /\ pool'[s].active = pool[s].active /\ pool'[s].rerun = pool[s].rerun
          /\ pool'[s].latest = pool[s].latest /\ mail'[s].pending = mail[s].pending
      BY <1>b, <1>2, <2>1 DEF Fields, MailKeeps, MailIs
    <3>3. Served(s) /\ ~pool[s].queued => Served(s)'
      BY <1>b, <1>2, <3>2 DEF Served, WorkersKeep, ClientsKeep
    <3> QED
      BY <2>3, <3>1, <3>2, <3>3 DEF PendingServed
  <2> QED
    BY <1>2, <2>2, <2>4, <2>5 DEF Tended
<1> QED
  BY <1>1, <1>2

LEMMA StartRunTended ==
    ASSUME PoolTended, NEW w \in Workers, StartRun(w), NEW t \in Sessions,
           NEW s \in Sessions, s = Head(queue)
    PROVE  Tended(t)' /\ (t # s => Untouched(t))
<1>a. /\ queue # <<>> /\ queue' = Tail(queue) /\ Runnable(s) /\ worker[w].at = "idle"
      /\ pool' = [pool EXCEPT ![s] = [@ EXCEPT !.queued = FALSE, !.running = TRUE]]
      /\ worker' = [worker EXCEPT ![w] = [at |-> "claim", session |-> s, id |-> 0]]
      /\ UNCHANGED <<handoffVars, poolStopped, client>>
  BY DEF StartRun
<1>b. MailKeeps(t) /\ ClientsKeep(t)
  BY <1>a, TendedFacts, ClientsStay DEF MailKeeps, MailIs, handoffVars, ClientStays
<1>c. /\ worker'[w] = [at |-> "claim", session |-> s, id |-> 0]
      /\ \A v \in Workers \ {w} : worker'[v] = worker[v]
  BY <1>a, TendedFacts
<1>1. CASE t # s
  <2>1. pool'[t] = pool[t]
    BY <1>a, <1>1, TendedFacts
  <2>2. WorkersKeep(t)
    BY <1>a, <1>c, <1>1, WorkersStay DEF WorkerStays, Runs, Busy
  <2> QED
    BY <1>a, <1>b, <1>1, <2>1, <2>2, KeptTended, EntriesAfter, TendedFacts
<1>2. CASE t = s
  <2>1. Fields(pool'[s], pool[s].open, pool[s].active, FALSE, TRUE, pool[s].rerun,
               pool[s].latest)
    BY <1>a, TendedFacts, PoolFields
  <2>2. CallIsPending(s)'
    BY <1>b, <1>2, CallStaysPending, TendedFacts DEF MailKeeps, MailIs, ClientsKeep
  <2>3. \A v \in Workers : ~Runs(v, s)
    BY <1>a, TendedFacts DEF Runnable
  <2>4. \A v \in Workers : Runs(v, s)' => v = w
    BY <1>c, <2>3 DEF Runs, Busy
  <2>5. RunsAreOlder(s)'
    <3>1. mail[s].latest \in Nat /\ mail[s].pending \in Nat
      BY TendedFacts
    <3>2. 0 <= mail[s].latest /\ (mail[s].pending # 0 => 0 < mail[s].pending)
      BY <3>1
    <3> QED
      BY <1>b, <1>c, <1>2, <2>4, <3>2 DEF RunsAreOlder, MailKeeps, MailIs
  <2>6. PendingServed(s)'
    BY <1>c DEF PendingServed, Served, Runs, Busy
  <2>7. MarksBacked(s)' /\ ShownAgrees(s)'
    BY <1>a, <1>b, <1>2, <2>1, TendedFacts
       DEF Tended, MarksBacked, ShownAgrees, Fields, ClientsKeep, MailKeeps, MailIs
  <2> QED
    BY <1>2, <2>2, <2>5, <2>6, <2>7 DEF Tended
<1> QED
  BY <1>1, <1>2

(* A claim finds nothing to take only where nothing is owed.               *)
LEMMA ClaimPendingTended ==
    ASSUME PoolTended, NEW w \in Workers, ClaimPending(w), NEW t \in Sessions,
           NEW s \in Sessions, s = worker[w].session
    PROVE  Tended(t)' /\ (t # s => Untouched(t))
<1>a. /\ worker[w].at = "claim" /\ UNCHANGED <<pool, queue, poolStopped, client>>
      /\ Runs(w, s) /\ pool[s].open /\ mail[s].running = 0 /\ worker[w].id = 0
      /\ worker[w] \in WorkerFrames
  <2>1. worker[w].at = "claim" /\ UNCHANGED <<pool, queue, poolStopped, client>> /\ Runs(w, s)
    BY DEF ClaimPending, poolVars, Runs, Busy
  <2> QED
    BY <2>1, TendedFacts DEF Tended, RunsAreOlder
<1>b. ClientsKeep(t)
  BY <1>a, ClientsStay DEF ClientStays
<1>c. \A v \in Workers \ {w} : worker'[v] = worker[v]
  BY TendedFacts DEF ClaimPending
<1>d. /\ worker'[w].session = s /\ worker'[w].at \in {"execute", "finish"}
      /\ \/ CanTake(s) /\ TakePending(s) /\ worker'[w].id = mail[s].pending
         \/ ~CanTake(s) /\ UNCHANGED handoffVars /\ worker'[w].id = 0
  <2>1. CASE CanTake(s)
    <3>1. worker'[w] = [worker[w] EXCEPT !.at = "execute", !.id = mail[s].pending]
      BY <2>1, TendedFacts DEF ClaimPending
    <3>2. TakePending(s)
      BY <2>1 DEF ClaimPending
    <3> QED
      BY <1>a, <2>1, <3>1, <3>2 DEF WorkerFrames, Frame
  <2>2. CASE ~CanTake(s)
    <3>1. worker'[w] = [worker[w] EXCEPT !.at = "finish"] /\ UNCHANGED handoffVars
      BY <2>2, TendedFacts DEF ClaimPending
    <3> QED
      BY <1>a, <2>2, <3>1 DEF WorkerFrames, Frame
  <2> QED
    BY <2>1, <2>2
<1>1. CASE t # s
  <2>1. WorkersKeep(t)
    BY <1>a, <1>c, <1>d, <1>1, WorkersStay DEF WorkerStays, Runs
  <2>2. MailKeeps(t)
    BY <1>d, <1>1, TendedFacts, MailOfOthers
  <2> QED
    BY <1>a, <1>b, <2>1, <2>2, KeptTended, EntriesAfter, TendedFacts
<1>2. CASE t = s
  <2>1. \A v \in Workers : Runs(v, s)' => v = w
    <3>1. \A v \in Workers : Runs(v, s) => v = w
      BY <1>a, TendedFacts
    <3> QED
      BY <1>c, <3>1 DEF Runs, Busy
  <2>2. MarksBacked(s)'
    BY <1>a, EntriesAfter, TendedFacts DEF Tended, MarksBacked
  <2>3. CASE CanTake(s) /\ TakePending(s) /\ worker'[w].id = mail[s].pending
    <3>1. MailIs(s, 0, mail[s].latest, mail[s].active)
      BY <2>3, MailEffects, TendedFacts
    <3>2. CallIsPending(s)'
      BY <1>a, <1>2, <3>1, CallStaysPending, TendedFacts DEF MailIs, Enqueues
    <3>3. RunsAreOlder(s)'
      <4>1. mail[s].pending = mail[s].latest /\ mail[s].latest \in Nat
        BY <2>3, TendedFacts DEF CanTake
      <4> QED
        BY <1>d, <2>1, <2>3, <3>1, <4>1 DEF RunsAreOlder, MailIs
    <3>4. ShownAgrees(s)' /\ PendingServed(s)'
      BY <1>a, <1>b, <1>2, <3>1, TendedFacts
         DEF Tended, ShownAgrees, PendingServed, ClientsKeep, MailIs
    <3> QED
      BY <1>2, <2>2, <3>2, <3>3, <3>4 DEF Tended
  <2>4. CASE ~CanTake(s) /\ UNCHANGED handoffVars /\ worker'[w].id = 0
    <3>1. MailKeeps(s)
      BY <2>4 DEF MailKeeps, MailIs, handoffVars
    <3>2. CallIsPending(s)'
      BY <1>a, <1>2, <3>1, CallStaysPending, TendedFacts DEF MailIs, MailKeeps, Enqueues
    <3>3. RunsAreOlder(s)'
      <4>1. mail[s].latest \in Nat /\ mail[s].pending \in Nat
        BY TendedFacts
      <4>2. 0 <= mail[s].latest /\ (mail[s].pending # 0 => 0 < mail[s].pending)
        BY <4>1
      <4> QED
        BY <1>d, <2>1, <2>4, <3>1, <4>2 DEF RunsAreOlder, MailIs, MailKeeps
    <3>4. ~(mail[s].pending # 0 /\ pool[s].active)
      <4> SUFFICES ASSUME mail[s].pending # 0, pool[s].active PROVE FALSE
        OBVIOUS
      <4>1. ~poolStopped
        BY TendedFacts DEF Tended, MarksBacked
      <4>2. ~handoffStopped /\ mail[s].open /\ mail[s].active
        BY <1>a, <4>1, TendedFacts
      <4> QED
        BY <1>a, <2>4, <4>2 DEF CanTake
    <3>5. ShownAgrees(s)' /\ PendingServed(s)'
      BY <1>a, <1>b, <1>2, <3>1, <3>4, TendedFacts
         DEF Tended, ShownAgrees, PendingServed, ClientsKeep, MailIs, MailKeeps
    <3> QED
      BY <1>2, <2>2, <3>2, <3>3, <3>5 DEF Tended
  <2> QED
    BY <1>d, <2>3, <2>4
<1> QED
  BY <1>1, <1>2

(* A run ends with the session queued again if anything is pending: it     *)
(* left a rerun for a request newer than itself.                           *)
LEMMA FinishRunTended ==
    ASSUME PoolTended, NEW w \in Workers, FinishRun(w), NEW t \in Sessions,
           NEW s \in Sessions, s = worker[w].session
    PROVE  Tended(t)' /\ (t # s => Untouched(t))
<1> DEFINE ps == [pool EXCEPT ![s] = [@ EXCEPT !.running = FALSE, !.rerun = FALSE]]
           ws == [worker EXCEPT ![w] = Resting("idle")]
           again == pool[s].open /\ NewerRequestWaits(s, worker[w].id)
<1>a. /\ worker[w].at = "finish" /\ client' = NotifyAllClients(client)
      /\ UNCHANGED <<handoffVars, poolStopped>>
      /\ IF again THEN Enqueue(s, ps, ws) ELSE pool' = ps /\ worker' = ws /\ UNCHANGED queue
  BY DEF FinishRun
<1>b. MailKeeps(t) /\ ClientsKeep(t)
  BY <1>a, NotifiedStay, TendedFacts, ClientsStay DEF MailKeeps, MailIs, handoffVars
<1>c. /\ ps \in [Sessions -> PoolSession] /\ ps[s] \in PoolSession
      /\ Fields(ps[s], pool[s].open, pool[s].active, pool[s].queued, FALSE, FALSE, pool[s].latest)
      /\ \A u \in Sessions \ {s} : ps[u] = pool[u]
  <2>1. [pool[s] EXCEPT !.running = FALSE, !.rerun = FALSE] \in PoolSession
    BY TendedFacts, PoolSessionUpdates
  <2>2. Fields([pool[s] EXCEPT !.running = FALSE, !.rerun = FALSE],
               pool[s].open, pool[s].active, pool[s].queued, FALSE, FALSE, pool[s].latest)
    BY TendedFacts, PoolFields
  <2> QED
    BY <2>1, <2>2, TendedFacts
<1>d. Runs(w, s) /\ pool[s].open /\ pool[s].running /\ \A v \in Workers : Runs(v, s) => v = w
  <2>1. Runs(w, s)
    BY <1>a DEF Runs, Busy
  <2> QED
    BY <2>1, TendedFacts
<1>e. \A v \in Workers : ~Runs(v, s)' /\ (v # w => WorkerStays(v)) /\ worker'[w].at = "idle"
  <2>1. /\ ws \in [Workers -> WorkerFrames] /\ ws[w].at = "idle"
        /\ \A v \in Workers \ {w} : ws[v] = worker[v]
    BY WorkerRests, TendedFacts DEF OwnStateOK, Resting
  <2>2. worker' = ws \/ worker' \in NotifyOneWorker(ws)
    BY <1>a DEF Enqueue
  <2> HIDE DEF ws
  <2>3. \A v \in Workers : worker'[v] = ws[v] \/ (ws[v].at = "asleep" /\ worker'[v].at = "idle")
    BY <2>1, <2>2, NotifyTouchesSleepers
  <2> QED
    BY <1>d, <2>1, <2>3 DEF Runs, Busy, WorkerStays
<1>f. /\ queue' = queue \/ queue' = Append(queue, s)
      /\ \A u \in Sessions \ {s} : pool'[u] = pool[u]
  <2> HIDE DEF ps, ws, again
  <2> QED
    BY <1>a, <1>c DEF Enqueue
<1> HIDE DEF ps, ws
<1>1. CASE t # s
  <2>1. WorkersKeep(t)
    BY <1>d, <1>e, <1>1, WorkersStay DEF Runs, Busy
  <2>2. HasEntry(t) => HasEntry(t)'
    BY <1>f, EntriesAfter, TendedFacts
  <2> QED
    BY <1>a, <1>b, <1>f, <1>1, <2>1, <2>2, KeptTended, TendedFacts
<1>2. CASE t = s
  <2>1. ~pool[s].queued /\ (pool[s].active => ~poolStopped)
    BY <1>d, TendedFacts DEF Tended, MarksBacked
  <2>2. CallIsPending(s)' /\ RunsAreOlder(s)'
    BY <1>b, <1>e, <1>2, CallStaysPending, TendedFacts
       DEF RunsAreOlder, MailKeeps, MailIs, ClientsKeep
  <2>3. CASE again
    <3>1. pool[s].active /\ ~poolStopped /\ ~ps[s].queued /\ ps[s].active
      BY <1>c, <2>1, <2>3 DEF NewerRequestWaits, Fields
    <3>2. pool' = [ps EXCEPT ![s].queued = TRUE] /\ queue' = Append(queue, s)
      BY <1>a, <2>3, <3>1 DEF Enqueue
    <3>3. HasEntry(s)'
      BY <3>2, TendedFacts, EntriesAfter
    <3>4. pool'[s] = [ps[s] EXCEPT !.queued = TRUE]
      BY <1>c, <3>2
    <3>5. Fields(pool'[s], ps[s].open, ps[s].active, TRUE, ps[s].running, ps[s].rerun,
                 ps[s].latest)
      BY <1>c, <3>4, PoolFields
    <3>6. /\ pool'[s].open = pool[s].open /\ pool'[s].active = pool[s].active
          /\ pool'[s].queued /\ ~pool'[s].running
      BY <1>c, <3>5 DEF Fields
    <3>7. MarksBacked(s)' /\ ShownAgrees(s)' /\ PendingServed(s)'
      BY <1>a, <1>b, <1>2, <3>3, <3>6, TendedFacts
         DEF Tended, MarksBacked, ShownAgrees, PendingServed, Served, ClientsKeep, MailKeeps, MailIs
    <3> QED
      BY <1>2, <2>2, <3>7 DEF Tended
  <2>4. CASE ~again
    <3>1. /\ pool'[s].open = pool[s].open /\ pool'[s].active = pool[s].active
          /\ pool'[s].queued = pool[s].queued
      BY <1>a, <1>c, <2>4 DEF Fields
    <3>2. MarksBacked(s)' /\ ShownAgrees(s)'
      BY <1>a, <1>b, <1>2, <2>1, <3>1, TendedFacts
         DEF Tended, MarksBacked, ShownAgrees, ClientsKeep, MailKeeps, MailIs
    <3>3. ASSUME mail[s].pending # 0, pool[s].active
          PROVE  \E c \in Clients : Enqueues(c, s) /\ client[c].id = mail[s].pending
      <4>1. Served(s)
        BY <3>3, TendedFacts DEF Tended, PendingServed
      <4>2. worker[w].id < mail[s].pending /\ mail[s].pending \in Nat /\ worker[w].id \in Nat
        BY <1>d, <3>3, TendedFacts DEF Tended, RunsAreOlder
      <4>3. ~(pool[s].rerun /\ pool[s].latest = mail[s].pending)
        BY <1>d, <2>1, <2>4, <3>3, <4>2 DEF NewerRequestWaits
      <4> QED
        BY <1>a, <1>d, <2>1, <4>1, <4>3 DEF Served
    <3>4. PendingServed(s)'
      BY <1>b, <1>2, <3>1, <3>3 DEF PendingServed, Served, ClientsKeep, MailKeeps, MailIs
    <3> QED
      BY <1>2, <2>2, <3>2, <3>4 DEF Tended
  <2> QED
    BY <2>3, <2>4
<1> QED
  BY <1>1, <1>2
--------------------------------------------------------------------------------
LEMMA TendedStep ==
    ASSUME OneCallerEach, PoolTended, [PoolNext]_vars, NEW t \in Sessions
    PROVE  Tended(t)'
<1>a. /\ \A c \in Clients : client[c] \in ClientFrames
      /\ \A w \in Workers : worker[w] \in WorkerFrames
      /\ queue \in Seq(Sessions)
  BY TendedFacts DEF OwnStateOK
<1>1. ASSUME NEW c \in Clients, ClientCall(c) PROVE Tended(t)'
  BY <1>1, OpenSessionTended, ShowHideTended, RequestScheduleTended, CloseBeginTended,
     StopBeginTended, QuietTended DEF ClientCall
<1>2. ASSUME NEW c \in Clients, RequestEnqueue(c) PROVE Tended(t)'
  <2>1. client[c].session \in Sessions /\ client[c].id \in MaybeId
    BY <1>2, <1>a DEF RequestEnqueue, ClientFrames, Frame
  <2> QED
    BY <1>2, <2>1, RequestEnqueueTended
<1>3. ASSUME NEW c \in Clients, CloseHide(c) \/ CloseErase(c) \/ CloseMailboxLast(c)
      PROVE  Tended(t)'
  <2>1. client[c].session \in Sessions
    BY <1>3, <1>a DEF CloseHide, CloseErase, CloseMailboxLast, ClientFrames
  <2> QED
    BY <1>3, <2>1, CloseHideTended, CloseEraseTended, CloseMailboxTended
<1>4. ASSUME NEW c \in Clients,
             CloseSleep(c) \/ CloseFindsNothing(c) \/ StopHandoff(c) \/ StopJoined(c)
      PROVE  Tended(t)'
  BY <1>4, CloseFindsNothingTended, StopHandoffTended, StopJoinedTended, QuietTended
<1>5. ASSUME NEW w \in Workers, SkipEntry(w) \/ StartRun(w) PROVE Tended(t)'
  <2>1. Head(queue) \in Sessions
    BY <1>5, <1>a DEF SkipEntry, StartRun
  <2> QED
    BY <1>5, <2>1, SkipEntryTended, StartRunTended
<1>6. ASSUME NEW w \in Workers, ClaimPending(w) \/ FinishRun(w) PROVE Tended(t)'
  <2>1. worker[w].session \in Sessions
    BY <1>6, <1>a DEF ClaimPending, FinishRun, WorkerFrames
  <2> QED
    BY <1>6, <2>1, ClaimPendingTended, FinishRunTended
<1>7. ASSUME NEW w \in Workers,
             WaitForWork(w) \/ WorkerExit(w) \/ \E size \in Charges : PublishRun(w, size)
      PROVE  Tended(t)'
  BY <1>7, QuietTended
<1>8. SpuriousWake \/ UNCHANGED vars => Tended(t)'
  BY QuietTended
<1> QED
  BY <1>1, <1>2, <1>3, <1>4, <1>5, <1>6, <1>7, <1>8 DEF PoolNext, ClientStep, WorkerStep

LEMMA PoolTendedInit == PoolInit => PoolTended
<1> SUFFICES ASSUME PoolInit PROVE PoolTended
  OBVIOUS
<1>1. PoolSound /\ NewestOnly /\ ClosedIsForgotten
  BY PoolSoundInit, NewestOnlyOfNewMailbox DEF PoolInit, HandoffInit, NewestOnly, ClosedIsForgotten
<1>2. CallsOwn /\ StopsInOrder
  BY DEF PoolInit, HandoffInit, CallsOwn, StopsInOrder, Resting, CallPlaces, ClosePlaces
<1>3. ASSUME NEW s \in Sessions PROVE Tended(s)
  <2>1. /\ \A c \in Clients : client[c].at = "idle"
        /\ \A w \in Workers : worker[w].at = "absent"
        /\ pool[s] = NoSession /\ mail[s] = NoMailbox
    BY DEF PoolInit, HandoffInit, Resting
  <2> QED
    BY <2>1 DEF Tended, MarksBacked, CallIsPending, RunsAreOlder, ShownAgrees, PendingServed,
                Enqueues, Closes, ClosePlaces, Runs, Busy, NoSession, NoMailbox
<1> QED
  BY <1>1, <1>2, <1>3 DEF PoolTended

LEMMA PoolTendedStep == OneCallerEach /\ PoolTended /\ [PoolNext]_vars => PoolTended'
<1> SUFFICES ASSUME OneCallerEach, PoolTended, [PoolNext]_vars PROVE PoolTended'
  OBVIOUS
<1>1. PoolSound' /\ HandoffTypeOK /\ OwnStateOK /\ ThreadsOK
  BY PoolSoundStep DEF PoolTended, PoolSound, OwnStateOK
<1>2. NewestOnly' /\ ClosedIsForgotten'
  BY <1>1, PoolStepIsHandoffStep, NewestOnlyStep, ClosedIsForgottenStep DEF PoolTended
<1>3. CallsOwn' /\ StopsInOrder'
  BY <1>1, CallsOwnStep, StopsInOrderStep DEF PoolTended
<1> QED
  BY <1>1, <1>2, <1>3, TendedStep DEF PoolTended

LEMMA TendedAlways == ASSUME OneCallerEach PROVE PoolSpec => []PoolTended
BY PoolTendedInit, PoolTendedStep, PTL DEF PoolSpec

(* "no lost request": however many threads the pool and its clients are,   *)
(* as long as each session has one thread that calls for it, a request     *)
(* that is pending for a shown session is bound to be looked at.           *)
THEOREM NoRequestIsStranded == ASSUME OneCallerEach PROVE PoolSpec => []NoStrandedRequest
<1>1. PoolTended => NoStrandedRequest
  <2> SUFFICES ASSUME PoolTended, NEW s \in Sessions, mail[s].pending # 0, pool[s].active
               PROVE  WillBeLookedAt(s)
    BY DEF NoStrandedRequest
  <2>1. Served(s) /\ MarksBacked(s) /\ RunsAreOlder(s)
    BY TendedFacts DEF Tended, PendingServed
  <2>2. \A w \in Workers : Runs(w, s) /\ pool[s].rerun /\ pool[s].latest = mail[s].pending
                              => NewerRequestWaits(s, worker[w].id)
    <3>1. ~poolStopped /\ \A w \in Workers : worker[w].id \in Nat
      BY <2>1, TendedFacts DEF MarksBacked
    <3>2. mail[s].pending \in Nat
      BY TendedFacts
    <3> QED
      BY <2>1, <3>1, <3>2 DEF RunsAreOlder, NewerRequestWaits
  <2> QED
    BY <2>1, <2>2 DEF Served, MarksBacked, HasEntry, WillBeLookedAt, Runs, Enqueues
<1> QED
  BY <1>1, TendedAlways, PTL
--------------------------------------------------------------------------------
(* What makes a requeue one for a request that is still pending: a rerun   *)
(* is left only in a shown session that is running, for a request the      *)
(* mailbox still holds unless the run has claimed it; and if the mailbox   *)
(* no longer holds the request under way, the run has claimed that one.    *)
RerunsHeld(s) ==
    /\ pool[s].rerun => pool[s].running /\ pool[s].active
    /\ \A w \in Workers : Runs(w, s) /\ pool[s].rerun /\ pool[s].latest > worker[w].id =>
          mail[s].pending >= pool[s].latest
    /\ \A c \in Clients : Enqueues(c, s) /\ pool[s].active /\ mail[s].pending = 0 =>
          /\ ~pool[s].queued
          /\ \A w \in Workers : Runs(w, s) => worker[w].id = client[c].id

PoolReruns == /\ PoolTended /\ EntriesAreMarked
              /\ \A s \in Sessions : RerunsHeld(s)

LEMMA UntouchedReruns ==
    ASSUME NEW t \in Sessions, RerunsHeld(t), Untouched(t)
    PROVE  RerunsHeld(t)'
BY DEF RerunsHeld, Untouched, WorkersKeep, ClientsKeep, MailKeeps, MailIs

LEMMA HiddenReruns ==
    ASSUME NEW t \in Sessions, ~pool'[t].active, ~pool'[t].rerun
    PROVE  RerunsHeld(t)'
BY DEF RerunsHeld

LEMMA RerunFacts ==
    ASSUME PoolReruns, NEW s \in Sessions
    PROVE  /\ PoolTended /\ RerunsHeld(s)
           /\ pool[s].latest \in Nat
           /\ ~pool[s].active => ~pool[s].rerun
<1>1. PoolTended /\ RerunsHeld(s)
  BY DEF PoolReruns
<1>2. pool[s] \in PoolSession
  BY <1>1, TendedFacts
<1>3. pool[s].latest \in Nat
  <2>1. pool[s].latest \in MaybeId
    BY <1>2 DEF PoolSession
  <2> QED
    BY <2>1, ConstantsArePositive DEF MaybeId
<1> QED
  BY <1>1, <1>3 DEF RerunsHeld
--------------------------------------------------------------------------------
(* Calls that leave a session hidden, closed or unstarted.                 *)
LEMMA HidingReruns ==
    ASSUME PoolReruns, OneCallerEach, NEW c \in Clients, NEW s \in Sessions,
           HideSession(c, s) \/ CloseBegin(c, s), NEW t \in Sessions
    PROVE  RerunsHeld(t)'
<1>1. CASE t # s
  BY <1>1, RerunFacts, ShowHideTended, CloseBeginTended, UntouchedReruns
<1>2. CASE t = s
  <2>1. pool'[s] = [pool[s] EXCEPT !.active = FALSE, !.rerun = FALSE]
    BY RerunFacts, TendedFacts DEF HideSession, CloseBegin
  <2>2. Fields(pool'[s], pool[s].open, FALSE, pool[s].queued, pool[s].running, FALSE,
               pool[s].latest)
    BY <2>1, RerunFacts, TendedFacts, PoolFields
  <2> QED
    BY <1>2, <2>2, HiddenReruns DEF Fields
<1> QED
  BY <1>1, <1>2

LEMMA ClosingReruns ==
    ASSUME PoolReruns, OneCallerEach, NEW c \in Clients,
           CloseHide(c) \/ CloseErase(c) \/ CloseMailboxLast(c), NEW t \in Sessions,
           NEW s \in Sessions, s = client[c].session
    PROVE  RerunsHeld(t)'
<1>1. CASE t # s
  <2>1. PoolTended /\ RerunsHeld(t)
    BY RerunFacts
  <2>2. Untouched(t)
    BY <1>1, <2>1, CloseHideTended, CloseEraseTended, CloseMailboxTended
  <2> QED
    BY <2>1, <2>2, UntouchedReruns
<1>2. CASE t = s
  <2>1. Closes(c, s)
    BY DEF CloseHide, CloseErase, CloseMailboxLast, Closes, ClosePlaces
  <2>2. ~pool[s].active /\ ~pool[s].rerun
    BY <2>1, RerunFacts, TendedFacts DEF Tended, ShownAgrees
  <2>3. pool'[s] = pool[s] \/ pool'[s] = NoSession
    BY RerunFacts, TendedFacts DEF CloseHide, CloseErase, CloseMailboxLast, poolVars
  <2> QED
    BY <1>2, <2>2, <2>3, HiddenReruns DEF NoSession
<1> QED
  BY <1>1, <1>2

LEMMA StoppingReruns ==
    ASSUME PoolReruns, NEW c \in Clients, StopBegin(c) \/ StopHandoff(c) \/ StopJoined(c),
           NEW t \in Sessions
    PROVE  RerunsHeld(t)'
<1>1. CASE StopBegin(c)
  <2>1. pool'[t] = [pool[t] EXCEPT !.active = FALSE, !.queued = FALSE, !.rerun = FALSE]
    BY <1>1 DEF StopBegin
  <2>2. Fields(pool'[t], pool[t].open, FALSE, FALSE, pool[t].running, FALSE, pool[t].latest)
    BY <2>1, RerunFacts, TendedFacts, PoolFields
  <2> QED
    BY <2>2, HiddenReruns DEF Fields
<1>2. CASE StopHandoff(c)
  <2>1. poolStopped /\ pool'[t] = pool[t]
    BY <1>2, RerunFacts DEF StopHandoff, poolVars, PoolTended, StopsInOrder
  <2>2. ~pool[t].active
    BY <2>1, RerunFacts, TendedFacts DEF Tended, MarksBacked
  <2> QED
    BY <2>1, <2>2, RerunFacts, HiddenReruns
<1>3. CASE StopJoined(c)
  BY <1>3, HiddenReruns DEF StopJoined, NoSession
<1> QED
  BY <1>1, <1>2, <1>3

LEMMA OpenShowReruns ==
    ASSUME PoolReruns, OneCallerEach, NEW c \in Clients, NEW s \in Sessions,
           ShowSession(c, s) \/ (\E active \in BOOLEAN : OpenSession(c, s, active)),
           NEW t \in Sessions
    PROVE  RerunsHeld(t)'
<1>1. CASE t # s
  BY <1>1, RerunFacts, ShowHideTended, OpenSessionTended, UntouchedReruns
<1>2. CASE t = s
  <2>1. \A d \in Clients : ~Enqueues(d, s)'
    <3>1. \A d \in Clients : ~InCall(d, s)
      BY OneCallFor, RerunFacts, TendedFacts
         DEF OpenSession, ShowSession, Calling, CallPlaces, ClosePlaces
    <3> QED
      BY <3>1 DEF OpenSession, ShowSession, threadVars, InCall, Enqueues, CallPlaces
  <2>2. CASE ShowSession(c, s)
    <3>1. Fields(pool'[s], pool[s].open, TRUE, pool[s].queued, pool[s].running, pool[s].rerun,
                 pool[s].latest)
      BY <2>2, RerunFacts, TendedFacts, PoolFields DEF ShowSession
    <3>2. MailIs(s, mail[s].pending, mail[s].latest, TRUE)
      BY <2>2, RerunFacts, TendedFacts, MailEffects DEF ShowSession
    <3>3. UNCHANGED worker
      BY <2>2 DEF ShowSession, threadVars
    <3> QED
      BY <1>2, <2>1, <3>1, <3>2, <3>3, RerunFacts DEF RerunsHeld, Fields, MailIs, Runs, Busy
  <2>3. CASE \E active \in BOOLEAN : OpenSession(c, s, active)
    <3>1. ~pool'[s].rerun
      <4>1. PICK active \in BOOLEAN :
               pool' = [pool EXCEPT ![s] = [NoSession EXCEPT !.open = TRUE, !.active = active]]
        BY <2>3 DEF OpenSession
      <4>2. pool \in [Sessions -> PoolSession]
        BY RerunFacts, TendedFacts
      <4> QED
        BY <4>1, <4>2 DEF NoSession
    <3> QED
      BY <1>2, <2>1, <3>1 DEF RerunsHeld
  <2> QED
    BY <2>2, <2>3
<1> QED
  BY <1>1, <1>2
--------------------------------------------------------------------------------
LEMMA RequestReruns ==
    ASSUME PoolReruns, OneCallerEach, NEW c \in Clients, NEW s \in Sessions,
           NEW id \in RequestIds, RequestSchedule(c, s, id), NEW t \in Sessions
    PROVE  RerunsHeld(t)'
<1>1. CASE t # s
  BY <1>1, RerunFacts, RequestScheduleTended, UntouchedReruns
<1>2. CASE t = s
  <2>1. /\ Schedule(s, id) /\ pool' = pool /\ worker' = worker
    BY DEF RequestSchedule, poolVars
  <2>2. MailIs(s, id, id, TRUE)
    BY <2>1, RerunFacts, TendedFacts, MailEffects
  <2>3. id > mail[s].latest /\ id \in Nat /\ id # 0
    <3>1. id \in Nat /\ id > 0
      BY ConstantsArePositive
    <3> QED
      BY <2>1, <3>1 DEF Schedule, Accepts
  <2>4. /\ mail[s].latest \in Nat /\ mail[s].pending \in Nat /\ pool[s].latest \in Nat
        /\ mail[s].pending # 0 => mail[s].pending = mail[s].latest
        /\ \A w \in Workers : worker[w].id \in Nat
    BY RerunFacts, TendedFacts
  <2>5. \A w \in Workers : Runs(w, s) /\ pool[s].rerun /\ pool[s].latest > worker[w].id =>
           id >= pool[s].latest
    <3> SUFFICES ASSUME NEW w \in Workers, Runs(w, s), pool[s].rerun, pool[s].latest > worker[w].id
                 PROVE  id >= pool[s].latest
      OBVIOUS
    <3>1. mail[s].pending >= pool[s].latest
      BY RerunFacts DEF RerunsHeld
    <3> QED
      BY <2>3, <2>4, <3>1
  <2>6. pool[s].rerun => pool[s].running /\ pool[s].active
    BY RerunFacts DEF RerunsHeld
  <2> QED
    BY <1>2, <2>1, <2>2, <2>3, <2>5, <2>6 DEF RerunsHeld, MailIs, Runs, Busy
<1> QED
  BY <1>1, <1>2

LEMMA RequestEnqueueReruns ==
    ASSUME PoolReruns, OneCallerEach, NEW c \in Clients, RequestEnqueue(c), NEW t \in Sessions,
           NEW s \in Sessions, s = client[c].session, NEW id \in MaybeId, id = client[c].id
    PROVE  RerunsHeld(t)'
<1> DEFINE ps == [pool EXCEPT ![s].latest = id]
<1>1. CASE t # s
  BY <1>1, RerunFacts, RequestEnqueueTended, UntouchedReruns
<1>2. CASE t = s
  <2>a. /\ client[c].at = "enqueue" /\ client' = [client EXCEPT ![c] = Resting("idle")]
        /\ Enqueues(c, s) /\ mail' = mail
    BY DEF RequestEnqueue, Return, Enqueues, handoffVars
  <2>b. \A d \in Clients : ~Enqueues(d, s)'
    <3>1. \A d \in Clients \ {c} : ~InCall(d, s)
      BY <2>a, RerunFacts, TendedFacts DEF CallsOwn, OneCallerEach, InCall, CallPlaces, ClosePlaces
    <3>2. client'[c].at = "idle" /\ \A d \in Clients \ {c} : client'[d] = client[d]
      BY <2>a, RerunFacts, TendedFacts DEF Resting
    <3> QED
      BY <3>1, <3>2 DEF Enqueues, InCall, CallPlaces
  <2>c. /\ Fields(ps[s], pool[s].open, pool[s].active, pool[s].queued, pool[s].running,
                  pool[s].rerun, id)
        /\ ps \in [Sessions -> PoolSession] /\ ps[s] \in PoolSession
    <3>1. [pool[s] EXCEPT !.latest = id] \in PoolSession
      BY RerunFacts, TendedFacts, PoolSessionUpdates
    <3>2. Fields([pool[s] EXCEPT !.latest = id], pool[s].open, pool[s].active, pool[s].queued,
                 pool[s].running, pool[s].rerun, id)
      BY RerunFacts, TendedFacts, PoolFields
    <3> QED
      BY <3>1, <3>2, RerunFacts, TendedFacts
  <2>1. CASE UNCHANGED <<pool, worker>>
    BY <1>2, <2>a, <2>b, <2>1, RerunFacts DEF RerunsHeld, Runs, Busy
  <2>2. CASE pool[s].running /\ pool[s].active /\ pool' = [ps EXCEPT ![s].rerun = TRUE]
             /\ UNCHANGED worker
    <3> HIDE DEF ps
    <3>1. Fields(pool'[s], pool[s].open, pool[s].active, pool[s].queued, TRUE, TRUE, id)
      <4>1. pool'[s] = [ps[s] EXCEPT !.rerun = TRUE]
        BY <2>c, <2>2
      <4> QED
        BY <2>c, <2>2, <4>1, PoolFields DEF Fields
    <3>2. mail[s].pending \in {0, id} /\ id \in Nat /\ mail[s].pending \in Nat
      BY <2>a, RerunFacts, TendedFacts DEF Tended, CallIsPending
    <3>3. mail[s].pending = 0 => \A w \in Workers : Runs(w, s) => worker[w].id = id
      BY <2>a, <2>2, RerunFacts DEF RerunsHeld
    <3>4. \A w \in Workers : Runs(w, s) /\ id > worker[w].id => mail[s].pending >= id
      <4>1. id >= id
        BY <3>2
      <4> QED
        BY <3>2, <3>3, <4>1
    <3> QED
      BY <1>2, <2>a, <2>b, <2>2, <3>1, <3>4 DEF RerunsHeld, Fields, Runs, Busy
  <2>3. CASE ~pool[s].running /\ Enqueue(s, ps, worker)
    <3>1. ~pool[s].rerun
      BY <2>3, RerunFacts DEF RerunsHeld
    <3> HIDE DEF ps
    <3>2. pool'[s].rerun = ps[s].rerun
      <4>1. pool' = ps \/ pool'[s] = [ps[s] EXCEPT !.queued = TRUE]
        BY <2>c, <2>3 DEF Enqueue
      <4>2. Fields([ps[s] EXCEPT !.queued = TRUE], ps[s].open, ps[s].active, TRUE, ps[s].running,
                   ps[s].rerun, ps[s].latest)
        BY <2>c, PoolFields
      <4> QED
        BY <4>1, <4>2 DEF Fields
    <3>3. ~pool'[s].rerun
      BY <2>c, <3>1, <3>2 DEF Fields
    <3> QED
      BY <1>2, <2>b, <3>3 DEF RerunsHeld
  <2> QED
    BY <2>1, <2>2, <2>3 DEF RequestEnqueue, ps
<1> QED
  BY <1>1, <1>2

LEMMA EntryReruns ==
    ASSUME PoolReruns, NEW w \in Workers, SkipEntry(w) \/ StartRun(w), NEW t \in Sessions,
           NEW s \in Sessions, s = Head(queue)
    PROVE  RerunsHeld(t)'
<1>1. CASE t # s
  BY <1>1, RerunFacts, SkipEntryTended, StartRunTended, UntouchedReruns
<1>2. CASE t = s
  <2>1. CASE SkipEntry(w)
    <3>1. /\ pool' = [pool EXCEPT ![s].queued = FALSE] /\ client' = NotifyAllClients(client)
          /\ UNCHANGED <<handoffVars, worker>>
      BY <2>1 DEF SkipEntry
    <3>2. ClientsKeep(s) /\ mail' = mail
      BY <3>1, NotifiedStay, ClientsStay, RerunFacts, TendedFacts DEF handoffVars
    <3>3. Fields(pool'[s], pool[s].open, pool[s].active, FALSE, pool[s].running, pool[s].rerun,
                 pool[s].latest)
      BY <3>1, RerunFacts, TendedFacts, PoolFields
    <3> QED
      BY <1>2, <3>1, <3>2, <3>3, RerunFacts DEF RerunsHeld, Fields, ClientsKeep, Runs, Busy
  <2>2. CASE StartRun(w)
    <3>1. /\ pool' = [pool EXCEPT ![s] = [@ EXCEPT !.queued = FALSE, !.running = TRUE]]
          /\ Runnable(s) /\ queue # <<>> /\ UNCHANGED <<handoffVars, client>>
      BY <2>2 DEF StartRun
    <3>2. Fields(pool'[s], pool[s].open, pool[s].active, FALSE, TRUE, pool[s].rerun,
                 pool[s].latest)
      BY <3>1, RerunFacts, TendedFacts, PoolFields
    <3>3. ~pool[s].rerun
      BY <3>1, RerunFacts DEF RerunsHeld, Runnable
    <3>4. pool[s].queued
      <4>1. 1 \in 1..Len(queue) /\ queue[1] = s
        BY <3>1, RerunFacts, TendedFacts DEF OwnStateOK
      <4> QED
        BY <3>1, <4>1 DEF PoolReruns, EntriesAreMarked, Runnable
    <3>5. \A c \in Clients : Enqueues(c, s) => mail[s].pending # 0
      BY <3>1, <3>4, RerunFacts DEF RerunsHeld, Runnable
    <3> QED
      BY <1>2, <3>1, <3>2, <3>3, <3>5 DEF RerunsHeld, Fields, Enqueues, handoffVars
  <2> QED
    BY <2>1, <2>2
<1> QED
  BY <1>1, <1>2

LEMMA ClaimReruns ==
    ASSUME PoolReruns, NEW w \in Workers, ClaimPending(w), NEW t \in Sessions,
           NEW s \in Sessions, s = worker[w].session
    PROVE  RerunsHeld(t)'
<1>1. CASE t # s
  BY <1>1, RerunFacts, ClaimPendingTended, UntouchedReruns
<1>2. CASE t = s
  <2>a. /\ worker[w].at = "claim" /\ pool' = pool /\ client' = client /\ Runs(w, s)
        /\ \A v \in Workers \ {w} : worker'[v] = worker[v]
    BY RerunFacts, TendedFacts DEF ClaimPending, poolVars, Runs, Busy
  <2>b. /\ worker[w].id = 0 /\ pool[s].running /\ \A v \in Workers : Runs(v, s) => v = w
        /\ pool[s].latest \in Nat /\ mail[s].pending \in Nat
        /\ worker[w] \in WorkerFrames
    BY ZenonT(60), <2>a, RerunFacts, TendedFacts DEF Tended, RunsAreOlder
  <2>c. \A v \in Workers : Runs(v, s)' => v = w
    BY <2>a, <2>b DEF Runs, Busy
  <2>1. CASE CanTake(s)
    <3>1. TakePending(s) /\ worker'[w] = [worker[w] EXCEPT !.at = "execute", !.id = mail[s].pending]
      BY <2>1, RerunFacts, TendedFacts DEF ClaimPending
    <3>2. worker'[w].id = mail[s].pending
      BY <2>b, <3>1 DEF WorkerFrames, Frame
    <3>3. MailIs(s, 0, mail[s].latest, mail[s].active)
      BY <3>1, RerunFacts, TendedFacts, MailEffects
    <3>4. pool[s].rerun /\ pool[s].latest > 0 => mail[s].pending >= pool[s].latest
      BY <2>a, <2>b, RerunFacts DEF RerunsHeld
    <3>5. ~(pool[s].rerun /\ pool[s].latest > mail[s].pending)
      BY <2>b, <3>4
    <3>6. ~pool[s].queued
      BY <2>b, RerunFacts, TendedFacts DEF Tended, MarksBacked
    <3>7. \A c \in Clients : Enqueues(c, s) => client[c].id = mail[s].pending
      BY <2>1, RerunFacts, TendedFacts DEF Tended, CallIsPending, CanTake
    <3>8. pool[s].rerun => pool[s].running /\ pool[s].active
      BY RerunFacts DEF RerunsHeld
    <3> QED
      BY <1>2, <2>a, <2>c, <3>2, <3>5, <3>6, <3>7, <3>8 DEF RerunsHeld, Enqueues
  <2>2. CASE ~CanTake(s)
    <3>1. mail' = mail /\ worker'[w] = [worker[w] EXCEPT !.at = "finish"]
      BY <2>2, RerunFacts, TendedFacts DEF ClaimPending, handoffVars
    <3>2. worker'[w].id = worker[w].id
      BY <2>b, <3>1 DEF WorkerFrames, Frame
    <3> QED
      BY ZenonT(60), <1>2, <2>a, <2>c, <3>1, <3>2, RerunFacts DEF RerunsHeld, Enqueues
  <2> QED
    BY <2>1, <2>2
<1> QED
  BY <1>1, <1>2

LEMMA FinishReruns ==
    ASSUME PoolReruns, NEW w \in Workers, FinishRun(w), NEW t \in Sessions,
           NEW s \in Sessions, s = worker[w].session
    PROVE  /\ RerunsHeld(t)'
           /\ Len(queue') > Len(queue) => mail[s].pending > worker[w].id
<1> DEFINE ps == [pool EXCEPT ![s] = [@ EXCEPT !.running = FALSE, !.rerun = FALSE]]
           ws == [worker EXCEPT ![w] = Resting("idle")]
           again == pool[s].open /\ NewerRequestWaits(s, worker[w].id)
<1>a. /\ worker[w].at = "finish" /\ client' = NotifyAllClients(client) /\ mail' = mail
      /\ IF again THEN Enqueue(s, ps, ws) ELSE pool' = ps /\ worker' = ws /\ UNCHANGED queue
  BY DEF FinishRun, handoffVars
<1>b. Runs(w, s) /\ \A v \in Workers : Runs(v, s) => v = w
  <2>1. Runs(w, s)
    BY <1>a DEF Runs, Busy
  <2> QED
    BY <2>1, RerunFacts, TendedFacts
<1>c. /\ worker[w].id \in Nat /\ mail[s].pending \in Nat /\ pool[s].latest \in Nat
      /\ Len(queue) \in Nat /\ pool[s].running
  <2>1. Len(queue) \in Nat
    BY RerunFacts, TendedFacts DEF OwnStateOK
  <2>2. pool[s].running
    BY <1>b, RerunFacts, TendedFacts
  <2> QED
    BY <2>1, <2>2, RerunFacts, TendedFacts
<1>1. again => mail[s].pending > worker[w].id
  <2>1. again => mail[s].pending >= pool[s].latest /\ pool[s].latest > worker[w].id
    BY <1>b, RerunFacts DEF RerunsHeld, NewerRequestWaits
  <2> QED
    BY <1>c, <2>1
<1>2. Len(queue') > Len(queue) => mail[s].pending > worker[w].id
  BY <1>a, <1>c, <1>1
<1>3. CASE t # s
  BY <1>3, <1>2, RerunFacts, FinishRunTended, UntouchedReruns
<1>4. CASE t = s
  <2>1. /\ Fields(ps[s], pool[s].open, pool[s].active, pool[s].queued, FALSE, FALSE, pool[s].latest)
        /\ ps[s] \in PoolSession /\ ps \in [Sessions -> PoolSession]
    <3>1. [pool[s] EXCEPT !.running = FALSE, !.rerun = FALSE] \in PoolSession
      BY RerunFacts, TendedFacts, PoolSessionUpdates
    <3>2. Fields([pool[s] EXCEPT !.running = FALSE, !.rerun = FALSE],
                 pool[s].open, pool[s].active, pool[s].queued, FALSE, FALSE, pool[s].latest)
      BY RerunFacts, TendedFacts, PoolFields
    <3> QED
      BY <3>1, <3>2, RerunFacts, TendedFacts
  <2>2. ClientsKeep(s)
    BY <1>a, NotifiedStay, ClientsStay, RerunFacts, TendedFacts
  <2>3. ~pool[s].queued
    BY <1>c, RerunFacts, TendedFacts DEF Tended, MarksBacked
  <2>4. \A v \in Workers : ~Runs(v, s)'
    <3>1. /\ ws \in [Workers -> WorkerFrames] /\ ws[w].at = "idle"
          /\ \A v \in Workers \ {w} : ws[v] = worker[v]
      BY WorkerRests, RerunFacts, TendedFacts DEF OwnStateOK, Resting
    <3>2. worker' = ws \/ worker' \in NotifyOneWorker(ws)
      BY <1>a DEF Enqueue
    <3> HIDE DEF ws
    <3>3. \A v \in Workers : worker'[v] = ws[v] \/ (ws[v].at = "asleep" /\ worker'[v].at = "idle")
      BY <3>1, <3>2, NotifyTouchesSleepers
    <3> QED
      BY <1>b, <3>1, <3>3 DEF Runs, Busy
  <2> HIDE DEF ps, ws
  <2>5. ~pool'[s].rerun /\ (~again => ~pool'[s].queued)
    <3>1. /\ pool' = ps \/ pool'[s] = [ps[s] EXCEPT !.queued = TRUE]
          /\ ~again => pool' = ps
      BY <1>a, <2>1 DEF Enqueue
    <3>2. Fields([ps[s] EXCEPT !.queued = TRUE], ps[s].open, ps[s].active, TRUE, ps[s].running,
                 ps[s].rerun, ps[s].latest)
      BY <2>1, PoolFields
    <3> QED
      BY <2>1, <2>3, <3>1, <3>2 DEF Fields
  <2>6. again => mail[s].pending # 0
    BY <1>c, <1>1
  <2> QED
    BY <1>a, <1>2, <1>4, <2>2, <2>4, <2>5, <2>6 DEF RerunsHeld, ClientsKeep
<1> QED
  BY <1>3, <1>4
--------------------------------------------------------------------------------
LEMMA RerunsStep ==
    ASSUME OneCallerEach, PoolReruns, [PoolNext]_vars, NEW t \in Sessions
    PROVE  RerunsHeld(t)'
<1>a. /\ \A c \in Clients : client[c] \in ClientFrames
      /\ \A w \in Workers : worker[w] \in WorkerFrames
      /\ queue \in Seq(Sessions)
  BY RerunFacts, TendedFacts DEF OwnStateOK
<1>b. ASSUME Untouched(t) PROVE RerunsHeld(t)'
  BY <1>b, RerunFacts, UntouchedReruns
<1>1. ASSUME NEW c \in Clients, ClientCall(c) PROVE RerunsHeld(t)'
  <2>1. ASSUME NEW s \in Sessions, WorkerStartFails(c, s) \/ CollectReady(c, s) PROVE RerunsHeld(t)'
    BY <2>1, <1>b, RerunFacts, QuietTended
  <2>2. ASSUME NEW s \in Sessions, HideSession(c, s) \/ CloseBegin(c, s) PROVE RerunsHeld(t)'
    BY <2>2, HidingReruns
  <2>3. ASSUME NEW s \in Sessions, \E id \in RequestIds : RequestSchedule(c, s, id)
        PROVE  RerunsHeld(t)'
    BY <2>3, RequestReruns
  <2>4. ASSUME NEW s \in Sessions,
               ShowSession(c, s) \/ \E active \in BOOLEAN : OpenSession(c, s, active)
        PROVE  RerunsHeld(t)'
    BY <2>4, OpenShowReruns
  <2>5. StopBegin(c) => RerunsHeld(t)'
    BY StoppingReruns
  <2> QED
    BY <1>1, <2>1, <2>2, <2>3, <2>4, <2>5 DEF ClientCall
<1>2. ASSUME NEW c \in Clients, RequestEnqueue(c) PROVE RerunsHeld(t)'
  <2>1. client[c].session \in Sessions /\ client[c].id \in MaybeId
    BY <1>2, <1>a DEF RequestEnqueue, ClientFrames, Frame
  <2> QED
    BY <1>2, <2>1, RequestEnqueueReruns
<1>3. ASSUME NEW c \in Clients, CloseHide(c) \/ CloseErase(c) \/ CloseMailboxLast(c)
      PROVE  RerunsHeld(t)'
  <2>1. client[c].session \in Sessions
    BY <1>3, <1>a DEF CloseHide, CloseErase, CloseMailboxLast, ClientFrames
  <2> QED
    BY <1>3, <2>1, ClosingReruns
<1>4. ASSUME NEW c \in Clients,
             CloseSleep(c) \/ CloseFindsNothing(c) \/ StopHandoff(c) \/ StopJoined(c)
      PROVE  RerunsHeld(t)'
  BY <1>4, <1>b, RerunFacts, CloseFindsNothingTended, StoppingReruns, QuietTended
<1>5. ASSUME NEW w \in Workers, SkipEntry(w) \/ StartRun(w) PROVE RerunsHeld(t)'
  <2>1. Head(queue) \in Sessions
    BY <1>5, <1>a DEF SkipEntry, StartRun
  <2> QED
    BY <1>5, <2>1, EntryReruns
<1>6. ASSUME NEW w \in Workers, ClaimPending(w) \/ FinishRun(w) PROVE RerunsHeld(t)'
  <2>1. worker[w].session \in Sessions
    BY <1>6, <1>a DEF ClaimPending, FinishRun, WorkerFrames
  <2> QED
    BY <1>6, <2>1, ClaimReruns, FinishReruns
<1>7. ASSUME NEW w \in Workers,
             WaitForWork(w) \/ WorkerExit(w) \/ \E size \in Charges : PublishRun(w, size)
      PROVE  RerunsHeld(t)'
  BY <1>7, <1>b, RerunFacts, QuietTended
<1>8. SpuriousWake \/ UNCHANGED vars => RerunsHeld(t)'
  BY <1>b, RerunFacts, QuietTended
<1> QED
  BY <1>1, <1>2, <1>3, <1>4, <1>5, <1>6, <1>7, <1>8 DEF PoolNext, ClientStep, WorkerStep

LEMMA PoolRerunsStep ==
    ASSUME MaxOpens <= 1, OneCallerEach, PoolReruns, [PoolNext]_vars
    PROVE  PoolReruns'
<1>1. PoolTended' /\ EntriesAreMarked'
  BY PoolTendedStep, EntriesStep DEF PoolReruns, PoolTended, PoolSound
<1> QED
  BY <1>1, RerunsStep DEF PoolReruns

(* Only the end of its run takes a worker out of "finish".                 *)
LEMMA OnlyFinishRunFinishes ==
    ASSUME PoolSound, [PoolNext]_vars, NEW w \in Workers, worker[w].at = "finish",
           worker'[w].at # "finish"
    PROVE  FinishRun(w)
<1>a. HandoffTypeOK /\ OwnStateOK /\ ThreadsOK /\ ClosersAlone /\ RunOwnsSession /\ Busy(w)
  BY DEF PoolSound, OwnStateOK, Busy
<1>b. ASSUME SameRuns PROVE FALSE
  BY <1>a, <1>b DEF SameRuns
<1>1. \A c \in Clients : ~ClientCall(c) /\ (ClientStep(c) => StopHandoff(c))
  BY <1>a, <1>b, ClientKeepsRuns
<1>2. \A c \in Clients : ~StopHandoff(c)
  BY DEF StopHandoff
<1>3. ~SpuriousWake /\ ~UNCHANGED vars
  BY <1>a, <1>b, IdleStepsKeepRuns
<1>4. \A v \in Workers : ~(WaitForWork(v) \/ WorkerExit(v) \/ SkipEntry(v))
  BY <1>a, <1>b, IdleStepsKeepRuns
<1>5. ASSUME NEW v \in Workers, v # w,
             StartRun(v) \/ ClaimPending(v) \/ \E size \in Charges : PublishRun(v, size)
      PROVE  FALSE
  <2>1. worker'[w] = worker[w]
    BY <1>5, <1>a DEF StartRun, ClaimPending, PublishRun, ThreadsOK
  <2> QED
    BY <2>1
<1>6. ASSUME NEW v \in Workers, v # w, FinishRun(v) PROVE FALSE
  <2> DEFINE ws == [worker EXCEPT ![v] = Resting("idle")]
  <2>1. ws \in [Workers -> WorkerFrames] /\ ws[w] = worker[w]
    BY <1>6, <1>a, WorkerRests DEF ThreadsOK
  <2>2. worker' = ws \/ worker' \in NotifyOneWorker(ws)
    BY <1>6 DEF FinishRun, Enqueue
  <2> HIDE DEF ws
  <2>3. worker'[w] = ws[w] \/ ws[w].at = "asleep"
    BY <2>1, <2>2, NotifyTouchesSleepers
  <2> QED
    BY <2>1, <2>3
<1>7. ~(StartRun(w) \/ ClaimPending(w) \/ \E size \in Charges : PublishRun(w, size))
  BY DEF StartRun, ClaimPending, PublishRun
<1> QED
  BY <1>1, <1>2, <1>3, <1>4, <1>5, <1>6, <1>7 DEF PoolNext, WorkerStep

(* "exactly one requeue occurs only when a strictly newer request is still *)
(* pending": the mark a run finds at its end was left for a request that   *)
(* the mailbox still holds, as long as one thread calls for a session and  *)
(* no identity is opened twice.                                            *)
THEOREM RequeuesAreForPending ==
    ASSUME OneCallerEach, MaxOpens <= 1 PROVE PoolSpec => RequeueOnlyForPending
<1>1. PoolInit => PoolReruns
  <2> SUFFICES ASSUME PoolInit PROVE PoolReruns
    OBVIOUS
  <2>1. PoolTended
    BY PoolTendedInit
  <2>2. EntriesAreMarked
    BY DEF PoolInit, EntriesAreMarked, QueuedAtMostOnce, NoSession
  <2>3. \A s \in Sessions : RerunsHeld(s)
    BY DEF PoolInit, RerunsHeld, NoSession
  <2> QED
    BY <2>1, <2>2, <2>3 DEF PoolReruns
<1>2. PoolReruns /\ [PoolNext]_vars => PoolReruns'
  BY PoolRerunsStep
<1>3. PoolReruns /\ [PoolNext]_vars =>
         [\A w \in Workers : worker[w].at = "finish" /\ worker'[w].at # "finish"
                                 /\ Len(queue') > Len(queue)
             => LET s == worker[w].session
                IN  mail[s].pending > worker[w].id]_vars
  <2> SUFFICES ASSUME PoolReruns, [PoolNext]_vars, NEW w \in Workers, worker[w].at = "finish",
                      worker'[w].at # "finish", Len(queue') > Len(queue)
               PROVE  mail[worker[w].session].pending > worker[w].id
    OBVIOUS
  <2>1. FinishRun(w)
    BY OnlyFinishRunFinishes DEF PoolReruns, PoolTended
  <2>2. worker[w].session \in Sessions
    BY DEF PoolReruns, PoolTended, PoolSound, OwnStateOK, ThreadsOK, WorkerFrames
  <2> QED
    BY <2>1, <2>2, FinishReruns
<1> QED
  BY <1>1, <1>2, <1>3, PTL DEF PoolSpec, RequeueOnlyForPending
================================================================================
