--------------------------- MODULE ForegroundHandoff ---------------------------
(***************************************************************************)
(* SharedForegroundLayoutHandoff (src/foreground_layout_handoff.cpp): the  *)
(* process-shared mailbox between the UI thread that wants a viewport laid *)
(* out and the worker that lays it out.  Every operation holds the one     *)
(* mailbox mutex from its first read to its last write, so each is one     *)
(* atomic action.  A call that is refused (unknown session, stopped,       *)
(* stale or duplicate identity, ...) changes only statistics, which are    *)
(* not modelled: it is a stuttering step.                                  *)
(***************************************************************************)
EXTENDS Integers, FiniteSetsExt

CONSTANTS Sessions,       \* session identities
          RequestIds,     \* request identities; zero is invalid in the code
          Charges,        \* sizes a finished layout may be charged with
          MaxReadyBytes   \* config.max_ready_bytes

ASSUME HandoffAssumption == /\ IsFiniteSet(Sessions)
                            /\ RequestIds \subseteq Nat \ {0}
                            /\ Charges \subseteq Nat \ {0}
                            /\ MaxReadyBytes \in Nat \ {0}

VARIABLES mail,            \* State::sessions, one record per session identity
          readyBytes,      \* State::ready_bytes
          handoffStopped   \* State::stopped

handoffVars == <<mail, readyBytes, handoffStopped>>

MaybeId == RequestIds \cup {0}   \* an optional request: 0 stands for nullopt

Mailbox == [open : BOOLEAN, active : BOOLEAN, latest : MaybeId, pending : MaybeId,
            running : MaybeId, invalidated : BOOLEAN, ready : MaybeId,
            charge : Charges \cup {0}]

(* A session that is not in the map, and one that was just put into it.    *)
NoMailbox == [open |-> FALSE, active |-> FALSE, latest |-> 0, pending |-> 0,
              running |-> 0, invalidated |-> FALSE, ready |-> 0, charge |-> 0]

NewMailbox(active) == [NoMailbox EXCEPT !.open = TRUE, !.active = active]

(* The mailboxes have the type the code gives them, and the byte count     *)
(* never leaves its budget: publish_ready admits before it adds.           *)
HandoffTypeOK == /\ mail \in [Sessions -> Mailbox]
                 /\ readyBytes \in 0..MaxReadyBytes
                 /\ handoffStopped \in BOOLEAN

HandoffInit == /\ mail = [s \in Sessions |-> NoMailbox]
               /\ readyBytes = 0
               /\ handoffStopped = FALSE
--------------------------------------------------------------------------------
(* The mailbox m without its retained result, and what that gives back.    *)
WithoutReady(m) == [m EXCEPT !.ready = 0, !.charge = 0]

BytesWithout(m) == IF m.charge <= readyBytes THEN readyBytes - m.charge ELSE 0

OpenMailbox(s, active) ==
    /\ ~handoffStopped
    /\ ~mail[s].open
    /\ mail' = [mail EXCEPT ![s] = NewMailbox(active)]
    /\ UNCHANGED <<readyBytes, handoffStopped>>

(* Wrong on purpose: erasing a session without remove_ready.               *)
CloseMailboxLeakingBytes(s) ==
    /\ mail[s].open
    /\ mail' = [mail EXCEPT ![s] = NoMailbox]
    /\ UNCHANGED <<readyBytes, handoffStopped>>

CloseMailbox(s) ==
    /\ mail[s].open
    /\ readyBytes' = BytesWithout(mail[s])
    /\ mail' = [mail EXCEPT ![s] = NoMailbox]
    /\ UNCHANGED handoffStopped

(* Showing a session only marks it active; hiding it drops what is pending *)
(* and ready, and condemns the layout that is already running.             *)
ShowMailbox(s) ==
    /\ mail[s].open
    /\ ~handoffStopped
    /\ mail' = [mail EXCEPT ![s].active = TRUE]
    /\ UNCHANGED <<readyBytes, handoffStopped>>

(* Wrong on purpose: hiding without remove_pending.                        *)
HiddenStillPending(m) == [WithoutReady(m) EXCEPT
                             !.active = FALSE,
                             !.invalidated = m.invalidated \/ m.running # 0]

Hidden(m) == [WithoutReady(m) EXCEPT
                 !.active = FALSE,
                 !.pending = 0,
                 !.invalidated = m.invalidated \/ m.running # 0]

HideMailbox(s) ==
    /\ mail[s].open
    /\ ~handoffStopped
    /\ readyBytes' = BytesWithout(mail[s])
    /\ mail' = [mail EXCEPT ![s] = Hidden(@)]
    /\ UNCHANGED handoffStopped

(* schedule: only a strictly newer identity of an active session is taken; *)
(* it replaces the pending request and the ready result of the older one.  *)
Accepts(s, id) == /\ ~handoffStopped
                  /\ mail[s].open
                  /\ mail[s].active
                  /\ id > mail[s].latest

Schedule(s, id) ==
    /\ Accepts(s, id)
    /\ readyBytes' = BytesWithout(mail[s])
    /\ mail' = [mail EXCEPT ![s] = [WithoutReady(@) EXCEPT !.latest = id,
                                                           !.pending = id]]
    /\ UNCHANGED handoffStopped

(* try_take_pending: a worker claims the pending request.                  *)
CanTake(s) == /\ ~handoffStopped
              /\ mail[s].open
              /\ mail[s].active
              /\ mail[s].running = 0
              /\ mail[s].pending # 0

Claimed(m) == [m EXCEPT !.running = m.pending, !.pending = 0, !.invalidated = FALSE]

TakePending(s) ==
    /\ CanTake(s)
    /\ mail' = [mail EXCEPT ![s] = Claimed(@)]
    /\ UNCHANGED <<readyBytes, handoffStopped>>
--------------------------------------------------------------------------------
(* publish_ready.  A publication whose claim is not held is refused and    *)
(* changes nothing; one whose claim is held always ends the claim.         *)
ClaimHeld(s, id) == /\ ~handoffStopped
                    /\ mail[s].open
                    /\ mail[s].running # 0
                    /\ mail[s].running = id

(* Wrong on purpose: the hide-show race, publishing without looking at     *)
(* running_invalidated.                                                    *)
IsNewestAuthorityEvenCondemned(m, id) == m.active /\ m.latest # 0 /\ m.latest = id

IsNewestAuthority(m, id) == /\ ~m.invalidated
                            /\ m.active
                            /\ m.latest # 0
                            /\ m.latest = id

Unclaimed(m) == [m EXCEPT !.running = 0, !.invalidated = FALSE]

DiscardStale(s, id) ==
    /\ ClaimHeld(s, id)
    /\ ~IsNewestAuthority(mail[s], id)
    /\ mail' = [mail EXCEPT ![s] = Unclaimed(@)]
    /\ UNCHANGED <<readyBytes, handoffStopped>>

(* A result larger than the whole budget is dropped before the retained    *)
(* one is given up; one that does not fit beside the others, after it.     *)
DropOversized(s, id, size) ==
    /\ ClaimHeld(s, id)
    /\ IsNewestAuthority(mail[s], id)
    /\ size > MaxReadyBytes
    /\ mail' = [mail EXCEPT ![s] = Unclaimed(@)]
    /\ UNCHANGED <<readyBytes, handoffStopped>>

(* Wrong on purpose: comparing the bytes before adding the new charge.     *)
FitsOneTooMany(s, size) == BytesWithout(mail[s]) <= MaxReadyBytes

Fits(s, size) == BytesWithout(mail[s]) <= MaxReadyBytes - size

DropOverBudget(s, id, size) ==
    /\ ClaimHeld(s, id)
    /\ IsNewestAuthority(mail[s], id)
    /\ size <= MaxReadyBytes
    /\ ~Fits(s, size)
    /\ readyBytes' = BytesWithout(mail[s])
    /\ mail' = [mail EXCEPT ![s] = WithoutReady(Unclaimed(@))]
    /\ UNCHANGED handoffStopped

RetainReady(s, id, size) ==
    /\ ClaimHeld(s, id)
    /\ IsNewestAuthority(mail[s], id)
    /\ size <= MaxReadyBytes
    /\ Fits(s, size)
    /\ readyBytes' = BytesWithout(mail[s]) + size
    /\ mail' = [mail EXCEPT ![s] = [Unclaimed(@) EXCEPT !.ready = id, !.charge = size]]
    /\ UNCHANGED handoffStopped

PublishReady(s, id, size) == \/ DiscardStale(s, id)
                             \/ DropOversized(s, id, size)
                             \/ DropOverBudget(s, id, size)
                             \/ RetainReady(s, id, size)

(* Wrong on purpose: moving the result out without giving its bytes back.  *)
TakeReadyLeakingBytes(s) ==
    /\ mail[s].open
    /\ mail[s].ready # 0
    /\ mail' = [mail EXCEPT ![s] = WithoutReady(@)]
    /\ UNCHANGED <<readyBytes, handoffStopped>>

(* try_take_ready: the UI moves the result out, whatever the activity.     *)
TakeReady(s) ==
    /\ mail[s].open
    /\ mail[s].ready # 0
    /\ readyBytes' = BytesWithout(mail[s])
    /\ mail' = [mail EXCEPT ![s] = WithoutReady(@)]
    /\ UNCHANGED handoffStopped

(* stop: every session loses its work and its activity, but stays open.    *)
(* The bytes are given back one session after the other and never below    *)
(* zero.                                                                   *)
RetainedBytes == MapThenSumSet(LAMBDA s : mail[s].charge, Sessions)

StopMailboxes ==
    /\ ~handoffStopped
    /\ handoffStopped' = TRUE
    /\ readyBytes' = IF RetainedBytes <= readyBytes THEN readyBytes - RetainedBytes ELSE 0
    /\ mail' = [s \in Sessions |->
                  [Unclaimed(WithoutReady(mail[s])) EXCEPT !.active = FALSE, !.pending = 0]]
--------------------------------------------------------------------------------
HandoffNext ==
    \/ \E s \in Sessions, active \in BOOLEAN : OpenMailbox(s, active)
    \/ \E s \in Sessions : \/ CloseMailbox(s)
                           \/ ShowMailbox(s)
                           \/ HideMailbox(s)
                           \/ TakePending(s)
                           \/ TakeReady(s)
    \/ \E s \in Sessions, id \in RequestIds : Schedule(s, id)
    \/ \E s \in Sessions, id \in RequestIds, size \in Charges : PublishReady(s, id, size)
    \/ StopMailboxes

HandoffSpec == HandoffInit /\ [][HandoffNext]_handoffVars
--------------------------------------------------------------------------------
(* The newest request of a session is owed an answer from the moment it is *)
(* accepted until its layout is retained, dropped or condemned.            *)
Owed(m) == \/ m.pending # 0
           \/ m.running # 0 /\ m.running = m.latest /\ ~m.invalidated

Shown == {s \in Sessions : mail[s].active}
Newest == [s \in Sessions |-> mail[s].latest]
OwedTo == [s \in Sessions |-> Owed(mail[s])]
AnswerFor == [s \in Sessions |-> mail[s].ready]

Promise == INSTANCE NewestRequest WITH
               shown <- Shown, newest <- Newest, owed <- OwedTo, answer <- AnswerFor

(* "Newer identities obsolete older pending/running/ready work": whatever  *)
(* is pending or ready is the newest request of an active session, at      *)
(* most one stage holds it, and a claim that is not condemned belongs to   *)
(* an active session.                                                      *)
HoldsNewestOnly(m) ==
    /\ m.pending # 0 => /\ m.active /\ m.pending = m.latest
                        /\ m.running < m.pending /\ m.ready = 0
    /\ m.ready # 0   => m.active /\ m.ready = m.latest /\ m.running = 0
    /\ m.running # 0 => m.running <= m.latest /\ (m.active \/ m.invalidated)

NewestOnly == \A s \in Sessions : HoldsNewestOnly(mail[s])

(* A session that is not in the map has no state left anywhere.            *)
ClosedIsForgotten == \A s \in Sessions : ~mail[s].open => mail[s] = NoMailbox

(* The process-wide byte count is the sum of what the sessions retain, so  *)
(* the budget bounds the memory itself and not just the counter.           *)
ReadyBytesExact == readyBytes = RetainedBytes /\ RetainedBytes <= MaxReadyBytes

(* The mailbox keeps the newest-request promise whatever the workers       *)
(* publish and in whatever order the calls arrive.                         *)
KeepsPromise == Promise!Spec
================================================================================
