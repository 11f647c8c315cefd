----------------------------- MODULE MCForeground -----------------------------
(* Two sessions with a UI thread each, and identities that are not reused;   *)
(* beside them a pool of two threads that race on one session, one of a      *)
(* single UI thread, and the mailbox by itself, with two sessions whose      *)
(* results may fit together, fill the budget, or exceed it alone, and three  *)
(* identities, so that one is older than the claimed one and one is newer.   *)
(* In a behaviour one of them moves.                                         *)
EXTENDS ForegroundLayoutPool, TLC

CONSTANTS s1, s2, c1, c2, w1, w2

TwoSessions == {s1, s2}
TwoIds == 1..2
OneCharge == {1}
TwoClients == {c1, c2}
TwoWorkers == {w1, w2}
OwnSession == (c1 :> {s1}) @@ (c2 :> {s2})
UserOnly == (c1 :> {s1}) @@ (c2 :> {})
SharedSession == (c1 :> {s1}) @@ (c2 :> {s1})

VARIABLE part   \* the component that moves; the others stay as they begin
(* Two threads that race on one session.                                     *)
VARIABLES hMail, hReadyBytes, hHandoffStopped, hPool, hQueue, hPoolStopped,
          hWorker, hClient, hOpens
Shared == INSTANCE ForegroundLayoutPool
    WITH Sessions <- {s1}, RequestIds <- 1..2, Serves <- SharedSession,
         MaxOpens <- 2, Charges <- {1}, MaxReadyBytes <- 1,
         Clients <- {c1, c2}, Workers <- {w1, w2},
         NoSessionId <- NoSessionId, mail <- hMail,
         readyBytes <- hReadyBytes, handoffStopped <- hHandoffStopped,
         pool <- hPool, queue <- hQueue, poolStopped <- hPoolStopped,
         worker <- hWorker, client <- hClient, opens <- hOpens
ASSUME Shared!PoolAssumption

(* One session that one UI thread uses; another thread stops the pool.       *)
VARIABLES uMail, uReadyBytes, uHandoffStopped, uPool, uQueue, uPoolStopped,
          uWorker, uClient, uOpens
OneUser == INSTANCE ForegroundLayoutPool
    WITH Sessions <- {s1}, RequestIds <- 1..3, Serves <- UserOnly,
         MaxOpens <- 2, Charges <- {1}, MaxReadyBytes <- 1,
         Clients <- {c1, c2}, Workers <- {w1, w2},
         NoSessionId <- NoSessionId, mail <- uMail,
         readyBytes <- uReadyBytes, handoffStopped <- uHandoffStopped,
         pool <- uPool, queue <- uQueue, poolStopped <- uPoolStopped,
         worker <- uWorker, client <- uClient, opens <- uOpens
ASSUME OneUser!PoolAssumption

(* The mailbox under any order of calls and publications.                    *)
VARIABLES mMail, mReadyBytes, mHandoffStopped
Alone == INSTANCE ForegroundHandoff
    WITH Sessions <- {s1, s2}, RequestIds <- 1..3, Charges <- {1, 2, 4},
         MaxReadyBytes <- 3, mail <- mMail, readyBytes <- mReadyBytes,
         handoffStopped <- mHandoffStopped
ASSUME Alone!HandoffAssumption

FreshVars == vars
SharedVars == <<hMail, hReadyBytes, hHandoffStopped, hPool, hQueue,
                hPoolStopped, hWorker, hClient, hOpens>>
OneUserVars == <<uMail, uReadyBytes, uHandoffStopped, uPool, uQueue,
                 uPoolStopped, uWorker, uClient, uOpens>>
AloneVars == <<mMail, mReadyBytes, mHandoffStopped>>
all == <<part, FreshVars, SharedVars, OneUserVars, AloneVars>>

Start == /\ part \in {"fresh", "shared", "user", "mailbox"}
         /\ PoolInit
         /\ Shared!PoolInit
         /\ OneUser!PoolInit
         /\ Alone!HandoffInit

FreshMoves == /\ part = "fresh" /\ PoolNext
              /\ UNCHANGED <<part, SharedVars, OneUserVars, AloneVars>>
SharedMoves == /\ part = "shared" /\ Shared!PoolNext
               /\ UNCHANGED <<part, FreshVars, OneUserVars, AloneVars>>
OneUserMoves == /\ part = "user" /\ OneUser!PoolNext
                /\ UNCHANGED <<part, FreshVars, SharedVars, AloneVars>>
AloneMoves == /\ part = "mailbox" /\ Alone!HandoffNext
              /\ UNCHANGED <<part, FreshVars, SharedVars, OneUserVars>>

Moves == FreshMoves \/ SharedMoves \/ OneUserMoves \/ AloneMoves

SumSpec == /\ Start /\ [][Moves]_all
           /\ \A c \in {c1, c2} : WF_SharedVars(part = "shared" /\ Shared!ClientStep(c))
           /\ \A w \in {w1, w2} : WF_SharedVars(part = "shared" /\ Shared!WorkerStep(w))
           /\ \A c \in {c1, c2} : WF_OneUserVars(part = "user" /\ OneUser!ClientStep(c))
           /\ \A w \in {w1, w2} : WF_OneUserVars(part = "user" /\ OneUser!WorkerStep(w))
--------------------------------------------------------------------------------
(* Beside the pool of two sessions: under racing threads runs of a session *)
(* are exclusive and no wakeup is lost; a single UI thread's request is    *)
(* never left behind sleeping workers; a session that is opened again is   *)
(* queued at most once for each opening; and in the mailbox by itself,     *)
(* whose results differ in size, a result answers the newest request, and  *)
(* the bytes charged are those of the results that wait.                   *)
OthersAreSafe == /\ Shared!RunOwnsSession /\ Shared!NoLostWakeup
                 /\ OneUser!NoStrandedRequest
                 /\ Shared!QueuedOncePerOpening /\ OneUser!QueuedOncePerOpening
                 /\ Alone!HandoffTypeOK /\ Alone!NewestOnly /\ Alone!ReadyBytesExact

(* The mailbox by itself implements the newest-request promise.            *)
MailboxKeepsPromise == Alone!KeepsPromise

(* Every call of a racing thread returns, and every request of the single  *)
(* UI thread leaves the mailbox, by being claimed or by being dropped.     *)
OthersGoOn == Shared!CallsReturn /\ OneUser!RequestSettled
================================================================================
