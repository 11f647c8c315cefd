----------------------------- MODULE NewestRequest -----------------------------
(***************************************************************************)
(* What a newest-request mailbox promises its user, session by session:    *)
(* only the newest request asked for is ever answered, at most once, and   *)
(* only while the session has stayed shown since it was asked for.  An     *)
(* answer that was given up (the session was hidden, closed or stopped, or *)
(* the answer did not fit) does not come back until a newer request is     *)
(* asked for.                                                              *)
(***************************************************************************)
EXTENDS Naturals

CONSTANTS Sessions,     \* session identities
          RequestIds    \* request identities, ordered, zero excluded

VARIABLES shown,    \* the sessions that may ask and be answered
          newest,   \* newest[s]: the newest request asked for, 0 if none
          owed,     \* owed[s]: that request has yet to be answered
          answer    \* answer[s]: the request the waiting answer is for, 0 if none

vars == <<shown, newest, owed, answer>>

Init == /\ shown = {}
        /\ newest = [s \in Sessions |-> 0]
        /\ owed = [s \in Sessions |-> FALSE]
        /\ answer = [s \in Sessions |-> 0]

Show(s) == /\ shown' = shown \cup {s}
           /\ UNCHANGED <<newest, owed, answer>>

(* A strictly newer request makes everything about the older one moot.     *)
Ask(s, id) == /\ s \in shown
              /\ id > newest[s]
              /\ newest' = [newest EXCEPT ![s] = id]
              /\ owed' = [owed EXCEPT ![s] = TRUE]
              /\ answer' = [answer EXCEPT ![s] = 0]
              /\ UNCHANGED shown

Answer(s) == /\ s \in shown
             /\ owed[s]
             /\ owed' = [owed EXCEPT ![s] = FALSE]
             /\ answer' = [answer EXCEPT ![s] = newest[s]]
             /\ UNCHANGED <<shown, newest>>

GiveUp(s) == /\ owed[s]
             /\ owed' = [owed EXCEPT ![s] = FALSE]
             /\ UNCHANGED <<shown, newest, answer>>

Collect(s) == /\ answer[s] # 0
              /\ answer' = [answer EXCEPT ![s] = 0]
              /\ UNCHANGED <<shown, newest, owed>>

(* Hiding sessions, all of them at once when the mailbox stops, gives up   *)
(* what they were owed and what was waiting for them.                      *)
Hide(S) == /\ shown' = shown \ S
           /\ owed' = [s \in Sessions |-> IF s \in S THEN FALSE ELSE owed[s]]
           /\ answer' = [s \in Sessions |-> IF s \in S THEN 0 ELSE answer[s]]
           /\ UNCHANGED newest

(* A closed session also forgets its identities.                           *)
Forget(s) == /\ shown' = shown \ {s}
             /\ newest' = [newest EXCEPT ![s] = 0]
             /\ owed' = [owed EXCEPT ![s] = FALSE]
             /\ answer' = [answer EXCEPT ![s] = 0]

Next == \/ \E s \in Sessions : \/ Show(s) \/ Answer(s) \/ GiveUp(s)
                               \/ Collect(s) \/ Forget(s)
        \/ \E s \in Sessions, id \in RequestIds : Ask(s, id)
        \/ \E S \in SUBSET Sessions : Hide(S)

Spec == Init /\ [][Next]_vars
================================================================================
