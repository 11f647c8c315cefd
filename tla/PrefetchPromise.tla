----------------------------- MODULE PrefetchPromise -----------------------------
(***************************************************************************)
(* What speculative source reading promises a page, whichever worker does  *)
(* it: a result answers a request made in this opening of the page, and    *)
(* only under the ticket it was asked with.  What was asked and what waits *)
(* is given up when the page is hidden, closed or gets another ticket.     *)
(***************************************************************************)
CONSTANTS Pages,     \* pages that ask
          Tickets,   \* tickets a page can be given
          Requests,  \* what can be asked: records with a field "ticket"
          Covered    \* Covered[r]: the requests whose result answers r as well

VARIABLES shown,    \* the pages that may ask and be answered
          ticket,   \* ticket[p]: the ticket in force
          owed,     \* owed[p]: requests that may still be answered
          answer    \* answer[p]: the request the waiting result is for, at most one

vars == <<shown, ticket, owed, answer>>

Nothing == [p \in Pages |-> {}]

Init == /\ shown \subseteq Pages
        /\ ticket \in [Pages -> Tickets]
        /\ owed = Nothing
        /\ answer = Nothing

(* Showing or hiding a page and giving it a ticket.                        *)
Authorize(p, t, show) ==
    LET kept(S) == IF show /\ p \in shown THEN {r \in S : r.ticket = t} ELSE {}
    IN /\ shown' = IF show THEN shown \cup {p} ELSE shown \ {p}
       /\ ticket' = [ticket EXCEPT ![p] = t]
       /\ owed' = [owed EXCEPT ![p] = kept(@)]
       /\ answer' = [answer EXCEPT ![p] = kept(@)]

(* A new request may replace older ones.                                   *)
Ask(p, r) == /\ p \in shown
             /\ r.ticket = ticket[p]
             /\ \E replaced \in SUBSET owed[p] :
                  owed' = [owed EXCEPT ![p] = (@ \ replaced) \cup {r}]
             /\ UNCHANGED <<shown, ticket, answer>>

Answer(p, r) == /\ p \in shown
                /\ r \in owed[p]
                /\ r.ticket = ticket[p]
                /\ \E a \in Covered[r] : answer' = [answer EXCEPT ![p] = {a}]
                /\ owed' \in {owed, [owed EXCEPT ![p] = @ \ {r}]}
                /\ UNCHANGED <<shown, ticket>>

GiveUp(p, r) == /\ owed' = [owed EXCEPT ![p] = @ \ {r}]
                /\ UNCHANGED <<shown, ticket, answer>>

Collect(p) == /\ answer' = [answer EXCEPT ![p] = {}]
              /\ UNCHANGED <<shown, ticket, owed>>

(* Stopping answers nobody any more; a waiting result may stay, and        *)
(* tickets do not matter.                                                  *)
Stop == /\ shown' = {}
        /\ owed' = Nothing
        /\ answer' \in {answer, Nothing}
        /\ ticket' \in [Pages -> Tickets]

Next == \/ \E p \in Pages, r \in Requests : Ask(p, r) \/ Answer(p, r) \/ GiveUp(p, r)
        \/ \E p \in Pages : Collect(p)
        \/ \E p \in Pages, t \in Tickets, show \in BOOLEAN : Authorize(p, t, show)
        \/ Stop

Spec == Init /\ [][Next]_vars
================================================================================
