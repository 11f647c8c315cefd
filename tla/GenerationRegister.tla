--------------------------- MODULE GenerationRegister ---------------------------
(***************************************************************************)
(* What a store of generations promises: the newest generation it keeps is *)
(* the authority.  Only a publication under way, of a newer generation,    *)
(* moves the authority forward; giving a publication up (a failure, a      *)
(* crash) moves nothing; whoever is told of an authority, by a recovery or *)
(* by a publication that succeeds, is told the one there is; making room   *)
(* keeps the newest generations; and nothing but a fault of the medium     *)
(* takes a generation away.                                                *)
(***************************************************************************)
EXTENDS Naturals, FiniteSets

CONSTANTS Generations,  \* generation numbers, positive
          Contents,     \* what a generation may hold
          NoContent,
          Retains       \* how many generations making room may keep

VARIABLES kept,     \* the generations that can be recovered
          attempt,  \* the publication under way
          told,     \* the authority last reported to a caller
          faults    \* how often the medium has failed

vars == <<kept, attempt, told, faults>>

Nothing == [gen |-> 0, content |-> NoContent]

Init == kept = {} /\ attempt = Nothing /\ told = Nothing /\ faults = 0

Begin(g, c) == /\ attempt = Nothing
               /\ attempt' = [gen |-> g, content |-> c]
               /\ UNCHANGED <<kept, told, faults>>

Promote == /\ attempt # Nothing
           /\ \A o \in kept : o.gen < attempt.gen
           /\ kept' = kept \cup {attempt}
           /\ UNCHANGED <<attempt, told, faults>>

IsAuthority(k) == IF kept = {} THEN k = Nothing
                  ELSE k \in kept /\ \A o \in kept : o.gen <= k.gen

Tell == /\ IsAuthority(told')
        /\ UNCHANGED <<kept, attempt, faults>>

Succeed == /\ attempt # Nothing
           /\ IsAuthority(attempt)
           /\ told' = attempt
           /\ attempt' = Nothing
           /\ UNCHANGED <<kept, faults>>

GiveUp == /\ attempt # Nothing
          /\ attempt' = Nothing
          /\ UNCHANGED <<kept, told, faults>>

MakeRoom(n) ==
    /\ attempt = Nothing
    /\ kept' = {k \in kept : Cardinality({o \in kept : o.gen > k.gen}) < n}
    /\ UNCHANGED <<attempt, told, faults>>

Decay(S) == /\ faults' = faults + 1
            /\ kept' = kept \ S
            /\ UNCHANGED <<attempt, told>>

Next == \/ \E g \in Generations, c \in Contents : Begin(g, c)
        \/ Tell \/ Promote \/ Succeed \/ GiveUp
        \/ \E n \in Retains : MakeRoom(n)
        \/ \E S \in SUBSET kept : Decay(S)

Spec == Init /\ [][Next]_vars
================================================================================
