--------------------------------- MODULE FrameLeases ---------------------------------
(* What a window swapchain promises its caller (docs/Z2F8B1, "State machine"):  *)
(* images are leased one acquire at a time, a lease ends by being given back or *)
(* by being presented, a presented frame is owned until its fence is retired,   *)
(* no more than MaxFrames of both exist, the ring of images is renewed only when *)
(* all are back, and nothing but closing takes a lease or a frame away.         *)
EXTENDS Naturals, FiniteSets

CONSTANTS MaxFrames

VARIABLES open,    \* the swapchain is configured
          ring,    \* the ring of images: its swapchain generation
          taken,   \* leases by acquire serial
          flying,  \* presented frames by fence value
          given,   \* serials given out
          fenced   \* fence values given out

Init ==
    /\ open = FALSE
    /\ ring = 0
    /\ taken = {}
    /\ flying = {}
    /\ given = 0
    /\ fenced = 0

Open ==
    /\ ~open
    /\ open' = TRUE
    /\ ring' \in Nat
    /\ UNCHANGED <<taken, flying, given, fenced>>

Renew ==
    /\ open
    /\ taken = {}
    /\ flying = {}
    /\ ring' \in Nat /\ ring' > ring
    /\ UNCHANGED <<open, taken, flying, given, fenced>>

Take ==
    /\ open
    /\ Cardinality(taken) + Cardinality(flying) < MaxFrames
    /\ given' = given + 1
    /\ taken' = taken \cup {given'}
    /\ UNCHANGED <<open, ring, flying, fenced>>

GiveBack(s) ==
    /\ taken' = taken \ {s}
    /\ UNCHANGED <<open, ring, flying, given, fenced>>

Fly(s) ==
    /\ fenced' = fenced + 1
    /\ taken' = taken \ {s}
    /\ flying' = flying \cup {fenced'}
    /\ UNCHANGED <<open, ring, given>>

Land ==
    /\ flying' \subseteq flying
    /\ UNCHANGED <<open, ring, taken, given, fenced>>

Close ==
    /\ open' = FALSE
    /\ ring' \in Nat
    /\ taken' = {}
    /\ flying' = {}
    /\ UNCHANGED <<given, fenced>>

Next ==
    \/ Land
    \/ Open
    \/ Renew
    \/ Take
    \/ \E s \in taken : GiveBack(s) \/ Fly(s)
    \/ Close

Spec == Init /\ [][Next]_<<open, ring, taken, flying, given, fenced>>
================================================================================
