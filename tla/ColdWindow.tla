----------------------------------- MODULE ColdWindow -----------------------------------
(***************************************************************************)
(* The one mapped window through which cold segments are touched.  A       *)
(* request outside of it gives the window up first and maps an aligned one *)
(* anew, never larger than the configured bound, which the ledger counts.  *)
(* Segments may grow while they are mapped.                                *)
(***************************************************************************)
EXTENDS Integers

CONSTANTS Paths, MaxSize,   \* bound: bytes of a segment
          Granularity,      \* page size or allocation granularity
          Window            \* configured_bytes

ColdWindowAssumption == /\ MaxSize \in Nat /\ Granularity \in Nat \ {0} /\ Window \in Nat \ {0}

VARIABLES size,     \* size[p]: bytes of segment p
          view,     \* [path, off, bytes]
          charged,  \* the ledger's bytes
          leaked,   \* bytes mapped and charged for a window whose record threw
          request,  \* the last request: [path, off, bytes]
          result    \* "ok", "range", "bound", "ledger" or "failed"

vars == <<size, view, charged, leaked, request, result>>

None == "none"
NoView == [path |-> None, off |-> 0, bytes |-> 0]

Init == /\ size \in [Paths -> 0..MaxSize]
        /\ view = NoView /\ charged = 0 /\ leaked = 0
        /\ request = NoView /\ result = "failed"
-----------------------------------------------------------------------------
Contains(p, off, n) == /\ view.path = p /\ off >= view.off
                       /\ off + n <= view.off + view.bytes

Hit(p, off, n) ==
    /\ Contains(p, off, n)
    /\ request' = [path |-> p, off |-> off, bytes |-> n] /\ result' = "ok"
    /\ UNCHANGED <<size, view, charged, leaked>>

(* Why a new window cannot be had; else "ok".                              *)
Refusal(p, off, n, left) ==
    LET start == off - (off % Granularity)
        wanted == IF size[p] - start < Window THEN size[p] - start ELSE Window
    IN CASE off + n > size[p] -> "range"
         [] off + n <= size[p] /\ (off % Granularity) + n > Window -> "bound"
         [] off + n <= size[p] /\ (off % Granularity) + n <= Window /\ left + wanted > Window -> "ledger"
         [] OTHER -> "ok"

(* What is charged when the new window is asked for.                       *)
Left == charged - view.bytes

(* how: the system maps it ("ok") or not ("failed"), or the record of the  *)
(* path throws when it is mapped already ("throws").                       *)
Remap(p, off, n, how) ==
    /\ ~Contains(p, off, n)
    /\ request' = [path |-> p, off |-> off, bytes |-> n]
    /\ LET start == off - (off % Granularity)
           bytes == IF size[p] - start < Window THEN size[p] - start ELSE Window
           refusal == Refusal(p, off, n, Left)
           made == IF refusal = "ok" THEN how ELSE "failed"
       IN /\ result' = IF refusal # "ok" THEN refusal ELSE IF how = "ok" THEN "ok" ELSE "failed"
          /\ view' = IF made = "ok" THEN [path |-> p, off |-> start, bytes |-> bytes] ELSE NoView
          /\ charged' = IF made = "failed" THEN Left ELSE Left + bytes
          /\ leaked' = IF made = "throws" THEN leaked + bytes ELSE leaked
    /\ UNCHANGED size

Release == /\ view' = NoView
           /\ charged' = charged - view.bytes
           /\ UNCHANGED <<size, leaked, request>> /\ result' = "failed"

Grow(p) == /\ size[p] < MaxSize
           /\ size' = [size EXCEPT ![p] = @ + 1]
           /\ UNCHANGED <<view, charged, leaked, request, result>>

Next == \/ \E p \in Paths, off \in 0..MaxSize, n \in 1..(MaxSize + 1) :
              \/ Hit(p, off, n)
              \/ \E how \in {"ok", "failed", "throws"} : Remap(p, off, n, how)
        \/ \E p \in Paths : Grow(p)
        \/ Release

Spec == Init /\ [][Next]_vars
-----------------------------------------------------------------------------
ColdWindowTypeOK ==
    /\ size \in [Paths -> 0..MaxSize]
    /\ view \in [path : Paths, off : Nat, bytes : 1..Window] \cup {NoView}
    /\ charged \in 0..Window /\ leaked \in 0..Window
    /\ result \in {"ok", "range", "bound", "ledger", "failed"}

(* What a request touches lies in the window of its segment, and the       *)
(* window in the segment.                                                  *)
TouchedIsMapped ==
    /\ result = "ok" => /\ view.path = request.path /\ view.off <= request.off
                        /\ request.off + request.bytes <= view.off + view.bytes
    /\ view # NoView => view.off + view.bytes <= size[view.path]

(* The ledger holds the window and what a throwing record left behind.     *)
ChargeExact == charged = view.bytes + leaked

(* The old window is given up before the new one is charged: the ledger    *)
(* has no reason to refuse, except bytes that were left behind.            *)
NeverRefused == result = "ledger" => leaked > 0
================================================================================
