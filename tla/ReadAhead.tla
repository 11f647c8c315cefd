----------------------------------- MODULE ReadAhead -----------------------------------
(***************************************************************************)
(* Reading ahead of the visible text: a tab plans a window beyond the      *)
(* visible edge, a worker reads it, and what both know of the ends of the  *)
(* records is kept in one bounded cache that all tabs share.  The cache is *)
(* a map and a list in order of use, kept in step by hand.                 *)
(***************************************************************************)
EXTENDS Naturals, Sequences, SequencesExt

CONSTANTS Readers,     \* tabs
          Records,
          Length,      \* Length[r]: bytes of record r
          Window,      \* prefetch_bytes
          LookAheads,  \* the policy's numbers of windows, one for each band of speed
          MaxEntries

(* Without a record there is nothing to ask for.                           *)
ReadAheadAssumption == /\ Records # {} /\ Length \in [Records -> Nat] /\ Window \in Nat \ {0}
                       /\ LookAheads \subseteq Nat \ {0} /\ MaxEntries \in Nat \ {0}

VARIABLES lru,    \* records, the most recently used first
          learnt, \* record -> length: the map `cache'
          at,     \* at[t]: "idle", "asks", "resolves", "reads" or "ready"
          req,    \* req[t]: the request, later the canonical request
          got     \* got[t]: bytes read

readVars == <<lru, learnt, at, req, got>>

Sides == {"forward", "back"}
Known == DOMAIN learnt
(* edge is the visible text's end or start; sure: planned with the length. *)
NoRequest == [record |-> CHOOSE r \in Records : TRUE, dir |-> "forward", edge |-> 0, off |-> 0, bytes |-> 0, sure |-> FALSE]

ReadInit == /\ lru = <<>> /\ learnt = <<>>
            /\ at = [t \in Readers |-> "idle"]
            /\ req = [t \in Readers |-> NoRequest]
            /\ got = [t \in Readers |-> 0]
-----------------------------------------------------------------------------
(* An entry knows its place in the list, and is moved to the front.        *)
Place(r) == CHOOSE i \in DOMAIN lru : lru[i] = r
Touched(r) == <<r>> \o RemoveAt(lru, Place(r))

(* Entries are evicted until one more fits.                                *)
Evicted == IF Len(lru) < MaxEntries THEN lru ELSE SubSeq(lru, 1, MaxEntries - 1)

(* The map could not grow: the head of the list goes unless it has one.    *)
Undone(list, kept) == IF Head(list) \notin kept THEN Tail(list) ELSE list

(* fails: what cannot grow, "none", "list" or "map".                       *)
Insert(r, n, fails) ==
    IF r \in Known
    THEN learnt' = [learnt EXCEPT ![r] = n] /\ lru' = Touched(r)
    ELSE LET kept == ToSet(Evicted)
             old == [k \in Known \cap kept |-> learnt[k]]
         IN /\ lru' = CASE fails = "none" -> <<r>> \o Evicted
                        [] fails = "list" -> Evicted
                        [] fails = "map" -> Undone(<<r>> \o Evicted, Known \cap kept)
            /\ learnt' = IF fails = "none" THEN [k \in DOMAIN old \cup {r} |-> IF k = r THEN n ELSE old[k]] ELSE old

Fails == {"none", "list", "map"}
-----------------------------------------------------------------------------
(* A request cut to the record: forward the last full window or the tail   *)
(* that follows the edge, back what precedes it.  No bytes: nothing to do. *)
Nothing == [off |-> 0, bytes |-> 0]

TailOf(edge, off, bytes, length) == [off |-> edge, bytes |-> length - edge]

ClampForward(edge, off, bytes, length) ==
    IF edge >= length \/ off < edge THEN Nothing
    ELSE CASE off + bytes <= length -> [off |-> off, bytes |-> bytes]
           [] off + bytes > length /\ edge + bytes <= length -> [off |-> length - bytes, bytes |-> bytes]
           [] OTHER -> TailOf(edge, off, bytes, length)

ClampBackWide(edge, off, bytes, length) == [off |-> off, bytes |-> bytes]   \* wrong on purpose
ClampBack(edge, off, bytes, length) ==
    IF edge > length \/ off >= edge \/ off >= length THEN Nothing
    ELSE [off |-> off, bytes |-> IF edge - off < bytes THEN edge - off ELSE bytes]

Clamp(q, length) == IF q.dir = "forward" THEN ClampForward(q.edge, q.off, q.bytes, length)
                                         ELSE ClampBack(q.edge, q.off, q.bytes, length)

Cut(q, length) == [q EXCEPT !.off = Clamp(q, length).off, !.bytes = Clamp(q, length).bytes, !.sure = TRUE]

(* The faster the tab scrolls, the further from the edge it reads.         *)
PredictedOff(dir, edge, n) ==
    IF dir = "forward" THEN edge + (n - 1) * Window
    ELSE IF edge > n * Window THEN edge - n * Window ELSE 0

Plan(t, r, dir, edge, n) ==
    /\ at[t] = "idle" /\ edge <= Length[r]
    /\ dir = "back" => edge > 0
    /\ LET q == [record |-> r, dir |-> dir, edge |-> edge, off |-> PredictedOff(dir, edge, n), bytes |-> Window, sure |-> FALSE]
           p == IF r \in Known THEN Cut(q, learnt[r]) ELSE q
       IN IF p.bytes > 0
          THEN req' = [req EXCEPT ![t] = p] /\ at' = [at EXCEPT ![t] = "asks"]
          ELSE UNCHANGED <<req, at>>
    /\ lru' = IF r \in Known THEN Touched(r) ELSE lru
    /\ UNCHANGED <<learnt, got>>
-----------------------------------------------------------------------------
(* The worker goes on with the request, cut when the length is known.      *)
Proceed(t, q) == /\ req' = [req EXCEPT ![t] = IF q.bytes > 0 THEN q ELSE NoRequest]
                 /\ at' = [at EXCEPT ![t] = IF q.bytes > 0 THEN "reads" ELSE "idle"]

Ask(t) ==
    /\ at[t] = "asks"
    /\ LET r == req[t].record
       IN IF r \in Known
          THEN Proceed(t, Cut(req[t], learnt[r])) /\ lru' = Touched(r)
          ELSE at' = [at EXCEPT ![t] = "resolves"] /\ UNCHANGED <<req, lru>>
    /\ UNCHANGED <<learnt, got>>

(* The length is looked up in the store without the mutex; meanwhile the   *)
(* cache may have learnt it.                                               *)
Resolve(t, ok, fails) ==
    /\ at[t] = "resolves"
    /\ LET r == req[t].record
       IN CASE ~ok -> Proceed(t, req[t]) /\ UNCHANGED <<lru, learnt>>
            [] ok /\ r \in Known -> Proceed(t, Cut(req[t], learnt[r])) /\ lru' = Touched(r) /\ UNCHANGED learnt
            [] OTHER -> /\ Insert(r, Length[r], fails)
                        /\ Proceed(t, IF fails = "none" THEN Cut(req[t], Length[r]) ELSE req[t])
    /\ UNCHANGED got

(* A read that is cut short tells where the record ends.                   *)
Short(n, q) == n < q.bytes

Read(t, ok, fails) ==
    /\ at[t] = "reads"
    /\ LET q == req[t]
           available == Length[q.record] - q.off
           n == IF available < q.bytes THEN available ELSE q.bytes
       IN IF ok /\ q.off <= Length[q.record]
          THEN /\ IF Short(n, q) THEN Insert(q.record, q.off + n, fails) ELSE UNCHANGED <<lru, learnt>>
               /\ got' = [got EXCEPT ![t] = n]
               /\ at' = [at EXCEPT ![t] = "ready"]
               /\ UNCHANGED req
          ELSE /\ at' = [at EXCEPT ![t] = "idle"]
               /\ req' = [req EXCEPT ![t] = NoRequest]
               /\ UNCHANGED <<lru, learnt, got>>

(* The tab takes the result and learns once more; bytes that came are      *)
(* admitted as a window of exactly their number.                           *)
Drain(t, fails) ==
    /\ at[t] = "ready"
    /\ IF got[t] > 0 /\ Short(got[t], req[t]) THEN Insert(req[t].record, req[t].off + got[t], fails)
       ELSE UNCHANGED <<lru, learnt>>
    /\ at' = [at EXCEPT ![t] = "idle"]
    /\ req' = [req EXCEPT ![t] = NoRequest]
    /\ got' = [got EXCEPT ![t] = 0]

Clear == lru' = <<>> /\ learnt' = <<>> /\ UNCHANGED <<at, req, got>>

ReadNext ==
    \/ \E t \in Readers, r \in Records, dir \in Sides, n \in LookAheads :
          \E edge \in 0..Length[r] : Plan(t, r, dir, edge, n)
    \/ \E t \in Readers : Ask(t)
    \/ \E t \in Readers, ok \in BOOLEAN, fails \in Fails : Resolve(t, ok, fails) \/ Read(t, ok, fails)
    \/ \E t \in Readers, fails \in Fails : Drain(t, fails)
    \/ Clear

ReadSpec == ReadInit /\ [][ReadNext]_readVars
-----------------------------------------------------------------------------
ReadAheadTypeOK ==
    /\ lru \in Seq(Records)
    /\ Known \subseteq Records /\ learnt \in [Known -> Nat]
    /\ at \in [Readers -> {"idle", "asks", "resolves", "reads", "ready"}]
    /\ req \in [Readers -> [record : Records, dir : Sides, edge : Nat, off : Nat, bytes : 0..Window, sure : BOOLEAN]]
    /\ got \in [Readers -> 0..Window]

(* The list names exactly the entries of the map, each once: else the loop *)
(* that evicts until the map is small enough would not end.                *)
ListMatchesMap == /\ ToSet(lru) = Known /\ IsInjective(lru)
                  /\ Len(lru) <= MaxEntries

(* A length in the cache is the record's, whoever learnt it.               *)
LengthsTrue == \A r \in Known : learnt[r] = Length[r]

(* What is read ahead lies in the record and, when the end is known, on    *)
(* the far side of the visible edge.                                       *)
ReadsAhead == \A t \in Readers : at[t] = "ready" =>
    /\ req[t].off + got[t] <= Length[req[t].record]
    /\ req[t].dir = "forward" => req[t].off >= req[t].edge
    /\ req[t].sure /\ req[t].dir = "back" => req[t].off + got[t] <= req[t].edge

(* Who knows the record's end asks for no byte behind it, and gets a full  *)
(* window forward as long as one is left.                                  *)
RoomIsUsed == \A t \in Readers : at[t] = "ready" /\ req[t].sure =>
    /\ got[t] = req[t].bytes
    /\ req[t].dir = "forward" /\ req[t].edge + Window <= Length[req[t].record] => got[t] = Window

(* What is read ahead lies in the record, beyond the visible edge, and is  *)
(* a whole window while one is left; learnt lengths are true.              *)
ReadsTheRest == /\ ReadAheadTypeOK /\ ReadsAhead /\ RoomIsUsed
                /\ LengthsTrue /\ ListMatchesMap

(* The worker repeats the tab's cut, which changes nothing: the window is  *)
(* found under the key the tab asked for.                                  *)
CutOnce == [][\A t \in Readers : at[t] = "asks" /\ req[t].sure /\ at'[t] # "asks"
                                 => req'[t] = req[t] /\ at'[t] # "idle"]_readVars
================================================================================
