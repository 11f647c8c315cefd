------------------------- MODULE GenerationStoreProofs -------------------------
(***************************************************************************)
(* Proofs about GenerationStore for any set of generations, contents and   *)
(* retention limits: the journal's algebra (what an append, a cut, a torn  *)
(* or damaged record and a compaction do to the committed generations),    *)
(* the inductive invariant, and that the store implements the register.    *)
(* Then about CompactArena, for any records, blocks, readers and faults:   *)
(* what a move does to an order, what one height does to the sums, and     *)
(* where each step of a publication and of an update leaves the files.     *)
(***************************************************************************)
EXTENDS GenerationStore, CompactArena, SetFolds, SequenceTheorems, FiniteSetTheorems,
        WellFoundedInduction, TLAPS

(* What is not empty among the natural numbers has a least element, and a  *)
(* greatest one when it is bounded.                                        *)
LEMMA Smallest ==
    ASSUME NEW T \in SUBSET Nat, T # {}
    PROVE  \E m \in T : \A k \in T : m <= k
<1>1. IsWellFoundedOn(OpToRel(<, Nat), Nat)
  BY NatLessThanWellFounded
<1>2. PICK m \in T : \A k \in T : ~(<<k, m>> \in OpToRel(<, Nat))
  BY <1>1, WFMin, Zenon
<1>3. \A k \in T : ~(k < m)
  BY <1>2 DEF OpToRel
<1> QED BY <1>3

LEMMA Greatest ==
    ASSUME NEW N \in Nat, NEW T \in SUBSET (0..N), T # {}
    PROVE  \E m \in T : \A k \in T : k <= m
<1> DEFINE D == {N - k : k \in T}
<1>0. \A k \in T : k \in 0..N
  OBVIOUS
<1>1. D \in SUBSET Nat /\ D # {}
  <2>1. \A k \in T : N - k \in Nat
    BY <1>0
  <2> QED BY <2>1
<1>2. PICK d \in D : \A e \in D : d <= e
  BY <1>1, Smallest
<1>3. PICK m \in T : d = N - m
  BY <1>2
<1>4. \A k \in T : N - k \in D
  OBVIOUS
<1>5. ASSUME NEW k \in T PROVE k <= m
  <2>1. N - m <= N - k
    BY <1>2, <1>3, <1>4
  <2> QED BY <1>0, <2>1
<1> QED BY <1>5

--------------------------------------------------------------------------------
(* Facts about journals.                                                   *)

Entries == [gen : Generations, content : Contents]

LEMMA RecordFacts ==
    /\ \A r \in Records : r.gen \in Nat
    /\ \A r \in Records : r # Torn => /\ r.kind \in {"prepare", "commit"}
                                       /\ r.gen \in Generations
                                       /\ r.content \in Contents
    /\ \A kind \in {"prepare", "commit"}, g \in Generations, c \in Contents :
          /\ Record(kind, g, c) \in Records
          /\ Record(kind, g, c) # Torn
<1>1. ASSUME NEW kind \in {"prepare", "commit"}, NEW g \in Generations, NEW c \in Contents
      PROVE  /\ Record(kind, g, c) \in Records
             /\ Record(kind, g, c).gen # Torn.gen
  BY StoreAssumption DEF Records, Record, Torn
<1>2. Torn.gen \in Nat
  BY DEF Torn, Record
<1>3. ASSUME NEW r \in Records, r # Torn
      PROVE  \E kind \in {"prepare", "commit"}, g \in Generations, c \in Contents :
                r = Record(kind, g, c)
  BY <1>3 DEF Records
<1>4. ASSUME NEW r \in Records, r # Torn
      PROVE  /\ r.kind \in {"prepare", "commit"}
             /\ r.gen \in Generations
             /\ r.content \in Contents
  BY <1>3, <1>4 DEF Record
<1>5. \A r \in Records : r.gen \in Nat
  BY <1>2, <1>4, StoreAssumption
<1> QED BY <1>1, <1>4, <1>5

(* What it means for a record to be admitted, position by position.        *)
LEMMA WellFormedIs ==
    ASSUME NEW j, NEW i \in Nat
    PROVE  WellFormed(j, i) <=>
             /\ j[i] # Torn
             /\ \A n \in 1..(i - 1) : j[n].gen = j[i].gen =>
                   /\ j[n].content = j[i].content
                   /\ j[i].kind = "prepare" => j[n].kind = "prepare"
             /\ j[i].kind = "prepare" \/ \E n \in 1..(i - 1) :
                   j[n].gen = j[i].gen /\ j[n].kind = "prepare"
BY DEF WellFormed

LEMMA ValidLengthIs ==
    ASSUME NEW j, Len(j) \in Nat
    PROVE  /\ ValidLength(j) \in 0..Len(j)
           /\ \A i \in 1..ValidLength(j) : WellFormed(j, i)
           /\ \A n \in 0..Len(j) : (\A i \in 1..n : WellFormed(j, i)) => n <= ValidLength(j)
<1> DEFINE V == {n \in 0..Len(j) : \A i \in 1..n : WellFormed(j, i)}
           Ends(n) == /\ n = Len(j) \/ ~WellFormed(j, n + 1)
                      /\ \A i \in 1..n : WellFormed(j, i)
<1>1. 0 \in V
  BY DEF WellFormed
<1>2. PICK m \in V : \A k \in V : k <= m
  <2>1. V \in SUBSET (0..Len(j)) /\ V # {}
    BY <1>1
  <2> QED BY <2>1, Greatest
<1>3. Ends(m)
  <2> SUFFICES ASSUME m # Len(j), WellFormed(j, m + 1) PROVE FALSE
    BY <1>2
  <2>1. m + 1 \in V
    BY <1>2
  <2> QED BY <1>2, <2>1
<1>4. ASSUME NEW n \in 0..Len(j), Ends(n) PROVE n = m
  <2>1. n \in V /\ n <= m /\ m <= Len(j)
    BY <1>2, <1>4
  <2>2. CASE n < m
    BY <1>2, <1>4, <2>1, <2>2
  <2> QED BY <2>1, <2>2
<1>5. ValidLength(j) = m
  <2>1. ValidLength(j) = CHOOSE n \in 0..Len(j) : Ends(n)
    BY DEF ValidLength
  <2> HIDE DEF Ends
  <2> QED BY <1>2, <1>3, <1>4, <2>1
<1> QED BY <1>2, <1>5

(* A record is judged by the records before it.                            *)
LEMMA WellFormedLocal ==
    ASSUME NEW j, NEW h, NEW n \in Nat, \A i \in 1..n : j[i] = h[i], NEW i \in 1..n
    PROVE  WellFormed(j, i) <=> WellFormed(h, i)
<1>1. i \in Nat /\ \A k \in 1..(i - 1) : k \in 1..n
  OBVIOUS
<1> QED BY <1>1, WellFormedIs

(* Journals that agree on their first n records are valid alike up to n.   *)
LEMMA CommonPrefix ==
    ASSUME NEW j, NEW h, NEW n \in Nat, Len(j) \in Nat, Len(h) \in Nat,
           n <= Len(j), n <= Len(h), \A i \in 1..n : j[i] = h[i]
    PROVE  /\ ValidLength(j) >= n <=> ValidLength(h) >= n
           /\ ValidLength(j) < n => ValidLength(h) = ValidLength(j)
<1>1. \A i \in 1..n : WellFormed(j, i) <=> WellFormed(h, i)
  BY WellFormedLocal
<1> DEFINE vj == ValidLength(j)
           vh == ValidLength(h)
<1>2. /\ vj \in 0..Len(j) /\ vh \in 0..Len(h)
      /\ \A i \in 1..vj : WellFormed(j, i)
      /\ \A i \in 1..vh : WellFormed(h, i)
  BY ValidLengthIs
<1>3. \A m \in 0..n : (\A i \in 1..m : WellFormed(j, i)) => m <= vj
  BY ValidLengthIs
<1>4. \A m \in 0..n : (\A i \in 1..m : WellFormed(h, i)) => m <= vh
  BY ValidLengthIs
<1> HIDE DEF vj, vh
<1>5. \A m \in 0..n : m <= vj <=> m <= vh
  <2> TAKE m \in 0..n
  <2>1. m <= vj => \A i \in 1..m : WellFormed(h, i)
    BY <1>1, <1>2
  <2>2. m <= vh => \A i \in 1..m : WellFormed(j, i)
    BY <1>1, <1>2
  <2> QED BY <2>1, <2>2, <1>3, <1>4
<1>6. vj >= n <=> vh >= n
  BY <1>2, <1>5
<1>7. ASSUME vj < n PROVE vh = vj
  <2>1. vh < n
    BY <1>2, <1>6, <1>7
  <2>2. vj \in 0..n /\ vh \in 0..n
    BY <1>2, <1>7, <2>1
  <2> QED BY <1>5, <2>2
<1> QED BY <1>6, <1>7 DEF vj, vh

(* Cutting the tail off leaves a journal that is valid to its end.         *)
LEMMA ValidPrefixIs ==
    ASSUME NEW j \in Seq(Records)
    PROVE  /\ ValidPrefix(j) \in Seq(Records)
           /\ Len(ValidPrefix(j)) = ValidLength(j)
           /\ ValidLength(ValidPrefix(j)) = ValidLength(j)
           /\ \A i \in 1..ValidLength(j) : ValidPrefix(j)[i] = j[i]
<1> DEFINE n == ValidLength(j)
           p == ValidPrefix(j)
<1>1. n \in 0..Len(j) /\ Len(j) \in Nat
  BY ValidLengthIs
<1>2. /\ p \in Seq(Records)
      /\ Len(p) = n
      /\ \A i \in 1..n : p[i] = j[i]
  <2> HIDE DEF n
  <2> QED BY <1>1 DEF ValidPrefix, n
<1>3. ValidLength(p) >= n
  BY <1>1, <1>2, CommonPrefix
<1>4. ValidLength(p) \in 0..Len(p)
  BY <1>1, <1>2, ValidLengthIs
<1>5. ValidLength(p) = n
  BY <1>1, <1>2, <1>3, <1>4
<1> QED BY <1>2, <1>5

LEMMA InvalidTailIs ==
    ASSUME NEW j \in Seq(Records)
    PROVE  InvalidTail(j) = <<>> <=> ValidLength(j) = Len(j)
<1> DEFINE n == ValidLength(j)
<1>1. n \in 0..Len(j) /\ Len(j) \in Nat
  BY ValidLengthIs
<1> HIDE DEF n
<1>2. Len(SubSeq(j, n + 1, Len(j))) = Len(j) - n
  BY <1>1
<1>3. SubSeq(j, n + 1, Len(j)) \in Seq(Records)
  BY <1>1
<1>4. \A s \in Seq(Records) : s = <<>> <=> Len(s) = 0
  OBVIOUS
<1>5. SubSeq(j, n + 1, Len(j)) = <<>> <=> Len(j) - n = 0
  BY <1>2, <1>3, <1>4
<1>6. InvalidTail(j) = SubSeq(j, n + 1, Len(j))
  BY DEF InvalidTail, n
<1>7. Len(j) - n = 0 <=> n = Len(j)
  BY <1>1
<1> QED BY <1>5, <1>6, <1>7 DEF n

(* A record appended is admitted if the journal was valid to its end and   *)
(* the record fits; nothing else changes.                                  *)
LEMMA AppendIs ==
    ASSUME NEW j \in Seq(Records), NEW r \in Records
    PROVE  LET h == Append(j, r) IN
           /\ h \in Seq(Records)
           /\ Len(h) = Len(j) + 1
           /\ \A i \in 1..Len(j) : h[i] = j[i]
           /\ h[Len(j) + 1] = r
           /\ ValidLength(h) = IF ValidLength(j) = Len(j) /\ WellFormed(h, Len(j) + 1)
                               THEN Len(j) + 1 ELSE ValidLength(j)
<1> DEFINE h == Append(j, r)
           n == Len(j)
           vj == ValidLength(j)
           vh == ValidLength(h)
<1>1. /\ h \in Seq(Records) /\ n \in Nat /\ Len(h) = n + 1
      /\ \A i \in 1..n : h[i] = j[i]
      /\ h[n + 1] = r
  OBVIOUS
<1> HIDE DEF h
<1>2. /\ vj \in 0..n
      /\ vh \in 0..(n + 1)
      /\ \A i \in 1..vh : WellFormed(h, i)
      /\ (\A i \in 1..(n + 1) : WellFormed(h, i)) => n + 1 <= vh
  BY <1>1, ValidLengthIs
<1>3. /\ vj >= n <=> vh >= n
      /\ vj < n => vh = vj
  BY <1>1, CommonPrefix
<1>4. CASE vj < n
  BY <1>1, <1>2, <1>3, <1>4 DEF h
<1>5. CASE vj = n
  <2>1. vh \in {n, n + 1}
    BY <1>1, <1>2, <1>3, <1>5
  <2>2. CASE WellFormed(h, n + 1)
    <3>1. \A i \in 1..n : WellFormed(h, i)
      BY <1>1, <1>2, <2>1
    <3>2. \A i \in 1..(n + 1) : i \in 1..n \/ i = n + 1
      BY <1>1
    <3>3. vh = n + 1
      BY <1>2, <2>1, <2>2, <3>1, <3>2
    <3> QED BY <1>1, <1>5, <2>2, <3>3 DEF h
  <2>3. CASE ~WellFormed(h, n + 1)
    <3>1. vh # n + 1
      BY <1>1, <1>2, <2>3
    <3> QED BY <1>1, <1>5, <2>1, <2>3, <3>1 DEF h
  <2> QED BY <2>2, <2>3
<1> QED BY <1>1, <1>2, <1>4, <1>5

LEMMA CommittedIs ==
    ASSUME NEW j \in Seq(Records)
    PROVE  /\ Committed(j) \subseteq Entries
           /\ \A k, o \in Committed(j) : k.gen = o.gen => k = o
           /\ \A k : k \in Committed(j) <=>
                 \E n \in 1..ValidLength(j) :
                    j[n].kind = "commit" /\ k = Kept(j[n].gen, j[n].content)
<1> DEFINE v == ValidLength(j)
<1>1. v \in 0..Len(j) /\ \A i \in 1..v : WellFormed(j, i)
  BY ValidLengthIs
<1> HIDE DEF v
<1>2. \A n \in 1..v : j[n] \in Records /\ j[n] # Torn
  BY <1>1, WellFormedIs
<1>3. \A k : k \in Committed(j) <=>
        \E n \in 1..v : j[n].kind = "commit" /\ k = Kept(j[n].gen, j[n].content)
  BY DEF Committed, v
<1>4. ASSUME NEW n \in 1..v, NEW m \in 1..v, j[n].gen = j[m].gen
      PROVE  j[n].content = j[m].content
  <2>1. WellFormed(j, n) /\ WellFormed(j, m) /\ n \in Nat /\ m \in Nat
    BY <1>1
  <2>2. CASE n < m
    <3>1. n \in 1..(m - 1)
      BY <2>1, <2>2
    <3> QED BY <2>1, <3>1, <1>4, WellFormedIs
  <2>3. CASE m < n
    <3>1. m \in 1..(n - 1)
      BY <2>1, <2>3
    <3> QED BY <2>1, <3>1, <1>4, WellFormedIs
  <2>4. CASE n = m
    BY <2>4
  <2> QED BY <2>1, <2>2, <2>3, <2>4
<1>5. Committed(j) \subseteq Entries
  BY <1>2, <1>3, RecordFacts DEF Entries, Kept
<1>6. ASSUME NEW k \in Committed(j), NEW o \in Committed(j), k.gen = o.gen
      PROVE  k = o
  <2>1. PICK n \in 1..v : k = Kept(j[n].gen, j[n].content)
    BY <1>3
  <2>2. PICK m \in 1..v : o = Kept(j[m].gen, j[m].content)
    BY <1>3
  <2>3. j[n].gen = j[m].gen
    BY <1>6, <2>1, <2>2 DEF Kept
  <2> QED BY <1>4, <2>1, <2>2, <2>3
<1> QED BY <1>3, <1>5, <1>6 DEF v

(* Journals with the same valid records commit the same generations.       *)
LEMMA SameCommitted ==
    ASSUME NEW j \in Seq(Records), NEW h \in Seq(Records),
           ValidLength(h) = ValidLength(j),
           \A i \in 1..ValidLength(j) : h[i] = j[i]
    PROVE  Committed(h) = Committed(j)
<1>1. \A k : k \in Committed(h) <=> k \in Committed(j)
  BY CommittedIs
<1> QED BY <1>1

LEMMA CommittedPrefix ==
    ASSUME NEW j \in Seq(Records)
    PROVE  Committed(ValidPrefix(j)) = Committed(j)
BY ValidPrefixIs, SameCommitted

(* Only a COMMIT record that is admitted adds a generation.                *)
LEMMA CommittedAppend ==
    ASSUME NEW j \in Seq(Records), NEW r \in Records
    PROVE  Committed(Append(j, r)) =
             IF /\ ValidLength(j) = Len(j)
                /\ WellFormed(Append(j, r), Len(j) + 1)
                /\ r.kind = "commit"
             THEN Committed(j) \cup {Kept(r.gen, r.content)}
             ELSE Committed(j)
<1> DEFINE h == Append(j, r)
           v == ValidLength(j)
           n == Len(j)
<1>1. /\ h \in Seq(Records) /\ n \in Nat /\ v \in 0..n
      /\ \A i \in 1..n : h[i] = j[i]
      /\ h[n + 1] = r
      /\ ValidLength(h) = IF v = n /\ WellFormed(h, n + 1) THEN n + 1 ELSE v
  BY AppendIs, ValidLengthIs
<1> HIDE DEF h
<1>2. CASE ~(v = n /\ WellFormed(h, n + 1))
  <2>1. Committed(h) = Committed(j)
    <3>1. \A i \in 1..v : h[i] = j[i]
      BY <1>1
    <3> QED BY <1>1, <1>2, <3>1, SameCommitted
  <2> QED BY <1>2, <2>1 DEF h
<1>3. CASE v = n /\ WellFormed(h, n + 1)
  <2>1. ValidLength(h) = n + 1
    BY <1>1, <1>3
  <2>2. \A k : k \in Committed(h) <=>
          \/ k \in Committed(j)
          \/ r.kind = "commit" /\ k = Kept(r.gen, r.content)
    <3>1. \A i : i \in 1..(n + 1) <=> (i \in 1..n \/ i = n + 1)
      BY <1>1
    <3>2. \A k : k \in Committed(h) <=>
            \E i \in 1..(n + 1) : h[i].kind = "commit" /\ k = Kept(h[i].gen, h[i].content)
      BY <1>1, <2>1, CommittedIs
    <3>3. \A k : k \in Committed(j) <=>
            \E i \in 1..n : j[i].kind = "commit" /\ k = Kept(j[i].gen, j[i].content)
      BY <1>1, <1>3, CommittedIs
    <3> TAKE k
    <3> DEFINE Names(x) == x.kind = "commit" /\ k = Kept(x.gen, x.content)
    <3>4. (\E i \in 1..(n + 1) : Names(h[i])) <=> (\E i \in 1..n : Names(j[i])) \/ Names(r)
      BY <1>1, <3>1
    <3> QED BY <3>2, <3>3, <3>4
  <2>3. CASE r.kind = "commit"
    <3>1. Committed(h) = Committed(j) \cup {Kept(r.gen, r.content)}
      BY <2>2, <2>3
    <3> QED BY <1>3, <2>3, <3>1 DEF h
  <2>4. CASE r.kind # "commit"
    <3>1. Committed(h) = Committed(j)
      BY <2>2, <2>4
    <3> QED BY <2>4, <3>1 DEF h
  <2> QED BY <2>3, <2>4
<1> QED BY <1>2, <1>3

(* A damaged record ends the valid prefix: generations are lost, none is   *)
(* made up.                                                                *)
LEMMA CommittedDamaged ==
    ASSUME NEW j \in Seq(Records), NEW i \in 1..Len(j)
    PROVE  LET h == [j EXCEPT ![i] = Torn] IN
           /\ h \in Seq(Records)
           /\ Len(h) = Len(j)
           /\ Committed(h) \subseteq Committed(j)
<1> DEFINE h == [j EXCEPT ![i] = Torn]
           m == i - 1
<1>1. /\ h \in Seq(Records) /\ Len(h) = Len(j) /\ Len(j) \in Nat /\ m \in Nat
      /\ i \in 1..Len(j) /\ m < Len(j)
      /\ \A k \in 1..m : h[k] = j[k]
      /\ h[i] = Torn
  BY DEF Records
<1> HIDE DEF h
<1>2. /\ ValidLength(h) \in 0..Len(j) /\ ValidLength(j) \in 0..Len(j)
      /\ \A k \in 1..ValidLength(h) : WellFormed(h, k)
  BY <1>1, ValidLengthIs
<1>3. ValidLength(h) <= m
  <2> SUFFICES ASSUME i \in 1..ValidLength(h) PROVE FALSE
    BY <1>1, <1>2
  <2> QED BY <1>1, <1>2, WellFormedIs
<1>4. ValidLength(h) <= ValidLength(j)
  <2>1. /\ ValidLength(j) >= m <=> ValidLength(h) >= m
        /\ ValidLength(j) < m => ValidLength(h) = ValidLength(j)
    <3> HIDE DEF m
    <3> QED BY <1>1, CommonPrefix
  <2> QED BY <1>1, <1>2, <1>3, <2>1
<1>5. \A k \in 1..ValidLength(h) : k \in 1..ValidLength(j) /\ h[k] = j[k]
  BY <1>1, <1>2, <1>3, <1>4
<1>6. Committed(h) \subseteq Committed(j)
  <2> SUFFICES ASSUME NEW k \in Committed(h) PROVE k \in Committed(j)
    OBVIOUS
  <2>1. PICK n \in 1..ValidLength(h) :
           h[n].kind = "commit" /\ k = Kept(h[n].gen, h[n].content)
    BY <1>1, CommittedIs
  <2> QED BY <1>5, <2>1, CommittedIs
<1> QED BY <1>1, <1>6 DEF h

(* Numbers at the places of a journal have a greatest one.                 *)
LEMMA GreatestOf ==
    ASSUME NEW N \in Nat, NEW f \in [1..N -> Nat], NEW T \in SUBSET (1..N), T # {}
    PROVE  \E m \in T : \A k \in T : f[k] <= f[m]
<1> DEFINE Fails(n) == \E U \in SUBSET (1..n) :
                          U # {} /\ ~\E m \in U : \A k \in U : f[k] <= f[m]
           Bad == {n \in 0..N : Fails(n)}
<1> SUFFICES ASSUME Bad # {} PROVE FALSE
  <2>1. N \notin Bad
    OBVIOUS
  <2> QED BY <2>1
<1>1. PICK n \in Bad : \A k \in Bad : n <= k
  <2>1. Bad \in SUBSET Nat
    OBVIOUS
  <2> QED BY <2>1, Smallest
<1>2. PICK U \in SUBSET (1..n) : U # {} /\ ~\E m \in U : \A k \in U : f[k] <= f[m]
  BY <1>1
<1>3. n \in 1..N /\ n - 1 \in 0..N
  <2>1. PICK k \in U : k \in 1..n
    BY <1>2
  <2> QED BY <1>1, <2>1
<1>4. n - 1 \notin Bad
  <2>1. ~(n <= n - 1)
    BY <1>3
  <2> QED BY <1>1, <2>1
<1>5. \A V \in SUBSET (1..(n - 1)) : V = {} \/ \E m \in V : \A k \in V : f[k] <= f[m]
  BY <1>3, <1>4
<1>6. n \in U
  <2> SUFFICES ASSUME n \notin U PROVE FALSE
    OBVIOUS
  <2>1. U \in SUBSET (1..(n - 1))
    BY <1>3
  <2> QED BY <1>2, <1>5, <2>1
<1>7. U \ {n} \in SUBSET (1..(n - 1))
  BY <1>3
<1>8. U \ {n} # {}
  BY <1>2, <1>3, <1>6
<1>9. PICK m \in U \ {n} : \A k \in U \ {n} : f[k] <= f[m]
  BY <1>5, <1>7, <1>8
<1>10. f[n] \in Nat /\ f[m] \in Nat
  BY <1>3
<1>11. \A k \in U : f[k] \in Nat
  BY <1>3
<1>12. CASE f[n] <= f[m]
  BY <1>2, <1>9, <1>12
<1>13. CASE f[m] <= f[n]
  <2>1. \A k \in U : f[k] <= f[n]
    BY <1>9, <1>10, <1>11, <1>13
  <2> QED BY <1>2, <1>6, <2>1
<1> QED BY <1>10, <1>12, <1>13

(* A set of committed generations is finite and has a newest one.          *)
LEMMA NewestIs ==
    ASSUME NEW j \in Seq(Records), NEW S \in SUBSET Committed(j)
    PROVE  /\ S = {} => Newest(S) = Nothing
           /\ S # {} => /\ Newest(S) \in S
                        /\ Newest(S) # Nothing
                        /\ \A o \in S : o.gen <= Newest(S).gen
<1>1. S = {} => Newest(S) = Nothing
  BY DEF Newest
<1>2. ASSUME S # {}
      PROVE  \E k \in S : \A o \in S : o.gen <= k.gen
  <2> DEFINE N == Len(j)
             f == [n \in 1..N |-> j[n].gen]
             T == {n \in 1..ValidLength(j) : Kept(j[n].gen, j[n].content) \in S}
  <2>1. N \in Nat /\ ValidLength(j) \in 0..N
    BY ValidLengthIs
  <2>2. f \in [1..N -> Nat]
    BY RecordFacts
  <2>3. T \in SUBSET (1..N) /\ T # {}
    <3>1. PICK k \in S : TRUE
      BY <1>2
    <3> QED BY <2>1, <3>1, CommittedIs
  <2>4. PICK m \in T : \A n \in T : f[n] <= f[m]
    <3> HIDE DEF f, T
    <3> QED BY <2>1, <2>2, <2>3, GreatestOf
  <2>5. \A n \in T : f[n] = j[n].gen
    BY <2>3
  <2>6. ASSUME NEW o \in S
        PROVE  o.gen <= Kept(j[m].gen, j[m].content).gen
    <3>1. PICK n \in T : o = Kept(j[n].gen, j[n].content)
      BY CommittedIs
    <3> QED BY <2>4, <2>5, <3>1 DEF Kept
  <2>7. Kept(j[m].gen, j[m].content) \in S
    OBVIOUS
  <2> QED BY <2>6, <2>7
<1>3. \A k \in S : k # Nothing
  <2>1. \A k \in S : k.gen \in Generations
    BY CommittedIs DEF Entries
  <2> QED BY <2>1, StoreAssumption DEF Nothing, Kept
<1> QED BY <1>1, <1>2, <1>3 DEF Newest

LEMMA CommittedFinite ==
    ASSUME NEW j \in Seq(Records)
    PROVE  IsFiniteSet(Committed(j))
<1> DEFINE T == {n \in 1..ValidLength(j) : j[n].kind = "commit"}
           f == [n \in T |-> Kept(j[n].gen, j[n].content)]
<1>1. ValidLength(j) \in Nat
  BY ValidLengthIs
<1>2. IsFiniteSet(T)
  <2>1. IsFiniteSet(1..ValidLength(j))
    BY <1>1, FS_Interval
  <2>2. T \in SUBSET (1..ValidLength(j))
    OBVIOUS
  <2> QED BY <2>1, <2>2, FS_Subset
<1>3. f \in Surjection(T, Committed(j))
  BY CommittedIs DEF Surjection
<1> QED BY <1>2, <1>3, FS_Surjection
--------------------------------------------------------------------------------
(* The journal a compaction writes.                                        *)

(* Ranked counts the entries of a set through, in ascending order.         *)
LEMMA RankedIs ==
    ASSUME NEW S \in SUBSET Entries, IsFiniteSet(S),
           \A k, o \in S : k.gen = o.gen => k = o
    PROVE  /\ Cardinality(S) \in Nat
           /\ \A n \in 1..Cardinality(S) : Ranked(S, n) \in S
           /\ \A k \in S : \E n \in 1..Cardinality(S) : k = Ranked(S, n)
           /\ \A m, n \in 1..Cardinality(S) : m < n => Ranked(S, m).gen < Ranked(S, n).gen
<1> DEFINE Upto(k) == {o \in S : o.gen <= k.gen}
           N == Cardinality(S)
           rank == [k \in S |-> Cardinality(Upto(k))]
<1>1. N \in Nat
  BY FS_CardinalityType
<1>2. \A k \in S : k.gen \in Nat
  BY StoreAssumption DEF Entries
<1>3. ASSUME NEW k \in S
      PROVE  /\ IsFiniteSet(Upto(k)) /\ Cardinality(Upto(k)) \in 1..N
  <2>1. Upto(k) \in SUBSET S /\ k \in Upto(k)
    BY <1>2
  <2> HIDE DEF Upto
  <2>2. IsFiniteSet(Upto(k)) /\ Cardinality(Upto(k)) <= N
    BY <2>1, FS_Subset
  <2>3. Cardinality(Upto(k)) \in Nat /\ Cardinality(Upto(k)) # 0
    BY <2>1, <2>2, FS_CardinalityType, FS_EmptySet
  <2> QED BY <1>1, <2>2, <2>3
<1>4. ASSUME NEW k \in S, NEW o \in S, k.gen < o.gen
      PROVE  rank[k] < rank[o]
  <2>1. /\ Upto(k) \in SUBSET Upto(o)
        /\ o \in Upto(o) /\ o \notin Upto(k)
    BY <1>2, <1>4
  <2>2. /\ IsFiniteSet(Upto(k)) /\ IsFiniteSet(Upto(o))
        /\ Cardinality(Upto(k)) \in Nat /\ Cardinality(Upto(o)) \in Nat
    <3> HIDE DEF Upto
    <3> QED BY <1>1, <1>3
  <2>3. rank[k] = Cardinality(Upto(k)) /\ rank[o] = Cardinality(Upto(o))
    OBVIOUS
  <2> HIDE DEF Upto, rank
  <2>4. /\ Cardinality(Upto(k)) <= Cardinality(Upto(o))
        /\ Cardinality(Upto(k)) # Cardinality(Upto(o))
    BY <2>1, <2>2, FS_Subset
  <2> QED BY <2>2, <2>3, <2>4
<1>5. \A k \in S : rank[k] \in 1..N
  BY <1>3
<1>6. \A k, o \in S : rank[k] = rank[o] => k = o
  <2> HIDE DEF rank
  <2> SUFFICES ASSUME NEW k \in S, NEW o \in S, rank[k] = rank[o] PROVE k.gen = o.gen
    OBVIOUS
  <2> QED BY <1>2, <1>4, <1>5
<1>7. \A n \in 1..N : \E k \in S : rank[k] = n
  <2>1. rank \in Injection(S, 1..N)
    <3>1. rank \in [S -> 1..N]
      BY <1>5
    <3> HIDE DEF rank
    <3> QED BY <1>6, <3>1 DEF Injection, IsInjective
  <2>2. IsFiniteSet(1..N) /\ Cardinality(1..N) = N
    BY <1>1, FS_Interval
  <2> HIDE DEF rank
  <2>3. rank \in Surjection(S, 1..N)
    BY <2>1, <2>2, FS_Injection
  <2> QED BY <2>3 DEF Surjection
<1>8. ASSUME NEW n \in 1..N
      PROVE  Ranked(S, n) \in S /\ rank[Ranked(S, n)] = n
  <2>1. Ranked(S, n) = CHOOSE k \in S : Cardinality(Upto(k)) = n
    BY DEF Ranked
  <2>2. PICK k \in S : Cardinality(Upto(k)) = n
    BY <1>7
  <2> HIDE DEF Upto
  <2>3. Ranked(S, n) \in S /\ Cardinality(Upto(Ranked(S, n))) = n
    BY <2>1, <2>2
  <2> QED BY <2>3
<1>9. ASSUME NEW m \in 1..N, NEW n \in 1..N, m < n
      PROVE  Ranked(S, m).gen < Ranked(S, n).gen
  <2> HIDE DEF rank
  <2>1. /\ Ranked(S, m) \in S /\ rank[Ranked(S, m)] = m
        /\ Ranked(S, n) \in S /\ rank[Ranked(S, n)] = n
    BY <1>8
  <2>2. Ranked(S, n).gen # Ranked(S, m).gen
    BY <2>1, <1>9
  <2>3. ~(Ranked(S, n).gen < Ranked(S, m).gen)
    BY <2>1, <1>4, <1>9
  <2> QED BY <1>2, <2>1, <2>2, <2>3
<1>10. \A k \in S : k = Ranked(S, rank[k])
  <2> HIDE DEF rank
  <2> QED BY <1>5, <1>6, <1>8
<1> QED BY <1>1, <1>5, <1>8, <1>9, <1>10

(* Compaction writes a journal that is valid to its end and commits        *)
(* exactly the retained generations.                                       *)
LEMMA CompactedIs ==
    ASSUME NEW S \in SUBSET Entries, IsFiniteSet(S),
           \A k, o \in S : k.gen = o.gen => k = o
    PROVE  /\ CompactedRecords(S) \in Seq(Records)
           /\ Len(CompactedRecords(S)) = 2 * Cardinality(S)
           /\ ValidLength(CompactedRecords(S)) = Len(CompactedRecords(S))
           /\ Committed(CompactedRecords(S)) = S
<1> DEFINE N == Cardinality(S)
           J == CompactedRecords(S)
           K(i) == Ranked(S, (i + 1) \div 2)
           kind(i) == IF i % 2 = 1 THEN "prepare" ELSE "commit"
<1>1. /\ N \in Nat
      /\ \A n \in 1..N : Ranked(S, n) \in S
      /\ \A k \in S : \E n \in 1..N : k = Ranked(S, n)
      /\ \A m, n \in 1..N : m < n => Ranked(S, m).gen < Ranked(S, n).gen
  BY RankedIs
<1>2. \A i \in 1..(2 * N) : (i + 1) \div 2 \in 1..N
  BY <1>1
<1>3. \A i \in 1..(2 * N) : K(i) \in S /\ J[i] = Record(kind(i), K(i).gen, K(i).content)
  BY <1>1, <1>2 DEF CompactedRecords
<1>4. \A i \in 1..(2 * N) : J[i] \in Records \ {Torn}
  BY <1>3, RecordFacts DEF Entries
<1>5. J \in Seq(Records) /\ Len(J) = 2 * N
  <2>1. DOMAIN J = 1..(2 * N) /\ 2 * N \in Nat
    BY <1>1 DEF CompactedRecords
  <2>2. J = [i \in 1..(2 * N) |-> J[i]]
    BY DEF CompactedRecords
  <2> HIDE DEF J
  <2> QED BY <1>4, <2>1, <2>2
<1>6. \A i \in 1..(2 * N) : /\ J[i].kind = kind(i)
                           /\ J[i].gen = K(i).gen
                           /\ J[i].content = K(i).content
  <2>1. \A x, y, z : /\ Record(x, y, z).kind = x
                     /\ Record(x, y, z).gen = y
                     /\ Record(x, y, z).content = z
    BY DEF Record
  <2> HIDE DEF J, K, kind
  <2> QED BY <1>3, <2>1
<1>7. \A i, m \in 1..(2 * N) : J[i].gen = J[m].gen => (i + 1) \div 2 = (m + 1) \div 2
  <2> TAKE i, m \in 1..(2 * N)
  <2>1. J[i].gen = K(i).gen /\ J[m].gen = K(m).gen /\ K(i).gen \in Nat /\ K(m).gen \in Nat
    BY <1>3, <1>6, StoreAssumption DEF Entries
  <2>2. (i + 1) \div 2 \in 1..N /\ (m + 1) \div 2 \in 1..N
    BY <1>2
  <2> DEFINE x == (i + 1) \div 2
             y == (m + 1) \div 2
  <2> HIDE DEF x, y, J
  <2>3. x \in 1..N /\ y \in 1..N /\ J[i].gen = Ranked(S, x).gen /\ J[m].gen = Ranked(S, y).gen
        /\ Ranked(S, x).gen \in Nat /\ Ranked(S, y).gen \in Nat
    BY <2>1, <2>2 DEF x, y
  <2>4. J[i].gen = J[m].gen => ~(x < y) /\ ~(y < x)
    <3>1. x < y => Ranked(S, x).gen < Ranked(S, y).gen
      BY <1>1, <2>3
    <3>2. y < x => Ranked(S, y).gen < Ranked(S, x).gen
      BY <1>1, <2>3
    <3> QED BY <2>3, <3>1, <3>2
  <2>5. J[i].gen = J[m].gen => x = y
    BY <2>3, <2>4
  <2> QED BY <2>5 DEF x, y
<1> HIDE DEF J
<1>8. ASSUME NEW i \in 1..(2 * N) PROVE WellFormed(J, i)
  <2>1. i \in Nat /\ J[i] # Torn
    BY <1>1, <1>4
  <2>2. \A n \in 1..(i - 1) : n \in 1..(2 * N) /\ n < i
    BY <1>1
  <2>3. \A n \in 1..(i - 1) : J[n].gen = J[i].gen => J[n].content = J[i].content
    BY <1>6, <1>7, <2>2
  <2>4. CASE i % 2 = 1
    <3>1. \A n \in 1..(i - 1) : (n + 1) \div 2 # (i + 1) \div 2
      BY <2>1, <2>4
    <3>2. \A n \in 1..(i - 1) : J[n].gen # J[i].gen
      BY <1>7, <2>2, <3>1
    <3>3. J[i].kind = "prepare"
      BY <1>6, <2>4
    <3> QED BY <2>1, <3>2, <3>3, WellFormedIs
  <2>5. CASE i % 2 # 1
    <3>1. /\ i - 1 \in 1..(i - 1)
          /\ (i - 1) % 2 = 1
          /\ (i - 1 + 1) \div 2 = (i + 1) \div 2
      BY <2>1, <2>5
    <3>2. J[i - 1].kind = "prepare" /\ J[i - 1].gen = J[i].gen
      BY <1>6, <2>2, <3>1
    <3>3. J[i].kind # "prepare"
      BY <1>6, <2>5
    <3> QED BY <2>1, <2>3, <3>1, <3>2, <3>3, WellFormedIs
  <2> QED BY <2>4, <2>5
<1>9. ValidLength(J) = 2 * N
  <2>1. /\ ValidLength(J) \in 0..(2 * N)
        /\ \A n \in 0..(2 * N) : (\A i \in 1..n : WellFormed(J, i)) => n <= ValidLength(J)
    BY <1>1, <1>5, ValidLengthIs
  <2>2. 2 * N \in 0..(2 * N)
    BY <1>1
  <2>3. 2 * N <= ValidLength(J)
    BY <1>8, <2>1, <2>2
  <2> QED BY <1>1, <2>1, <2>3
<1>10. Committed(J) \subseteq S
  <2> SUFFICES ASSUME NEW k \in Committed(J) PROVE k \in S
    OBVIOUS
  <2>1. PICK n \in 1..(2 * N) : k = Kept(J[n].gen, J[n].content)
    BY <1>5, <1>9, CommittedIs
  <2>2. K(n) \in S /\ k = Kept(K(n).gen, K(n).content)
    BY <1>3, <1>6, <2>1
  <2> HIDE DEF K
  <2>3. \A e \in Entries : e = Kept(e.gen, e.content)
    BY DEF Entries, Kept
  <2> QED BY <2>2, <2>3
<1>11. S \subseteq Committed(J)
  <2> SUFFICES ASSUME NEW k \in S PROVE k \in Committed(J)
    OBVIOUS
  <2>1. PICK n \in 1..N : k = Ranked(S, n)
    BY <1>1
  <2>2. /\ 2 * n \in 1..(2 * N)
        /\ (2 * n) % 2 # 1
        /\ (2 * n + 1) \div 2 = n
    BY <1>1
  <2>3. J[2 * n].kind = "commit" /\ J[2 * n].gen = k.gen /\ J[2 * n].content = k.content
    BY <1>6, <2>1, <2>2
  <2>4. k = Kept(J[2 * n].gen, J[2 * n].content)
    BY <2>3 DEF Entries, Kept
  <2> QED BY <1>5, <1>9, <2>2, <2>3, <2>4, CommittedIs
<1>12. Committed(J) = S
  BY <1>10, <1>11
<1> QED BY <1>5, <1>9, <1>12 DEF J
--------------------------------------------------------------------------------
(* The inductive invariant: which operation can be where with which        *)
(* locals, the room left in the journal, and, for a publication that has   *)
(* passed its check, that nothing recoverable is newer than its target.    *)

OpIsConsistent ==
    /\ op \in [at : Places, kind : {"none", "publish", "recover", "compact"},
               target : Targets, retain : Nat, second : BOOLEAN,
               authority : Targets, retained : SUBSET Generations,
               result : {"none", "success", "failure", "interrupted"}]
    /\ op.at = "idle" <=> op.kind = "none"
    /\ op.kind = "publish" => op.target \in Entries
    /\ op.kind = "compact" => op.retain \in Retains
    /\ op.at \in {"clear", "prepare", "link", "commit"} => op.kind = "publish"
    /\ op.at \in {"replace", "sweep"} => op.kind = "compact"

JournalHasRoom ==
    /\ op.kind = "publish" /\ ~op.second /\ op.at \in {"load", "scan", "clear", "prepare"}
          => Len(journal) + 2 <= MaxRecords
    /\ op.at \in {"link", "commit"} => Len(journal) + 1 <= MaxRecords
    /\ op.at \in {"clear", "prepare", "link", "commit"} => ~op.second

NothingNewer ==
    /\ op.at \in {"clear", "prepare", "link"} =>
          \A k \in Recoverable : k.gen < op.target.gen
    /\ op.at = "commit" => \A k \in Recoverable : k.gen < op.target.gen \/ k = op.target
    /\ op.at = "sweep" => \A k \in Recoverable : k.gen \in op.retained

StoreInv == StoreTypeOK /\ OpIsConsistent /\ JournalHasRoom /\ NothingNewer
--------------------------------------------------------------------------------
(* What each step on the disk does to what can be recovered from it.       *)

LEMMA RecoverableIs ==
    ASSUME StoreTypeOK
    PROVE  /\ Recoverable \subseteq Committed(journal)
           /\ Recoverable \subseteq Entries
           /\ Recoverable \subseteq Candidates
           /\ Candidates \subseteq Committed(journal)
           /\ Retainable = Recoverable
           /\ \A k, o \in Committed(journal) : k.gen = o.gen => k = o
<1>1. /\ journal \in Seq(Records)
      /\ Committed(journal) \subseteq Entries
      /\ \A k, o \in Committed(journal) : k.gen = o.gen => k = o
  BY CommittedIs DEF StoreTypeOK
<1>2. \A k \in Committed(journal) : k.content # NoContent
  BY <1>1, StoreAssumption DEF Entries
<1> QED BY <1>1, <1>2 DEF Recoverable, Candidates, Retainable, Intact

LEMMA FoundIs ==
    ASSUME StoreTypeOK
    PROVE  /\ Candidates = {} => Found = Nothing
           /\ Candidates # {} => /\ Found \in Candidates
                                 /\ Found # Nothing
                                 /\ Found \in Entries
                                 /\ \A o \in Candidates : o.gen <= Found.gen
<1>1. journal \in Seq(Records) /\ Candidates \in SUBSET Committed(journal)
  BY DEF StoreTypeOK, Candidates
<1>2. Candidates \subseteq Entries
  BY <1>1, CommittedIs
<1> QED BY <1>1, <1>2, NewestIs DEF Found

LEMMA RepairKeeps ==
    ASSUME StoreTypeOK, journal' = ValidPrefix(journal), manifest' = manifest
    PROVE  Recoverable' = Recoverable
BY CommittedPrefix DEF StoreTypeOK, Recoverable

LEMMA AppendKeeps ==
    ASSUME StoreTypeOK, NEW r \in Records, r.kind # "commit",
           journal' = Append(journal, r), manifest' = manifest
    PROVE  Recoverable' = Recoverable
BY CommittedAppend DEF StoreTypeOK, Recoverable

(* Removing a manifest that no recoverable generation needs.               *)
LEMMA QuarantineKeeps ==
    ASSUME StoreTypeOK, NEW g \in Generations, Quarantine(g), journal' = journal,
           \A k \in Recoverable : k.gen # g
    PROVE  Recoverable' = Recoverable
<1>1. manifest \in [Generations -> Contents \cup {NoContent, Damaged}]
  BY DEF StoreTypeOK
<1>2. /\ manifest'[g] = NoContent
      /\ \A f \in Generations : f # g => manifest'[f] = manifest[f]
  BY <1>1 DEF Quarantine
<1>3. \A k \in Committed(journal) : k.gen \in Generations /\ k.content # NoContent
  BY CommittedIs, StoreAssumption DEF StoreTypeOK, Entries
<1> QED BY <1>2, <1>3 DEF Recoverable

LEMMA LinkPromotes ==
    ASSUME StoreInv, LinkManifest
    PROVE  Recoverable' \in {Recoverable, Recoverable \cup {op.target}}
<1>1. /\ manifest \in [Generations -> Contents \cup {NoContent, Damaged}]
      /\ op.target \in Entries
      /\ journal \in Seq(Records)
  BY DEF StoreInv, StoreTypeOK, OpIsConsistent, LinkManifest
<1>2. /\ manifest[op.target.gen] = NoContent
      /\ manifest'[op.target.gen] = op.target.content
      /\ \A f \in Generations : f # op.target.gen => manifest'[f] = manifest[f]
      /\ journal' = journal
  BY <1>1 DEF LinkManifest, Entries
<1>3. \A k \in Committed(journal) : k \in Entries /\ k.content # NoContent
  BY <1>1, CommittedIs, StoreAssumption DEF Entries
<1>4. \A k \in Entries : k.gen = op.target.gen /\ k.content = op.target.content => k = op.target
  BY <1>1 DEF Entries
<1>5. Recoverable = {k \in Committed(journal) : manifest[k.gen] = k.content}
  BY DEF Recoverable
<1>6. Recoverable' = {k \in Committed(journal) : manifest'[k.gen] = k.content}
  BY <1>2 DEF Recoverable
<1>7. \A k \in Recoverable : k \in Recoverable'
  BY <1>2, <1>3, <1>5, <1>6 DEF Entries
<1>8. \A k \in Recoverable' : k \in Recoverable \/ k = op.target
  BY <1>2, <1>3, <1>4, <1>5, <1>6 DEF Entries
<1> QED BY <1>7, <1>8

LEMMA CommitPromotes ==
    ASSUME StoreInv, AppendCommit
    PROVE  Recoverable' \in {Recoverable, Recoverable \cup {op.target}}
<1>1. journal \in Seq(Records) /\ op.target \in Entries
  BY DEF StoreInv, StoreTypeOK, OpIsConsistent, AppendCommit
<1> DEFINE r == Record("commit", op.target.gen, op.target.content)
<1>2. r \in Records /\ Kept(r.gen, r.content) = op.target
  BY <1>1, RecordFacts DEF Entries, Kept, Record
<1>3. journal' = Append(journal, r) /\ manifest' = manifest
  BY DEF AppendCommit, AppendRecord
<1> HIDE DEF r
<1>4. Committed(journal') \in {Committed(journal), Committed(journal) \cup {op.target}}
  BY <1>1, <1>2, <1>3, CommittedAppend
<1>5. Recoverable' = {k \in Committed(journal') : manifest[k.gen] = k.content}
  BY <1>3 DEF Recoverable
<1> QED BY <1>4, <1>5 DEF Recoverable

LEMMA CompactionRetains ==
    ASSUME StoreInv, ReplaceJournal
    PROVE  LET retained == NewestOf(Recoverable, op.retain) IN
           /\ journal' = CompactedRecords(retained)
           /\ op'.retained = {k.gen : k \in retained}
           /\ CompactedRecords(retained) \in Seq(Records)
           /\ Len(CompactedRecords(retained)) = 2 * Cardinality(retained)
           /\ ValidLength(CompactedRecords(retained)) = Len(CompactedRecords(retained))
           /\ Committed(journal') = retained
           /\ Recoverable' = retained
<1> DEFINE retained == NewestOf(Recoverable, op.retain)
<1>1. journal \in Seq(Records) /\ Retainable = Recoverable
  BY RecoverableIs DEF StoreInv, StoreTypeOK
<1>2. /\ journal' = CompactedRecords(retained)
      /\ manifest' = manifest
      /\ op'.retained = {k.gen : k \in retained}
  BY <1>1 DEF ReplaceJournal, JournalOf, StoreInv, OpIsConsistent
<1>3. retained \in SUBSET Recoverable
  BY DEF NewestOf
<1> HIDE DEF retained
<1>4. /\ retained \in SUBSET Entries
      /\ \A k, o \in retained : k.gen = o.gen => k = o
      /\ retained \in SUBSET Committed(journal)
  BY <1>3, RecoverableIs DEF StoreInv
<1>5. IsFiniteSet(retained)
  BY <1>1, <1>4, CommittedFinite, FS_Subset
<1>6. /\ CompactedRecords(retained) \in Seq(Records)
      /\ Len(CompactedRecords(retained)) = 2 * Cardinality(retained)
      /\ ValidLength(CompactedRecords(retained)) = Len(CompactedRecords(retained))
      /\ Committed(CompactedRecords(retained)) = retained
  BY <1>4, <1>5, CompactedIs
<1>7. Recoverable' = {k \in retained : manifest[k.gen] = k.content}
  BY <1>2, <1>6 DEF Recoverable
<1>8. Recoverable' = retained
  BY <1>3, <1>7 DEF Recoverable
<1> QED BY <1>2, <1>6, <1>8 DEF retained

(* A fault of the medium makes nothing recoverable that was not before.    *)
LEMMA MediumLoses ==
    ASSUME StoreTypeOK, MediumFails
    PROVE  /\ journal' \in Seq(Records)
           /\ Len(journal') = Len(journal)
           /\ manifest' \in [Generations -> Contents \cup {NoContent, Damaged}]
           /\ Recoverable' \subseteq Recoverable
<1>1. /\ journal \in Seq(Records)
      /\ manifest \in [Generations -> Contents \cup {NoContent, Damaged}]
  BY DEF StoreTypeOK
<1>2. CASE \E g \in Generations : /\ manifest[g] \in Contents
                                 /\ manifest' = [manifest EXCEPT ![g] = Damaged]
                                 /\ UNCHANGED journal
  <2>1. PICK g \in Generations : /\ manifest' = [manifest EXCEPT ![g] = Damaged]
                                 /\ journal' = journal
    BY <1>2
  <2>2. \A k \in Committed(journal) : k.gen \in Generations /\ k.content \in Contents
    BY <1>1, CommittedIs DEF Entries
  <2>3. \A k \in Committed(journal) : manifest'[k.gen] = k.content => manifest[k.gen] = k.content
    BY <1>1, <2>1, <2>2, StoreAssumption
  <2>4. Recoverable' = {k \in Committed(journal) : manifest'[k.gen] = k.content}
    BY <2>1 DEF Recoverable
  <2>5. Recoverable' \subseteq Recoverable
    BY <2>3, <2>4 DEF Recoverable
  <2> QED BY <1>1, <2>1, <2>5
<1>3. CASE \E i \in 1..Len(journal) : /\ journal[i] # Torn
                                     /\ journal' = [journal EXCEPT ![i] = Torn]
                                     /\ UNCHANGED manifest
  <2>1. PICK i \in 1..Len(journal) : /\ journal' = [journal EXCEPT ![i] = Torn]
                                     /\ manifest' = manifest
    BY <1>3
  <2>2. /\ journal' \in Seq(Records)
        /\ Len(journal') = Len(journal)
        /\ Committed(journal') \subseteq Committed(journal)
    BY <1>1, <2>1, CommittedDamaged
  <2>3. Recoverable' \subseteq Recoverable
    BY <2>1, <2>2 DEF Recoverable
  <2> QED BY <1>1, <2>1, <2>2, <2>3
<1> QED BY <1>2, <1>3 DEF MediumFails

(* Every committed generation has a PREPARE and a COMMIT record of its own *)
(* in the journal, so that what compaction writes is no longer.            *)
LEMMA CompactionFits ==
    ASSUME NEW j \in Seq(Records), NEW S \in SUBSET Committed(j)
    PROVE  IsFiniteSet(S) /\ Cardinality(S) \in Nat /\ 2 * Cardinality(S) <= Len(j)
<1> DEFINE v == ValidLength(j)
           C == {n \in 1..v : j[n].kind = "commit"}
           P == {n \in 1..v : j[n].kind = "prepare"}
           c == [k \in S |-> CHOOSE n \in C : k = Kept(j[n].gen, j[n].content)]
           p == [k \in S |-> CHOOSE n \in P : k.gen = j[n].gen]
<1>1. v \in 0..Len(j) /\ v \in Nat /\ Len(j) \in Nat
  BY ValidLengthIs
<1>2. \A i \in 1..v : WellFormed(j, i)
  BY ValidLengthIs
<1> HIDE DEF v
<1>3. \A k \in S : \E n \in C : k = Kept(j[n].gen, j[n].content)
  BY CommittedIs DEF v
<1>4. \A k \in S : \E n \in P : k.gen = j[n].gen
  <2> TAKE k \in S
  <2>1. PICK n \in C : k = Kept(j[n].gen, j[n].content)
    BY <1>3
  <2>2. PICK m \in 1..(n - 1) : j[m].gen = j[n].gen /\ j[m].kind = "prepare"
    BY <1>1, <1>2, WellFormedIs
  <2>3. m \in P
    BY <1>1, <2>2
  <2>4. k.gen = j[n].gen
    BY <2>1 DEF Kept
  <2> QED BY <2>2, <2>3, <2>4
<1>5. IsFiniteSet(1..v) /\ Cardinality(1..v) = v
  BY <1>1, FS_Interval
<1>6. /\ C \in SUBSET (1..v) /\ P \in SUBSET (1..v) /\ C \cup P \in SUBSET (1..v)
      /\ C \cap P = {}
  OBVIOUS
<1>7. /\ \A k \in S : c[k] \in C /\ k = Kept(j[c[k]].gen, j[c[k]].content)
      /\ c \in [S -> C]
  <2> HIDE DEF C
  <2> QED BY <1>3
<1>8. /\ \A k \in S : p[k] \in P /\ k.gen = j[p[k]].gen
      /\ p \in [S -> P]
  <2> HIDE DEF P
  <2> QED BY <1>4
<1>9. \A k, o \in S : k.gen = o.gen => k = o
  BY CommittedIs
<1> HIDE DEF C, P, c, p
<1>10. /\ IsFiniteSet(C) /\ IsFiniteSet(P) /\ IsFiniteSet(C \cup P)
       /\ Cardinality(C \cup P) <= v
  <2>1. \A T \in SUBSET (1..v) : IsFiniteSet(T) /\ Cardinality(T) <= Cardinality(1..v)
    BY <1>5, FS_Subset
  <2> QED BY <1>5, <1>6, <2>1
<1>11. /\ Cardinality(C) \in Nat /\ Cardinality(P) \in Nat
       /\ Cardinality(C \cup P) = Cardinality(C) + Cardinality(P)
  <2>1. Cardinality(C \cup P) = Cardinality(C) + Cardinality(P) - Cardinality(C \cap P)
    BY <1>10, FS_Union
  <2>2. Cardinality(C \cap P) = 0
    BY <1>6, FS_EmptySet
  <2>3. Cardinality(C) \in Nat /\ Cardinality(P) \in Nat
    BY <1>10, FS_CardinalityType
  <2> QED BY <2>1, <2>2, <2>3
<1>12. c \in Injection(S, C)
  BY <1>7 DEF Injection, IsInjective
<1>13. p \in Injection(S, P)
  BY <1>8, <1>9 DEF Injection, IsInjective
<1>14. IsFiniteSet(S) /\ Cardinality(S) <= Cardinality(C)
  BY <1>10, <1>12, FS_Injection
<1>15. Cardinality(S) <= Cardinality(P)
  BY <1>10, <1>13, FS_Injection
<1>16. Cardinality(S) \in Nat
  BY <1>14, FS_CardinalityType
<1> QED BY <1>1, <1>10, <1>11, <1>14, <1>15, <1>16
--------------------------------------------------------------------------------
(* The invariant holds at the start and is kept by every step.             *)

LEMMA StoreInvInit == Init => StoreInv
<1> SUFFICES ASSUME Init PROVE StoreInv
  OBVIOUS
<1>1. Recoverable = {}
  <2>1. <<>> \in Seq(Records) /\ Len(<<>>) = 0
    OBVIOUS
  <2>2. ValidLength(<<>>) = 0
    BY <2>1, ValidLengthIs
  <2>3. Committed(<<>>) = {}
    BY <2>2 DEF Committed
  <2> QED BY <2>3 DEF Init, Recoverable
<1>2. StoreTypeOK
  BY StoreAssumption DEF Init, StoreTypeOK, Idle, Places, Targets, Nothing, Kept
<1>3. OpIsConsistent
  BY DEF Init, OpIsConsistent, Idle, Places, Targets, Nothing, Kept
<1> QED BY <1>1, <1>2, <1>3 DEF Init, StoreInv, JournalHasRoom, NothingNewer, Idle

(* What a step that leaves the disk alone must say of the operation.       *)
LEMMA DiskAlone ==
    ASSUME StoreInv, UNCHANGED <<disk, faults>>,
           OpIsConsistent', JournalHasRoom',
           op'.at \notin {"clear", "prepare", "link", "commit", "sweep"}
    PROVE  StoreInv' /\ Recoverable' = Recoverable
<1>1. Recoverable' = Recoverable
  BY DEF disk, Recoverable
<1>2. StoreTypeOK'
  BY DEF StoreInv, StoreTypeOK, OpIsConsistent, disk
<1>3. NothingNewer'
  BY DEF NothingNewer
<1> QED BY <1>1, <1>2, <1>3 DEF StoreInv

LEMMA IdleKeeps ==
    ASSUME NEW result \in {"none", "success", "failure", "interrupted"}, op' = Idle(result)
    PROVE  OpIsConsistent' /\ JournalHasRoom' /\ NothingNewer'
BY DEF OpIsConsistent, JournalHasRoom, NothingNewer, Idle, Places, Targets, Nothing, Kept

LEMMA ReturnKeeps ==
    ASSUME StoreInv, UNCHANGED <<disk, faults>>,
           NEW result \in {"none", "success", "failure", "interrupted"}, Return(result)
    PROVE  StoreInv' /\ Recoverable' = Recoverable
<1>1. op' = Idle(result)
  BY DEF Return
<1>2. op'.at = "idle"
  BY <1>1 DEF Idle
<1> QED BY <1>1, <1>2, IdleKeeps, DiskAlone

LEMMA StoreInvStep == StoreInv /\ [Next]_vars => StoreInv'
<1> SUFFICES ASSUME StoreInv, [Next]_vars PROVE StoreInv'
  OBVIOUS
<1> USE DEF Idle, Goto, Kept, Nothing, Places, Targets
<1>1. ASSUME NEW g \in Generations, NEW c \in Contents, BeginPublish(g, c) PROVE StoreInv'
  <2>1. OpIsConsistent' /\ JournalHasRoom'
    BY <1>1 DEF BeginPublish, OpIsConsistent, JournalHasRoom, Entries, disk
  <2> QED BY <1>1, <2>1, DiskAlone DEF BeginPublish
<1>2. CASE BeginRecover
  <2>1. OpIsConsistent' /\ JournalHasRoom'
    BY <1>2 DEF BeginRecover, OpIsConsistent, JournalHasRoom
  <2> QED BY <1>2, <2>1, DiskAlone DEF BeginRecover
<1>3. ASSUME NEW n \in Retains, BeginCompact(n) PROVE StoreInv'
  <2>1. n \in Nat
    BY StoreAssumption
  <2>2. OpIsConsistent' /\ JournalHasRoom'
    BY <1>3, <2>1 DEF BeginCompact, OpIsConsistent, JournalHasRoom
  <2> QED BY <1>3, <2>2, DiskAlone DEF BeginCompact
<1>4. CASE RecoverStep
  <2>1. CASE LoadClean
    <3>1. OpIsConsistent' /\ JournalHasRoom'
      BY <2>1 DEF LoadClean, OpIsConsistent, JournalHasRoom, StoreInv, disk
    <3> QED BY <2>1, <3>1, DiskAlone DEF LoadClean, StoreInv, OpIsConsistent
  <2>2. CASE RepairJournal
    <3>1. /\ journal' \in Seq(Records) /\ Len(journal') <= Len(journal)
          /\ Len(journal) \in Nat /\ Len(journal') \in Nat
      BY <2>2, ValidPrefixIs, ValidLengthIs DEF RepairJournal, StoreInv, StoreTypeOK
    <3>2. OpIsConsistent' /\ JournalHasRoom'
      BY SMTT(60), <2>2, <3>1, StoreAssumption DEF RepairJournal, OpIsConsistent, JournalHasRoom, StoreInv
    <3>3. StoreTypeOK'
      BY <2>2, <3>1, <3>2, StoreAssumption DEF RepairJournal, StoreInv, StoreTypeOK, OpIsConsistent
    <3>4. NothingNewer'
      BY <2>2 DEF RepairJournal, NothingNewer, StoreInv, OpIsConsistent
    <3> QED BY <3>2, <3>3, <3>4 DEF StoreInv
  <2>3. CASE QuarantineCorrupt
    <3>1. StoreTypeOK'
      BY <2>3 DEF QuarantineCorrupt, Quarantine, StoreInv, StoreTypeOK
    <3>2. OpIsConsistent' /\ JournalHasRoom' /\ NothingNewer'
      BY <2>3 DEF QuarantineCorrupt, StoreInv, OpIsConsistent, JournalHasRoom, NothingNewer
    <3> QED BY <3>1, <3>2 DEF StoreInv
  <2>4. CASE RecoverReturns
    BY <2>4, ReturnKeeps DEF RecoverReturns
  <2> QED BY <1>4, <2>1, <2>2, <2>3, <2>4 DEF RecoverStep
<1>5. CASE PublishStep
  <2>1. CASE PublishNotNewer
    BY <2>1, ReturnKeeps DEF PublishNotNewer
  <2>2. CASE PublishGoesOn
    <3>1. OpIsConsistent' /\ JournalHasRoom'
      BY <2>2 DEF PublishGoesOn, ScanEnds, OpIsConsistent, JournalHasRoom, StoreInv, disk
    <3>2. StoreTypeOK'
      BY <2>2, <3>1 DEF PublishGoesOn, StoreInv, StoreTypeOK, OpIsConsistent, disk
    <3>3. \A k \in Recoverable : k.gen < op.target.gen
      <4>1. ASSUME NEW k \in Recoverable PROVE k.gen < op.target.gen
        <5>1. k \in Candidates /\ k.gen <= Found.gen
          BY RecoverableIs, FoundIs DEF StoreInv
        <5>2. k.gen \in Nat /\ Found.gen \in Nat /\ op.target.gen \in Nat
          BY <2>2, <5>1, RecoverableIs, FoundIs, StoreAssumption
             DEF StoreInv, OpIsConsistent, Entries, PublishGoesOn, ScanEnds
        <5> QED BY <2>2, <5>1, <5>2 DEF PublishGoesOn
      <4> QED BY <4>1
    <3>4. Recoverable' = Recoverable /\ op'.target = op.target /\ op'.at = "clear"
      BY <2>2 DEF PublishGoesOn, disk, Recoverable, StoreInv, OpIsConsistent
    <3>5. NothingNewer'
      BY <3>3, <3>4 DEF NothingNewer
    <3> QED BY <3>1, <3>2, <3>5 DEF StoreInv
  <2>3. CASE QuarantineUncommitted
    <3>1. /\ \A k \in Recoverable : k.gen < op.target.gen
          /\ op.target \in Entries /\ op.target.gen \in Nat
      BY <2>3, StoreAssumption DEF QuarantineUncommitted, StoreInv, NothingNewer, OpIsConsistent, Entries
    <3>2. StoreTypeOK'
      BY <2>3 DEF QuarantineUncommitted, Quarantine, StoreInv, StoreTypeOK, OpIsConsistent
    <3>3. OpIsConsistent' /\ JournalHasRoom'
      BY <2>3 DEF QuarantineUncommitted, StoreInv, OpIsConsistent, JournalHasRoom
    <3>4. Recoverable' = Recoverable
      <4>1. \A k \in Recoverable : k.gen # op.target.gen
        BY <3>1
      <4>2. CASE manifest' = manifest
        BY <2>3, <4>2 DEF QuarantineUncommitted, Recoverable
      <4>3. CASE Quarantine(op.target.gen)
        BY <2>3, <3>1, <4>1, <4>3, QuarantineKeeps DEF QuarantineUncommitted, StoreInv, Entries
      <4> QED BY <2>3, <4>2, <4>3 DEF QuarantineUncommitted
    <3>5. op'.target = op.target /\ op'.at = "prepare"
      BY <2>3 DEF QuarantineUncommitted, StoreInv, OpIsConsistent
    <3>6. NothingNewer'
      BY <3>1, <3>4, <3>5 DEF NothingNewer
    <3> QED BY <3>2, <3>3, <3>6 DEF StoreInv
  <2>4. CASE AppendPrepare
    <3> DEFINE r == Record("prepare", op.target.gen, op.target.content)
    <3>1. op.target \in Entries /\ r \in Records /\ r.kind # "commit"
      BY <2>4, RecordFacts DEF AppendPrepare, StoreInv, OpIsConsistent, Entries, Record
    <3>2. journal' = Append(journal, r) /\ manifest' = manifest
      BY <2>4 DEF AppendPrepare, AppendRecord
    <3> HIDE DEF r
    <3>3. /\ journal' \in Seq(Records) /\ Len(journal') = Len(journal) + 1
          /\ Len(journal) \in Nat
      BY <3>1, <3>2, AppendIs DEF StoreInv, StoreTypeOK
    <3>4. OpIsConsistent' /\ JournalHasRoom'
      BY SMTT(60), <2>4, <3>3, StoreAssumption DEF AppendPrepare, StoreInv, OpIsConsistent, JournalHasRoom
    <3>5. StoreTypeOK'
      BY <2>4, <3>3, <3>4, StoreAssumption
         DEF AppendPrepare, StoreInv, StoreTypeOK, OpIsConsistent, JournalHasRoom
    <3>6. Recoverable' = Recoverable
      BY <3>1, <3>2, AppendKeeps DEF StoreInv
    <3>7. NothingNewer'
      BY <2>4, <3>6 DEF AppendPrepare, StoreInv, OpIsConsistent, NothingNewer
    <3> QED BY <3>4, <3>5, <3>7 DEF StoreInv
  <2>5. CASE LinkManifest
    <3>1. StoreTypeOK'
      BY <2>5 DEF LinkManifest, StoreInv, StoreTypeOK, OpIsConsistent, Entries
    <3>2. OpIsConsistent' /\ JournalHasRoom'
      BY <2>5 DEF LinkManifest, StoreInv, OpIsConsistent, JournalHasRoom
    <3>3. NothingNewer'
      BY <2>5, LinkPromotes DEF LinkManifest, StoreInv, OpIsConsistent, NothingNewer
    <3> QED BY <3>1, <3>2, <3>3 DEF StoreInv
  <2>6. CASE AppendCommit
    <3> DEFINE r == Record("commit", op.target.gen, op.target.content)
    <3>1. op.target \in Entries /\ r \in Records
      BY <2>6, RecordFacts DEF AppendCommit, StoreInv, OpIsConsistent, Entries
    <3>2. journal' = Append(journal, r) /\ manifest' = manifest
      BY <2>6 DEF AppendCommit, AppendRecord
    <3> HIDE DEF r
    <3>3. /\ journal' \in Seq(Records) /\ Len(journal') = Len(journal) + 1
          /\ Len(journal) \in Nat
      BY <3>1, <3>2, AppendIs DEF StoreInv, StoreTypeOK
    <3>4. OpIsConsistent' /\ JournalHasRoom' /\ NothingNewer'
      BY <2>6 DEF AppendCommit, StoreInv, OpIsConsistent, JournalHasRoom, NothingNewer
    <3>5. StoreTypeOK'
      BY <2>6, <3>3, <3>4, StoreAssumption
         DEF AppendCommit, StoreInv, StoreTypeOK, OpIsConsistent, JournalHasRoom
    <3> QED BY <3>4, <3>5 DEF StoreInv
  <2>7. CASE PublishVerified
    BY <2>7, ReturnKeeps DEF PublishVerified
  <2>8. CASE PublishMismatch
    BY <2>8, ReturnKeeps DEF PublishMismatch
  <2> QED BY <1>5, <2>1, <2>2, <2>3, <2>4, <2>5, <2>6, <2>7, <2>8 DEF PublishStep
<1>6. CASE CompactStep
  <2>1. CASE CompactWithoutAuthority
    BY <2>1, ReturnKeeps DEF CompactWithoutAuthority
  <2>2. CASE CompactGoesOn
    <3>1. Found \in Targets
      BY FoundIs DEF StoreInv, Entries
    <3>2. OpIsConsistent' /\ JournalHasRoom'
      BY <2>2, <3>1 DEF CompactGoesOn, ScanEnds, OpIsConsistent, JournalHasRoom, StoreInv
    <3> QED BY <2>2, <3>2, DiskAlone DEF CompactGoesOn, StoreInv, OpIsConsistent
  <2>3. CASE ReplaceJournal
    <3> DEFINE retained == NewestOf(Recoverable, op.retain)
    <3>1. /\ journal' \in Seq(Records)
          /\ Len(journal') = 2 * Cardinality(retained)
          /\ Recoverable' = retained
          /\ op'.retained = {k.gen : k \in retained}
      BY <2>3, CompactionRetains
    <3>2. retained \in SUBSET Committed(journal) /\ retained \subseteq Entries
      BY RecoverableIs DEF NewestOf, StoreInv
    <3> HIDE DEF retained
    <3>3. Len(journal') <= Len(journal) /\ Len(journal) \in Nat /\ Len(journal') \in Nat
      BY <3>1, <3>2, CompactionFits DEF StoreInv, StoreTypeOK
    <3>4. op'.retained \subseteq Generations
      BY <3>1, <3>2 DEF Entries
    <3>5. OpIsConsistent' /\ JournalHasRoom'
      <4>1. PICK T : op' = [op EXCEPT !.at = "sweep", !.retained = T]
        BY <2>3 DEF ReplaceJournal
      <4>2. op'.retained = T
        BY <4>1 DEF StoreInv, OpIsConsistent
      <4> QED BY <2>3, <3>4, <4>1, <4>2 DEF ReplaceJournal, StoreInv, OpIsConsistent, JournalHasRoom
    <3>6. StoreTypeOK'
      <4>1. manifest' = manifest /\ faults' = faults
        BY <2>3 DEF ReplaceJournal
      <4> QED BY <3>1, <3>3, <3>5, <4>1, StoreAssumption
              DEF StoreInv, StoreTypeOK, OpIsConsistent
    <3>7. NothingNewer'
      BY <2>3, <3>1 DEF ReplaceJournal, StoreInv, OpIsConsistent, NothingNewer
    <3> QED BY <3>5, <3>6, <3>7 DEF StoreInv
  <2>4. CASE CannotRetainAuthority
    <3>1. /\ journal' \in Seq(Records) /\ Len(journal') <= Len(journal)
          /\ Len(journal) \in Nat /\ Len(journal') \in Nat
      BY <2>4, ValidPrefixIs, ValidLengthIs DEF CannotRetainAuthority, StoreInv, StoreTypeOK
    <3>2. OpIsConsistent' /\ JournalHasRoom' /\ NothingNewer'
      BY <2>4, IdleKeeps DEF CannotRetainAuthority, Return
    <3>3. StoreTypeOK'
      BY <2>4, <3>1, <3>2, StoreAssumption
         DEF CannotRetainAuthority, StoreInv, StoreTypeOK, OpIsConsistent
    <3> QED BY <3>2, <3>3 DEF StoreInv
  <2>5. ASSUME NEW g \in Generations, QuarantineStale(g) PROVE StoreInv'
    <3>1. Recoverable' = Recoverable
      BY <2>5, QuarantineKeeps DEF QuarantineStale, StoreInv, NothingNewer
    <3>2. StoreTypeOK'
      BY <2>5 DEF QuarantineStale, Quarantine, StoreInv, StoreTypeOK
    <3>3. OpIsConsistent' /\ JournalHasRoom' /\ NothingNewer'
      BY <2>5, <3>1 DEF QuarantineStale, StoreInv, OpIsConsistent, JournalHasRoom, NothingNewer
    <3> QED BY <3>2, <3>3 DEF StoreInv
  <2>6. CASE SweepEnds
    <3>1. OpIsConsistent' /\ JournalHasRoom'
      BY <2>6 DEF SweepEnds, StoreInv, OpIsConsistent, JournalHasRoom
    <3> QED BY <2>6, <3>1, DiskAlone DEF SweepEnds, StoreInv, OpIsConsistent
  <2>7. CASE CompactReturns
    BY <2>7, ReturnKeeps DEF CompactReturns
  <2> QED BY <1>6, <2>1, <2>2, <2>3, <2>4, <2>5, <2>6, <2>7 DEF CompactStep
<1>7. CASE Interrupted
  BY <1>7, ReturnKeeps DEF Interrupted
<1>8. CASE AppendTorn
  <2>1. /\ journal' \in Seq(Records) /\ Len(journal') = Len(journal) + 1
        /\ Len(journal) \in Nat
    BY <1>8, AppendIs DEF AppendTorn, Records, StoreInv, StoreTypeOK
  <2>2. OpIsConsistent' /\ JournalHasRoom' /\ NothingNewer'
    BY <1>8, IdleKeeps DEF AppendTorn, Return
  <2>3. Len(journal) + 1 <= MaxRecords
    BY <1>8, <2>1, StoreAssumption DEF AppendTorn, StoreInv, JournalHasRoom, OpIsConsistent
  <2>4. StoreTypeOK'
    BY <1>8, <2>1, <2>2, <2>3 DEF AppendTorn, StoreInv, StoreTypeOK, OpIsConsistent
  <2> QED BY <2>2, <2>4 DEF StoreInv
<1>9. CASE MediumFails
  <2>1. /\ journal' \in Seq(Records) /\ Len(journal') = Len(journal)
        /\ manifest' \in [Generations -> Contents \cup {NoContent, Damaged}]
        /\ Recoverable' \subseteq Recoverable
    BY <1>9, MediumLoses DEF StoreInv
  <2>2. op' = op /\ faults' \in 0..MaxFaults
    BY <1>9, StoreAssumption DEF MediumFails, StoreInv, StoreTypeOK
  <2>3. StoreTypeOK'
    BY <2>1, <2>2 DEF StoreInv, StoreTypeOK
  <2>4. OpIsConsistent' /\ JournalHasRoom' /\ NothingNewer'
    BY <2>1, <2>2 DEF StoreInv, OpIsConsistent, JournalHasRoom, NothingNewer
  <2> QED BY <2>3, <2>4 DEF StoreInv
<1>10. CASE UNCHANGED vars
  BY <1>10 DEF vars, disk, StoreInv, StoreTypeOK, OpIsConsistent, JournalHasRoom,
               NothingNewer, Recoverable
<1> QED
  BY <1>1, <1>2, <1>3, <1>4, <1>5, <1>6, <1>7, <1>8, <1>9, <1>10 DEF Next

THEOREM StoreInvariant == Spec => []StoreInv
BY StoreInvInit, StoreInvStep, PTL DEF Spec

(* Journal, manifests and locals keep their types, and no retry and no     *)
(* compaction takes the journal over its bound.                            *)
THEOREM StoreTypeCorrect == Spec => []StoreTypeOK
<1>1. StoreInv => StoreTypeOK
  BY DEF StoreInv
<1> QED BY <1>1, StoreInvariant, PTL
--------------------------------------------------------------------------------
(* The store implements the register of generations.                       *)

attempt == IF op.kind = "publish" THEN op.target ELSE Nothing

LEMMA AttemptIs ==
    ASSUME StoreInv
    PROVE  (attempt # Nothing) <=> (op.kind = "publish")
BY StoreAssumption DEF attempt, StoreInv, OpIsConsistent, Entries, Nothing, Kept

LEMMA GivesUp ==
    ASSUME StoreInv, Recoverable' = Recoverable, UNCHANGED <<told, faults>>,
           NEW result, op' = Idle(result)
    PROVE  [Register!Next]_Register!vars
<1>1. attempt' = Nothing
  BY DEF attempt, Idle
<1>2. CASE attempt = Nothing
  BY <1>1, <1>2 DEF Register!vars, attempt
<1>3. CASE attempt # Nothing
  BY <1>1, <1>3 DEF Register!Next, Register!GiveUp, Register!Nothing, attempt, Nothing, Kept
<1> QED BY <1>2, <1>3

LEMMA Stutters ==
    ASSUME Recoverable' = Recoverable, UNCHANGED <<told, faults>>,
           op'.kind = op.kind, op'.target = op.target
    PROVE  [Register!Next]_Register!vars
BY DEF Register!vars

LEMMA Promotes ==
    ASSUME StoreInv, op.kind = "publish", UNCHANGED <<told, faults>>,
           op'.kind = op.kind, op'.target = op.target,
           \A k \in Recoverable : k.gen < op.target.gen \/ k = op.target,
           Recoverable' \in {Recoverable, Recoverable \cup {op.target}}
    PROVE  [Register!Next]_Register!vars
<1>1. CASE Recoverable' = Recoverable
  BY <1>1, Stutters
<1>2. CASE Recoverable' = Recoverable \cup {op.target} /\ op.target \notin Recoverable
  <2>1. attempt # Nothing
    BY AttemptIs
  <2>2. \A k \in Recoverable : k.gen < op.target.gen
    BY <1>2
  <2>3. Register!Promote
    BY <1>2, <2>1, <2>2 DEF Register!Promote, Register!Nothing, attempt, Nothing, Kept
  <2> QED BY <2>3 DEF Register!Next
<1>3. CASE op.target \in Recoverable
  BY <1>1, <1>3
<1> QED BY <1>1, <1>2, <1>3

(* What the scan has found is the authority of the register.               *)
LEMMA FoundIsAuthority ==
    ASSUME StoreTypeOK, Found # Nothing => Intact(Found)
    PROVE  /\ Recoverable = {} => Found = Nothing
           /\ Recoverable # {} => /\ Found \in Recoverable
                                  /\ \A o \in Recoverable : o.gen <= Found.gen
<1>1. Candidates # {} => Found \in Recoverable
  BY FoundIs DEF Candidates, Recoverable, Intact
<1> QED BY <1>1, FoundIs, RecoverableIs

LEMMA StepImplements == StoreInv /\ [Next]_vars => [Register!Next]_Register!vars
<1> SUFFICES ASSUME StoreInv, [Next]_vars PROVE [Register!Next]_Register!vars
  OBVIOUS
<1> USE DEF Goto
<1>0. StoreTypeOK /\ OpIsConsistent
  BY DEF StoreInv
<1>1. ASSUME NEW g \in Generations, NEW c \in Contents, BeginPublish(g, c)
      PROVE  [Register!Next]_Register!vars
  <2>1. /\ op.kind = "none" /\ op'.kind = "publish" /\ op'.target = Kept(g, c)
    BY <1>1, <1>0 DEF BeginPublish, OpIsConsistent, Idle
  <2>2. Recoverable' = Recoverable /\ UNCHANGED <<told, faults>>
    BY <1>1 DEF BeginPublish, disk, Recoverable
  <2>3. Register!Begin(g, c)
    BY <2>1, <2>2 DEF Register!Begin, Register!Nothing, Nothing, Kept
  <2> QED BY <2>3 DEF Register!Next
<1>2. CASE BeginRecover
  <2>1. op.kind = "none" /\ op'.kind = "recover"
    BY <1>2, <1>0 DEF BeginRecover, OpIsConsistent, Idle
  <2> QED BY <1>2, <2>1 DEF BeginRecover, disk, Recoverable, Register!vars
<1>3. ASSUME NEW n \in Retains, BeginCompact(n) PROVE [Register!Next]_Register!vars
  <2>1. op.kind = "none" /\ op'.kind = "compact"
    BY <1>3, <1>0 DEF BeginCompact, OpIsConsistent, Idle
  <2> QED BY <1>3, <2>1 DEF BeginCompact, disk, Recoverable, Register!vars
<1>4. CASE RecoverStep
  <2>1. CASE LoadClean
    BY <2>1, <1>0, Stutters DEF LoadClean, disk, Recoverable, OpIsConsistent
  <2>2. CASE RepairJournal
    BY <2>2, <1>0, RepairKeeps, Stutters DEF RepairJournal, OpIsConsistent
  <2>3. CASE QuarantineCorrupt
    <3>1. Found \in Candidates /\ Found \in Entries /\ ~Intact(Found)
      BY <2>3, <1>0, FoundIs DEF QuarantineCorrupt, Found
    <3>2. \A k \in Recoverable : k.gen # Found.gen
      BY <1>0, <3>1, RecoverableIs DEF Recoverable, Intact
    <3>3. Recoverable' = Recoverable
      BY <2>3, <1>0, <3>1, <3>2, QuarantineKeeps DEF QuarantineCorrupt, Found, Entries
    <3> QED BY <2>3, <3>3, Stutters DEF QuarantineCorrupt
  <2>4. CASE RecoverReturns
    <3>1. Found # Nothing => Intact(Found)
      BY <2>4 DEF RecoverReturns, ScanEnds, Found
    <3>2. Recoverable' = Recoverable /\ told' = Found /\ faults' = faults
      BY <2>4 DEF RecoverReturns, disk, Recoverable
    <3>3. op.kind = "recover" /\ op'.kind = "none"
      BY <2>4 DEF RecoverReturns, ScanEnds, Return, Idle
    <3>4. Register!IsAuthority(told')
      BY <1>0, <3>1, <3>2, FoundIsAuthority
         DEF Register!IsAuthority, Register!Nothing, Nothing, Kept
    <3>5. Register!Tell
      BY <3>2, <3>3, <3>4 DEF Register!Tell
    <3> QED BY <3>5 DEF Register!Next
  <2> QED BY <1>4, <2>1, <2>2, <2>3, <2>4 DEF RecoverStep
<1>5. CASE PublishStep
  <2>1. CASE PublishNotNewer
    BY <2>1, GivesUp DEF PublishNotNewer, Return, disk, Recoverable
  <2>2. CASE PublishGoesOn
    BY <2>2, <1>0, Stutters DEF PublishGoesOn, disk, Recoverable, OpIsConsistent
  <2>3. CASE QuarantineUncommitted
    <3>1. /\ \A k \in Recoverable : k.gen < op.target.gen
          /\ op.target \in Entries /\ op.target.gen \in Nat
      BY <2>3, <1>0, StoreAssumption DEF QuarantineUncommitted, StoreInv, NothingNewer, OpIsConsistent, Entries
    <3>2. Recoverable' = Recoverable
      <4>1. \A k \in Recoverable : k.gen # op.target.gen
        BY <3>1
      <4>2. CASE manifest' = manifest
        BY <2>3, <4>2 DEF QuarantineUncommitted, Recoverable
      <4>3. CASE Quarantine(op.target.gen)
        BY <2>3, <1>0, <3>1, <4>1, <4>3, QuarantineKeeps DEF QuarantineUncommitted, Entries
      <4> QED BY <2>3, <4>2, <4>3 DEF QuarantineUncommitted
    <3> QED BY <2>3, <1>0, <3>2, Stutters DEF QuarantineUncommitted, OpIsConsistent
  <2>4. CASE AppendPrepare
    <3> DEFINE r == Record("prepare", op.target.gen, op.target.content)
    <3>1. r \in Records /\ r.kind # "commit"
      BY <2>4, <1>0, RecordFacts DEF AppendPrepare, OpIsConsistent, Entries, Record
    <3>2. journal' = Append(journal, r) /\ manifest' = manifest
      BY <2>4 DEF AppendPrepare, AppendRecord
    <3> HIDE DEF r
    <3>3. Recoverable' = Recoverable
      BY <1>0, <3>1, <3>2, AppendKeeps
    <3> QED BY <2>4, <1>0, <3>3, Stutters DEF AppendPrepare, OpIsConsistent
  <2>5. CASE LinkManifest
    <3>1. /\ op.kind = "publish" /\ op'.kind = op.kind /\ op'.target = op.target
          /\ UNCHANGED <<told, faults>>
          /\ \A k \in Recoverable : k.gen < op.target.gen
      BY <2>5, <1>0 DEF LinkManifest, OpIsConsistent, StoreInv, NothingNewer
    <3> QED BY <2>5, <3>1, LinkPromotes, Promotes
  <2>6. CASE AppendCommit
    <3>1. /\ op.kind = "publish" /\ op'.kind = op.kind /\ op'.target = op.target
          /\ UNCHANGED <<told, faults>>
          /\ \A k \in Recoverable : k.gen < op.target.gen \/ k = op.target
      BY <2>6, <1>0 DEF AppendCommit, OpIsConsistent, StoreInv, NothingNewer
    <3> QED BY <2>6, <3>1, CommitPromotes, Promotes
  <2>7. CASE PublishVerified
    <3>1. Found # Nothing => Intact(Found)
      BY <2>7 DEF PublishVerified, ScanEnds, Found
    <3>2. Recoverable' = Recoverable /\ told' = op.target /\ faults' = faults /\ Found = op.target
      BY <2>7 DEF PublishVerified, disk, Recoverable
    <3>3. op.kind = "publish" /\ op'.kind = "none"
      BY <2>7 DEF PublishVerified, ScanEnds, Return, Idle
    <3>4. attempt # Nothing /\ attempt = op.target
      BY <3>3, AttemptIs DEF attempt
    <3>5. Register!IsAuthority(op.target)
      BY <1>0, <3>1, <3>2, <3>4, FoundIsAuthority
         DEF Register!IsAuthority, Register!Nothing, Nothing, Kept
    <3>6. Register!Succeed
      BY <3>2, <3>3, <3>4, <3>5 DEF Register!Succeed, Register!Nothing, attempt, Nothing, Kept
    <3> QED BY <3>6 DEF Register!Next
  <2>8. CASE PublishMismatch
    BY <2>8, GivesUp DEF PublishMismatch, Return, disk, Recoverable
  <2> QED BY <1>5, <2>1, <2>2, <2>3, <2>4, <2>5, <2>6, <2>7, <2>8 DEF PublishStep
<1>6. CASE CompactStep
  <2>1. CASE CompactWithoutAuthority
    BY <2>1, GivesUp DEF CompactWithoutAuthority, Return, disk, Recoverable
  <2>2. CASE CompactGoesOn
    BY <2>2, <1>0, Stutters DEF CompactGoesOn, disk, Recoverable, OpIsConsistent
  <2>3. CASE ReplaceJournal
    <3>1. op.kind = "compact" /\ op'.kind = "compact" /\ op.retain \in Retains
      BY <2>3, <1>0 DEF ReplaceJournal, OpIsConsistent
    <3>2. Recoverable' = NewestOf(Recoverable, op.retain)
      BY <2>3, CompactionRetains
    <3>3. UNCHANGED <<told, faults>>
      BY <2>3 DEF ReplaceJournal
    <3>4. Recoverable' = {k \in Recoverable :
             Cardinality({o \in Recoverable : o.gen > k.gen}) < op.retain}
      BY <3>2 DEF NewestOf
    <3>5. /\ (IF op.kind = "publish" THEN op.target ELSE Nothing) = Register!Nothing
          /\ (IF op'.kind = "publish" THEN op'.target ELSE Nothing)
               = (IF op.kind = "publish" THEN op.target ELSE Nothing)
      BY <3>1 DEF Register!Nothing, Nothing, Kept
    <3>6. \A S : Register!Cardinality(S) = Cardinality(S)
      BY DEF Cardinality, Register!Cardinality
    <3>7. Register!MakeRoom(op.retain)
      BY <3>3, <3>4, <3>5, <3>6 DEF Register!MakeRoom
    <3> QED BY <3>1, <3>7 DEF Register!Next
  <2>4. CASE CannotRetainAuthority
    BY <2>4, <1>0, RepairKeeps, GivesUp DEF CannotRetainAuthority, Return
  <2>5. ASSUME NEW g \in Generations, QuarantineStale(g) PROVE [Register!Next]_Register!vars
    <3>1. Recoverable' = Recoverable
      BY <2>5, QuarantineKeeps DEF QuarantineStale, StoreInv, NothingNewer
    <3> QED BY <2>5, <3>1, Stutters DEF QuarantineStale
  <2>6. CASE SweepEnds
    BY <2>6, <1>0, Stutters DEF SweepEnds, disk, Recoverable, OpIsConsistent
  <2>7. CASE CompactReturns
    BY <2>7, GivesUp DEF CompactReturns, Return, disk, Recoverable
  <2> QED BY <1>6, <2>1, <2>2, <2>3, <2>4, <2>5, <2>6, <2>7 DEF CompactStep
<1>7. CASE Interrupted
  BY <1>7, GivesUp DEF Interrupted, Return, disk, Recoverable
<1>8. CASE AppendTorn
  <2>1. Recoverable' = Recoverable
    <3>1. Torn \in Records /\ Torn.kind # "commit"
      BY DEF Records, Torn, Record
    <3> QED BY <1>8, <1>0, <3>1, AppendKeeps DEF AppendTorn
  <2> QED BY <1>8, <2>1, GivesUp DEF AppendTorn, Return
<1>9. CASE MediumFails
  <2>1. Recoverable' \subseteq Recoverable
    BY <1>9, <1>0, MediumLoses
  <2> DEFINE S == Recoverable \ Recoverable'
  <2>2. S \in SUBSET Recoverable /\ Recoverable' = Recoverable \ S
    BY <2>1
  <2>3. op' = op /\ told' = told /\ faults' = faults + 1
    BY <1>9 DEF MediumFails
  <2> HIDE DEF S
  <2>4. Register!Decay(S)
    BY <2>2, <2>3 DEF Register!Decay
  <2> QED BY <2>2, <2>4 DEF Register!Next
<1>10. CASE UNCHANGED vars
  BY <1>10, Stutters DEF vars, disk, Recoverable
<1> QED
  BY <1>1, <1>2, <1>3, <1>4, <1>5, <1>6, <1>7, <1>8, <1>9, <1>10 DEF Next

(* What can be recovered from the disk is a register of generations,       *)
(* whatever is interrupted, torn or lost, for any set of generations,      *)
(* contents and retention limits.                                          *)
THEOREM StoreImplementsRegister == Spec => ImplementsRegister
<1>1. Init => Register!Init
  <2>1. <<>> \in Seq(Records) /\ Len(<<>>) = 0
    OBVIOUS
  <2>2. ValidLength(<<>>) = 0
    BY <2>1, ValidLengthIs
  <2>3. Committed(<<>>) = {}
    BY <2>2 DEF Committed
  <2> QED BY <2>3 DEF Init, Recoverable, Register!Init, Register!Nothing, Nothing, Kept, Idle
<1>2. StoreInv /\ [Next]_vars => [Register!Next]_Register!vars
  BY StepImplements
<1> QED BY <1>1, <1>2, StoreInvariant, PTL DEF Spec, ImplementsRegister, Register!Spec
--------------------------------------------------------------------------------
(* On a sound medium.  What is committed is intact; a publication finds    *)
(* the journal clean, and its records are admitted unless the journal      *)
(* remembers another content for the generation; a compaction leaves what  *)
(* it retains and nothing else.                                            *)

Clean == ValidLength(journal) = Len(journal)

Remembered(i) == i \in 1..ValidLength(journal) /\ journal[i].gen = op.target.gen

Conflict == \E i \in 1..ValidLength(journal) :
               Remembered(i) /\ journal[i].content # op.target.content

Prepared == \E i \in 1..ValidLength(journal) :
               Remembered(i) /\ journal[i].kind = "prepare"

CommittedIsIntact == \A k \in Committed(journal) : Intact(k)

PublicationIsAdmitted ==
    /\ op.at \in {"scan", "clear", "prepare"} => Clean
    /\ op.at \in {"link", "commit"} => Conflict \/ (Clean /\ Prepared)
    /\ op.at = "commit" => Intact(op.target)
    /\ op.kind = "publish" /\ op.second =>
          /\ Conflict \/ op.target \in Committed(journal)
          /\ \A k \in Recoverable : k.gen < op.target.gen \/ k = op.target

CompactionIsClean ==
    /\ op.kind = "compact" /\ (op.at = "sweep" \/ op.second) =>
          /\ Clean
          /\ {k.gen : k \in Committed(journal)} = op.retained
          /\ Len(journal) = 2 * Cardinality(op.retained)
    /\ op.kind = "compact" /\ op.second =>
          \A g \in Generations \ op.retained : manifest[g] = NoContent

SoundInv == /\ op.kind # "none" => op.result = "none"
            /\ op.at = "replace" => ~op.second
            /\ faults = 0 => CommittedIsIntact /\ PublicationIsAdmitted /\ CompactionIsClean

LEMMA SameDisk ==
    ASSUME UNCHANGED disk
    PROVE  /\ Clean' <=> Clean
           /\ CommittedIsIntact' <=> CommittedIsIntact
           /\ Committed(journal)' = Committed(journal)
           /\ Recoverable' = Recoverable
           /\ op'.target = op.target => (Conflict' <=> Conflict)
BY DEF disk, Clean, CommittedIsIntact, Intact, Recoverable, Conflict, Remembered

LEMMA SoundIdle ==
    ASSUME NEW result, op' = Idle(result), faults' = 0 => CommittedIsIntact'
    PROVE  SoundInv'
BY DEF SoundInv, Idle, PublicationIsAdmitted, CompactionIsClean

LEMMA SoundReturn ==
    ASSUME SoundInv, UNCHANGED <<disk, faults>>, NEW result, Return(result)
    PROVE  SoundInv'
BY SameDisk, SoundIdle DEF SoundInv, Return

(* While what is committed is intact, all of it is recoverable, and the    *)
(* scan has nothing to remove.                                             *)
LEMMA IntactIs ==
    ASSUME StoreTypeOK, CommittedIsIntact
    PROVE  Committed(journal) = Recoverable /\ ~QuarantineCorrupt
<1>1. Committed(journal) \subseteq Recoverable
  BY DEF CommittedIsIntact, Recoverable, Intact
<1>2. Found # Nothing => Found \in Candidates
  BY FoundIs
<1>3. ~QuarantineCorrupt
  BY <1>2, RecoverableIs DEF QuarantineCorrupt, CommittedIsIntact, Found
<1> QED BY <1>1, <1>3, RecoverableIs

LEMMA RepairSound ==
    ASSUME StoreTypeOK, journal' = ValidPrefix(journal), manifest' = manifest
    PROVE  /\ Clean'
           /\ CommittedIsIntact' <=> CommittedIsIntact
           /\ Committed(journal)' = Committed(journal)
           /\ op'.target = op.target => (Conflict' <=> Conflict)
<1>1. /\ Len(journal') = ValidLength(journal)
      /\ ValidLength(journal') = ValidLength(journal)
      /\ \A i \in 1..ValidLength(journal) : journal'[i] = journal[i]
      /\ Committed(journal') = Committed(journal)
  BY ValidPrefixIs, CommittedPrefix DEF StoreTypeOK
<1>2. Clean'
  BY <1>1 DEF Clean
<1>3. CommittedIsIntact' <=> CommittedIsIntact
  BY <1>1 DEF CommittedIsIntact, Intact
<1>4. op'.target = op.target => (Conflict' <=> Conflict)
  BY <1>1 DEF Conflict, Remembered
<1> QED BY <1>1, <1>2, <1>3, <1>4

(* An append leaves a conflict in the journal.                             *)
LEMMA ConflictStays ==
    ASSUME StoreTypeOK, NEW r \in Records, journal' = Append(journal, r),
           op'.target = op.target, Conflict
    PROVE  Conflict'
<1>1. PICK i \in 1..ValidLength(journal) :
         journal[i].gen = op.target.gen /\ journal[i].content # op.target.content
  BY DEF Conflict, Remembered
<1>2. /\ ValidLength(journal) \in 0..Len(journal) /\ Len(journal) \in Nat
      /\ ValidLength(journal') \in {ValidLength(journal), Len(journal) + 1}
      /\ \A k \in 1..Len(journal) : journal'[k] = journal[k]
  BY AppendIs, ValidLengthIs DEF StoreTypeOK
<1>3. i \in 1..ValidLength(journal') /\ journal'[i] = journal[i]
  BY <1>2
<1> QED BY <1>1, <1>3 DEF Conflict, Remembered

LEMMA PrepareIsAdmitted ==
    ASSUME StoreInv, CommittedIsIntact, Clean, ~Conflict, AppendPrepare
    PROVE  Clean' /\ Prepared'
<1> DEFINE r == Record("prepare", op.target.gen, op.target.content)
           n == Len(journal)
<1>1. /\ StoreTypeOK /\ journal \in Seq(Records) /\ op.target \in Entries
      /\ \A k \in Recoverable : k.gen < op.target.gen
  BY DEF StoreInv, StoreTypeOK, OpIsConsistent, NothingNewer, AppendPrepare
<1>2. /\ r \in Records /\ r # Torn /\ r.kind = "prepare"
      /\ r.gen = op.target.gen /\ r.content = op.target.content
  BY <1>1, RecordFacts DEF Entries, Record
<1>3. journal' = Append(journal, r) /\ op'.target = op.target
  BY DEF AppendPrepare, AppendRecord, Goto, StoreInv, OpIsConsistent
<1> HIDE DEF r
<1>4. /\ n \in Nat /\ ValidLength(journal) = n
      /\ \A i \in 1..n : journal'[i] = journal[i]
      /\ journal'[n + 1] = r /\ Len(journal') = n + 1
      /\ WellFormed(journal', n + 1) => ValidLength(journal') = n + 1
  BY <1>1, <1>2, <1>3, AppendIs DEF Clean
<1>5. ASSUME NEW m \in 1..n, journal[m].gen = op.target.gen
      PROVE  journal[m].content = op.target.content /\ journal[m].kind = "prepare"
  <2>1. journal[m].content = op.target.content
    BY <1>4, <1>5 DEF Conflict, Remembered
  <2>2. SUFFICES ASSUME journal[m].kind # "prepare" PROVE FALSE
    BY <2>1
  <2>3. WellFormed(journal, m) /\ m \in Nat /\ journal[m] \in Records
    BY <1>1, <1>4, ValidLengthIs
  <2>4. journal[m].kind = "commit"
    BY <2>2, <2>3, WellFormedIs, RecordFacts
  <2>5. Kept(journal[m].gen, journal[m].content) \in Recoverable
    BY <1>1, <1>4, <2>4, CommittedIs, IntactIs
  <2>6. op.target.gen < op.target.gen /\ op.target.gen \in Nat
    BY <1>1, <1>5, <2>5, StoreAssumption DEF Kept, Entries
  <2> QED BY <2>6
<1>6. WellFormed(journal', n + 1)
  <2>1. n + 1 \in Nat /\ (n + 1) - 1 = n
    BY <1>4
  <2> QED BY <1>2, <1>4, <1>5, <2>1, WellFormedIs
<1>7. Clean'
  BY <1>4, <1>6 DEF Clean
<1>8. Prepared'
  BY <1>2, <1>3, <1>4, <1>6 DEF Prepared, Remembered
<1> QED BY <1>7, <1>8

LEMMA CommitIsAdmitted ==
    ASSUME StoreInv, Clean, Prepared, ~Conflict, AppendCommit
    PROVE  Committed(journal') = Committed(journal) \cup {op.target}
<1> DEFINE r == Record("commit", op.target.gen, op.target.content)
           n == Len(journal)
<1>1. journal \in Seq(Records) /\ op.target \in Entries
  BY DEF StoreInv, StoreTypeOK, OpIsConsistent, AppendCommit
<1>2. /\ r \in Records /\ r # Torn /\ r.kind = "commit"
      /\ r.gen = op.target.gen /\ r.content = op.target.content
      /\ Kept(r.gen, r.content) = op.target
  BY <1>1, RecordFacts DEF Entries, Record, Kept
<1>3. journal' = Append(journal, r)
  BY DEF AppendCommit, AppendRecord
<1> HIDE DEF r
<1>4. /\ n \in Nat /\ ValidLength(journal) = n
      /\ \A i \in 1..n : journal'[i] = journal[i]
      /\ journal'[n + 1] = r
  BY <1>1, <1>2, <1>3, AppendIs DEF Clean
<1>5. WellFormed(journal', n + 1)
  <2>1. n + 1 \in Nat /\ (n + 1) - 1 = n
    BY <1>4
  <2>2. \A m \in 1..n : journal'[m].gen = op.target.gen => journal'[m].content = op.target.content
    BY <1>4 DEF Conflict, Remembered
  <2>3. \E m \in 1..n : journal'[m].gen = op.target.gen /\ journal'[m].kind = "prepare"
    BY <1>4 DEF Prepared, Remembered
  <2>4. r.kind # "prepare"
    BY <1>2
  <2> QED BY <1>2, <1>4, <2>1, <2>2, <2>3, <2>4, WellFormedIs
<1> QED BY <1>1, <1>2, <1>3, <1>4, <1>5, CommittedAppend

LEMMA GensCounted ==
    ASSUME NEW S \in SUBSET Entries, IsFiniteSet(S), \A k, o \in S : k.gen = o.gen => k = o
    PROVE  Cardinality({k.gen : k \in S}) = Cardinality(S)
<1> DEFINE G == {k.gen : k \in S}
           f == [k \in S |-> k.gen]
<1>1. f \in Surjection(S, G) /\ f \in Injection(S, G)
  BY DEF Surjection, Injection, IsInjective
<1> HIDE DEF f, G
<1>2. IsFiniteSet(G) /\ Cardinality(G) = Cardinality(S)
  BY <1>1, FS_Surjection
<1> QED BY <1>2 DEF G

LEMMA SoundInvInit == Init => SoundInv
<1> SUFFICES ASSUME Init PROVE SoundInv
  OBVIOUS
<1>1. Committed(journal) = {}
  <2>1. <<>> \in Seq(Records) /\ Len(<<>>) = 0
    OBVIOUS
  <2>2. ValidLength(<<>>) = 0
    BY <2>1, ValidLengthIs
  <2> QED BY <2>2 DEF Init, Committed
<1>2. CommittedIsIntact
  BY <1>1 DEF CommittedIsIntact
<1> QED BY <1>2 DEF Init, SoundInv, Idle, PublicationIsAdmitted, CompactionIsClean

LEMMA SoundInvStep == StoreInv /\ SoundInv /\ [Next]_vars => SoundInv'
<1> SUFFICES ASSUME StoreInv, SoundInv, [Next]_vars PROVE SoundInv'
  OBVIOUS
<1> USE DEF Idle, Goto
<1>0. StoreTypeOK /\ OpIsConsistent
  BY DEF StoreInv
<1>s. faults = 0 => CommittedIsIntact /\ PublicationIsAdmitted /\ CompactionIsClean
  BY DEF SoundInv
<1>1. ASSUME NEW g \in Generations, NEW c \in Contents, BeginPublish(g, c) PROVE SoundInv'
  <2>1. UNCHANGED disk /\ faults' = faults
    BY <1>1 DEF BeginPublish
  <2> QED BY <1>1, <1>s, <2>1, SameDisk
          DEF BeginPublish, SoundInv, PublicationIsAdmitted, CompactionIsClean
<1>2. CASE BeginRecover
  <2>1. UNCHANGED disk /\ faults' = faults
    BY <1>2 DEF BeginRecover
  <2> QED BY <1>2, <1>s, <2>1, SameDisk
          DEF BeginRecover, SoundInv, PublicationIsAdmitted, CompactionIsClean
<1>3. ASSUME NEW n \in Retains, BeginCompact(n) PROVE SoundInv'
  <2>1. UNCHANGED disk /\ faults' = faults
    BY <1>3 DEF BeginCompact
  <2> QED BY <1>3, <1>s, <2>1, SameDisk
          DEF BeginCompact, SoundInv, PublicationIsAdmitted, CompactionIsClean
<1>4. CASE RecoverStep
  <2>1. CASE LoadClean
    <3>1. /\ UNCHANGED disk /\ faults' = faults /\ Clean
          /\ op.at = "load" /\ op' = [op EXCEPT !.at = "scan"]
      BY <2>1, <1>0, InvalidTailIs DEF LoadClean, Clean, StoreTypeOK
    <3>2. /\ op'.at = "scan" /\ op'.kind = op.kind /\ op'.second = op.second
          /\ op'.target = op.target /\ op'.result = op.result /\ op'.retained = op.retained
      BY <1>0, <3>1 DEF OpIsConsistent
    <3>3. /\ Clean' /\ (CommittedIsIntact' <=> CommittedIsIntact) /\ (Conflict' <=> Conflict)
          /\ Committed(journal)' = Committed(journal) /\ Recoverable' = Recoverable
          /\ journal' = journal /\ manifest' = manifest
      BY <3>1, <3>2, SameDisk DEF disk
    <3> QED BY <1>s, <3>1, <3>2, <3>3 DEF SoundInv, PublicationIsAdmitted, CompactionIsClean
  <2>2. CASE RepairJournal
    <3>1. /\ journal' = ValidPrefix(journal) /\ manifest' = manifest /\ faults' = faults
          /\ op.at = "load" /\ op' = [op EXCEPT !.at = "scan"] /\ ~Clean
      BY <2>2, <1>0, InvalidTailIs DEF RepairJournal, Clean, StoreTypeOK
    <3>2. /\ op'.at = "scan" /\ op'.kind = op.kind /\ op'.second = op.second
          /\ op'.target = op.target /\ op'.result = op.result
      BY <1>0, <3>1 DEF OpIsConsistent
    <3>3. /\ Clean' /\ (CommittedIsIntact' <=> CommittedIsIntact) /\ (Conflict' <=> Conflict)
          /\ Committed(journal)' = Committed(journal)
          /\ Recoverable' = Recoverable
      BY <1>0, <3>1, <3>2, RepairSound, RepairKeeps
    <3>4. faults = 0 => ~(op.kind = "compact" /\ op.second)
      BY <1>s, <3>1 DEF CompactionIsClean
    <3> QED BY <1>s, <3>1, <3>2, <3>3, <3>4 DEF SoundInv, PublicationIsAdmitted, CompactionIsClean
  <2>3. CASE QuarantineCorrupt
    <3>1. faults # 0
      BY <2>3, <1>0, <1>s, IntactIs
    <3> QED BY <2>3, <3>1 DEF QuarantineCorrupt, SoundInv
  <2>4. CASE RecoverReturns
    BY <2>4, SoundReturn DEF RecoverReturns
  <2> QED BY <1>4, <2>1, <2>2, <2>3, <2>4 DEF RecoverStep
<1>5. CASE PublishStep
  <2>1. CASE PublishNotNewer
    BY <2>1, SoundReturn DEF PublishNotNewer
  <2>2. CASE PublishGoesOn
    <3>1. /\ UNCHANGED disk /\ faults' = faults /\ op.at = "scan"
          /\ op.kind = "publish" /\ ~op.second /\ op' = [op EXCEPT !.at = "clear"]
      BY <2>2 DEF PublishGoesOn, ScanEnds
    <3>2. /\ op'.at = "clear" /\ op'.kind = "publish" /\ op'.second = op.second
          /\ op'.result = op.result
      BY <1>0, <3>1 DEF OpIsConsistent
    <3> QED BY <1>s, <3>1, <3>2, SameDisk DEF SoundInv, PublicationIsAdmitted, CompactionIsClean
  <2>3. CASE QuarantineUncommitted
    <3>1. /\ op'.at = "prepare" /\ op'.kind = "publish" /\ op.kind = "publish"
          /\ op'.second = op.second /\ op.at = "clear" /\ ~op.second
          /\ op'.result = op.result /\ journal' = journal /\ faults' = faults
      BY <2>3, <1>0 DEF QuarantineUncommitted, OpIsConsistent, StoreInv, JournalHasRoom
    <3>2. /\ \A k \in Recoverable : k.gen < op.target.gen
          /\ op.target.gen \in Nat /\ op.target \in Entries
      BY <1>0, <3>1, StoreAssumption DEF StoreInv, NothingNewer, OpIsConsistent, Entries
    <3>3. \A g \in Generations : g # op.target.gen => manifest'[g] = manifest[g]
      BY <2>3, <1>0 DEF QuarantineUncommitted, Quarantine, StoreTypeOK
    <3>4. ASSUME CommittedIsIntact PROVE CommittedIsIntact'
      <4>1. \A k \in Committed(journal) : k \in Entries /\ k.gen # op.target.gen
        BY <1>0, <3>2, <3>4, IntactIs, RecoverableIs
      <4> QED BY <3>1, <3>3, <3>4, <4>1 DEF CommittedIsIntact, Intact, Entries
    <3>5. Clean' <=> Clean
      BY <3>1 DEF Clean
    <3> QED BY <1>s, <3>1, <3>4, <3>5 DEF SoundInv, PublicationIsAdmitted, CompactionIsClean
  <2>4. CASE AppendPrepare
    <3> DEFINE r == Record("prepare", op.target.gen, op.target.content)
    <3>1. /\ op'.at = "link" /\ op'.kind = "publish" /\ op.kind = "publish"
          /\ op'.second = op.second /\ op.at = "prepare" /\ ~op.second
          /\ op'.result = op.result /\ manifest' = manifest /\ faults' = faults
          /\ op'.target = op.target
      BY <2>4, <1>0 DEF AppendPrepare, OpIsConsistent, StoreInv, JournalHasRoom
    <3>2. r \in Records /\ r.kind # "commit" /\ journal' = Append(journal, r)
      BY <2>4, <1>0, RecordFacts DEF AppendPrepare, AppendRecord, OpIsConsistent, Entries, Record
    <3> HIDE DEF r
    <3>3. CommittedIsIntact => CommittedIsIntact'
      <4>1. Committed(journal') = Committed(journal)
        BY <1>0, <3>2, CommittedAppend DEF StoreTypeOK
      <4> QED BY <3>1, <4>1 DEF CommittedIsIntact, Intact
    <3>4. ASSUME faults = 0 PROVE Conflict' \/ (Clean' /\ Prepared')
      <4>1. CommittedIsIntact /\ Clean
        BY <1>s, <3>1, <3>4 DEF PublicationIsAdmitted
      <4>2. CASE Conflict
        BY <1>0, <3>1, <3>2, <4>2, ConflictStays
      <4>3. CASE ~Conflict
        BY <2>4, <4>1, <4>3, PrepareIsAdmitted
      <4> QED BY <4>2, <4>3
    <3> QED BY <1>s, <3>1, <3>3, <3>4 DEF SoundInv, PublicationIsAdmitted, CompactionIsClean
  <2>5. CASE LinkManifest
    <3>1. /\ op'.at = "commit" /\ op'.kind = "publish" /\ op.kind = "publish"
          /\ op'.second = op.second /\ op.at = "link" /\ ~op.second
          /\ op'.result = op.result /\ journal' = journal /\ faults' = faults
          /\ op'.target = op.target /\ op.target \in Entries
          /\ manifest[op.target.gen] = NoContent
          /\ manifest' = [manifest EXCEPT ![op.target.gen] = op.target.content]
      BY <2>5, <1>0 DEF LinkManifest, OpIsConsistent, StoreInv, JournalHasRoom
    <3>2. Intact(op.target)'
      BY <1>0, <3>1 DEF Intact, StoreTypeOK, Entries
    <3>3. ASSUME CommittedIsIntact PROVE CommittedIsIntact'
      <4>1. \A k \in Committed(journal) : /\ k.gen \in Generations
                                         /\ manifest[k.gen] = k.content
                                         /\ k.content # NoContent
        BY <1>0, <3>3, CommittedIs, StoreAssumption DEF StoreTypeOK, Entries, CommittedIsIntact, Intact
      <4>2. \A k \in Committed(journal) : k.gen # op.target.gen
        BY <3>1, <4>1
      <4>3. \A g \in Generations : g # op.target.gen => manifest'[g] = manifest[g]
        BY <1>0, <3>1 DEF StoreTypeOK
      <4> QED BY <3>1, <4>1, <4>2, <4>3 DEF CommittedIsIntact, Intact
    <3>4. (Conflict' <=> Conflict) /\ (Clean' <=> Clean) /\ (Prepared' <=> Prepared)
      BY <3>1 DEF Conflict, Clean, Prepared, Remembered
    <3> QED BY <1>s, <3>1, <3>2, <3>3, <3>4 DEF SoundInv, PublicationIsAdmitted, CompactionIsClean, Intact
  <2>6. CASE AppendCommit
    <3> DEFINE r == Record("commit", op.target.gen, op.target.content)
    <3>1. /\ op'.at = "load" /\ op'.kind = "publish" /\ op.kind = "publish"
          /\ op.at = "commit"
          /\ op'.result = op.result /\ manifest' = manifest /\ faults' = faults
          /\ op'.target = op.target /\ op.target \in Entries
      BY <2>6, <1>0 DEF AppendCommit, OpIsConsistent
    <3>2. r \in Records /\ journal' = Append(journal, r) /\ Kept(r.gen, r.content) = op.target
      BY <2>6, <3>1, RecordFacts DEF AppendCommit, AppendRecord, Entries, Record, Kept
    <3> HIDE DEF r
    <3>3. ASSUME faults = 0 PROVE CommittedIsIntact'
      <4>1. CommittedIsIntact /\ Intact(op.target)
        BY <1>s, <3>1, <3>3 DEF PublicationIsAdmitted
      <4>2. Committed(journal') \in {Committed(journal), Committed(journal) \cup {op.target}}
        BY <1>0, <3>2, CommittedAppend DEF StoreTypeOK
      <4>3. \A k \in Committed(journal') : manifest[k.gen] = k.content
        BY <4>1, <4>2 DEF CommittedIsIntact, Intact
      <4> QED BY <3>1, <4>3 DEF CommittedIsIntact, Intact
    <3>4. ASSUME faults = 0 PROVE Conflict' \/ op.target \in Committed(journal')
      <4>1. CASE Conflict
        BY <1>0, <3>1, <3>2, <4>1, ConflictStays
      <4>2. CASE ~Conflict
        <5>1. Clean /\ Prepared
          BY <1>s, <3>1, <3>4, <4>2 DEF PublicationIsAdmitted
        <5> QED BY <2>6, <4>2, <5>1, CommitIsAdmitted
      <4> QED BY <4>1, <4>2
    <3>5. \A k \in Recoverable' : k.gen < op.target.gen \/ k = op.target
      <4>1. \A k \in Recoverable : k.gen < op.target.gen \/ k = op.target
        BY <3>1 DEF StoreInv, NothingNewer
      <4> QED BY <2>6, <4>1, CommitPromotes
    <3> QED BY <1>s, <3>1, <3>3, <3>4, <3>5 DEF SoundInv, PublicationIsAdmitted, CompactionIsClean
  <2>7. CASE PublishVerified
    BY <2>7, SoundReturn DEF PublishVerified
  <2>8. CASE PublishMismatch
    BY <2>8, SoundReturn DEF PublishMismatch
  <2> QED BY <1>5, <2>1, <2>2, <2>3, <2>4, <2>5, <2>6, <2>7, <2>8 DEF PublishStep
<1>6. CASE CompactStep
  <2>1. CASE CompactWithoutAuthority
    BY <2>1, SoundReturn DEF CompactWithoutAuthority
  <2>2. CASE CompactGoesOn
    <3>1. /\ UNCHANGED disk /\ faults' = faults /\ op.kind = "compact" /\ ~op.second
          /\ op'.at = "replace" /\ op'.kind = "compact" /\ op'.second = op.second
          /\ op'.result = op.result
      BY <2>2, <1>0 DEF CompactGoesOn, ScanEnds, OpIsConsistent
    <3> QED BY <1>s, <3>1, SameDisk DEF SoundInv, PublicationIsAdmitted, CompactionIsClean
  <2>3. CASE ReplaceJournal
    <3> DEFINE retained == NewestOf(Recoverable, op.retain)
    <3>1. /\ Len(journal') = 2 * Cardinality(retained)
          /\ ValidLength(journal') = Len(journal')
          /\ Committed(journal') = retained
          /\ op'.retained = {k.gen : k \in retained}
      BY <2>3, CompactionRetains
    <3>2. retained \in SUBSET Recoverable
      BY DEF NewestOf
    <3> HIDE DEF retained
    <3>3. /\ op.at = "replace" /\ op'.at = "sweep" /\ op.kind = "compact" /\ op'.kind = "compact"
          /\ op'.second = op.second /\ op'.result = op.result
          /\ manifest' = manifest /\ faults' = faults
      BY <2>3, <1>0 DEF ReplaceJournal, OpIsConsistent
    <3>4. ~op.second
      BY <3>3 DEF SoundInv
    <3>5. CommittedIsIntact'
      BY <3>1, <3>2, <3>3 DEF CommittedIsIntact, Intact, Recoverable
    <3>6. Cardinality(op'.retained) = Cardinality(retained)
      <4>1. retained \in SUBSET Entries /\ retained \in SUBSET Committed(journal)
            /\ \A k, o \in retained : k.gen = o.gen => k = o
        BY <1>0, <3>2, RecoverableIs
      <4>2. IsFiniteSet(retained)
        BY <1>0, <4>1, CompactionFits DEF StoreTypeOK
      <4> QED BY <3>1, <4>1, <4>2, GensCounted
    <3>7. /\ Clean'
          /\ {k.gen : k \in Committed(journal')} = op'.retained
          /\ Len(journal') = 2 * Cardinality(op'.retained)
      BY <3>1, <3>6 DEF Clean
    <3> QED BY <3>3, <3>4, <3>5, <3>7 DEF SoundInv, PublicationIsAdmitted, CompactionIsClean
  <2>4. CASE CannotRetainAuthority
    <3>1. faults' = faults /\ (CommittedIsIntact' <=> CommittedIsIntact)
      BY <2>4, <1>0, RepairSound DEF CannotRetainAuthority
    <3> QED BY <2>4, <1>s, <3>1, SoundIdle DEF CannotRetainAuthority, Return
  <2>5. ASSUME NEW g \in Generations, QuarantineStale(g) PROVE SoundInv'
    <3>1. /\ op.at = "sweep" /\ op' = op /\ journal' = journal /\ faults' = faults
          /\ g \notin op.retained /\ op.kind = "compact"
          /\ manifest' = [manifest EXCEPT ![g] = NoContent]
      BY <2>5, <1>0 DEF QuarantineStale, Quarantine, OpIsConsistent
    <3>2. /\ manifest'[g] = NoContent
          /\ \A f \in Generations : f # g => manifest'[f] = manifest[f]
      BY <1>0, <3>1 DEF StoreTypeOK
    <3>3. \A k \in Recoverable : k.gen # g
      BY <3>1 DEF StoreInv, NothingNewer
    <3>4. ASSUME CommittedIsIntact PROVE CommittedIsIntact'
      <4>1. \A k \in Committed(journal) : k.gen # g /\ k.gen \in Generations
        BY <1>0, <3>3, <3>4, IntactIs, RecoverableIs DEF Entries
      <4> QED BY <3>1, <3>2, <3>4, <4>1 DEF CommittedIsIntact, Intact
    <3>5. Clean' <=> Clean
      BY <3>1 DEF Clean
    <3>6. \A f \in Generations : manifest[f] = NoContent => manifest'[f] = NoContent
      BY <3>2
    <3> QED BY <1>s, <3>1, <3>4, <3>5, <3>6 DEF SoundInv, PublicationIsAdmitted, CompactionIsClean
  <2>6. CASE SweepEnds
    <3>1. /\ UNCHANGED disk /\ faults' = faults /\ op.kind = "compact" /\ op.at = "sweep"
          /\ op'.at = "load" /\ op'.kind = "compact" /\ op'.retained = op.retained
          /\ op'.result = op.result
          /\ \A g \in Generations \ op.retained : manifest[g] = NoContent
      BY <2>6, <1>0 DEF SweepEnds, OpIsConsistent
    <3>2. journal' = journal /\ manifest' = manifest
      BY <3>1 DEF disk
    <3> QED BY <1>s, <3>1, <3>2, SameDisk DEF SoundInv, PublicationIsAdmitted, CompactionIsClean
  <2>7. CASE CompactReturns
    BY <2>7, SoundReturn DEF CompactReturns
  <2> QED BY <1>6, <2>1, <2>2, <2>3, <2>4, <2>5, <2>6, <2>7 DEF CompactStep
<1>7. CASE Interrupted
  BY <1>7, SoundReturn DEF Interrupted
<1>8. CASE AppendTorn
  <2>1. Torn \in Records /\ Torn.kind # "commit"
    BY DEF Records, Torn, Record
  <2>2. Committed(journal') = Committed(journal)
    BY <1>8, <1>0, <2>1, CommittedAppend DEF AppendTorn, StoreTypeOK
  <2>3. CommittedIsIntact' <=> CommittedIsIntact
    BY <1>8, <2>2 DEF AppendTorn, CommittedIsIntact, Intact
  <2>4. op' = Idle("interrupted") /\ faults' = faults
    BY <1>8 DEF AppendTorn, Return
  <2> HIDE DEF Idle
  <2> QED BY <1>s, <2>3, <2>4, SoundIdle
<1>9. CASE MediumFails
  <2>1. op' = op /\ faults' # 0
    BY <1>9, <1>0 DEF MediumFails, StoreTypeOK
  <2> QED BY <2>1 DEF SoundInv
<1>10. CASE UNCHANGED vars
  <2>1. UNCHANGED disk /\ op' = op /\ faults' = faults /\ journal' = journal /\ manifest' = manifest
    BY <1>10 DEF vars, disk
  <2>2. (Prepared' <=> Prepared) /\ (Intact(op.target)' <=> Intact(op.target))
    BY <2>1 DEF Prepared, Remembered, Intact
  <2> QED BY <1>s, <2>1, <2>2, SameDisk DEF SoundInv, PublicationIsAdmitted, CompactionIsClean
<1> QED
  BY <1>1, <1>2, <1>3, <1>4, <1>5, <1>6, <1>7, <1>8, <1>9, <1>10 DEF Next

LEMMA SoundInvariant == Spec => []SoundInv
BY SoundInvInit, SoundInvStep, StoreInvariant, PTL DEF Spec

(* Only these two steps end an operation the way the properties speak of.  *)
LEMMA WhoReturns ==
    ASSUME StoreInv, SoundInv, Next
    PROVE  /\ op.kind = "publish" /\ op.second /\ op'.result = "failure" => PublishMismatch
           /\ op.kind = "compact" /\ op'.result = "success" => CompactReturns
<1> SUFFICES ASSUME op.kind \in {"publish", "compact"}, op'.result \in {"success", "failure"}
             PROVE  \/ PublishMismatch \/ CompactReturns
                    \/ op.kind = "publish" /\ op'.result = "success"
                    \/ op.kind = "compact" /\ op'.result = "failure"
                    \/ op.kind = "publish" /\ ~op.second
  BY DEF PublishMismatch, CompactReturns, ScanEnds
<1>1. OpIsConsistent /\ op.result = "none" /\ op.at # "idle"
  BY DEF StoreInv, OpIsConsistent, SoundInv
<1> USE DEF OpIsConsistent, Return, Goto, Idle, ScanEnds
<1>2. op' # op
  BY <1>1
<1>3. ~\E g \in Generations, c \in Contents : BeginPublish(g, c)
  BY <1>1 DEF BeginPublish
<1>4. ~BeginRecover /\ ~\E n \in Retains : BeginCompact(n)
  BY <1>1 DEF BeginRecover, BeginCompact
<1>5. ~RecoverStep
  BY <1>1, <1>2 DEF RecoverStep, LoadClean, RepairJournal, QuarantineCorrupt, RecoverReturns
<1>6. CASE PublishStep
  <2>1. CASE PublishNotNewer
    BY <2>1 DEF PublishNotNewer
  <2>2. ~PublishGoesOn /\ ~QuarantineUncommitted /\ ~AppendPrepare
    BY <1>1 DEF PublishGoesOn, QuarantineUncommitted, AppendPrepare
  <2>3. ~LinkManifest /\ ~AppendCommit
    BY <1>1 DEF LinkManifest, AppendCommit
  <2>4. CASE PublishVerified
    BY <2>4 DEF PublishVerified
  <2> QED BY <1>6, <2>1, <2>2, <2>3, <2>4 DEF PublishStep
<1>7. CASE CompactStep
  <2>1. CASE CompactWithoutAuthority
    BY <2>1 DEF CompactWithoutAuthority
  <2>2. ~CompactGoesOn /\ ~SweepEnds /\ ~\E g \in Generations : QuarantineStale(g)
    BY <1>1, <1>2 DEF CompactGoesOn, SweepEnds, QuarantineStale
  <2>3. ~ReplaceJournal
    <3> SUFFICES ASSUME ReplaceJournal PROVE FALSE
      OBVIOUS
    <3>1. PICK T : op' = [op EXCEPT !.at = "sweep", !.retained = T]
      BY DEF ReplaceJournal
    <3> QED BY <1>1, <3>1
  <2>4. CASE CannotRetainAuthority
    BY <2>4, <1>1 DEF CannotRetainAuthority
  <2> QED BY <1>7, <2>1, <2>2, <2>3, <2>4 DEF CompactStep
<1>8. ~Interrupted /\ ~AppendTorn /\ ~MediumFails
  BY <1>1, <1>2 DEF Interrupted, AppendTorn, MediumFails
<1> QED BY <1>3, <1>4, <1>5, <1>6, <1>7, <1>8 DEF Next

(* On a sound medium a publication of a newer generation fails only for    *)
(* another content of the same generation, whatever was interrupted before.*)
THEOREM RetryNeverPoisoned == Spec => RetryNotPoisoned
<1>1. ASSUME StoreInv, SoundInv, Next, faults = 0, op.kind = "publish",
             op'.result = "failure", op.second
      PROVE  \E r \in ToSet(journal) : r.gen = op.target.gen /\ r.content # op.target.content
  <2>1. Found # op.target /\ (Found # Nothing => Intact(Found))
    BY <1>1, WhoReturns DEF PublishMismatch, ScanEnds, Found
  <2>2. /\ StoreTypeOK /\ CommittedIsIntact
        /\ Conflict \/ op.target \in Committed(journal)
        /\ \A k \in Recoverable : k.gen < op.target.gen \/ k = op.target
    BY <1>1 DEF StoreInv, SoundInv, PublicationIsAdmitted
  <2>3. op.target \notin Committed(journal)
    <3> SUFFICES ASSUME op.target \in Recoverable PROVE FALSE
      BY <2>2, IntactIs
    <3>1. Found \in Recoverable /\ op.target.gen <= Found.gen
      BY <2>1, <2>2, FoundIsAuthority
    <3>2. Found.gen < op.target.gen
      BY <2>1, <2>2, <3>1
    <3>3. op.target.gen \in Nat /\ Found.gen \in Nat
      BY <2>2, <3>1, RecoverableIs, StoreAssumption DEF Entries
    <3> QED BY <3>1, <3>2, <3>3
  <2>4. PICK i \in 1..ValidLength(journal) :
           journal[i].gen = op.target.gen /\ journal[i].content # op.target.content
    BY <2>2, <2>3 DEF Conflict, Remembered
  <2>5. i \in 1..Len(journal) /\ DOMAIN journal = 1..Len(journal)
    BY <2>2, ValidLengthIs DEF StoreTypeOK
  <2> QED BY <2>4, <2>5 DEF ToSet
<1>2. StoreInv /\ SoundInv /\ [Next]_vars =>
        [faults = 0 /\ op.kind = "publish" /\ op'.result = "failure" /\ op.second
            => \E r \in ToSet(journal) : r.gen = op.target.gen
                                         /\ r.content # op.target.content]_vars
  BY <1>1
<1> QED BY <1>2, StoreInvariant, SoundInvariant, PTL DEF Spec, RetryNotPoisoned

(* On a sound medium a compaction that returns true has left the retained  *)
(* generations and nothing else, whatever was interrupted before.          *)
THEOREM CompactionIsComplete == Spec => CompactionComplete
<1> DEFINE Done == /\ {g \in Generations : manifest[g] # NoContent} = op.retained
                   /\ {k.gen : k \in Recoverable} = op.retained
                   /\ Len(journal) = 2 * Cardinality(op.retained)
<1>1. ASSUME StoreInv, SoundInv, Next, faults = 0, op.kind = "compact", op'.result = "success"
      PROVE  Done
  <2>1. op.second
    BY <1>1, WhoReturns DEF CompactReturns, ScanEnds
  <2>2. /\ StoreTypeOK /\ CommittedIsIntact
        /\ {k.gen : k \in Committed(journal)} = op.retained
        /\ Len(journal) = 2 * Cardinality(op.retained)
        /\ \A g \in Generations \ op.retained : manifest[g] = NoContent
    BY <1>1, <2>1 DEF StoreInv, SoundInv, CompactionIsClean
  <2>3. Committed(journal) = Recoverable
    BY <2>2, IntactIs
  <2>4. \A k \in Recoverable : /\ manifest[k.gen] = k.content /\ k.content # NoContent
                              /\ k.gen \in Generations
    BY <2>2, RecoverableIs, StoreAssumption DEF Recoverable, Entries
  <2>5. \A g \in op.retained : manifest[g] # NoContent /\ g \in Generations
    BY <2>2, <2>3, <2>4
  <2> QED BY <2>2, <2>3, <2>5
<1>2. StoreInv /\ SoundInv /\ [Next]_vars =>
        [faults = 0 /\ op.kind = "compact" /\ op'.result = "success" => Done]_vars
  BY <1>1
<1> QED BY <1>2, StoreInvariant, SoundInvariant, PTL DEF Spec, CompactionComplete

(* Both promises, for any generations, contents and retention limits.      *)
THEOREM StoreKeepsItsPromises == Spec => KeepsItsPromises
BY RetryNeverPoisoned, CompactionIsComplete DEF KeepsItsPromises

--------------------------------------------------------------------------------
(* The arena: sequences without repetition, sums of heights.               *)

LEMMA MaxIs ==
    ASSUME NEW N \in Nat, NEW T \in SUBSET (0..N), T # {}
    PROVE  Max(T) \in T /\ \A k \in T : k <= Max(T)
<1>1. \A k \in T : k \in 0..N
  OBVIOUS
<1>2. \E m \in T : \A k \in T : m >= k
  BY <1>1, Greatest
<1> DEFINE m == CHOOSE x \in T : \A y \in T : x >= y
<1>3. m \in T /\ \A k \in T : m >= k
  BY <1>2
<1>4. Max(T) = m
  BY DEF Max
<1> HIDE DEF m
<1> QED
  BY <1>1, <1>3, <1>4

(* What is left when one element is taken out of a sequence.               *)
LEMMA TakenOut ==
    ASSUME NEW S, NEW s \in Seq(S), NEW i \in 1..Len(s)
    PROVE  /\ RemoveAt(s, i) \in Seq(S) /\ Len(RemoveAt(s, i)) = Len(s) - 1
           /\ \A k \in 1..Len(s) - 1 : RemoveAt(s, i)[k] = IF k < i THEN s[k] ELSE s[k + 1]
<1> DEFINE front == SubSeq(s, 1, i - 1)
           rest == SubSeq(s, i + 1, Len(s))
           w == front \o rest
<1>1. Len(s) \in Nat /\ i \in Nat /\ 1 <= i /\ i <= Len(s) /\ \A k \in 1..Len(s) : s[k] \in S
  BY LenProperties, ElementOfSeq
<1>2. front \in Seq(S) /\ Len(front) = i - 1 /\ \A k \in 1..i - 1 : front[k] = s[k]
  <2>1. /\ front \in Seq(S)
        /\ Len(front) = IF 1 <= i - 1 THEN i - 1 - 1 + 1 ELSE 0
        /\ \A k \in 1..i - 1 - 1 + 1 : front[k] = s[1 + k - 1]
    <3>1. 1 \in Int /\ i - 1 \in Int /\ \A k \in 1..i - 1 : s[k] \in S
      BY <1>1
    <3> QED
      BY <3>1, SubSeqProperties
  <2> HIDE DEF front
  <2> QED
    BY <2>1, <1>1
<1>3. rest \in Seq(S) /\ Len(rest) = Len(s) - i /\ \A k \in 1..Len(s) - i : rest[k] = s[i + k]
  <2>1. /\ rest \in Seq(S)
        /\ Len(rest) = IF i + 1 <= Len(s) THEN Len(s) - (i + 1) + 1 ELSE 0
        /\ \A k \in 1..Len(s) - (i + 1) + 1 : rest[k] = s[i + 1 + k - 1]
    <3>1. i + 1 \in Int /\ Len(s) \in Int /\ \A k \in i + 1..Len(s) : s[k] \in S
      BY <1>1
    <3> QED
      BY <3>1, SubSeqProperties
  <2> HIDE DEF rest
  <2>2. Len(rest) = Len(s) - i /\ Len(s) - (i + 1) + 1 = Len(s) - i
    BY <2>1, <1>1
  <2>3. \A k \in 1..Len(s) - i : i + 1 + k - 1 = i + k
    BY <1>1
  <2> QED
    BY <2>1, <2>2, <2>3
<1> HIDE DEF front, rest
<1>4. /\ w \in Seq(S) /\ Len(w) = Len(front) + Len(rest)
      /\ \A k \in 1..Len(front) + Len(rest) :
            w[k] = IF k <= Len(front) THEN front[k] ELSE rest[k - Len(front)]
  BY <1>2, <1>3, ConcatProperties
<1>5. RemoveAt(s, i) = w
  BY DEF RemoveAt, front, rest
<1> HIDE DEF w
<1>6. Len(front) + Len(rest) = Len(s) - 1
  BY <1>1, <1>2, <1>3
<1>7. ASSUME NEW k \in 1..Len(s) - 1
      PROVE  w[k] = IF k < i THEN s[k] ELSE s[k + 1]
  <2>1. CASE k < i
    BY <2>1, <1>1, <1>2, <1>4, <1>6
  <2>2. CASE ~(k < i)
    <3>1. /\ w[k] = rest[k - (i - 1)]
          /\ k - (i - 1) \in 1..Len(s) - i /\ i + (k - (i - 1)) = k + 1
      BY <2>2, <1>1, <1>2, <1>4, <1>6
    <3>2. rest[k - (i - 1)] = s[i + (k - (i - 1))]
      BY <3>1, <1>3
    <3> QED
      BY <3>1, <3>2, <2>2
  <2> QED
    BY <2>1, <2>2
<1> QED
  BY <1>4, <1>5, <1>6, <1>7

(* What it is when one is put in.                                          *)
LEMMA PutIn ==
    ASSUME NEW S, NEW s \in Seq(S), NEW e \in S, NEW j \in 1..Len(s) + 1
    PROVE  /\ InsertAt(s, j, e) \in Seq(S) /\ Len(InsertAt(s, j, e)) = Len(s) + 1
           /\ \A k \in 1..Len(s) + 1 :
                 InsertAt(s, j, e)[k] = IF k < j THEN s[k] ELSE IF k = j THEN e ELSE s[k - 1]
<1> DEFINE front == SubSeq(s, 1, j - 1)
           rest == SubSeq(s, j, Len(s))
           one == <<e>>
           f == front \o one
           m == f \o rest
<1>1. Len(s) \in Nat /\ j \in Nat /\ 1 <= j /\ j <= Len(s) + 1 /\ \A k \in 1..Len(s) : s[k] \in S
  BY LenProperties, ElementOfSeq
<1>2. front \in Seq(S) /\ Len(front) = j - 1 /\ \A k \in 1..j - 1 : front[k] = s[k]
  <2>1. /\ front \in Seq(S)
        /\ Len(front) = IF 1 <= j - 1 THEN j - 1 - 1 + 1 ELSE 0
        /\ \A k \in 1..j - 1 - 1 + 1 : front[k] = s[1 + k - 1]
    <3>1. 1 \in Int /\ j - 1 \in Int /\ \A k \in 1..j - 1 : s[k] \in S
      BY <1>1
    <3> QED
      BY <3>1, SubSeqProperties
  <2> HIDE DEF front
  <2> QED
    BY <2>1, <1>1
<1>3. /\ rest \in Seq(S) /\ Len(rest) = Len(s) - j + 1
      /\ \A k \in 1..Len(s) - j + 1 : rest[k] = s[j + k - 1]
  <2>1. /\ rest \in Seq(S)
        /\ Len(rest) = IF j <= Len(s) THEN Len(s) - j + 1 ELSE 0
        /\ \A k \in 1..Len(s) - j + 1 : rest[k] = s[j + k - 1]
    <3>1. j \in Int /\ Len(s) \in Int /\ \A k \in j..Len(s) : s[k] \in S
      BY <1>1
    <3> QED
      BY <3>1, SubSeqProperties
  <2> HIDE DEF rest
  <2>2. Len(rest) = Len(s) - j + 1
    BY <2>1, <1>1
  <2> QED
    BY <2>1, <2>2
<1>4. one \in Seq(S) /\ Len(one) = 1 /\ one[1] = e
  OBVIOUS
<1> HIDE DEF front, rest, one
<1>5. f \in Seq(S) /\ Len(f) = j /\ \A k \in 1..j : f[k] = IF k < j THEN s[k] ELSE e
  <2>1. /\ f \in Seq(S) /\ Len(f) = Len(front) + Len(one)
        /\ \A k \in 1..Len(front) + Len(one) :
              f[k] = IF k <= Len(front) THEN front[k] ELSE one[k - Len(front)]
    BY <1>2, <1>4, ConcatProperties
  <2> HIDE DEF f
  <2>2. Len(f) = j /\ Len(front) + Len(one) = j
    BY <2>1, <1>1, <1>2, <1>4
  <2>3. ASSUME NEW k \in 1..j PROVE f[k] = IF k < j THEN s[k] ELSE e
    <3>1. CASE k < j
      BY <3>1, <2>1, <2>2, <1>1, <1>2
    <3>2. CASE ~(k < j)
      <4>1. k - Len(front) = 1 /\ ~(k <= Len(front))
        BY <3>2, <1>1, <1>2
      <4> QED
        BY <3>2, <4>1, <2>1, <2>2, <1>4
    <3> QED
      BY <3>1, <3>2
  <2> QED
    BY <2>1, <2>2, <2>3
<1> HIDE DEF f
<1>6. /\ m \in Seq(S) /\ Len(m) = Len(f) + Len(rest)
      /\ \A k \in 1..Len(f) + Len(rest) : m[k] = IF k <= Len(f) THEN f[k] ELSE rest[k - Len(f)]
  BY <1>3, <1>5, ConcatProperties
<1>7. InsertAt(s, j, e) = m
  BY DEF InsertAt, front, rest, one, f
<1> HIDE DEF m
<1>8. Len(f) + Len(rest) = Len(s) + 1
  BY <1>1, <1>3, <1>5
<1>9. ASSUME NEW k \in 1..Len(s) + 1
      PROVE  m[k] = IF k < j THEN s[k] ELSE IF k = j THEN e ELSE s[k - 1]
  <2>1. CASE k <= j
    BY <2>1, <1>1, <1>5, <1>6, <1>8
  <2>2. CASE ~(k <= j)
    <3>1. m[k] = rest[k - j] /\ k - j \in 1..Len(s) - j + 1 /\ j + (k - j) - 1 = k - 1
      BY <2>2, <1>1, <1>5, <1>6, <1>8
    <3>2. rest[k - j] = s[j + (k - j) - 1]
      BY <3>1, <1>3
    <3> QED
      BY <3>1, <3>2, <2>2, <1>1
  <2> QED
    BY <2>1, <2>2
<1> QED
  BY <1>6, <1>7, <1>8, <1>9

(* A move leaves every record in the order, once.                          *)
LEMMA MoveReorders ==
    ASSUME ArenaAssumption, NEW order \in Orders, NEW i \in Sources, NEW j \in Sources
    PROVE  Moved(order, i, j) \in Orders
<1> DEFINE w == RemoveAt(order, i)
           m == InsertAt(w, j, order[i])
           came(k) == IF k = j THEN i
                      ELSE IF k < j THEN (IF k < i THEN k ELSE k + 1)
                      ELSE (IF k - 1 < i THEN k - 1 ELSE k)
<1>1. /\ NumRecords \in Nat /\ order \in [Sources -> Sources] /\ IsInjective(order)
      /\ Sources = 1..NumRecords
  BY DEF ArenaAssumption, Orders, Sources
<1>2. order \in Seq(Sources) /\ Len(order) = NumRecords
  BY <1>1
<1>3. i \in 1..Len(order) /\ j \in 1..Len(order)
  BY <1>1, <1>2
<1>4. /\ w \in Seq(Sources) /\ Len(w) = NumRecords - 1
      /\ \A k \in 1..NumRecords - 1 : w[k] = IF k < i THEN order[k] ELSE order[k + 1]
  BY <1>2, <1>3, TakenOut
<1> HIDE DEF w
<1>5. order[i] \in Sources /\ j \in 1..Len(w) + 1 /\ Len(w) + 1 = NumRecords
  BY <1>1, <1>4
<1>6. /\ m \in Seq(Sources) /\ Len(m) = NumRecords
      /\ \A k \in 1..NumRecords :
            m[k] = IF k < j THEN w[k] ELSE IF k = j THEN order[i] ELSE w[k - 1]
  <2> DEFINE n == Len(w) + 1
             e == order[i]
  <2>0. w \in Seq(Sources) /\ e \in Sources /\ j \in 1..Len(w) + 1
    BY <1>4, <1>5
  <2> HIDE DEF e
  <2>3. /\ InsertAt(w, j, e) \in Seq(Sources) /\ Len(InsertAt(w, j, e)) = Len(w) + 1
        /\ \A k \in 1..Len(w) + 1 :
              InsertAt(w, j, e)[k] = IF k < j THEN w[k] ELSE IF k = j THEN e ELSE w[k - 1]
    BY <2>0, PutIn
  <2>1. /\ m \in Seq(Sources) /\ Len(m) = n
        /\ \A k \in 1..n :
              m[k] = IF k < j THEN w[k] ELSE IF k = j THEN order[i] ELSE w[k - 1]
    BY <2>3, Zenon DEF e
  <2>2. n = NumRecords
    BY <1>5
  <2> HIDE DEF n, m
  <2> QED
    BY <2>1, <2>2
<1> HIDE DEF m
<1>30. i \in Nat /\ j \in Nat /\ 1 <= i /\ 1 <= j /\ i <= NumRecords /\ j <= NumRecords
  BY <1>1
<1>7. ASSUME NEW k \in 1..NumRecords
      PROVE  m[k] = order[came(k)] /\ came(k) \in 1..NumRecords
  <2>1. CASE k < j
    <3>1. k \in 1..NumRecords - 1 /\ m[k] = w[k]
      BY <2>1, <1>30, <1>1, <1>6
    <3>2. w[k] = IF k < i THEN order[k] ELSE order[k + 1]
      BY <3>1, <1>4
    <3>3. came(k) = IF k < i THEN k ELSE k + 1
      BY <2>1, <1>30
    <3>4. came(k) \in 1..NumRecords
      BY <3>1, <3>3, <1>1
    <3> HIDE DEF came
    <3> QED
      BY <3>1, <3>2, <3>3, <3>4
  <2>2. CASE k = j
    BY <2>2, <1>30, <1>1, <1>6
  <2>3. CASE k > j
    <3>1. k - 1 \in 1..NumRecords - 1 /\ m[k] = w[k - 1] /\ (k - 1) + 1 = k
      <4>1. k - 1 \in 1..NumRecords - 1 /\ (k - 1) + 1 = k /\ ~(k < j) /\ k # j
        BY <2>3, <1>30, <1>1
      <4> QED
        BY <4>1, <1>6
    <3>2. w[k - 1] = IF k - 1 < i THEN order[k - 1] ELSE order[k]
      BY <3>1, <1>4
    <3> QED
      BY <3>1, <3>2, <2>3, <1>1, <1>30
  <2> QED
    BY <2>1, <2>2, <2>3, <1>1, <1>30
<1>8. \A k, l \in 1..NumRecords : came(k) = came(l) => k = l
  BY <1>1
<1> HIDE DEF came
<1>9. m \in [1..NumRecords -> Sources] /\ DOMAIN m = 1..NumRecords
  BY <1>6, LenProperties
<1>10. \A k, l \in 1..NumRecords : order[k] = order[l] => k = l
  BY <1>1 DEF IsInjective
<1>11. IsInjective(m)
  BY <1>7, <1>8, <1>9, <1>10 DEF IsInjective
<1>12. Moved(order, i, j) = m
  BY DEF Moved, m, w
<1> QED
  BY <1>1, <1>9, <1>11, <1>12 DEF Orders

LEMMA IdentityIsOrder == ArenaAssumption => Identity \in Orders
BY DEF Orders, Identity, IsInjective

--------------------------------------------------------------------------------
(* Sums of heights.                                                        *)

LEMMA HeightsAsSum ==
    ASSUME NEW h, NEW S, IsFiniteSet(S), Counts(h, S)
    PROVE  HeightOf(h, S) = SumOf(h, S)
<1> DEFINE it == CHOOSE it : it = [s \in SUBSET S |->
                    IF s = {} THEN 0 ELSE h[Pick(s)] + it[s \ {Pick(s)}]]
           g == Summed(h, S)
<1>1. HeightOf(h, S) = it[S]
  BY Zenon DEF HeightOf, MapThenSumSet, MapThenFoldSet, Pick
<1>2. Sums(g, h, S)
  BY SummedIs
<1> HIDE DEF g
<1>3. g = [s \in SUBSET S |-> IF s = {} THEN 0 ELSE h[Pick(s)] + g[s \ {Pick(s)}]]
  BY <1>2 DEF Sums
<1>4. it = [s \in SUBSET S |-> IF s = {} THEN 0 ELSE h[Pick(s)] + it[s \ {Pick(s)}]]
  BY <1>3, Zenon
<1> HIDE DEF it
<1>5. Adds(it, h, S)
  BY <1>4 DEF Adds
<1>6. it[S] = SumOf(h, S)
  BY <1>5, SumIs
<1> QED
  BY <1>1, <1>6

LEMMA PartsFinite ==
    ASSUME ArenaAssumption
    PROVE  /\ IsFiniteSet(Sources) /\ \A b : IsFiniteSet(InBlock(b)) /\ InBlock(b) \subseteq Sources
           /\ Heights \subseteq Nat
<1>1. NumRecords \in Int /\ IsFiniteSet(1..NumRecords)
  BY FS_Interval DEF ArenaAssumption
<1>2. \A b : InBlock(b) \subseteq Sources
  BY DEF InBlock
<1> QED
  BY <1>1, <1>2, FS_Subset DEF Sources, ArenaAssumption

LEMMA SumsAreNat ==
    ASSUME ArenaAssumption, NEW h \in [Sources -> Heights]
    PROVE  BlockSums(h) \in [Blocks -> Nat] /\ Total(h) \in Nat
<1>1. Counts(h, Sources) /\ \A b : Counts(h, InBlock(b))
  BY PartsFinite DEF Counts
<1>2. Total(h) \in Nat
  BY <1>1, PartsFinite, HeightsAsSum, SumType DEF Total
<1>3. ASSUME NEW b PROVE HeightOf(h, InBlock(b)) \in Nat
  BY <1>1, PartsFinite, HeightsAsSum, SumType
<1> QED
  BY <1>2, <1>3 DEF BlockSums

(* Another height of one record changes the sum of its block only.         *)
LEMMA OneBlockChanges ==
    ASSUME ArenaAssumption, NEW h \in [Sources -> Heights], NEW s \in Sources, NEW n \in Heights
    PROVE  BlockSums([h EXCEPT ![s] = n]) =
              [BlockSums(h) EXCEPT ![Block(s)] = BlockSums([h EXCEPT ![s] = n])[Block(s)]]
<1> DEFINE k == [h EXCEPT ![s] = n]
<1>1. k \in [Sources -> Heights]
  OBVIOUS
<1>2. ASSUME NEW b \in Blocks, b # Block(s)
      PROVE  HeightOf(k, InBlock(b)) = HeightOf(h, InBlock(b))
  <2>1. s \notin InBlock(b) /\ IsFiniteSet(InBlock(b)) /\ InBlock(b) \subseteq Sources
    BY <1>2, PartsFinite DEF InBlock
  <2>2. Counts(h, InBlock(b)) /\ Counts(k, InBlock(b)) /\ AgreeOn(k, h, InBlock(b))
    BY <2>1, PartsFinite DEF Counts, AgreeOn
  <2> HIDE DEF k
  <2> QED
    BY <2>1, <2>2, HeightsAsSum, SumSame
<1> HIDE DEF k
<1>3. \A b \in Blocks : b # Block(s) => BlockSums(k)[b] = BlockSums(h)[b]
  BY <1>2 DEF BlockSums
<1>4. BlockSums(k) = [BlockSums(h) EXCEPT ![Block(s)] = BlockSums(k)[Block(s)]]
  BY <1>1, <1>3, SumsAreNat
<1> QED
  BY <1>4 DEF k

--------------------------------------------------------------------------------
(* The inductive invariant of the arena.                                   *)

ArenaMoves == [step : {"link", "sync", "verify"}, by : Readers,
               generation : 1..MaxGeneration, order : Orders]
ArenaUpdates == [step : {"record", "block", "truncate", "header"}, by : Readers,
                 source : Sources, new : Heights, old : Heights]

(* The mutex is held by an open reader that moves or updates.              *)
JobStands == /\ job = Free \/ job \in ArenaMoves \/ job \in ArenaUpdates
             /\ job.step # "free" => reader[job.by].open

(* What is published is one move of the newest order, until it is linked;  *)
(* then the files say what the publisher will adopt.                       *)
MoveStands ==
    /\ job.step = "link" =>
          /\ job.generation = NewestOrder + 1
          /\ \E i, j \in Sources : job.order = Moved(OrderOf(NewestOrder), i, j)
    /\ job.step \in {"sync", "verify"} =>
          job.generation \in DOMAIN committed /\ committed[job.generation] = job.order
    /\ job.step = "verify" => job.generation \in durable

(* Where an update stands: which of the files has the new height already.  *)
HeightsStand ==
    /\ job.step \in {"free", "link", "sync", "verify", "record"} =>
          /\ \A r \in Readers : reader[r].open => reader[r].height = heights
          /\ blocks = BlockSums(heights)
          /\ total \in {TornHeader, Total(heights)}
    /\ job.step \in {"record", "block", "truncate", "header"} => job.old = Mine[job.source]
    /\ job.step \in {"block", "truncate", "header"} => heights = Corrected
    /\ job.step = "block" => blocks = BlockSums(Mine)
    /\ job.step \in {"truncate", "header"} => blocks = BlockSums(Corrected)
    /\ job.step \in {"block", "truncate"} => total \in {TornHeader, Total(Mine)}
    /\ job.step = "header" => total = TornHeader

OrdersInv == ArenaTypeOK /\ JobStands /\ OrderIsCommitted /\ DoneIsDurable /\ MoveStands
ArenaInv == OrdersInv /\ (OneWriter => HeightsStand)

LEMMA ReaderIs ==
    ASSUME ArenaTypeOK, NEW r \in Readers
    PROVE  /\ reader[r] \in Copies \/ reader[r] = Closed
           /\ reader[r].open \in BOOLEAN
           /\ reader[r].open => /\ reader[r] \in Copies
                                /\ reader[r].height \in [Sources -> Heights]
                                /\ reader[r].order \in Orders
                                /\ reader[r].generation \in 0..MaxGeneration
<1>1. reader[r] \in Copies \/ reader[r] = Closed
  BY DEF ArenaTypeOK
<1>2. CASE reader[r] = Closed
  BY <1>2 DEF Closed
<1>3. CASE reader[r] \in Copies
  BY <1>3 DEF Copies
<1> QED
  BY <1>1, <1>2, <1>3

LEMMA JobIs ==
    ASSUME JobStands
    PROVE  /\ job.step \in {"free", "link", "sync", "verify", "record", "block", "truncate", "header"}
           /\ job.step = "free" <=> job = Free
           /\ job.step \in {"link", "sync", "verify"} => job \in ArenaMoves
           /\ job.step \in {"record", "block", "truncate", "header"} => job \in ArenaUpdates
BY DEF JobStands, ArenaMoves, ArenaUpdates, Free

LEMMA NewestOrderIs ==
    ASSUME ArenaAssumption, ArenaTypeOK
    PROVE  /\ NewestOrder \in DOMAIN committed \cup {0} /\ NewestOrder \in 0..MaxGeneration
           /\ \A g \in DOMAIN committed : g <= NewestOrder
           /\ OrderOf(NewestOrder) \in Orders
<1> DEFINE T == DOMAIN committed \cup {0}
<1>1. T \in SUBSET (0..MaxGeneration) /\ T # {} /\ MaxGeneration \in Nat
  BY DEF ArenaTypeOK, ArenaAssumption
<1> HIDE DEF T
<1>2. Max(T) \in T /\ \A g \in T : g <= Max(T)
  BY <1>1, MaxIs
<1>3. NewestOrder \in T /\ \A g \in T : g <= NewestOrder
  BY <1>2 DEF NewestOrder, T
<1>4. OrderOf(NewestOrder) \in Orders
  BY <1>3, IdentityIsOrder DEF OrderOf, T, ArenaTypeOK
<1> QED
  BY <1>1, <1>3, <1>4 DEF T

LEMMA ArenaInvInit == ArenaAssumption /\ ArenaInit => ArenaInv
<1> SUFFICES ASSUME ArenaAssumption, ArenaInit PROVE ArenaInv
  OBVIOUS
<1>1. DOMAIN committed = {}
  BY DEF ArenaInit
<1>2. \A r \in Readers : ~reader[r].open
  BY DEF ArenaInit, Closed
<1>3. job = Free /\ job.step = "free"
  BY DEF ArenaInit, Free
<1>4. blocks \in [Blocks -> Nat] /\ total \in Nat
  BY SumsAreNat DEF ArenaInit
<1>5. ArenaTypeOK
  BY <1>1, <1>4 DEF ArenaTypeOK, ArenaInit, ArenaAssumption
<1>6. JobStands /\ MoveStands /\ OrderIsCommitted /\ DoneIsDurable
  BY <1>2, <1>3 DEF JobStands, MoveStands, OrderIsCommitted, DoneIsDurable, ArenaInit
<1>7. HeightsStand
  BY <1>2, <1>3 DEF HeightsStand, ArenaInit
<1> QED
  BY <1>5, <1>6, <1>7 DEF ArenaInv, OrdersInv

(* The orders: a step keeps what files, readers and the mutex say of them. *)
LEMMA OrdersStep == ArenaAssumption /\ OrdersInv /\ [ArenaNext]_arenaVars => OrdersInv'
<1> SUFFICES ASSUME ArenaAssumption, OrdersInv, [ArenaNext]_arenaVars PROVE OrdersInv'
  OBVIOUS
<1>i. ArenaTypeOK /\ JobStands /\ OrderIsCommitted /\ DoneIsDurable /\ MoveStands
  BY DEF OrdersInv
<1>t. /\ heights \in [Sources -> Heights] /\ blocks \in [Blocks -> Nat]
      /\ total \in Nat \cup {TornHeader}
      /\ DOMAIN committed \subseteq 1..MaxGeneration
      /\ \A g \in DOMAIN committed : committed[g] \in Orders
      /\ durable \subseteq DOMAIN committed /\ reported \in 0..MaxGeneration
      /\ reader \in [Readers -> Copies \cup {Closed}]
  BY <1>i DEF ArenaTypeOK
<1>r. \A r \in Readers : /\ reader[r].open \in BOOLEAN
                         /\ reader[r].open => /\ reader[r] \in Copies
                                              /\ reader[r].height \in [Sources -> Heights]
                                              /\ reader[r].order \in Orders
                                              /\ reader[r].generation \in 0..MaxGeneration
  BY <1>i, ReaderIs
<1>j. /\ job.step = "free" <=> job = Free
      /\ job.step \in {"link", "sync", "verify"} => job \in ArenaMoves
      /\ job.step \in {"record", "block", "truncate", "header"} => job \in ArenaUpdates
  BY <1>i, JobIs
<1>b. job.step # "free" => job.by \in Readers /\ reader[job.by].open
  BY <1>i, JobIs DEF JobStands, ArenaMoves, ArenaUpdates
<1>n. /\ NewestOrder \in DOMAIN committed \cup {0} /\ NewestOrder \in 0..MaxGeneration
      /\ \A g \in DOMAIN committed : g <= NewestOrder /\ OrderOf(NewestOrder) \in Orders
  BY <1>i, NewestOrderIs
<1>c. Closed.open = FALSE /\ Free.step = "free"
  BY DEF Closed, Free
<1>1. ASSUME NEW r \in Readers, Open(r) PROVE OrdersInv'
  <2>1. /\ job' = job /\ job = Free /\ committed' = committed /\ durable' = durable
        /\ UNCHANGED <<heights, blocks, total, reported>>
    BY <1>1 DEF Open
  <2> DEFINE c == [open |-> TRUE, height |-> heights, order |-> OrderOf(NewestOrder),
                   generation |-> NewestOrder]
  <2>2. reader' = [reader EXCEPT ![r] = c]
    BY <1>1 DEF Open
  <2>3. OrderOf(NewestOrder) \in Orders
    BY <1>i, NewestOrderIs
  <2>4. c \in Copies
    BY <2>3, <1>n, <1>t DEF Copies
  <2>5. ArenaTypeOK'
    BY <2>1, <2>2, <2>4, <1>i, <1>t DEF ArenaTypeOK
  <2>6. OrderIsCommitted'
    BY <2>1, <2>2, <1>n, <1>i, <1>t DEF OrderIsCommitted, OrderOf
  <2>7. JobStands' /\ MoveStands'
    BY <2>1, <1>c DEF JobStands, MoveStands
  <2>8. DoneIsDurable'
    BY <2>1, <1>i DEF DoneIsDurable
  <2> QED
    BY <2>5, <2>6, <2>7, <2>8 DEF OrdersInv
<1>2. ASSUME NEW r \in Readers,
             reader' = [reader EXCEPT ![r] = Closed], job' = Free,
             UNCHANGED <<heights, blocks, total, committed, durable, reported>>
      PROVE  OrdersInv'
  <2>1. ArenaTypeOK'
    BY <1>2, <1>t DEF ArenaTypeOK
  <2>2. OrderIsCommitted'
    BY <1>2, <1>t, <1>c, <1>i DEF OrderIsCommitted, OrderOf
  <2>3. JobStands' /\ MoveStands'
    BY <1>2, <1>c DEF JobStands, MoveStands
  <2>4. DoneIsDurable'
    BY <1>2, <1>i DEF DoneIsDurable
  <2> QED
    BY <2>1, <2>2, <2>3, <2>4 DEF OrdersInv
<1>3. ASSUME NEW r \in Readers, NEW i \in Sources, NEW j \in Sources, BeginMove(r, i, j)
      PROVE  OrdersInv'
  <2> DEFINE g == reader[r].generation + 1
             o == Moved(reader[r].order, i, j)
             begun == [step |-> "link", by |-> r, generation |-> g, order |-> o]
  <2>1. /\ job = Free /\ reader[r].open /\ g <= MaxGeneration
        /\ UNCHANGED <<heights, blocks, total, committed, durable, reported>>
    BY <1>3 DEF BeginMove
  <2>2. CASE ~(g > NewestOrder)
    BY <2>2, <2>1, <1>3, <1>2 DEF BeginMove
  <2>3. CASE g > NewestOrder
    <3>1. job' = begun /\ reader' = reader
      BY <2>3, <1>3 DEF BeginMove
    <3>2. /\ reader[r].generation \in DOMAIN committed \cup {0}
          /\ reader[r].order = OrderOf(reader[r].generation)
      BY <2>1, <1>i DEF OrderIsCommitted
    <3>3. reader[r].generation <= NewestOrder /\ reader[r].generation \in Nat
      BY <3>2, <1>n, <1>r, <2>1
    <3>4. reader[r].generation = NewestOrder /\ g = NewestOrder + 1
      BY <3>3, <2>3, <1>n
    <3>5. o \in Orders /\ g \in 1..MaxGeneration
      BY <2>1, <1>r, <3>3, MoveReorders DEF ArenaAssumption
    <3>6. begun \in ArenaMoves /\ begun.step = "link" /\ begun.by = r
          /\ begun.generation = g /\ begun.order = o
      BY <3>5 DEF ArenaMoves
    <3>7. o = Moved(OrderOf(NewestOrder), i, j)
      BY <3>2, <3>4
    <3> HIDE DEF begun, o, g
    <3>8. ArenaTypeOK'
      BY <3>1, <3>6, <2>1, <1>t DEF ArenaTypeOK
    <3>9. OrderIsCommitted' /\ DoneIsDurable'
      BY <3>1, <2>1, <1>i DEF OrderIsCommitted, DoneIsDurable, OrderOf
    <3>10. JobStands'
      BY <3>1, <3>6, <2>1 DEF JobStands
    <3>11. NewestOrder' = NewestOrder /\ \A k : OrderOf(k)' = OrderOf(k)
      BY <2>1 DEF NewestOrder, OrderOf
    <3>12. MoveStands'
      BY <3>1, <3>4, <3>6, <3>7, <3>11 DEF MoveStands
    <3> QED
      BY <3>8, <3>9, <3>10, <3>12 DEF OrdersInv
  <2> QED
    BY <2>2, <2>3
<1>4. ASSUME NEW r \in Readers, NEW i \in Sources, NEW h \in Heights, BeginUpdate(r, i, h)
      PROVE  OrdersInv'
  <2> DEFINE s == reader[r].order[i]
             begun == [step |-> "record", by |-> r, source |-> s, new |-> h, old |-> heights[s]]
  <2>1. /\ job = Free /\ reader[r].open /\ job' = begun /\ reader' = reader
        /\ UNCHANGED <<heights, blocks, total, committed, durable, reported>>
    BY <1>4 DEF BeginUpdate
  <2>2. s \in Sources
    BY <2>1, <1>r DEF Orders
  <2>3. begun \in ArenaUpdates /\ begun.step = "record" /\ begun.by = r
    BY <2>2, <1>t DEF ArenaUpdates
  <2> HIDE DEF begun
  <2>4. ArenaTypeOK'
    BY <2>1, <2>3, <1>t DEF ArenaTypeOK
  <2>5. OrderIsCommitted' /\ DoneIsDurable'
    BY <2>1, <1>i DEF OrderIsCommitted, DoneIsDurable, OrderOf
  <2>6. JobStands' /\ MoveStands'
    BY <2>1, <2>3 DEF JobStands, MoveStands
  <2> QED
    BY <2>4, <2>5, <2>6 DEF OrdersInv
<1>5. CASE Link
  <2>1. /\ job.step = "link"
        /\ committed' = [g \in DOMAIN committed \cup {job.generation} |->
                           IF g = job.generation THEN job.order ELSE committed[g]]
        /\ job' = [job EXCEPT !.step = "sync"]
        /\ UNCHANGED <<heights, blocks, total, durable, reported, reader>>
    BY <1>5 DEF Link
  <2>2. job \in ArenaMoves
    BY <2>1, <1>j
  <2>3. /\ job' \in ArenaMoves /\ job'.step = "sync" /\ job'.by = job.by
        /\ job'.generation = job.generation /\ job'.order = job.order
        /\ job.generation \in 1..MaxGeneration /\ job.order \in Orders
    BY <2>1, <2>2 DEF ArenaMoves
  <2>4. job.generation = NewestOrder + 1
    BY <2>1, <1>i DEF MoveStands
  <2>5. job.generation \notin DOMAIN committed /\ job.generation # 0
    BY <2>4, <1>n
  <2>6. /\ DOMAIN committed' = DOMAIN committed \cup {job.generation}
        /\ \A g \in DOMAIN committed : committed'[g] = committed[g]
        /\ committed'[job.generation] = job.order
    BY <2>1, <2>5
  <2>7. ArenaTypeOK'
    BY <2>1, <2>3, <2>6, <1>b, <1>t DEF ArenaTypeOK
  <2>8. OrderIsCommitted'
    BY <2>1, <2>6, <1>i DEF OrderIsCommitted, OrderOf
  <2>9. DoneIsDurable' /\ JobStands' /\ MoveStands'
    BY <2>1, <2>3, <2>6, <1>b, <1>i DEF DoneIsDurable, JobStands, MoveStands
  <2> QED
    BY <2>7, <2>8, <2>9 DEF OrdersInv
<1>6. CASE SyncDirectory
  <2>1. /\ job.step = "sync" /\ durable' = DOMAIN committed
        /\ job' = [job EXCEPT !.step = "verify"]
        /\ UNCHANGED <<heights, blocks, total, committed, reported, reader>>
    BY <1>6 DEF SyncDirectory
  <2>2. job \in ArenaMoves
    BY <2>1, <1>j
  <2>3. /\ job' \in ArenaMoves /\ job'.step = "verify" /\ job'.by = job.by
        /\ job'.generation = job.generation /\ job'.order = job.order
    BY <2>1, <2>2 DEF ArenaMoves
  <2>4. ArenaTypeOK'
    BY <2>1, <2>3, <1>b, <1>t DEF ArenaTypeOK
  <2>5. OrderIsCommitted' /\ DoneIsDurable'
    BY <2>1, <1>i, <1>t DEF OrderIsCommitted, DoneIsDurable, OrderOf
  <2>6. JobStands' /\ MoveStands'
    BY <2>1, <2>3, <1>b, <1>i DEF JobStands, MoveStands
  <2> QED
    BY <2>4, <2>5, <2>6 DEF OrdersInv
<1>7. CASE Adopt
  <2>1. /\ job.step = "verify"
        /\ reader' = [reader EXCEPT ![job.by].order = job.order,
                                    ![job.by].generation = job.generation]
        /\ reported' = job.generation /\ job' = Free
        /\ UNCHANGED <<heights, blocks, total, committed, durable>>
    BY <1>7 DEF Adopt
  <2>2. job \in ArenaMoves
    BY <2>1, <1>j
  <2>3. /\ job.by \in Readers /\ job.generation \in 1..MaxGeneration /\ job.order \in Orders
        /\ reader[job.by].open /\ reader[job.by] \in Copies
    BY <2>1, <2>2, <1>b, <1>r DEF ArenaMoves
  <2>4. /\ job.generation \in DOMAIN committed /\ committed[job.generation] = job.order
        /\ job.generation \in durable
    BY <2>1, <1>i DEF MoveStands
  <2>5. /\ reader'[job.by] \in Copies /\ reader'[job.by].order = job.order
        /\ reader'[job.by].generation = job.generation
        /\ \A r \in Readers : r # job.by => reader'[r] = reader[r]
        /\ reader' \in [Readers -> Copies \cup {Closed}]
    <3> DEFINE one == [reader[job.by] EXCEPT !.order = job.order, !.generation = job.generation]
    <3>1. reader' = [reader EXCEPT ![job.by] = one]
      BY <2>1, <2>3, <1>t
    <3>2. one \in Copies /\ one.order = job.order /\ one.generation = job.generation
      <4> DEFINE c == reader[job.by]
      <4>1. /\ c \in [open : {TRUE}, height : [Sources -> Heights], order : Orders,
                      generation : 0..MaxGeneration]
            /\ job.order \in Orders /\ job.generation \in 0..MaxGeneration
        <5>1. job.generation \in 0..MaxGeneration
          BY <2>3
        <5> QED
          BY <5>1, <2>3, Zenon DEF Copies
      <4> HIDE DEF c
      <4>2. one \in Copies
        BY <4>1 DEF Copies, c
      <4>3. one.order = job.order
        BY <4>1 DEF c
      <4>4. one.generation = job.generation
        BY <4>1 DEF c
      <4> QED
        BY <4>2, <4>3, <4>4
    <3> HIDE DEF one
    <3> QED
      BY <3>1, <3>2, <2>3, <1>t
  <2>6. ArenaTypeOK'
    BY <2>1, <2>3, <2>5, <1>t DEF ArenaTypeOK
  <2>7. OrderIsCommitted'
    <3> SUFFICES ASSUME NEW r \in Readers, reader'[r].open
                 PROVE  /\ reader'[r].generation \in DOMAIN committed \cup {0}
                        /\ reader'[r].order = OrderOf(reader'[r].generation)
      <4>1. \A k : OrderOf(k)' = OrderOf(k)
        BY <2>1 DEF OrderOf
      <4> QED
        BY <2>1, <4>1 DEF OrderIsCommitted
    <3>1. CASE r = job.by
      BY <3>1, <2>3, <2>4, <2>5 DEF OrderOf
    <3>2. CASE r # job.by
      BY <3>2, <2>5, <1>i DEF OrderIsCommitted
    <3> QED
      BY <3>1, <3>2
  <2>8. DoneIsDurable' /\ JobStands' /\ MoveStands'
    BY <2>1, <2>4, <1>c DEF DoneIsDurable, JobStands, MoveStands
  <2> QED
    BY <2>6, <2>7, <2>8 DEF OrdersInv
<1>8. CASE MoveFails
  BY <1>8, <1>2, <1>b DEF MoveFails
<1>9. ASSUME \/ WriteRecord \/ WriteBlock \/ TruncateHeader
      PROVE  OrdersInv'
  <2>1. /\ job.step \in {"record", "block", "truncate"}
        /\ \E k \in {"block", "truncate", "header"} : job' = [job EXCEPT !.step = k]
        /\ UNCHANGED <<committed, durable, reported, reader>>
    BY <1>9 DEF WriteRecord, WriteBlock, TruncateHeader
  <2>2. job \in ArenaUpdates
    BY <2>1, <1>j
  <2>3. /\ job.by \in Readers /\ job.source \in Sources /\ job.new \in Heights
        /\ Mine \in [Sources -> Heights]
    BY <2>1, <2>2, <1>b, <1>r DEF ArenaUpdates, Mine
  <2>4. /\ job' \in ArenaUpdates /\ job'.step \in {"block", "truncate", "header"}
        /\ job'.by = job.by
    BY <2>1, <2>2 DEF ArenaUpdates
  <2>5. heights' \in [Sources -> Heights]
    BY <1>9, <2>3, <1>t DEF WriteRecord, WriteBlock, TruncateHeader
  <2>6. blocks' \in [Blocks -> Nat]
    <3>1. Corrected \in [Sources -> Heights]
      BY <2>3 DEF Corrected
    <3>2. BlockSums(Corrected) \in [Blocks -> Nat] /\ Block(job.source) \in Blocks
      BY <3>1, <2>3, SumsAreNat DEF Blocks
    <3> QED
      BY <1>9, <3>2, <1>t DEF WriteRecord, WriteBlock, TruncateHeader
  <2>7. total' \in Nat \cup {TornHeader}
    BY <1>9, <1>t DEF WriteRecord, WriteBlock, TruncateHeader
  <2>8. ArenaTypeOK'
    BY <2>1, <2>3, <2>4, <2>5, <2>6, <2>7, <1>t DEF ArenaTypeOK
  <2>9. OrderIsCommitted' /\ DoneIsDurable'
    BY <2>1, <1>i DEF OrderIsCommitted, DoneIsDurable, OrderOf
  <2>10. JobStands' /\ MoveStands'
    BY <2>1, <2>4, <1>b DEF JobStands, MoveStands
  <2> QED
    BY <2>8, <2>9, <2>10 DEF OrdersInv
<1>10. CASE WriteHeader
  <2>1. /\ job.step = "header" /\ job' = Free /\ total' = Total(Corrected)
        /\ reader' = [reader EXCEPT ![job.by].height = Corrected]
        /\ UNCHANGED <<heights, blocks, committed, durable, reported>>
    BY <1>10 DEF WriteHeader
  <2>2. job \in ArenaUpdates
    BY <2>1, <1>j
  <2>3. /\ job.by \in Readers /\ job.source \in Sources /\ job.new \in Heights
        /\ Mine \in [Sources -> Heights] /\ reader[job.by] \in Copies
    BY <2>1, <2>2, <1>b, <1>r DEF ArenaUpdates, Mine
  <2>4. Corrected \in [Sources -> Heights]
    BY <2>3 DEF Corrected
  <2>5. Total(Corrected) \in Nat
    BY <2>4, SumsAreNat
  <2>6. /\ reader' \in [Readers -> Copies \cup {Closed}]
        /\ \A r \in Readers : /\ reader'[r].open = reader[r].open
                              /\ reader[r].open =>
                                    /\ reader'[r].generation = reader[r].generation
                                    /\ reader'[r].order = reader[r].order
    <3> DEFINE one == [reader[job.by] EXCEPT !.height = Corrected]
    <3>1. reader' = [reader EXCEPT ![job.by] = one]
      BY <2>1, <2>3, <1>t
    <3>2. /\ one \in Copies /\ one.open = reader[job.by].open
          /\ one.generation = reader[job.by].generation /\ one.order = reader[job.by].order
      BY <2>3, <2>4 DEF Copies
    <3> HIDE DEF one
    <3> QED
      BY <3>1, <3>2, <2>3, <1>t
  <2>7. ArenaTypeOK'
    BY <2>1, <2>5, <2>6, <1>t DEF ArenaTypeOK
  <2>8. OrderIsCommitted' /\ DoneIsDurable'
    <3>1. \A k : OrderOf(k)' = OrderOf(k)
      BY <2>1 DEF OrderOf
    <3> QED
      BY <2>1, <2>6, <3>1, <1>i DEF OrderIsCommitted, DoneIsDurable
  <2>9. JobStands' /\ MoveStands'
    BY <2>1, <1>c DEF JobStands, MoveStands
  <2> QED
    BY <2>7, <2>8, <2>9 DEF OrdersInv
<1>11. CASE UpdateFails
  <2>1. /\ job.step \in {"record", "block", "truncate", "header"} /\ job' = Free
        /\ UNCHANGED <<total, committed, durable, reported, reader>>
    BY <1>11 DEF UpdateFails
  <2>2. job \in ArenaUpdates
    BY <2>1, <1>j
  <2>3. /\ job.by \in Readers /\ job.source \in Sources /\ job.old \in Heights
        /\ Mine \in [Sources -> Heights]
    BY <2>1, <2>2, <1>b, <1>r DEF ArenaUpdates, Mine
  <2>4. heights' \in [Sources -> Heights]
    BY <1>11, <2>3, <1>t DEF UpdateFails
  <2>5. blocks' \in [Blocks -> Nat]
    <3>1. BlockSums(Mine) \in [Blocks -> Nat] /\ Block(job.source) \in Blocks
      BY <2>3, SumsAreNat DEF Blocks
    <3> QED
      BY <1>11, <3>1, <1>t DEF UpdateFails
  <2>6. ArenaTypeOK'
    BY <2>1, <2>4, <2>5, <1>t DEF ArenaTypeOK
  <2>7. OrderIsCommitted' /\ DoneIsDurable'
    BY <2>1, <1>i DEF OrderIsCommitted, DoneIsDurable, OrderOf
  <2>8. JobStands' /\ MoveStands'
    BY <2>1, <1>c DEF JobStands, MoveStands
  <2> QED
    BY <2>6, <2>7, <2>8 DEF OrdersInv
<1>12. CASE Crash
  <2>1. /\ reader' = [r \in Readers |-> Closed] /\ job' = Free
        /\ UNCHANGED <<heights, blocks, total, durable, reported>>
    BY <1>12 DEF Crash
  <2>2. PICK lost \in SUBSET (DOMAIN committed \ durable) :
           committed' = [g \in DOMAIN committed \ lost |-> committed[g]]
    BY <1>12 DEF Crash
  <2>3. ArenaTypeOK'
    BY <2>1, <2>2, <1>t DEF ArenaTypeOK
  <2>4. OrderIsCommitted' /\ DoneIsDurable' /\ JobStands' /\ MoveStands'
    BY <2>1, <1>c, <1>i DEF OrderIsCommitted, DoneIsDurable, JobStands, MoveStands
  <2> QED
    BY <2>3, <2>4 DEF OrdersInv
<1>13. CASE UNCHANGED arenaVars
  BY <1>13, <1>i DEF arenaVars, OrdersInv, ArenaTypeOK, JobStands, OrderIsCommitted,
                     DoneIsDurable, MoveStands, OrderOf, NewestOrder
<1>14. ASSUME NEW r \in Readers, Close(r) PROVE OrdersInv'
  BY <1>14, <1>2 DEF Close
<1> QED
  BY <1>1, <1>3, <1>4, <1>5, <1>6, <1>7, <1>8, <1>9, <1>10, <1>11, <1>12, <1>13, <1>14
     DEF ArenaNext

(* The heights, as long as one reader measures: what is written back gives *)
(* the file it was; what is written is what the sums are corrected by.     *)
LEMMA HeightsStep ==
    ArenaAssumption /\ OneWriter /\ OrdersInv /\ HeightsStand /\ [ArenaNext]_arenaVars
       => HeightsStand'
<1> SUFFICES ASSUME ArenaAssumption, OneWriter, OrdersInv, HeightsStand, [ArenaNext]_arenaVars
             PROVE  HeightsStand'
  OBVIOUS
<1>i. ArenaTypeOK /\ JobStands
  BY DEF OrdersInv
<1>t. heights \in [Sources -> Heights] /\ reader \in [Readers -> Copies \cup {Closed}]
  BY <1>i DEF ArenaTypeOK
<1>o. (\A r, s \in Readers : r = s) /\ "crash" \notin Faults /\ "rollback" \notin Faults
  BY DEF OneWriter
<1>k. job.step \in {"free", "link", "sync", "verify", "record", "block", "truncate", "header"}
  BY <1>i, JobIs
<1>b. job.step # "free" => job.by \in Readers /\ reader[job.by].open
  BY <1>i, JobIs DEF JobStands, ArenaMoves, ArenaUpdates
<1>c. Closed.open = FALSE /\ Free.step = "free"
  BY DEF Closed, Free
<1>u. ASSUME job.step \in {"record", "block", "truncate", "header"}
      PROVE  /\ job \in ArenaUpdates /\ job.by \in Readers /\ job.source \in Sources
             /\ job.new \in Heights /\ job.old \in Heights
             /\ Mine \in [Sources -> Heights] /\ Corrected \in [Sources -> Heights]
             /\ job.old = Mine[job.source]
             /\ [Corrected EXCEPT ![job.source] = job.old] = Mine
  <2>1. job \in ArenaUpdates
    BY <1>u, <1>i, JobIs
  <2>2. /\ job.by \in Readers /\ job.source \in Sources /\ job.new \in Heights
        /\ job.old \in Heights
    BY <2>1 DEF ArenaUpdates
  <2>3. Mine \in [Sources -> Heights]
    BY <1>u, <1>b, <1>i, <2>2, ReaderIs DEF Mine
  <2>4. job.old = Mine[job.source]
    BY <1>u DEF HeightsStand
  <2>5. Corrected \in [Sources -> Heights] /\ [Corrected EXCEPT ![job.source] = job.old] = Mine
    <3> HIDE DEF Mine
    <3> QED
      BY <2>2, <2>3, <2>4 DEF Corrected
  <2> QED
    BY <2>1, <2>2, <2>3, <2>4, <2>5
<1>h. ASSUME job.step \in {"free", "link", "sync", "verify", "record"}
      PROVE  /\ \A r \in Readers : reader[r].open => reader[r].height = heights
             /\ blocks = BlockSums(heights) /\ total \in {TornHeader, Total(heights)}
  BY <1>h DEF HeightsStand
<1>1. ASSUME NEW k \in {"free", "link", "sync", "verify"}, job'.step = k,
             \A r \in Readers : reader'[r].open => reader'[r].height = heights',
             blocks' = BlockSums(heights'), total' \in {TornHeader, Total(heights')}
      PROVE  HeightsStand'
  <2>1. BlockSums(heights)' = BlockSums(heights') /\ Total(heights)' = Total(heights')
    OBVIOUS
  <2> QED
    BY <1>1, <2>1 DEF HeightsStand
<1>2. ASSUME NEW r \in Readers, Open(r) PROVE HeightsStand'
  <2>1. /\ job' = job /\ job = Free /\ UNCHANGED <<heights, blocks, total>>
        /\ reader' = [reader EXCEPT ![r] = [open |-> TRUE, height |-> heights,
                                            order |-> OrderOf(NewestOrder),
                                            generation |-> NewestOrder]]
    BY <1>2 DEF Open
  <2>2. \A s \in Readers : s = r /\ reader'[s].height = heights
    BY <2>1, <1>o, <1>t
  <2> QED
    BY <2>1, <2>2, <1>c, <1>h, <1>1
<1>3. ASSUME NEW r \in Readers, reader' = [reader EXCEPT ![r] = Closed], job' = Free,
             blocks' = BlockSums(heights'), total' \in {TornHeader, Total(heights')}
      PROVE  HeightsStand'
  <2>1. \A s \in Readers : ~reader'[s].open
    BY <1>3, <1>o, <1>t, <1>c
  <2> QED
    BY <1>3, <2>1, <1>c, <1>1
<1>4. ASSUME NEW r \in Readers, Close(r) PROVE HeightsStand'
  BY <1>4, <1>3, <1>h, <1>c DEF Close
<1>5. ASSUME NEW r \in Readers, NEW i \in Sources, NEW j \in Sources, BeginMove(r, i, j)
      PROVE  HeightsStand'
  <2>1. job = Free /\ UNCHANGED <<heights, blocks, total>>
    BY <1>5 DEF BeginMove
  <2>2. CASE job' = [step |-> "link", by |-> r, generation |-> reader[r].generation + 1,
                     order |-> Moved(reader[r].order, i, j)] /\ reader' = reader
    <3>1. job'.step = "link"
      BY <2>2
    <3> QED
      BY <2>1, <2>2, <3>1, <1>c, <1>h, <1>1
  <2>3. CASE reader' = [reader EXCEPT ![r] = Closed] /\ job' = job
    BY <2>1, <2>3, <1>c, <1>h, <1>3
  <2> QED
    BY <2>2, <2>3, <1>5 DEF BeginMove
<1>6. ASSUME NEW r \in Readers, NEW i \in Sources, NEW h \in Heights, BeginUpdate(r, i, h)
      PROVE  HeightsStand'
  <2> DEFINE s == reader[r].order[i]
  <2>1. /\ job = Free /\ reader[r].open /\ reader[r].height[s] = heights[s]
        /\ job' = [step |-> "record", by |-> r, source |-> s, new |-> h, old |-> heights[s]]
        /\ UNCHANGED <<heights, blocks, total, reader>>
    BY <1>6 DEF BeginUpdate
  <2> HIDE DEF s
  <2>2. job'.step = "record" /\ job'.by = r /\ job'.source = s /\ job'.old = heights[s]
    BY <2>1
  <2>3. Mine' = reader[r].height
    BY <2>1, <2>2 DEF Mine
  <2>4. BlockSums(heights)' = BlockSums(heights) /\ Total(heights)' = Total(heights)
    BY <2>1
  <2>5. /\ \A q \in Readers : reader'[q].open => reader'[q].height = heights'
        /\ blocks' = BlockSums(heights)' /\ total' \in {TornHeader, Total(heights)'}
    BY <2>1, <2>4, <1>h, <1>c
  <2>6. job'.old = Mine'[job'.source]
    BY <2>1, <2>2, <2>3
  <2> QED
    BY <2>2, <2>5, <2>6 DEF HeightsStand
<1>7. ASSUME \/ Link \/ SyncDirectory PROVE HeightsStand'
  <2>1. /\ job.step \in {"link", "sync"} /\ UNCHANGED <<heights, blocks, total, reader>>
        /\ \E k \in {"sync", "verify"} : job' = [job EXCEPT !.step = k]
    BY <1>7 DEF Link, SyncDirectory
  <2>2. job \in ArenaMoves
    BY <2>1, <1>i, JobIs
  <2>3. job'.step \in {"sync", "verify"}
    BY <2>1, <2>2 DEF ArenaMoves
  <2> QED
    BY <2>1, <2>3, <1>h, <1>1
<1>8. CASE Adopt
  <2>1. /\ job.step = "verify" /\ job' = Free /\ UNCHANGED <<heights, blocks, total>>
        /\ reader' = [reader EXCEPT ![job.by].order = job.order,
                                    ![job.by].generation = job.generation]
    BY <1>8 DEF Adopt
  <2>2. job.by \in Readers /\ reader[job.by] \in Copies /\ reader[job.by].open
    BY <2>1, <1>b, <1>i, ReaderIs
  <2>3. \A r \in Readers : r = job.by /\ reader'[r].height = reader[job.by].height
    <3>1. reader'[job.by] = [reader[job.by] EXCEPT !.order = job.order,
                                                  !.generation = job.generation]
      BY <2>1, <2>2, <1>t
    <3>2. reader'[job.by].height = reader[job.by].height
      BY <3>1, <2>2 DEF Copies
    <3> QED
      BY <3>2, <2>2, <1>o
  <2> QED
    BY <2>1, <2>2, <2>3, <1>c, <1>h, <1>1
<1>9. CASE MoveFails
  BY <1>9, <1>3, <1>b, <1>h DEF MoveFails
<1>10. CASE WriteRecord
  <2>1. /\ job.step = "record" /\ heights' = [heights EXCEPT ![job.source] = job.new]
        /\ job' = [job EXCEPT !.step = "block"] /\ UNCHANGED <<blocks, total, reader>>
    BY <1>10 DEF WriteRecord
  <2>2. /\ job'.step = "block" /\ job'.by = job.by /\ job'.source = job.source
        /\ job'.new = job.new /\ job'.old = job.old
    BY <2>1, <1>u DEF ArenaUpdates
  <2>3. Mine = heights
    BY <2>1, <1>h, <1>b DEF Mine
  <2>4. Mine' = Mine
    BY <2>1, <2>2 DEF Mine
  <2>5. Corrected' = Corrected /\ heights' = Corrected
    BY <2>1, <2>2, <2>3, <2>4 DEF Corrected
  <2>6. BlockSums(Mine)' = BlockSums(Mine) /\ Total(Mine)' = Total(Mine)
    BY <2>4
  <2>7. blocks' = BlockSums(Mine)' /\ total' \in {TornHeader, Total(Mine)'}
    BY <2>1, <2>3, <2>6, <1>h
  <2>8. job'.old = Mine'[job'.source]
    BY <2>1, <2>2, <2>4, <1>u
  <2> QED
    BY <2>2, <2>5, <2>7, <2>8 DEF HeightsStand
<1>11. CASE WriteBlock
  <2>1. /\ job.step = "block" /\ job' = [job EXCEPT !.step = "truncate"]
        /\ blocks' = [blocks EXCEPT ![Block(job.source)] =
                        BlockSums(Corrected)[Block(job.source)]]
        /\ UNCHANGED <<heights, total, reader>>
    BY <1>11 DEF WriteBlock
  <2>2. /\ job'.step = "truncate" /\ job'.by = job.by /\ job'.source = job.source
        /\ job'.new = job.new /\ job'.old = job.old
    BY <2>1, <1>u DEF ArenaUpdates
  <2>3. Mine' = Mine
    BY <2>1, <2>2 DEF Mine
  <2>4. Corrected' = Corrected
    BY <2>2, <2>3 DEF Corrected
  <2>5. heights = Corrected /\ blocks = BlockSums(Mine) /\ total \in {TornHeader, Total(Mine)}
    BY <2>1 DEF HeightsStand
  <2>6. blocks' = BlockSums(Corrected)
    <3>1. Mine \in [Sources -> Heights] /\ job.source \in Sources /\ job.new \in Heights
      BY <2>1, <1>u
    <3>2. BlockSums(Corrected) =
             [BlockSums(Mine) EXCEPT ![Block(job.source)] =
                BlockSums(Corrected)[Block(job.source)]]
      <4> HIDE DEF Mine
      <4> QED
        BY <3>1, OneBlockChanges DEF Corrected
    <3> QED
      BY <3>2, <2>1, <2>5
  <2>7. blocks' = BlockSums(Corrected)' /\ total' \in {TornHeader, Total(Mine)'}
        /\ heights' = Corrected'
    <3>1. BlockSums(Corrected)' = BlockSums(Corrected) /\ Total(Mine)' = Total(Mine)
      BY <2>3, <2>4
    <3> QED
      BY <3>1, <2>1, <2>4, <2>5, <2>6
  <2>8. job'.old = Mine'[job'.source]
    BY <2>1, <2>2, <2>3, <1>u
  <2> QED
    BY <2>2, <2>7, <2>8 DEF HeightsStand
<1>12. CASE TruncateHeader
  <2>1. /\ job.step = "truncate" /\ job' = [job EXCEPT !.step = "header"]
        /\ total' = TornHeader /\ UNCHANGED <<heights, blocks, reader>>
    BY <1>12 DEF TruncateHeader
  <2>2. /\ job'.step = "header" /\ job'.by = job.by /\ job'.source = job.source
        /\ job'.new = job.new /\ job'.old = job.old
    BY <2>1, <1>u DEF ArenaUpdates
  <2>3. Mine' = Mine
    BY <2>1, <2>2 DEF Mine
  <2>4. Corrected' = Corrected
    BY <2>2, <2>3 DEF Corrected
  <2>5. BlockSums(Corrected)' = BlockSums(Corrected)
    BY <2>4
  <2>6. heights' = Corrected' /\ blocks' = BlockSums(Corrected)'
    BY <2>1, <2>4, <2>5 DEF HeightsStand
  <2>7. job'.old = Mine'[job'.source]
    BY <2>1, <2>2, <2>3, <1>u
  <2> QED
    BY <2>1, <2>2, <2>6, <2>7 DEF HeightsStand
<1>13. CASE WriteHeader
  <2>1. /\ job.step = "header" /\ job' = Free /\ total' = Total(Corrected)
        /\ reader' = [reader EXCEPT ![job.by].height = Corrected]
        /\ UNCHANGED <<heights, blocks>>
    BY <1>13 DEF WriteHeader
  <2>2. heights = Corrected /\ blocks = BlockSums(Corrected)
    BY <2>1 DEF HeightsStand
  <2>3. job.by \in Readers /\ reader[job.by] \in Copies
    BY <2>1, <1>b, <1>i, ReaderIs
  <2>4. \A r \in Readers : r = job.by /\ reader'[r].height = Corrected
    <3>1. reader'[job.by] = [reader[job.by] EXCEPT !.height = Corrected]
      BY <2>1, <2>3, <1>t
    <3>2. reader'[job.by].height = Corrected
      BY <3>1, <2>3 DEF Copies
    <3> QED
      BY <3>2, <2>3, <1>o
  <2>5. /\ \A r \in Readers : reader'[r].height = heights'
        /\ blocks' = BlockSums(heights') /\ total' = Total(heights')
    BY <2>1, <2>2, <2>4
  <2> QED
    BY <2>1, <2>5, <1>c, <1>1
<1>14. CASE UpdateFails
  <2>1. /\ job.step \in {"record", "block", "truncate", "header"} /\ job' = Free
        /\ UNCHANGED <<total, reader>>
        /\ heights' = [heights EXCEPT ![job.source] = job.old]
        /\ blocks' = IF job.step \in {"truncate", "header"}
                     THEN [blocks EXCEPT ![Block(job.source)] =
                             BlockSums(Mine)[Block(job.source)]]
                     ELSE blocks
    BY <1>14, <1>o DEF UpdateFails
  <2>2. heights' = Mine
    <3>1. CASE job.step = "record"
      <4>1. Mine = heights
        BY <3>1, <1>h, <1>b DEF Mine
      <4> QED
        BY <4>1, <2>1, <1>u
    <3>2. CASE job.step \in {"block", "truncate", "header"}
      <4>1. heights = Corrected
        BY <3>2 DEF HeightsStand
      <4> QED
        BY <4>1, <2>1, <1>u
    <3> QED
      BY <3>1, <3>2, <2>1
  <2>3. blocks' = BlockSums(Mine)
    <3>1. CASE job.step = "record"
      <4>1. Mine = heights
        BY <3>1, <1>h, <1>b DEF Mine
      <4> QED
        BY <4>1, <3>1, <2>1, <1>h
    <3>2. CASE job.step = "block"
      BY <3>2, <2>1 DEF HeightsStand
    <3>3. CASE job.step \in {"truncate", "header"}
      <4>1. blocks = BlockSums(Corrected)
        BY <3>3 DEF HeightsStand
      <4>2. /\ Corrected \in [Sources -> Heights] /\ job.source \in Sources
            /\ job.old \in Heights /\ [Corrected EXCEPT ![job.source] = job.old] = Mine
        BY <2>1, <1>u
      <4>3. BlockSums(Mine) = [BlockSums(Corrected) EXCEPT ![Block(job.source)] =
                                 BlockSums(Mine)[Block(job.source)]]
        <5> HIDE DEF Mine, Corrected
        <5> QED
          BY <4>2, OneBlockChanges
      <4> QED
        BY <3>3, <4>1, <4>3, <2>1
    <3> QED
      BY <3>1, <3>2, <3>3, <2>1
  <2>4. total' \in {TornHeader, Total(Mine)}
    <3>1. CASE job.step = "record"
      <4>1. Mine = heights
        BY <3>1, <1>h, <1>b DEF Mine
      <4> QED
        BY <4>1, <3>1, <2>1, <1>h
    <3>2. CASE job.step \in {"block", "truncate", "header"}
      BY <3>2, <2>1 DEF HeightsStand
    <3> QED
      BY <3>1, <3>2, <2>1
  <2>5. \A r \in Readers : reader'[r].height = heights'
    BY <2>1, <2>2, <1>o, <1>b DEF Mine
  <2> QED
    BY <2>1, <2>2, <2>3, <2>4, <2>5, <1>c, <1>1
<1>15. CASE UNCHANGED arenaVars
  BY <1>15 DEF arenaVars, HeightsStand, Mine, Corrected
<1>16. ~Crash
  BY <1>o DEF Crash
<1> QED
  BY <1>2, <1>4, <1>5, <1>6, <1>7, <1>8, <1>9, <1>10, <1>11, <1>12, <1>13, <1>14, <1>15, <1>16
     DEF ArenaNext

(* Every step keeps the invariant of the arena.                            *)
LEMMA ArenaInvariant == ASSUME ArenaAssumption PROVE ArenaSpec => []ArenaInv
<1>1. ArenaInit => ArenaInv
  BY ArenaInvInit
<1>2. ArenaInv /\ [ArenaNext]_arenaVars => ArenaInv'
  <2> SUFFICES ASSUME ArenaInv, [ArenaNext]_arenaVars PROVE ArenaInv'
    OBVIOUS
  <2>1. OrdersInv'
    BY OrdersStep DEF ArenaInv
  <2>2. OneWriter' = OneWriter
    BY DEF OneWriter
  <2>3. OneWriter => HeightsStand'
    BY HeightsStep DEF ArenaInv
  <2> QED
    BY <2>1, <2>2, <2>3 DEF ArenaInv
<1> QED
  BY <1>1, <1>2, PTL DEF ArenaSpec

(* In every reachable state an open reader holds the order that the file   *)
(* of its generation says, what was reported done is on disk, and as long  *)
(* as one reader measures the three files of heights agree whenever nobody *)
(* writes them (logical_order_publication, update_height).                 *)
THEOREM FilesAlwaysAgree == ASSUME ArenaAssumption PROVE ArenaSpec => []FilesAgree
<1>1. ArenaInv => FilesAgree
  <2> SUFFICES ASSUME ArenaInv PROVE FilesAgree
    OBVIOUS
  <2>1. OneWriter => HeightsAgree
    BY DEF ArenaInv, HeightsStand, HeightsAgree, Free
  <2> QED
    BY <2>1 DEF ArenaInv, OrdersInv, FilesAgree
<1> QED
  BY <1>1, ArenaInvariant, PTL

(* Whatever the readers of one store have seen, a generation that appears  *)
(* is one move of the newest order there was: no move is lost.             *)
THEOREM MovesBuildOnTheLast ==
    ASSUME ArenaAssumption PROVE ArenaSpec => EachMoveBuildsOnTheLast
<1> DEFINE Builds == \A g \in DOMAIN committed' \ DOMAIN committed :
              /\ g = NewestOrder + 1
              /\ \E i, j \in Sources : committed'[g] = Moved(OrderOf(NewestOrder), i, j)
<1>1. ArenaInv /\ [ArenaNext]_arenaVars => [Builds]_arenaVars
  <2> SUFFICES ASSUME ArenaInv, ArenaNext, NEW g \in DOMAIN committed' \ DOMAIN committed
               PROVE  /\ g = NewestOrder + 1
                      /\ \E i, j \in Sources : committed'[g] = Moved(OrderOf(NewestOrder), i, j)
    OBVIOUS
  <2>1. Link \/ Crash \/ committed' = committed
    BY DEF ArenaNext, Open, Close, BeginMove, BeginUpdate, SyncDirectory, Adopt, MoveFails,
           WriteRecord, WriteBlock, TruncateHeader, WriteHeader, UpdateFails
  <2>2. ~Crash
    BY DEF Crash
  <2>3. Link
    BY <2>1, <2>2
  <2>4. g = job.generation /\ committed'[g] = job.order /\ job.step = "link"
    BY <2>3 DEF Link
  <2> QED
    BY <2>4 DEF ArenaInv, OrdersInv, MoveStands
<1> QED
  BY <1>1, ArenaInvariant, PTL DEF ArenaSpec, EachMoveBuildsOnTheLast
================================================================================
