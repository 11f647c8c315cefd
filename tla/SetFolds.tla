------------------------------ MODULE SetFolds ------------------------------
(***************************************************************************)
(* What the folds over finite sets compute.  The components count bytes by *)
(* hand and their invariants compare the count with a fold over what is    *)
(* there; these lemmas say that the fold of a finite set is defined, that  *)
(* a sum does not depend on the order, and how it changes with a term.     *)
(* Where the count is of distinct things, the set of them is of its size.  *)
(***************************************************************************)
EXTENDS Naturals, FiniteSetsExt, FiniteSetTheorems, WellFoundedInduction, TLAPS

Pick(s) == CHOOSE x \in s : TRUE

(* g computes the fold of F over every part of S.                          *)
Computes(g, F, base, S) ==
    \A s \in SUBSET S : g[s] = IF s = {} THEN base ELSE F[<<Pick(s), g[s \ {Pick(s)}]>>]

(* Induction on the naturals, about a set of them.                         *)
LEMMA Induction ==
    ASSUME NEW T \in SUBSET Nat, 0 \in T, \A n \in T : n + 1 \in T
    PROVE  T = Nat
<1> DEFINE U == Nat \ T
<1> SUFFICES ASSUME U # {} PROVE FALSE
  OBVIOUS
<1>1. PICK n \in U : \A m \in U : ~(<<m, n>> \in OpToRel(<, Nat))
  BY WFMin, NatLessThanWellFounded
<1>2. \A m \in U : ~(m < n)
  BY <1>1 DEF OpToRel
<1>3. n # 0 /\ n - 1 \in Nat /\ n - 1 < n
  OBVIOUS
<1>4. n - 1 \in T
  BY <1>2, <1>3
<1> QED
  BY <1>3, <1>4

LEMMA PickIs ==
    ASSUME NEW s, s # {}
    PROVE  Pick(s) \in s
BY Zenon DEF Pick

(* The parts of a finite set, by their size.                               *)
LEMMA PartIs ==
    ASSUME NEW S, IsFiniteSet(S), NEW s \in SUBSET S
    PROVE  /\ IsFiniteSet(s) /\ Cardinality(s) \in Nat
           /\ Cardinality(s) = 0 <=> s = {}
           /\ \A x \in s : Cardinality(s \ {x}) = Cardinality(s) - 1
           /\ Cardinality(s) <= Cardinality(S)
<1>1. IsFiniteSet(s)
  BY FS_Subset
<1> QED
  BY <1>1, FS_CardinalityType, FS_EmptySet, FS_RemoveElement, FS_Subset

(* A fold of a finite set is defined, in whatever order its elements are   *)
(* taken: there is a function that computes it.                            *)
Chooses(P, S) == \A s \in SUBSET S : s # {} => P[s] \in s
ComputesAlong(g, F, base, S, P) ==
    \A s \in SUBSET S : g[s] = IF s = {} THEN base ELSE F[<<P[s], g[s \ {P[s]}]>>]

LEMMA FoldAlong ==
    ASSUME NEW S, IsFiniteSet(S), NEW V, NEW base \in V, NEW F \in [S \X V -> V],
           NEW P, Chooses(P, S)
    PROVE  \E g \in [SUBSET S -> V] : ComputesAlong(g, F, base, S, P)
<1> DEFINE Upto(n) == {s \in SUBSET S : Cardinality(s) <= n}
           On(g, n) == \A s \in Upto(n) : g[s] = IF s = {} THEN base
                                                 ELSE F[<<P[s], g[s \ {P[s]}]>>]
           T == {n \in Nat : \E g \in [SUBSET S -> V] : On(g, n)}
<1>1. 0 \in T
  <2> DEFINE g == [s \in SUBSET S |-> base]
  <2>1. \A s \in Upto(0) : s = {}
    BY PartIs
  <2>2. g \in [SUBSET S -> V] /\ On(g, 0)
    BY <2>1
  <2> QED
    BY <2>2
<1>2. ASSUME NEW n \in T PROVE n + 1 \in T
  <2>1. PICK g \in [SUBSET S -> V] : On(g, n)
    OBVIOUS
  <2> DEFINE next(s) == F[<<P[s], g[s \ {P[s]}]>>]
             h == [s \in SUBSET S |-> IF s \in Upto(n) \/ s = {} THEN g[s] ELSE next(s)]
  <2>2. \A s \in SUBSET S : s # {} => next(s) \in V
    <3> TAKE s \in SUBSET S
    <3> HAVE s # {}
    <3>1. P[s] \in S /\ s \ {P[s]} \in SUBSET S
      BY DEF Chooses
    <3> QED
      BY <3>1
  <2>3. h \in [SUBSET S -> V]
    BY <2>2
  <2>4. ASSUME NEW s \in Upto(n + 1), s # {}
        PROVE  h[s] = F[<<P[s], h[s \ {P[s]}]>>]
    <3> DEFINE p == P[s]
               r == s \ {p}
    <3>1. p \in s
      BY <2>4 DEF Chooses
    <3>2. r \in Upto(n)
      BY <2>4, <3>1, PartIs
    <3>3. h[r] = g[r]
      BY <3>2
    <3>4. CASE s \in Upto(n)
      <4>1. h[s] = g[s]
        BY <3>4
      <4>2. g[s] = F[<<p, g[r]>>]
        BY <2>1, <2>4, <3>4
      <4> QED
        BY <3>3, <4>1, <4>2
    <3>5. CASE s \notin Upto(n)
      BY <2>4, <3>3, <3>5
    <3> QED
      BY <3>4, <3>5
  <2>5. h[{}] = base
    <3>1. {} \in Upto(n)
      BY PartIs
    <3> QED
      BY <2>1, <3>1
  <2>6. On(h, n + 1)
    BY <2>4, <2>5
  <2> HIDE DEF h, On, Upto
  <2> QED
    BY <2>3, <2>6
<1>3. T = Nat
  <2> HIDE DEF T
  <2>1. T \in SUBSET Nat
    BY DEF T
  <2> QED
    BY <1>1, <1>2, <2>1, Induction
<1>4. Cardinality(S) \in Nat
  BY FS_CardinalityType
<1>5. PICK g \in [SUBSET S -> V] : On(g, Cardinality(S))
  BY <1>3, <1>4
<1>6. SUBSET S = Upto(Cardinality(S))
  BY PartIs
<1> QED
  BY <1>5, <1>6 DEF ComputesAlong

LEMMA FoldExists ==
    ASSUME NEW S, IsFiniteSet(S), NEW V, NEW base \in V, NEW F \in [S \X V -> V]
    PROVE  \E g \in [SUBSET S -> V] : Computes(g, F, base, S)
<1> DEFINE P == [s \in SUBSET S |-> Pick(s)]
<1>1. Chooses(P, S)
  BY PickIs DEF Chooses
<1>2. PICK g \in [SUBSET S -> V] : ComputesAlong(g, F, base, S, P)
  BY <1>1, FoldAlong
<1>3. \A s \in SUBSET S : P[s] = Pick(s)
  OBVIOUS
<1> HIDE DEF P
<1> QED
  BY <1>2, <1>3 DEF Computes, ComputesAlong

(* It is the only one, also of a part.                                     *)
LEMMA FoldUnique ==
    ASSUME NEW S, IsFiniteSet(S), NEW R \in SUBSET S, NEW F, NEW base, NEW g, NEW h,
           Computes(g, F, base, S), Computes(h, F, base, R)
    PROVE  g[R] = h[R]
<1> DEFINE T == {n \in Nat : \A s \in SUBSET R : Cardinality(s) = n => g[s] = h[s]}
<1>1. \A s \in SUBSET R : s \in SUBSET S
  OBVIOUS
<1>2. 0 \in T
  BY <1>1, PartIs DEF Computes
<1>3. ASSUME NEW n \in T PROVE n + 1 \in T
  <2> SUFFICES ASSUME NEW s \in SUBSET R, Cardinality(s) = n + 1 PROVE g[s] = h[s]
    OBVIOUS
  <2> DEFINE p == Pick(s)
             r == s \ {p}
  <2>1. s \in SUBSET S /\ s # {}
    BY PartIs
  <2>2. p \in s
    BY <2>1, PickIs
  <2>3. r \in SUBSET R /\ Cardinality(r) = n
    BY <2>1, <2>2, PartIs
  <2>4. g[r] = h[r]
    BY <2>3
  <2>5. g[s] = F[<<p, g[r]>>] /\ h[s] = F[<<p, h[r]>>]
    BY <2>1 DEF Computes
  <2> QED
    BY <2>4, <2>5
<1>4. T = Nat
  <2> HIDE DEF T
  <2>1. T \in SUBSET Nat
    BY DEF T
  <2> QED
    BY <1>2, <1>3, <2>1, Induction
<1>5. R \in SUBSET R /\ Cardinality(R) \in Nat
  BY PartIs
<1> QED
  BY <1>4, <1>5
(* What satisfies the equation on values of the fold computes it.          *)
Iterates(h, F, base, S, V) ==
    /\ h[{}] = base
    /\ \A s \in SUBSET S : s # {} /\ h[s \ {Pick(s)}] \in V
                          => h[s] = F[<<Pick(s), h[s \ {Pick(s)}]>>]

LEMMA FoldIs ==
    ASSUME NEW S, IsFiniteSet(S), NEW V, NEW base \in V, NEW F \in [S \X V -> V], NEW h,
           Iterates(h, F, base, S, V)
    PROVE  /\ \A s \in SUBSET S : h[s] \in V
           /\ Computes(h, F, base, S)
<1> DEFINE T == {n \in Nat : \A s \in SUBSET S : Cardinality(s) = n => h[s] \in V}
<1>1. 0 \in T
  BY PartIs DEF Iterates
<1>2. ASSUME NEW n \in T PROVE n + 1 \in T
  <2> SUFFICES ASSUME NEW s \in SUBSET S, Cardinality(s) = n + 1 PROVE h[s] \in V
    OBVIOUS
  <2> DEFINE p == Pick(s)
             r == s \ {p}
  <2>1. s # {} /\ p \in s
    BY PartIs, PickIs
  <2>2. r \in SUBSET S /\ Cardinality(r) = n
    BY <2>1, PartIs
  <2>3. h[r] \in V /\ h[s] = F[<<p, h[r]>>]
    BY <2>1, <2>2 DEF Iterates
  <2>4. <<p, h[r]>> \in S \X V
    BY <2>1, <2>3
  <2> QED
    BY <2>3, <2>4
<1>3. T = Nat
  <2> HIDE DEF T
  <2>1. T \in SUBSET Nat
    BY DEF T
  <2> QED
    BY <1>1, <1>2, <2>1, Induction
<1>4. \A s \in SUBSET S : h[s] \in V
  BY <1>3, PartIs
<1>5. ASSUME NEW s \in SUBSET S, s # {}
      PROVE  h[s] = F[<<Pick(s), h[s \ {Pick(s)}]>>]
  <2>1. s \ {Pick(s)} \in SUBSET S
    OBVIOUS
  <2> QED
    BY <1>4, <1>5, <2>1 DEF Iterates
<1> QED
  BY <1>4, <1>5 DEF Computes, Iterates
------------------------------------------------------------------------------
(* Sums.                                                                   *)

Counts(v, S) == \A x \in S : v[x] \in Nat
AgreeOn(v, w, S) == \A x \in S : v[x] = w[x]

(* Whatever way a sum is written, it is CHOOSEn by this equation.          *)
Summed(v, S) == CHOOSE it : it = [s \in SUBSET S |->
                    IF s = {} THEN 0 ELSE v[Pick(s)] + it[s \ {Pick(s)}]]

Sums(g, v, S) == /\ g \in [SUBSET S -> Nat]
                 /\ g[{}] = 0
                 /\ \A s \in SUBSET S : s # {} => g[s] = v[Pick(s)] + g[s \ {Pick(s)}]

LEMMA CountsOfPart ==
    ASSUME NEW v, NEW S, Counts(v, S), NEW R \in SUBSET S
    PROVE  Counts(v, R)
BY DEF Counts

LEMMA SummedIs ==
    ASSUME NEW S, IsFiniteSet(S), NEW v, Counts(v, S)
    PROVE  Sums(Summed(v, S), v, S)
<1> DEFINE F == [p \in S \X Nat |-> v[p[1]] + p[2]]
           it == Summed(v, S)
<1>1. F \in [S \X Nat -> Nat] /\ \A x \in S, n \in Nat : F[<<x, n>>] = v[x] + n
  BY DEF Counts
<1> HIDE DEF F
<1>2. PICK g \in [SUBSET S -> Nat] : Computes(g, F, 0, S)
  BY <1>1, FoldExists
<1>3. \A s \in SUBSET S : s # {} => Pick(s) \in S /\ s \ {Pick(s)} \in SUBSET S
  BY PickIs
<1>4. g = [s \in SUBSET S |-> IF s = {} THEN 0 ELSE v[Pick(s)] + g[s \ {Pick(s)}]]
  BY <1>1, <1>2, <1>3 DEF Computes
<1>5. it = [s \in SUBSET S |-> IF s = {} THEN 0 ELSE v[Pick(s)] + it[s \ {Pick(s)}]]
  BY <1>4, Zenon DEF Summed
<1> HIDE DEF it
<1>6. \A s \in SUBSET S : it[s] \in Nat
  <2>1. it[{}] = 0
    BY <1>5
  <2>2. \A s \in SUBSET S : s # {} /\ it[s \ {Pick(s)}] \in Nat
                            => it[s] = F[<<Pick(s), it[s \ {Pick(s)}]>>]
    BY <1>1, <1>3, <1>5
  <2>3. Iterates(it, F, 0, S, Nat)
    BY <2>1, <2>2 DEF Iterates
  <2> QED
    BY <1>1, <2>3, FoldIs
<1> QED
  BY <1>5, <1>6 DEF Sums, it

SumOf(v, S) == Summed(v, S)[S]

LEMMA SumsAgree ==
    ASSUME NEW S, IsFiniteSet(S), NEW R \in SUBSET S, NEW v, NEW w, NEW g, NEW h,
           Sums(g, v, S), Sums(h, w, R), AgreeOn(v, w, R)
    PROVE  g[R] = h[R]
<1> DEFINE T == {n \in Nat : \A s \in SUBSET R : Cardinality(s) = n => g[s] = h[s]}
<1>1. \A s \in SUBSET R : s \in SUBSET S
  OBVIOUS
<1>2. 0 \in T
  BY <1>1, PartIs DEF Sums
<1>3. ASSUME NEW n \in T PROVE n + 1 \in T
  <2> SUFFICES ASSUME NEW s \in SUBSET R, Cardinality(s) = n + 1 PROVE g[s] = h[s]
    OBVIOUS
  <2> DEFINE p == Pick(s)
             r == s \ {p}
  <2>1. s \in SUBSET S /\ s # {}
    BY PartIs
  <2>2. p \in s
    BY <2>1, PickIs
  <2>3. r \in SUBSET R /\ Cardinality(r) = n
    BY <2>1, <2>2, PartIs
  <2>4. g[r] = h[r]
    BY <2>3
  <2>5. g[s] = v[p] + g[r] /\ h[s] = w[p] + h[r]
    BY <2>1 DEF Sums
  <2> QED
    BY <2>2, <2>4, <2>5 DEF AgreeOn
<1>4. T = Nat
  <2> HIDE DEF T
  <2>1. T \in SUBSET Nat
    BY DEF T
  <2> QED
    BY <1>2, <1>3, <2>1, Induction
<1>5. R \in SUBSET R /\ Cardinality(R) \in Nat
  BY PartIs
<1> QED
  BY <1>4, <1>5

LEMMA SumType ==
    ASSUME NEW S, IsFiniteSet(S), NEW v, Counts(v, S)
    PROVE  SumOf(v, S) \in Nat
<1>1. Sums(Summed(v, S), v, S) /\ S \in SUBSET S
  BY SummedIs
<1> QED
  BY <1>1 DEF Sums, SumOf

LEMMA SumEmpty ==
    ASSUME NEW v
    PROVE  SumOf(v, {}) = 0
BY SummedIs, FS_EmptySet DEF Sums, SumOf, Counts

LEMMA SumSame ==
    ASSUME NEW S, IsFiniteSet(S), NEW v, NEW w, Counts(v, S), AgreeOn(v, w, S)
    PROVE  SumOf(v, S) = SumOf(w, S)
<1>1. Counts(w, S) /\ S \in SUBSET S
  BY DEF Counts, AgreeOn
<1>2. Sums(Summed(v, S), v, S) /\ Sums(Summed(w, S), w, S)
  BY <1>1, SummedIs
<1> QED
  BY <1>1, <1>2, SumsAgree DEF SumOf

LEMMA SumStep ==
    ASSUME NEW S, IsFiniteSet(S), S # {}, NEW v, Counts(v, S)
    PROVE  SumOf(v, S) = v[Pick(S)] + SumOf(v, S \ {Pick(S)})
<1> DEFINE R == S \ {Pick(S)}
<1>1. IsFiniteSet(R) /\ R \in SUBSET S
  BY FS_Subset
<1>2. Sums(Summed(v, S), v, S) /\ Sums(Summed(v, R), v, R)
  BY <1>1, CountsOfPart, SummedIs
<1>3. Summed(v, S)[R] = Summed(v, R)[R]
  <2>1. AgreeOn(v, v, R)
    BY DEF AgreeOn
  <2> QED
    BY <1>1, <1>2, <2>1, SumsAgree
<1> QED
  BY <1>2, <1>3 DEF SumOf, Sums

(* A sum does not depend on the order: any term can be taken out first.    *)
LEMMA SumRemove ==
    ASSUME NEW S, IsFiniteSet(S), NEW v, Counts(v, S), NEW p \in S
    PROVE  SumOf(v, S) = v[p] + SumOf(v, S \ {p})
<1> DEFINE Out(s) == \A x \in s : SumOf(v, s) = v[x] + SumOf(v, s \ {x})
           T == {n \in Nat : \A s \in SUBSET S : Cardinality(s) = n => Out(s)}
<1>1. 0 \in T
  BY PartIs
<1>2. ASSUME NEW n \in T PROVE n + 1 \in T
  <2> SUFFICES ASSUME NEW s \in SUBSET S, Cardinality(s) = n + 1, NEW x \in s
               PROVE  SumOf(v, s) = v[x] + SumOf(v, s \ {x})
    OBVIOUS
  <2> DEFINE c == Pick(s)
             both == s \ {c, x}
  <2>1. c \in s /\ IsFiniteSet(s)
    BY PartIs, PickIs
  <2>2. SumOf(v, s) = v[c] + SumOf(v, s \ {c})
    BY <2>1, CountsOfPart, SumStep
  <2>3. CASE c = x
    BY <2>2, <2>3
  <2>4. CASE c # x
    <3>1. /\ s \ {c} \in SUBSET S /\ Cardinality(s \ {c}) = n
          /\ s \ {x} \in SUBSET S /\ Cardinality(s \ {x}) = n
      BY <2>1, PartIs
    <3>2. x \in s \ {c} /\ c \in s \ {x} /\ (s \ {c}) \ {x} = both /\ (s \ {x}) \ {c} = both
      BY <2>1, <2>4
    <3>3. SumOf(v, s \ {c}) = v[x] + SumOf(v, both)
      BY <3>1, <3>2
    <3>4. SumOf(v, s \ {x}) = v[c] + SumOf(v, both)
      BY <3>1, <3>2
    <3>5. SumOf(v, both) \in Nat
      BY <2>1, PartIs, CountsOfPart, SumType
    <3>6. v[x] \in Nat /\ v[c] \in Nat
      BY <2>1 DEF Counts
    <3> HIDE DEF c, both
    <3> QED
      BY <2>2, <3>3, <3>4, <3>5, <3>6
  <2> QED
    BY <2>3, <2>4
<1>3. T = Nat
  <2> HIDE DEF T
  <2>1. T \in SUBSET Nat
    BY DEF T
  <2> QED
    BY <1>1, <1>2, <2>1, Induction
<1>4. Out(S)
  BY <1>3, PartIs
<1> QED
  BY <1>4

(* One term changes, and the sum by as much.                               *)
LEMMA SumChange ==
    ASSUME NEW S, IsFiniteSet(S), NEW v, NEW w, NEW p \in S,
           Counts(v, S), Counts(w, S), AgreeOn(v, w, S \ {p})
    PROVE  /\ SumOf(v, S) \in Nat /\ v[p] <= SumOf(v, S)
           /\ SumOf(w, S) = (SumOf(v, S) - v[p]) + w[p]
<1> DEFINE R == S \ {p}
<1>1. IsFiniteSet(R) /\ Counts(v, R) /\ AgreeOn(v, w, R)
  BY FS_Subset, CountsOfPart
<1>2. SumOf(v, R) = SumOf(w, R)
  BY <1>1, SumSame
<1>3. SumOf(v, R) \in Nat
  BY <1>1, SumType
<1>4. SumOf(v, S) = v[p] + SumOf(v, R) /\ SumOf(w, S) = w[p] + SumOf(w, R)
  BY SumRemove
<1>5. v[p] \in Nat /\ w[p] \in Nat
  BY DEF Counts
<1> HIDE DEF R
<1> QED
  BY <1>2, <1>3, <1>4, <1>5

(* Terms of zero do not count.                                             *)
LEMMA SumOfPart ==
    ASSUME NEW S, IsFiniteSet(S), NEW v, Counts(v, S),
           NEW R \in SUBSET S, \A x \in S \ R : v[x] = 0
    PROVE  SumOf(v, S) = SumOf(v, R)
<1> DEFINE T == {n \in Nat : \A s \in SUBSET (S \ R) :
                    Cardinality(s) = n => SumOf(v, R \cup s) = SumOf(v, R)}
<1>0. IsFiniteSet(S \ R)
  BY FS_Subset
<1>1. 0 \in T
  BY <1>0, PartIs
<1>2. ASSUME NEW n \in T PROVE n + 1 \in T
  <2> SUFFICES ASSUME NEW s \in SUBSET (S \ R), Cardinality(s) = n + 1
               PROVE  SumOf(v, R \cup s) = SumOf(v, R)
    OBVIOUS
  <2>1. PICK x \in s : TRUE
    BY <1>0, PartIs
  <2> DEFINE r == s \ {x}
  <2>2. r \in SUBSET (S \ R) /\ Cardinality(r) = n /\ (R \cup s) \ {x} = R \cup r
    BY <1>0, <2>1, PartIs
  <2>3. IsFiniteSet(R \cup s) /\ x \in R \cup s /\ Counts(v, R \cup s)
    BY <2>1, FS_Subset, CountsOfPart
  <2>4. SumOf(v, R \cup s) = v[x] + SumOf(v, (R \cup s) \ {x})
    BY <2>3, SumRemove
  <2>5. SumOf(v, R \cup r) = SumOf(v, R)
    BY <2>2
  <2>6. SumOf(v, R) \in Nat
    BY FS_Subset, CountsOfPart, SumType
  <2>7. v[x] = 0
    OBVIOUS
  <2> QED
    BY <2>2, <2>4, <2>5, <2>6, <2>7
<1>3. T = Nat
  <2> HIDE DEF T
  <2>1. T \in SUBSET Nat
    BY DEF T
  <2> QED
    BY <1>1, <1>2, <2>1, Induction
<1>4. R \cup (S \ R) = S /\ Cardinality(S \ R) \in Nat
  BY <1>0, FS_CardinalityType
<1> QED
  BY <1>3, <1>4

(* A part and the rest.                                                    *)
LEMMA SumSplit ==
    ASSUME NEW S, IsFiniteSet(S), NEW v, Counts(v, S), NEW R \in SUBSET S
    PROVE  /\ SumOf(v, S) = SumOf(v, R) + SumOf(v, S \ R)
           /\ SumOf(v, S) \in Nat /\ SumOf(v, R) \in Nat /\ SumOf(v, R) <= SumOf(v, S)
<1> DEFINE rest == SumOf(v, S \ R)
           T == {n \in Nat : \A s \in SUBSET R :
                    Cardinality(s) = n => SumOf(v, (S \ R) \cup s) = SumOf(v, s) + rest}
<1>0. IsFiniteSet(R) /\ IsFiniteSet(S \ R)
  BY FS_Subset
<1>1. \A s \in SUBSET S : SumOf(v, s) \in Nat
  BY FS_Subset, CountsOfPart, SumType
<1>2. rest \in Nat
  BY <1>1
<1> HIDE DEF rest
<1>3. 0 \in T
  <2> SUFFICES ASSUME NEW s \in SUBSET R, Cardinality(s) = 0
               PROVE  SumOf(v, (S \ R) \cup s) = SumOf(v, s) + rest
    OBVIOUS
  <2>1. s = {}
    BY <1>0, PartIs
  <2> QED
    BY <1>2, <2>1, SumEmpty DEF rest
<1>4. ASSUME NEW n \in T PROVE n + 1 \in T
  <2> SUFFICES ASSUME NEW s \in SUBSET R, Cardinality(s) = n + 1
               PROVE  SumOf(v, (S \ R) \cup s) = SumOf(v, s) + rest
    OBVIOUS
  <2>1. PICK x \in s : TRUE
    BY <1>0, PartIs
  <2> DEFINE r == s \ {x}
  <2>2. /\ r \in SUBSET R /\ Cardinality(r) = n /\ ((S \ R) \cup s) \ {x} = (S \ R) \cup r
    BY <1>0, <2>1, PartIs
  <2>3. /\ IsFiniteSet((S \ R) \cup s) /\ x \in (S \ R) \cup s /\ Counts(v, (S \ R) \cup s)
        /\ IsFiniteSet(s) /\ Counts(v, s)
    BY <2>1, FS_Subset, CountsOfPart
  <2>4. /\ SumOf(v, (S \ R) \cup s) = v[x] + SumOf(v, ((S \ R) \cup s) \ {x})
        /\ SumOf(v, s) = v[x] + SumOf(v, r)
    BY <2>1, <2>3, SumRemove
  <2>5. SumOf(v, (S \ R) \cup r) = SumOf(v, r) + rest
    BY <2>2
  <2>6. SumOf(v, r) \in Nat /\ v[x] \in Nat
    BY <1>1, <2>1, <2>2 DEF Counts
  <2> HIDE DEF r
  <2> QED
    BY <1>2, <2>2, <2>4, <2>5, <2>6
<1>5. T = Nat
  <2> HIDE DEF T
  <2>1. T \in SUBSET Nat
    BY DEF T
  <2> QED
    BY <1>3, <1>4, <2>1, Induction
<1>6. (S \ R) \cup R = S /\ Cardinality(R) \in Nat
  BY <1>0, FS_CardinalityType
<1>7. SumOf(v, S) = SumOf(v, R) + rest
  BY <1>5, <1>6
<1>8. SumOf(v, S) \in Nat /\ SumOf(v, R) \in Nat
  BY <1>1
<1> QED
  BY <1>2, <1>7, <1>8 DEF rest

(* As many ones as there are places.                                       *)
LEMMA SumOfOnes ==
    ASSUME NEW S, IsFiniteSet(S), NEW v, \A x \in S : v[x] = 1
    PROVE  SumOf(v, S) = Cardinality(S)
<1> DEFINE T == {n \in Nat : \A s \in SUBSET S : Cardinality(s) = n => SumOf(v, s) = n}
<1>0. Counts(v, S)
  BY DEF Counts
<1>1. 0 \in T
  BY PartIs, SumEmpty
<1>2. ASSUME NEW n \in T PROVE n + 1 \in T
  <2> SUFFICES ASSUME NEW s \in SUBSET S, Cardinality(s) = n + 1
               PROVE  SumOf(v, s) = n + 1
    OBVIOUS
  <2>1. PICK x \in s : TRUE
    BY PartIs
  <2> DEFINE r == s \ {x}
  <2>2. r \in SUBSET S /\ Cardinality(r) = n /\ IsFiniteSet(s)
    BY <2>1, PartIs
  <2>3. SumOf(v, s) = v[x] + SumOf(v, r)
    BY <1>0, <2>1, <2>2, CountsOfPart, SumRemove
  <2>4. SumOf(v, r) = n /\ v[x] = 1
    BY <2>2
  <2> HIDE DEF r
  <2> QED
    BY <2>3, <2>4
<1>3. T = Nat
  <2> HIDE DEF T
  <2>1. T \in SUBSET Nat
    BY DEF T
  <2> QED
    BY <1>1, <1>2, <2>1, Induction
<1> QED
  BY <1>3, PartIs

(* The sum of zeros and ones is the number of ones.                        *)
LEMMA SumCountsOnes ==
    ASSUME NEW S, IsFiniteSet(S), NEW R \in SUBSET S, NEW v,
           \A x \in S : v[x] = IF x \in R THEN 1 ELSE 0
    PROVE  SumOf(v, S) = Cardinality(R)
<1>1. Counts(v, S) /\ IsFiniteSet(R)
  BY FS_Subset DEF Counts
<1>2. SumOf(v, S) = SumOf(v, R)
  BY <1>1, SumOfPart
<1> QED
  BY <1>1, <1>2, SumOfOnes

(* Two ways of computing one fold.                                         *)
LEMMA FoldsAgree ==
    ASSUME NEW S, IsFiniteSet(S), NEW V, NEW base \in V, NEW F \in [S \X V -> V],
           NEW g, NEW h, Iterates(g, F, base, S, V), Iterates(h, F, base, S, V)
    PROVE  g[S] = h[S]
<1>1. Computes(g, F, base, S) /\ Computes(h, F, base, S)
  BY FoldIs
<1> QED
  BY <1>1, FoldUnique

(* Terms that are taken in another order, or under other names, come to    *)
(* the same sum.                                                           *)
LEMMA SumRenamed ==
    ASSUME NEW S, IsFiniteSet(S), NEW T, IsFiniteSet(T), NEW p \in [S -> T],
           \A x, y \in S : p[x] = p[y] => x = y, \A z \in T : \E x \in S : p[x] = z,
           NEW v, NEW w, Counts(v, T), \A x \in S : w[x] = v[p[x]]
    PROVE  SumOf(w, S) = SumOf(v, T)
<1> DEFINE Image(s) == {p[x] : x \in s}
           U == {n \in Nat : \A s \in SUBSET S : Cardinality(s) = n => SumOf(w, s) = SumOf(v, Image(s))}
<1>1. Counts(w, S)
  BY DEF Counts
<1>2. 0 \in U
  <2> SUFFICES ASSUME NEW s \in SUBSET S, Cardinality(s) = 0 PROVE SumOf(w, s) = SumOf(v, Image(s))
    OBVIOUS
  <2>1. s = {} /\ Image(s) = {}
    BY PartIs
  <2> QED
    BY <2>1, SumEmpty
<1>3. ASSUME NEW n \in U PROVE n + 1 \in U
  <2> SUFFICES ASSUME NEW s \in SUBSET S, Cardinality(s) = n + 1 PROVE SumOf(w, s) = SumOf(v, Image(s))
    OBVIOUS
  <2>1. PICK x \in s : TRUE
    BY PartIs
  <2> DEFINE r == s \ {x}
  <2>2. r \in SUBSET S /\ Cardinality(r) = n /\ IsFiniteSet(s)
    <3>1. IsFiniteSet(s) /\ \A y \in s : Cardinality(s \ {y}) = Cardinality(s) - 1
      BY PartIs
    <3> QED
      BY <2>1, <3>1
  <2>3. SumOf(w, r) = SumOf(v, Image(r))
    BY <2>2
  <2>4. SumOf(w, s) = w[x] + SumOf(w, r)
    BY <1>1, <2>1, <2>2, CountsOfPart, SumRemove
  <2>5. /\ Image(s) \in SUBSET T /\ p[x] \in Image(s) /\ Image(r) = Image(s) \ {p[x]}
    BY <2>1
  <2>6. IsFiniteSet(Image(s)) /\ Counts(v, Image(s))
    BY <2>5, FS_Subset, CountsOfPart
  <2> HIDE DEF Image, r
  <2>7. SumOf(v, Image(s)) = v[p[x]] + SumOf(v, Image(r))
    BY <2>5, <2>6, SumRemove
  <2> QED
    BY <2>1, <2>3, <2>4, <2>7
<1>4. U = Nat
  <2> HIDE DEF U
  <2>1. U \in SUBSET Nat
    BY DEF U
  <2> QED
    BY <1>2, <1>3, <2>1, Induction
<1>5. SumOf(w, S) = SumOf(v, Image(S))
  <2>1. S \in SUBSET S /\ Cardinality(S) \in Nat
    BY PartIs
  <2> QED
    BY <1>4, <2>1
<1>6. Image(S) = T
  OBVIOUS
<1> QED
  BY <1>5, <1>6

(* What takes the terms one by one, in the order of Pick, is the sum.      *)
Adds(g, v, S) ==
    /\ g[{}] = 0
    /\ \A s \in SUBSET S : s # {} /\ g[s \ {Pick(s)}] \in Nat
                          => g[s] = v[Pick(s)] + g[s \ {Pick(s)}]

LEMMA SumIs ==
    ASSUME NEW S, IsFiniteSet(S), NEW v, Counts(v, S), NEW g, Adds(g, v, S)
    PROVE  g[S] = SumOf(v, S)
<1> DEFINE T == {n \in Nat : \A s \in SUBSET S : Cardinality(s) = n => g[s] = SumOf(v, s)}
<1>1. 0 \in T
  BY PartIs, SumEmpty DEF Adds
<1>2. ASSUME NEW n \in T PROVE n + 1 \in T
  <2> SUFFICES ASSUME NEW s \in SUBSET S, Cardinality(s) = n + 1 PROVE g[s] = SumOf(v, s)
    OBVIOUS
  <2>1. s # {} /\ Pick(s) \in s /\ IsFiniteSet(s)
    BY PartIs, PickIs
  <2> DEFINE r == s \ {Pick(s)}
  <2>2. r \in SUBSET S /\ Cardinality(r) = n
    BY <2>1, PartIs
  <2>3. g[r] = SumOf(v, r)
    BY <2>2
  <2>4. SumOf(v, s) = v[Pick(s)] + SumOf(v, r)
    BY <2>1, CountsOfPart, SumStep
  <2>5. SumOf(v, r) \in Nat
    BY <2>2, FS_Subset, CountsOfPart, SumType
  <2> QED
    BY <2>1, <2>3, <2>4, <2>5 DEF Adds
<1>3. T = Nat
  <2> HIDE DEF T
  <2>1. T \in SUBSET Nat
    BY DEF T
  <2> QED
    BY <1>1, <1>2, <2>1, Induction
<1>4. S \in SUBSET S /\ Cardinality(S) \in Nat
  BY PartIs
<1> QED
  BY <1>3, <1>4

(* A set and its image under a function that tells its elements apart are  *)
(* of one size.                                                            *)
LEMMA SameSize ==
    ASSUME NEW S, IsFiniteSet(S), NEW g, DOMAIN g = S,
           \A x, y \in S : g[x] = g[y] => x = y
    PROVE  /\ IsFiniteSet({g[x] : x \in S})
           /\ Cardinality({g[x] : x \in S}) = Cardinality(S)
<1> DEFINE T == {g[x] : x \in S}
           h == [x \in S |-> g[x]]
<1>1. h \in [S -> T] /\ \A x \in S : h[x] = g[x]
  OBVIOUS
<1>2. \A t \in T : \E x \in S : h[x] = t
  BY <1>1
<1>3. \A x, y \in S : h[x] = h[y] => x = y
  BY <1>1
<1> HIDE DEF h, T
<1>4. h \in Bijection(S, T)
  BY <1>1, <1>2, <1>3 DEF Bijection, Injection, Surjection, IsInjective
<1> QED
  BY <1>4, FS_Bijection DEF ExistsBijection, T
=============================================================================
