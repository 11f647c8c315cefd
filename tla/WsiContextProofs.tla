----------------------------- MODULE WsiContextProofs -----------------------------
(***************************************************************************)
(* Proofs about WsiContext for any number of presenters, executors and     *)
(* contexts, as long as surfaces offer the modes that are asked for and    *)
(* can be made; and about the reference swapchain of WindowSwapchain, for  *)
(* any number of images and frames and any sizes.                          *)
(***************************************************************************)
EXTENDS WsiContext, WindowSwapchain, SetFolds, FiniteSetTheorems, TLAPS

USE DEF Taking

(* Where every object is, and that nobody is in the middle of taking a     *)
(* context while he holds one.                                             *)
ClientShape(k) == /\ pc[k] \in Taking \cup {"made", "idle"}
                  /\ pc[k] # "idle" => held[k] = 0 /\ target[k] \in 1..made
OwnerShape == /\ pc[Owner] \in {"idle", "close", "restage", "stage"}
              /\ pc[Owner] \in {"close", "restage"} => held[Owner] # 0
              /\ pc[Owner] = "stage" => held[Owner] = 0
Shape == /\ made \in 0..MaxContexts
         /\ exported \subseteq 1..made
         /\ refs \in [Contexts -> Int]
         /\ closed \in [Contexts -> BOOLEAN]
         /\ freed \in [Contexts -> Nat]
         /\ held \in [Actors -> 0..made]
         /\ pc \in [Actors -> Taking \cup {"made", "idle", "close", "restage", "stage"}]
         /\ target \in [Actors -> 0..made]
         /\ \A k \in Clients : ClientShape(k)
         /\ OwnerShape
         /\ \A c \in Contexts : closed[c] => c <= made

LEMMA OwnerApart == ASSUME WsiAssumption
                    PROVE  Owner \in Actors /\ \A k \in Clients : k \in Actors /\ k # Owner
BY DEF WsiAssumption, Actors

(* A step of one client leaves the others, and the owner, where they are.  *)
LEMMA ClientMoves ==
    ASSUME WsiAssumption, Shape, NEW k \in Clients, NEW h, NEW p, NEW t,
           made' = made, exported' = exported, closed' = closed,
           refs' \in [Contexts -> Int], freed' \in [Contexts -> Nat],
           held' = [held EXCEPT ![k] = h], pc' = [pc EXCEPT ![k] = p],
           target' = [target EXCEPT ![k] = t],
           h \in 0..made, t \in 0..made, p \in Taking \cup {"made", "idle"},
           p # "idle" => h = 0 /\ t \in 1..made
    PROVE  Shape'
<1>1. k \in Actors /\ k # Owner /\ Owner \in Actors
  BY OwnerApart
<1>2. /\ held' \in [Actors -> 0..made'] /\ target' \in [Actors -> 0..made']
      /\ pc' \in [Actors -> Taking \cup {"made", "idle", "close", "restage", "stage"}]
  BY DEF Shape
<1>3. OwnerShape'
  BY <1>1 DEF Shape, OwnerShape
<1>4. ASSUME NEW j \in Clients PROVE ClientShape(j)'
  <2>1. j \in Actors
    BY OwnerApart
  <2>2. CASE j = k
    BY <1>1, <2>2 DEF Shape, ClientShape
  <2>3. CASE j # k
    BY <2>1, <2>3 DEF Shape, ClientShape
  <2> QED
    BY <2>2, <2>3
<1> QED
  BY <1>2, <1>3, <1>4 DEF Shape

(* Nor does a step of the owner move the clients.                          *)
LEMMA OwnerMoves ==
    ASSUME WsiAssumption, Shape, NEW h, NEW p,
           made' \in made..MaxContexts, exported' \subseteq 1..made',
           closed' \in [Contexts -> BOOLEAN], \A c \in Contexts : closed'[c] => c <= made,
           refs' \in [Contexts -> Int], freed' \in [Contexts -> Nat],
           held' = [held EXCEPT ![Owner] = h], pc' = [pc EXCEPT ![Owner] = p],
           target' = target, h \in 0..made', p \in {"idle", "close", "restage", "stage"},
           p \in {"close", "restage"} => h # 0, p = "stage" => h = 0
    PROVE  Shape'
<1>0. made \in Nat /\ MaxContexts \in Nat /\ made' \in Nat /\ made <= made' /\ made' <= MaxContexts
  BY DEF Shape, WsiAssumption
<1>1. Owner \in Actors
  BY OwnerApart
<1>2. /\ held' \in [Actors -> 0..made'] /\ target' \in [Actors -> 0..made']
      /\ pc' \in [Actors -> Taking \cup {"made", "idle", "close", "restage", "stage"}]
  <2>1. \A x \in 0..made : x \in 0..made'
    BY <1>0
  <2>2. held \in [Actors -> 0..made'] /\ target \in [Actors -> 0..made']
    BY <2>1 DEF Shape
  <2>3. pc \in [Actors -> Taking \cup {"made", "idle", "close", "restage", "stage"}]
    BY DEF Shape
  <2> QED
    BY <2>2, <2>3
<1>3. OwnerShape'
  BY <1>1 DEF Shape, OwnerShape
<1>4. ASSUME NEW j \in Clients PROVE ClientShape(j)'
  <2>1. j \in Actors /\ j # Owner
    BY OwnerApart
  <2> QED
    BY <1>0, <2>1 DEF Shape, ClientShape
<1>5. \A c \in Contexts : closed'[c] => c <= made'
  BY <1>0 DEF Contexts
<1> QED
  BY <1>0, <1>2, <1>3, <1>4, <1>5 DEF Shape

LEMMA UpdateType ==
    ASSUME NEW S, NEW T, NEW f \in [S -> T], NEW c, NEW v, c \in S => v \in T
    PROVE  [f EXCEPT ![c] = v] \in [S -> T]
OBVIOUS

(* Counts and destructions stay numbers.                                   *)
LEMMA ReleaseType ==
    ASSUME Shape, NEW c, NEW n, n \in {1, 2}, Release(c, n)
    PROVE  refs' \in [Contexts -> Int] /\ freed' \in [Contexts -> Nat]
<1>1. refs \in [Contexts -> Int] /\ freed \in [Contexts -> Nat]
  BY DEF Shape
<1>2. refs' = [refs EXCEPT ![c] = @ - n]
  BY DEF Release
<1>3. freed' = [freed EXCEPT ![c] = IF refs[c] \in 1..n THEN @ + 1 ELSE @]
  BY DEF Release
<1>4. n \in Int
  OBVIOUS
<1>5. refs' \in [Contexts -> Int]
  <2>1. c \in Contexts => refs[c] - n \in Int
    BY <1>1, <1>4
  <2>2. refs' = [refs EXCEPT ![c] = refs[c] - n]
    BY <1>2
  <2> QED
    BY <1>1, <2>1, <2>2, UpdateType
<1>6. freed' \in [Contexts -> Nat]
  <2> DEFINE v == IF refs[c] \in 1..n THEN freed[c] + 1 ELSE freed[c]
  <2>1. c \in Contexts => v \in Nat
    BY <1>1
  <2>2. freed' = [freed EXCEPT ![c] = v]
    BY <1>3
  <2> HIDE DEF v
  <2> QED
    BY <1>1, <2>1, <2>2, UpdateType
<1> QED
  BY <1>5, <1>6

LEMMA ShapeHolds == ASSUME WsiAssumption PROVE ContextSpec => []Shape
<1>1. ContextInit => Shape
  <2> SUFFICES ASSUME ContextInit PROVE Shape
    OBVIOUS
  <2>1. \A k \in Clients : ClientShape(k)
    BY OwnerApart DEF ContextInit, ClientShape
  <2>2. OwnerShape
    BY OwnerApart DEF ContextInit, OwnerShape
  <2> QED
    BY <2>1, <2>2 DEF ContextInit, Shape, WsiAssumption
<1>2. ASSUME WsiAssumption, Shape, [ContextNext]_contextVars PROVE Shape'
  <2>n. /\ MaxContexts \in Nat /\ made \in 0..MaxContexts
        /\ refs \in [Contexts -> Int] /\ freed \in [Contexts -> Nat]
        /\ closed \in [Contexts -> BOOLEAN] /\ exported \subseteq 1..made
        /\ held \in [Actors -> 0..made] /\ target \in [Actors -> 0..made]
        /\ pc \in [Actors -> Taking \cup {"made", "idle", "close", "restage", "stage"}]
        /\ \A c \in Contexts : closed[c] => c <= made
        /\ \A k \in Clients : ClientShape(k)
        /\ Owner \in Actors /\ \A k \in Clients : k \in Actors
    BY <1>2, OwnerApart DEF Shape, WsiAssumption
  <2>i. /\ held[Owner] \in 0..made /\ held = [held EXCEPT ![Owner] = held[Owner]]
        /\ \A k \in Clients : /\ held[k] \in 0..made /\ target[k] \in 0..made
                              /\ held = [held EXCEPT ![k] = held[k]]
                              /\ target = [target EXCEPT ![k] = target[k]]
                              /\ pc = [pc EXCEPT ![k] = pc[k]]
    BY <2>n
  <2>1. ASSUME NEW next \in {"restage", "close"}, held[Owner] # 0, CloseOwned(next)
        PROVE  Shape'
    <3>1. closed' \in [Contexts -> BOOLEAN] /\ \A c \in Contexts : closed'[c] => c <= made
      BY <2>1, <2>n, <2>i DEF CloseOwned, Contexts
    <3> QED
      <4>1. /\ pc' = [pc EXCEPT ![Owner] = next]
            /\ made' = made /\ exported' = exported /\ refs' = refs
            /\ freed' = freed /\ held' = held /\ target' = target
        BY <2>1 DEF CloseOwned, Goes
      <4>2. made' \in made..MaxContexts /\ made' = made
        BY <4>1, <2>n
      <4> QED
        BY <1>2, <2>1, <2>n, <2>i, <3>1, <4>1, <4>2, OwnerMoves
  <2>2. CASE held[Owner] = 0 /\ Goes(Owner, "idle", "stage")
             /\ UNCHANGED <<made, exported, refs, closed, freed, held, target>>
    <3>1. pc' = [pc EXCEPT ![Owner] = "stage"]
      BY <2>2 DEF Goes
    <3>2. made' \in made..MaxContexts /\ made' = made
      BY <2>2, <2>n
    <3> QED
      BY <1>2, <2>2, <2>n, <2>i, <3>1, <3>2, OwnerMoves
  <2>3. CASE LetGoOwned
    <3>1. refs' \in [Contexts -> Int] /\ freed' \in [Contexts -> Nat]
      BY <1>2, <2>3, ReleaseType DEF LetGoOwned
    <3>2. \E p \in {"idle", "stage"} : pc' = [pc EXCEPT ![Owner] = p]
      BY <2>3 DEF LetGoOwned, Goes
    <3>3. /\ held' = [held EXCEPT ![Owner] = 0]
          /\ made' = made /\ exported' = exported /\ closed' = closed /\ target' = target
      BY <2>3 DEF LetGoOwned
    <3> QED
      <4>1. made' \in made..MaxContexts /\ 0 \in 0..made'
        BY <3>3, <2>n
      <4> QED
        BY <1>2, <2>n, <3>1, <3>2, <3>3, <4>1, OwnerMoves
  <2>4. CASE Stage
    <3>1. made' = made + 1 /\ made' \in made..MaxContexts
      BY <2>4, <2>n DEF Stage
    <3>2. /\ pc' = [pc EXCEPT ![Owner] = "idle"] /\ target' = target /\ closed' = closed
      BY <2>4 DEF Stage, Goes
    <3>3. CASE Publishes
      <4>1. refs' \in [Contexts -> Int] /\ freed' \in [Contexts -> Nat]
        <5>1. refs' = [refs EXCEPT ![made + 1] = 1] /\ freed' = freed
          BY <3>3 DEF Publishes
        <5>2. refs \in [Contexts -> Int] /\ freed \in [Contexts -> Nat]
          BY <2>n
        <5> QED
          BY <5>1, <5>2, UpdateType
      <4>2. held' = [held EXCEPT ![Owner] = made + 1] /\ exported' \subseteq 1..made'
        BY <3>1, <3>3, <2>n DEF Publishes
      <4>3. made + 1 \in 0..made'
        BY <3>1, <2>n
      <4> QED
        BY <1>2, <2>n, <3>1, <3>2, <4>1, <4>2, <4>3, OwnerMoves
    <3>4. CASE FailsStaging
      <4>1. refs' \in [Contexts -> Int] /\ freed' \in [Contexts -> Nat]
        <5>1. /\ refs' = refs
              /\ \E d \in {1, 2} : freed' = [freed EXCEPT ![made + 1] = d]
          BY <3>4 DEF FailsStaging, Deletions
        <5>2. refs \in [Contexts -> Int] /\ freed \in [Contexts -> Nat]
          BY <2>n
        <5> QED
          BY <5>1, <5>2, UpdateType
      <4>2. held' = [held EXCEPT ![Owner] = held[Owner]] /\ exported' \subseteq 1..made'
        BY <3>1, <3>4, <2>n, <2>i DEF FailsStaging
      <4>3. held[Owner] \in 0..made'
        BY <3>1, <2>n, <2>i
      <4> QED
        BY <1>2, <2>n, <3>1, <3>2, <4>1, <4>2, <4>3, OwnerMoves
    <3> QED
      BY <2>4, <3>3, <3>4 DEF Stage
  <2>5. ASSUME NEW k \in Clients, NEW c \in Contexts, ConfigureWith(k, c) PROVE Shape'
    <3>1. c \in 1..made /\ held[k] = 0
      BY <2>5, <2>n DEF ConfigureWith
    <3>2. c \in 0..made
      BY <3>1, <2>n
    <3> QED
      BY <1>2, <2>5, <2>n, <2>i, <3>1, <3>2, ClientMoves DEF ConfigureWith, Goes
  <2>6. ASSUME NEW k \in Clients, pc[k] # "idle",
               NEW p \in Taking \cup {"made", "idle"}, pc' = [pc EXCEPT ![k] = p],
               UNCHANGED <<made, exported, closed, held, target>>,
               refs' \in [Contexts -> Int], freed' \in [Contexts -> Nat]
        PROVE  Shape'
    <3>1. held[k] = 0 /\ target[k] \in 1..made
      BY <2>6, <2>n DEF ClientShape
    <3> QED
      BY <1>2, <2>6, <2>i, <3>1, ClientMoves
  <2>7. ASSUME NEW k \in Clients, ReadFlag(k) \/ CountIn(k) \/ Recheck(k) \/ FailsConfigure(k)
        PROVE  Shape'
    <3>1. pc[k] # "idle" /\ UNCHANGED <<made, exported, closed, held, target>>
      BY <2>7 DEF ReadFlag, CountIn, Recheck, FailsConfigure, GivesUp, Goes
    <3>2. \E p \in Taking \cup {"made", "idle"} : pc' = [pc EXCEPT ![k] = p]
      BY <2>7 DEF ReadFlag, CountIn, Recheck, FailsConfigure, Goes
    <3>3. refs' \in [Contexts -> Int] /\ freed' \in [Contexts -> Nat]
      <4>1. CASE ReadFlag(k) \/ CountIn(k)
        BY <4>1, <2>n DEF ReadFlag, CountIn
      <4>2. CASE Recheck(k)
        BY <1>2, <4>2, <2>n, ReleaseType DEF Recheck, GivesUp
      <4>3. CASE FailsConfigure(k)
        <5>1. \E n \in {1, 2} : Release(target[k], n)
          BY <4>3 DEF FailsConfigure, LetsGo, GivesUp
        <5> QED
          BY <1>2, <5>1, ReleaseType
      <4> QED
        BY <2>7, <4>1, <4>2, <4>3
    <3> QED
      BY <2>6, <3>1, <3>2, <3>3
  <2>8. ASSUME NEW k \in Clients, Configured(k) PROVE Shape'
    <3>1. /\ held' = [held EXCEPT ![k] = target[k]] /\ pc' = [pc EXCEPT ![k] = "idle"]
          /\ UNCHANGED <<made, exported, refs, closed, freed, target>>
      BY <2>8 DEF Configured, Goes
    <3> QED
      BY <1>2, <2>n, <2>i, <3>1, ClientMoves
  <2>9. ASSUME NEW k \in Clients, ShutdownClient(k) PROVE Shape'
    <3>1. refs' \in [Contexts -> Int] /\ freed' \in [Contexts -> Nat]
      BY <1>2, <2>9, ReleaseType DEF ShutdownClient
    <3>2. /\ held' = [held EXCEPT ![k] = 0] /\ pc' = pc /\ pc[k] = "idle"
          /\ UNCHANGED <<made, exported, closed, target>>
      BY <2>9 DEF ShutdownClient
    <3>3. pc' = [pc EXCEPT ![k] = "idle"] /\ target' = [target EXCEPT ![k] = target[k]]
      BY <3>2, <2>i
    <3>4. 0 \in 0..made /\ target[k] \in 0..made
      BY <2>n, <2>i
    <3> QED
      BY <1>2, <3>1, <3>2, <3>3, <3>4, ClientMoves
  <2>10. CASE UNCHANGED contextVars
    BY <1>2, <2>10 DEF contextVars, Shape, ClientShape, OwnerShape
  <2> QED
    BY <1>2, <2>1, <2>2, <2>3, <2>4, <2>5, <2>7, <2>8, <2>9, <2>10
       DEF ContextNext, BeginInitialize, BeginShutdown
<1> QED
  BY <1>1, <1>2, PTL DEF ContextSpec

-----------------------------------------------------------------------------
(* A context nobody holds has been destroyed, once, and no other has.      *)
Begun(c) == c <= made
Right(c) == /\ refs[c] = Cardinality(LeasesOf(c))
            /\ \A a \in Actors : Touches(a, c) => freed[c] = 0
            /\ freed[c] \in {0, 1}
            /\ Begun(c) /\ refs[c] = 0 => freed[c] = 1
            /\ ~Begun(c) => freed[c] = 0
Counted == \A c \in Contexts : Right(c)

Stays(b) == held'[b] = held[b] /\ pc'[b] = pc[b] /\ target'[b] = target[b]

LEMMA OthersStay ==
    ASSUME NEW a \in Actors, \A b \in Actors \ {a} : Stays(b)
    PROVE  \A b \in Actors \ {a}, c \in Contexts :
              /\ b \in LeasesOf(c)' <=> b \in LeasesOf(c)
              /\ Touches(b, c)' <=> Touches(b, c)
BY DEF Stays, LeasesOf, Touches

LEMMA SameLeases ==
    ASSUME NEW a \in Actors, \A b \in Actors \ {a} : Stays(b), NEW c \in Contexts,
           a \in LeasesOf(c)' <=> a \in LeasesOf(c)
    PROVE  LeasesOf(c)' = LeasesOf(c)
<1>1. \A b \in Actors : b \in LeasesOf(c)' <=> b \in LeasesOf(c)
  BY OthersStay
<1> QED
  BY <1>1 DEF LeasesOf

LEMMA OneLess ==
    ASSUME NEW a \in Actors, \A b \in Actors \ {a} : Stays(b), NEW c \in Contexts,
           a \notin LeasesOf(c)'
    PROVE  LeasesOf(c)' = LeasesOf(c) \ {a}
<1>1. \A b \in Actors \ {a} : b \in LeasesOf(c)' <=> b \in LeasesOf(c)
  BY OthersStay
<1> QED
  BY <1>1 DEF LeasesOf

LEMMA RightStays ==
    ASSUME NEW c, Right(c), refs'[c] = refs[c], freed'[c] = freed[c],
           Begun(c)' <=> Begun(c), LeasesOf(c)' = LeasesOf(c),
           \A b \in Actors : Touches(b, c)' => Touches(b, c) \/ freed[c] = 0
    PROVE  Right(c)'
BY Zenon DEF Right

(* Nothing is counted, and who looks at a context finds it in being.       *)
LEMMA NothingCounted ==
    ASSUME Counted, NEW a \in Actors, \A b \in Actors \ {a} : Stays(b),
           refs' = refs, freed' = freed, made' = made,
           \A c \in Contexts : a \in LeasesOf(c)' <=> a \in LeasesOf(c),
           \A c \in Contexts : Touches(a, c)' => Touches(a, c) \/ freed[c] = 0
    PROVE  Counted'
<1> SUFFICES ASSUME NEW c \in Contexts PROVE Right(c)'
  BY DEF Counted
<1>1. \A b \in Actors : Touches(b, c)' => Touches(b, c) \/ freed[c] = 0
  BY OthersStay
<1>2. LeasesOf(c)' = LeasesOf(c)
  BY SameLeases
<1>3. Right(c) /\ (Begun(c)' <=> Begun(c))
  BY DEF Counted, Begun
<1> QED
  BY <1>1, <1>2, <1>3, RightStays

LEMMA FiniteLeases == ASSUME IsFiniteSet(Actors), NEW c
                      PROVE  IsFiniteSet(LeasesOf(c)) /\ Cardinality(LeasesOf(c)) \in Nat
<1>1. LeasesOf(c) \in SUBSET Actors
  BY DEF LeasesOf
<1> QED
  BY <1>1, FS_Subset, FS_CardinalityType

(* Whoever lets the last reference go destroys the context, and nobody is  *)
(* left who holds it or is about to look at it.                            *)
LEMMA OneLetsGo ==
    ASSUME WsiAssumption, IsFiniteSet(Actors), Shape, Counted,
           NEW a \in Actors, NEW c \in Contexts, a \in LeasesOf(c),
           StaysReferenced(c, a), Release(c, 1), made' = made,
           \A b \in Actors \ {a} : Stays(b),
           \A d \in Contexts : a \notin LeasesOf(d)' /\ ~Touches(a, d)',
           \A d \in Contexts \ {c} : a \notin LeasesOf(d)
    PROVE  Counted'
<1>1. ASSUME NEW d \in Contexts PROVE LeasesOf(d)' = LeasesOf(d) \ {a}
  BY OneLess
<1>2. ASSUME NEW d \in Contexts, d # c PROVE Right(d)'
  <2>1. refs'[d] = refs[d] /\ freed'[d] = freed[d]
    <3>1. refs' = [refs EXCEPT ![c] = @ - 1]
      BY DEF Release
    <3>2. freed' = [freed EXCEPT ![c] = IF refs[c] \in 1..1 THEN @ + 1 ELSE @]
      BY DEF Release
    <3>3. refs \in [Contexts -> Int] /\ freed \in [Contexts -> Nat]
      BY DEF Shape
    <3> QED
      BY <1>2, <3>1, <3>2, <3>3
  <2>2. LeasesOf(d)' = LeasesOf(d)
    BY <1>2, SameLeases
  <2>3. \A b \in Actors : Touches(b, d)' => Touches(b, d)
    BY OthersStay
  <2>4. Right(d) /\ (Begun(d)' <=> Begun(d))
    BY DEF Counted, Begun
  <2> QED
    BY <2>1, <2>2, <2>3, <2>4, RightStays
<1>3. Right(c)'
  <2>1. /\ Right(c) /\ refs[c] \in Int
        /\ refs \in [Contexts -> Int] /\ freed \in [Contexts -> Nat]
    BY DEF Counted, Shape
  <2>c. refs[c] = Cardinality(LeasesOf(c))
    BY <2>1 DEF Right
  <2>2. /\ Cardinality(LeasesOf(c)') = Cardinality(LeasesOf(c)) - 1
        /\ Cardinality(LeasesOf(c)) \in Nat /\ Cardinality(LeasesOf(c)') \in Nat
    <3>1. IsFiniteSet(LeasesOf(c)) /\ IsFiniteSet(LeasesOf(c) \ {a})
      BY FiniteLeases, FS_RemoveElement
    <3> QED
      BY <1>1, <3>1, FS_RemoveElement, FS_CardinalityType
  <2>3. refs'[c] = refs[c] - 1 /\ refs[c] \in Nat \ {0}
    <3>1. refs' = [refs EXCEPT ![c] = @ - 1]
      BY DEF Release
    <3> QED
      BY <2>1, <2>2, <2>c, <3>1
  <2>4. freed[c] = 0
    <3>1. Touches(a, c)
      BY DEF LeasesOf, Touches
    <3> QED
      BY <2>1, <3>1, Zenon DEF Right
  <2>5. freed'[c] = IF refs[c] = 1 THEN 1 ELSE 0
    <3>1. freed' = [freed EXCEPT ![c] = IF refs[c] \in 1..1 THEN @ + 1 ELSE @]
      BY DEF Release
    <3>2. refs[c] \in 1..1 <=> refs[c] = 1
      BY <2>3
    <3>3. freed'[c] = IF refs[c] \in 1..1 THEN freed[c] + 1 ELSE freed[c]
      BY <2>1, <3>1
    <3> QED
      BY <2>4, <3>2, <3>3
  <2>6. ASSUME refs[c] = 1, NEW b \in Actors PROVE ~Touches(b, c)'
    <3>1. CASE b = a
      BY <3>1
    <3>2. CASE b # a
      <4>1. LeasesOf(c)' = {}
        <5>1. IsFiniteSet(LeasesOf(c)')
          BY <1>1, FiniteLeases, FS_RemoveElement
        <5> QED
          BY <2>2, <2>6, <2>c, <5>1, FS_EmptySet
      <4>2. b \notin LeasesOf(c)
        BY <3>2, <4>1, <1>1
      <4>3. ~(pc[b] \in Taking /\ target[b] = c)
        <5>1. CASE b = Owner
          BY <5>1 DEF Shape, OwnerShape
        <5>2. CASE b # Owner
          BY <2>6, <3>2, <5>2 DEF StaysReferenced, Actors
        <5> QED
          BY <5>1, <5>2
      <4>4. ~Touches(b, c)
        BY <4>2, <4>3 DEF Touches, LeasesOf
      <4> QED
        BY <3>2, <4>4, OthersStay
    <3> QED
      BY <3>1, <3>2
  <2>7. refs'[c] = Cardinality(LeasesOf(c)')
    BY <2>2, <2>3, <2>c
  <2>8. Begun(c)' /\ c <= made
    <3>1. held[a] \in 0..made /\ target[a] \in 0..made /\ made \in Nat
      BY DEF Shape, WsiAssumption
    <3> QED
      BY <3>1 DEF LeasesOf, Begun
  <2> QED
    BY <2>3, <2>5, <2>6, <2>7, <2>8 DEF Right
<1> QED
  BY <1>2, <1>3 DEF Counted

(* Whoever counts himself in finds the context in being.                   *)
LEMMA OneCountsIn ==
    ASSUME IsFiniteSet(Actors), Shape, Counted,
           NEW k \in Clients, k \in Actors, CountIn(k)
    PROVE  Counted'
<1>1. /\ pc[k] = "count" /\ target[k] \in 1..made /\ held[k] = 0
      /\ pc' = [pc EXCEPT ![k] = "recheck"] /\ held' = held /\ target' = target
      /\ refs' = [refs EXCEPT ![target[k]] = @ + 1] /\ freed' = freed /\ made' = made
  BY DEF CountIn, Goes, Shape, ClientShape
<1>2. \A b \in Actors \ {k} : Stays(b)
  BY <1>1 DEF Stays, Shape
<1>3. pc'[k] = "recheck"
  BY <1>1 DEF Shape
<1>4. ASSUME NEW c \in Contexts PROVE Right(c)'
  <2>0. /\ Right(c) /\ refs[c] \in Int /\ refs \in [Contexts -> Int]
        /\ (Begun(c)' <=> Begun(c)) /\ freed'[c] = freed[c]
    BY <1>1 DEF Counted, Shape, Begun
  <2>c. refs[c] = Cardinality(LeasesOf(c))
    BY <2>0 DEF Right
  <2>1. \A b \in Actors : Touches(b, c)' => Touches(b, c)
    <3>1. Touches(k, c)' => Touches(k, c)
      BY <1>1, <1>3 DEF Touches
    <3> QED
      BY <1>2, <3>1, OthersStay
  <2>2. CASE c = target[k]
    <3>1. LeasesOf(c)' = LeasesOf(c) \cup {k}
      <4>1. k \in LeasesOf(c)'
        BY <1>1, <1>3, <2>2 DEF LeasesOf
      <4> QED
        BY <1>2, <4>1, OthersStay DEF LeasesOf
    <3>2. k \notin LeasesOf(c)
      BY <1>1 DEF LeasesOf, Contexts
    <3>3. Cardinality(LeasesOf(c)') = Cardinality(LeasesOf(c)) + 1
      BY <3>1, <3>2, FiniteLeases, FS_AddElement
    <3>4. refs'[c] = refs[c] + 1
      BY <1>1, <2>0, <2>2
    <3>5. Cardinality(LeasesOf(c)) \in Nat
      BY FiniteLeases
    <3>6. refs'[c] = Cardinality(LeasesOf(c)') /\ refs'[c] # 0
      BY <2>c, <3>3, <3>4, <3>5
    <3> QED
      BY <2>0, <2>1, <3>6, Zenon DEF Right
  <2>3. CASE c # target[k]
    <3>1. LeasesOf(c)' = LeasesOf(c)
      <4>1. k \in LeasesOf(c)' <=> k \in LeasesOf(c)
        BY <1>1, <1>3, <2>3 DEF LeasesOf
      <4> QED
        BY <1>2, <4>1, SameLeases
    <3>2. refs'[c] = refs[c]
      BY <1>1, <2>0, <2>3
    <3> QED
      BY <2>0, <2>1, <3>1, <3>2, RightStays
  <2> QED
    BY <2>2, <2>3
<1> QED
  BY <1>4 DEF Counted

LEMMA CountedHolds ==
    ASSUME WsiAssumption, IsFiniteSet(Actors), ModesListed, SurfaceMade
    PROVE  ContextSpec => []Counted
<1>1. ContextInit => Counted
  <2> SUFFICES ASSUME ContextInit, NEW c \in Contexts PROVE Right(c)
    BY DEF Counted
  <2>1. c # 0 /\ ~(c <= made)
    BY DEF ContextInit, Contexts
  <2>2. \A a \in Actors : held[a] = 0 /\ pc[a] = "idle"
    BY DEF ContextInit
  <2>3. LeasesOf(c) = {}
    BY <2>1, <2>2 DEF LeasesOf
  <2>4. refs[c] = 0 /\ freed[c] = 0
    BY DEF ContextInit
  <2> QED
    BY <2>1, <2>2, <2>3, <2>4, FS_EmptySet DEF Right, Begun, Touches
<1>2. ASSUME WsiAssumption, IsFiniteSet(Actors), ModesListed, SurfaceMade,
             Shape, Counted, [ContextNext]_contextVars
      PROVE  Counted'
  <2>0. \A k \in Clients : k \in Actors /\ k # Owner
    BY <1>2, OwnerApart
  <2>o. Owner \in Actors
    BY <1>2, OwnerApart
  <2>t. /\ held \in [Actors -> 0..made] /\ target \in [Actors -> 0..made]
        /\ pc \in [Actors -> Taking \cup {"made", "idle", "close", "restage", "stage"}]
        /\ refs \in [Contexts -> Int] /\ freed \in [Contexts -> Nat]
        /\ made \in 0..MaxContexts /\ MaxContexts \in Nat /\ exported \subseteq 1..made
        /\ \A k \in Clients : ClientShape(k)
    BY <1>2 DEF Shape, WsiAssumption
  <2>1. ASSUME NEW next \in {"restage", "close", "stage"}, Goes(Owner, "idle", next),
               made' = made /\ refs' = refs /\ freed' = freed /\ held' = held /\ target' = target
        PROVE  Counted'
    <3>1. \A b \in Actors \ {Owner} : Stays(b)
      BY <2>1, <2>t DEF Goes, Stays
    <3>2. pc[Owner] = "idle" /\ pc'[Owner] = next
      BY <2>1, <2>t, <2>o DEF Goes
    <3>3. \A c \in Contexts : /\ Owner \in LeasesOf(c)' <=> Owner \in LeasesOf(c)
                              /\ Touches(Owner, c)' => Touches(Owner, c)
      BY <2>1, <3>2 DEF LeasesOf, Touches
    <3> QED
      BY <1>2, <2>1, <2>o, <3>1, <3>3, NothingCounted
  <2>2. CASE LetGoOwned
    <3>1. /\ held[Owner] # 0 /\ pc[Owner] \in {"close", "restage"}
          /\ pc'[Owner] \in {"idle", "stage"} /\ held'[Owner] = 0
      BY <1>2, <2>2, <2>t, <2>o DEF LetGoOwned, Goes, Shape, OwnerShape
    <3>2. \A b \in Actors \ {Owner} : Stays(b)
      BY <2>2, <2>t DEF LetGoOwned, Goes, Stays
    <3>3. \A d \in Contexts : Owner \notin LeasesOf(d)' /\ ~Touches(Owner, d)'
      BY <3>1 DEF LeasesOf, Touches, Contexts
    <3>4. held[Owner] \in Contexts /\ Owner \in LeasesOf(held[Owner])
      BY <2>t, <2>o, <3>1 DEF LeasesOf, Contexts
    <3>5. \A d \in Contexts \ {held[Owner]} : Owner \notin LeasesOf(d)
      BY <3>1 DEF LeasesOf
    <3>6. StaysReferenced(held[Owner], Owner) /\ Release(held[Owner], 1) /\ made' = made
      BY <2>2 DEF LetGoOwned
    <3> QED
      BY <1>2, <2>o, <3>2, <3>3, <3>4, <3>5, <3>6, OneLetsGo
  <2>3. CASE Stage
    <3>1. /\ made' = made + 1 /\ made + 1 \in Contexts /\ pc[Owner] = "stage"
          /\ pc' = [pc EXCEPT ![Owner] = "idle"] /\ target' = target
      BY <2>3, <2>t DEF Stage, Goes, Contexts
    <3>2. held[Owner] = 0 /\ pc'[Owner] = "idle"
      BY <1>2, <2>t, <2>o, <3>1 DEF Shape, OwnerShape
    <3>3. \A b \in Actors \ {Owner} : Stays(b)
      BY <2>3, <2>t, <3>1 DEF Stage, Publishes, FailsStaging, Stays
    <3>m. PICK m \in Contexts : m = made + 1
      BY <3>1
    <3>4. \A a \in Actors : a \notin LeasesOf(m) /\ ~Touches(a, m)
      <4>1. \A a \in Actors : held[a] # m /\ target[a] # m
        BY <2>t, <3>m
      <4> QED
        BY <4>1 DEF LeasesOf, Touches
    <3>5. LeasesOf(m) = {}
      BY <3>4 DEF LeasesOf
    <3>6. Right(m) /\ ~Begun(m) /\ Begun(m)'
      BY <1>2, <2>t, <3>1, <3>m DEF Counted, Begun
    <3>7. refs[m] = 0 /\ freed[m] = 0
      BY <3>5, <3>6, FS_EmptySet, Zenon DEF Right
    <3>8. ASSUME NEW c \in Contexts, c # m, held'[Owner] \in {0, m},
                 refs'[c] = refs[c], freed'[c] = freed[c]
          PROVE  Right(c)'
      <4>1. /\ Owner \notin LeasesOf(c)' /\ Owner \notin LeasesOf(c)
            /\ ~Touches(Owner, c)'
        BY <3>1, <3>2, <3>8 DEF LeasesOf, Touches, Contexts
      <4>2. LeasesOf(c)' = LeasesOf(c)
        BY <2>o, <3>3, <4>1, SameLeases
      <4>3. \A b \in Actors : Touches(b, c)' => Touches(b, c)
        BY <2>o, <3>3, <4>1, OthersStay
      <4>4. Right(c) /\ (Begun(c)' <=> Begun(c))
        BY <1>2, <2>t, <3>1, <3>m, <3>8 DEF Counted, Contexts, Begun
      <4> QED
        BY <3>8, <4>2, <4>3, <4>4, RightStays
    <3>9. CASE Publishes
      <4>1. /\ refs' = [refs EXCEPT ![m] = 1] /\ freed' = freed
            /\ held' = [held EXCEPT ![Owner] = m]
        BY <3>9, <3>m DEF Publishes
      <4>2. held'[Owner] = m /\ refs'[m] = 1
        BY <2>t, <2>o, <3>m, <4>1
      <4>3. \A c \in Contexts : c # m => refs'[c] = refs[c] /\ freed'[c] = freed[c]
        BY <2>t, <4>1
      <4>4. \A b \in Actors \ {Owner} : b \notin LeasesOf(m)'
        BY <2>o, <3>3, <3>4, OthersStay
      <4>5. LeasesOf(m)' = {Owner}
        <5>1. Owner \in LeasesOf(m)'
          BY <2>o, <4>2 DEF LeasesOf
        <5> QED
          BY <4>4, <5>1 DEF LeasesOf
      <4>6. Right(m)'
        <5>1. Cardinality(LeasesOf(m)') = 1
          BY <4>5, FS_Singleton
        <5> QED
          BY <3>6, <3>7, <4>1, <4>2, <5>1 DEF Right
      <4> QED
        BY <3>8, <4>2, <4>3, <4>6 DEF Counted
    <3>10. CASE FailsStaging
      <4>1. refs' = refs /\ held' = held /\ freed' = [freed EXCEPT ![m] = 1]
        BY <1>2, <3>m, <3>10 DEF FailsStaging, Deletions
      <4>2. freed'[m] = 1 /\ held'[Owner] = 0
        BY <2>t, <3>2, <4>1
      <4>3. \A c \in Contexts : c # m => refs'[c] = refs[c] /\ freed'[c] = freed[c]
        BY <2>t, <4>1
      <4>4. \A b \in Actors : b \notin LeasesOf(m)' /\ ~Touches(b, m)'
        <5>1. Owner \notin LeasesOf(m)' /\ ~Touches(Owner, m)'
          BY <3>2, <4>2 DEF LeasesOf, Touches, Contexts
        <5> QED
          BY <2>o, <3>3, <3>4, <5>1, OthersStay
      <4>5. LeasesOf(m)' = {}
        BY <4>4 DEF LeasesOf
      <4>6. Right(m)'
        <5>1. Cardinality(LeasesOf(m)') = 0
          BY <4>5, FS_EmptySet
        <5> QED
          BY <3>6, <3>7, <4>1, <4>2, <4>4, <5>1 DEF Right
      <4> QED
        BY <3>8, <4>2, <4>3, <4>6 DEF Counted
    <3> QED
      BY <2>3, <3>9, <3>10 DEF Stage
  <2>5. ASSUME NEW k \in Clients, NEW c \in Contexts, ConfigureWith(k, c) PROVE Counted'
    <3>1. /\ held[k] = 0 /\ pc[k] = "idle" /\ freed[c] = 0
          /\ pc' = [pc EXCEPT ![k] = "flag"] /\ target' = [target EXCEPT ![k] = c]
          /\ refs' = refs /\ freed' = freed /\ made' = made /\ held' = held
      BY <2>5 DEF ConfigureWith, Goes
    <3>2. /\ pc'[k] = "flag" /\ target'[k] = c /\ held'[k] = 0
          /\ \A b \in Actors \ {k} : Stays(b)
      BY <2>0, <2>t, <3>1 DEF Stays
    <3>3. \A d \in Contexts : /\ k \in LeasesOf(d)' <=> k \in LeasesOf(d)
                              /\ Touches(k, d)' => freed[d] = 0
      BY <3>1, <3>2 DEF LeasesOf, Touches, Contexts
    <3> QED
      BY <1>2, <2>0, <3>1, <3>2, <3>3, NothingCounted
  <2>6. ASSUME NEW k \in Clients, ReadFlag(k) PROVE Counted'
    <3>1. /\ pc[k] = "flag" /\ held' = held /\ target' = target
          /\ \E p \in {"idle", "count"} : pc' = [pc EXCEPT ![k] = p]
          /\ refs' = refs /\ freed' = freed /\ made' = made
      BY <2>6 DEF ReadFlag, Goes
    <3>2. /\ pc'[k] \in {"idle", "count"} /\ target'[k] = target[k] /\ held'[k] = held[k]
          /\ \A b \in Actors \ {k} : Stays(b)
      BY <2>0, <2>t, <3>1 DEF Stays
    <3>3. \A d \in Contexts : /\ k \in LeasesOf(d)' <=> k \in LeasesOf(d)
                              /\ Touches(k, d)' => Touches(k, d)
      BY <3>1, <3>2 DEF LeasesOf, Touches
    <3> QED
      BY <1>2, <2>0, <3>1, <3>2, <3>3, NothingCounted
  <2>7. ASSUME NEW k \in Clients, CountIn(k) PROVE Counted'
    BY <1>2, <2>0, <2>7, OneCountsIn
  <2>8. ASSUME NEW k \in Clients, pc[k] \in {"recheck", "made"},
               pc' = [pc EXCEPT ![k] = "idle"], GivesUp(k, 1)
        PROVE  Counted'
    <3>1. /\ held' = held /\ target' = target /\ made' = made
          /\ StaysReferenced(target[k], k) /\ Release(target[k], 1)
      BY <2>8 DEF GivesUp
    <3>2. held[k] = 0 /\ target[k] \in 1..made
      BY <2>8, <2>t DEF ClientShape
    <3>3. /\ pc'[k] = "idle" /\ held'[k] = 0 /\ \A b \in Actors \ {k} : Stays(b)
      BY <2>0, <2>t, <2>8, <3>1, <3>2 DEF Stays
    <3>4. target[k] \in Contexts
      BY <2>t, <3>2 DEF Contexts
    <3>5. /\ k \in LeasesOf(target[k])
          /\ \A d \in Contexts \ {target[k]} : k \notin LeasesOf(d)
          /\ \A d \in Contexts : k \notin LeasesOf(d)' /\ ~Touches(k, d)'
      BY <2>0, <2>8, <3>2, <3>3 DEF LeasesOf, Touches, Contexts
    <3> QED
      BY <1>2, <2>0, <3>1, <3>3, <3>4, <3>5, OneLetsGo
  <2>9. ASSUME NEW k \in Clients, Recheck(k) PROVE Counted'
    <3>1. CASE Goes(k, "recheck", "idle") /\ GivesUp(k, 1)
      BY <2>8, <3>1 DEF Goes
    <3>2. CASE /\ Goes(k, "recheck", "made")
               /\ UNCHANGED <<made, exported, refs, closed, freed, held, target>>
      <4>1. /\ pc[k] = "recheck" /\ held' = held /\ target' = target
            /\ pc' = [pc EXCEPT ![k] = "made"]
            /\ refs' = refs /\ freed' = freed /\ made' = made
        BY <3>2 DEF Goes
      <4>2. /\ pc'[k] = "made" /\ target'[k] = target[k] /\ held'[k] = held[k]
            /\ \A b \in Actors \ {k} : Stays(b)
        BY <2>0, <2>t, <4>1 DEF Stays
      <4>3. \A d \in Contexts : /\ k \in LeasesOf(d)' <=> k \in LeasesOf(d)
                                /\ Touches(k, d)' => Touches(k, d)
        BY <4>1, <4>2 DEF LeasesOf, Touches
      <4> QED
        BY <1>2, <2>0, <4>1, <4>2, <4>3, NothingCounted
    <3> QED
      BY <2>9, <3>1, <3>2 DEF Recheck
  <2>10. ASSUME NEW k \in Clients, Configured(k) PROVE Counted'
    <3>1. /\ pc[k] = "made" /\ target' = target
          /\ pc' = [pc EXCEPT ![k] = "idle"] /\ held' = [held EXCEPT ![k] = target[k]]
          /\ refs' = refs /\ freed' = freed /\ made' = made
      BY <2>10 DEF Configured, Goes
    <3>2. held[k] = 0
      BY <2>t, <3>1 DEF ClientShape
    <3>3. /\ pc'[k] = "idle" /\ held'[k] = target[k]
          /\ \A b \in Actors \ {k} : Stays(b)
      BY <2>0, <2>t, <3>1 DEF Stays
    <3>4. \A d \in Contexts : /\ k \in LeasesOf(d)' <=> k \in LeasesOf(d)
                              /\ Touches(k, d)' => Touches(k, d)
      BY <2>0, <3>1, <3>2, <3>3 DEF LeasesOf, Touches, Contexts
    <3> QED
      BY <1>2, <2>0, <3>1, <3>3, <3>4, NothingCounted
  <2>11. ASSUME NEW k \in Clients, FailsConfigure(k) PROVE Counted'
    <3>1. LetsGo(k) = {1}
      BY <1>2 DEF LetsGo
    <3> QED
      BY <2>8, <2>11, <3>1 DEF FailsConfigure, Goes
  <2>12. ASSUME NEW k \in Clients, ShutdownClient(k) PROVE Counted'
    <3>1. /\ pc[k] = "idle" /\ held[k] # 0 /\ StaysReferenced(held[k], k) /\ Release(held[k], 1)
          /\ held' = [held EXCEPT ![k] = 0] /\ pc' = pc /\ target' = target /\ made' = made
      BY <2>12 DEF ShutdownClient
    <3>2. /\ pc'[k] = "idle" /\ held'[k] = 0 /\ \A b \in Actors \ {k} : Stays(b)
      BY <2>0, <2>t, <3>1 DEF Stays
    <3>3. held[k] \in Contexts
      BY <2>0, <2>t, <3>1 DEF Contexts
    <3>4. /\ k \in LeasesOf(held[k])
          /\ \A d \in Contexts \ {held[k]} : k \notin LeasesOf(d)
          /\ \A d \in Contexts : k \notin LeasesOf(d)' /\ ~Touches(k, d)'
      BY <2>0, <3>1, <3>2 DEF LeasesOf, Touches, Contexts
    <3> QED
      BY <1>2, <2>0, <3>1, <3>2, <3>3, <3>4, OneLetsGo
  <2>13. CASE UNCHANGED contextVars
    BY <1>2, <2>13 DEF contextVars, Counted, Right, Begun, LeasesOf, Touches
  <2>14. CASE BeginInitialize \/ BeginShutdown
    <3>1. \E next \in {"restage", "close", "stage"} : Goes(Owner, "idle", next)
      BY <2>14 DEF BeginInitialize, BeginShutdown, CloseOwned
    <3>2. made' = made /\ refs' = refs /\ freed' = freed /\ held' = held /\ target' = target
      BY <2>14 DEF BeginInitialize, BeginShutdown, CloseOwned
    <3> QED
      BY <2>1, <3>1, <3>2
  <2> QED
    BY <1>2, <2>2, <2>3, <2>5, <2>6, <2>7, <2>9, <2>10, <2>11, <2>12, <2>13,
       <2>14 DEF ContextNext
<1> QED
  BY <1>1, <1>2, ShapeHolds, PTL DEF ContextSpec

(* The device lives until the last lease goes, and not longer: a context   *)
(* is never destroyed under an object that holds it or is about to look at *)
(* it, never twice, and always when its last holder lets it go.            *)
THEOREM ContextLivesAsLeased ==
    ASSUME WsiAssumption, IsFiniteSet(Actors), ModesListed, SurfaceMade
    PROVE  ContextSpec => []LivesAsLeased
<1>1. ASSUME WsiAssumption, Shape, Counted
      PROVE  LivesAsLeased
  <2>1. CountIsLeases /\ LeaseKeepsContext
    BY <1>1, Zenon DEF Counted, Right, CountIsLeases, LeaseKeepsContext
  <2>2. DestroyedOnce
    <3> SUFFICES ASSUME NEW c \in Contexts PROVE freed[c] <= 1
      BY DEF DestroyedOnce
    <3>1. freed[c] \in {0, 1}
      BY <1>1, Zenon DEF Counted, Right
    <3> QED
      BY <3>1
  <2>3. ASSUME NEW c \in 1..made, LeasesOf(c) = {} PROVE freed[c] > 0
    <3>1. c \in Contexts /\ Begun(c)
      BY <1>1 DEF Shape, WsiAssumption, Contexts, Begun
    <3>2. Right(c)
      BY <1>1, <3>1 DEF Counted
    <3>3. refs[c] = 0
      BY <2>3, <3>2, FS_EmptySet, Zenon DEF Right
    <3>4. freed[c] = 1
      BY <3>1, <3>2, <3>3, Zenon DEF Right
    <3> QED
      BY <3>4
  <2> QED
    BY <2>1, <2>2, <2>3 DEF NothingLeaks, LivesAsLeased
<1> QED
  BY <1>1, ShapeHolds, CountedHolds, PTL

(* Once the owner has begun to close a context nobody else comes to hold   *)
(* it, not even an object that had looked at the flag before, whatever     *)
(* modes and surfaces there are.                                           *)
THEOREM ClosedTakesNoLease == ASSUME WsiAssumption PROVE ContextSpec => NoLeaseAfterClose
<1>1. ASSUME WsiAssumption, Shape, [ContextNext]_contextVars, NEW c \in Contexts, closed[c]
      PROVE  Secured(c)' \subseteq Secured(c)
  <2> SUFFICES ASSUME NEW a \in Actors,
                      held'[a] = c \/ (pc'[a] = "made" /\ target'[a] = c)
               PROVE  held[a] = c \/ (pc[a] = "made" /\ target[a] = c)
    BY DEF Secured
  <2>t. /\ held \in [Actors -> 0..made] /\ target \in [Actors -> 0..made]
        /\ pc \in [Actors -> Taking \cup {"made", "idle", "close", "restage", "stage"}]
        /\ made \in Nat /\ c <= made /\ c # 0 /\ c \in Nat
        /\ \A k \in Clients : k \in Actors
        /\ Owner \in Actors
    BY SMTT(60), <1>1, OwnerApart DEF Shape, WsiAssumption, Contexts
  <2>1. CASE BeginInitialize \/ BeginShutdown
    BY <2>1, <2>t DEF BeginInitialize, BeginShutdown, CloseOwned, Goes
  <2>2. CASE LetGoOwned
    BY <2>2, <2>t DEF LetGoOwned, Goes
  <2>3. CASE Stage
    <3>1. held'[a] = c => held[a] = c
      <4>1. held' = held \/ held' = [held EXCEPT ![Owner] = made + 1]
        BY <2>3 DEF Stage, Publishes, FailsStaging
      <4> QED
        BY <2>t, <4>1
    <3>2. target' = target /\ pc' = [pc EXCEPT ![Owner] = "idle"]
      BY <2>3 DEF Stage, Goes
    <3> QED
      BY <2>t, <3>1, <3>2
  <2>4. ASSUME NEW k \in Clients, NEW d \in Contexts, ConfigureWith(k, d)
        PROVE  held[a] = c \/ (pc[a] = "made" /\ target[a] = c)
    BY <2>4, <2>t DEF ConfigureWith, Goes
  <2>5. ASSUME NEW k \in Clients, ReadFlag(k) \/ CountIn(k) \/ FailsConfigure(k)
        PROVE  held[a] = c \/ (pc[a] = "made" /\ target[a] = c)
    BY <2>5, <2>t DEF ReadFlag, CountIn, FailsConfigure, GivesUp, Goes
  <2>6. ASSUME NEW k \in Clients, Recheck(k)
        PROVE  held[a] = c \/ (pc[a] = "made" /\ target[a] = c)
    <3>1. CASE Goes(k, "recheck", "idle") /\ GivesUp(k, 1)
      BY <2>t, <3>1 DEF Goes, GivesUp
    <3>2. CASE /\ Goes(k, "recheck", "made") /\ ~closed[target[k]]
               /\ UNCHANGED <<held, target>>
      BY <1>1, <2>t, <3>2 DEF Goes
    <3> QED
      BY <2>6, <3>1, <3>2 DEF Recheck
  <2>7. ASSUME NEW k \in Clients, Configured(k)
        PROVE  held[a] = c \/ (pc[a] = "made" /\ target[a] = c)
    BY <2>7, <2>t DEF Configured, Goes
  <2>8. ASSUME NEW k \in Clients, ShutdownClient(k)
        PROVE  held[a] = c \/ (pc[a] = "made" /\ target[a] = c)
    BY <2>8, <2>t DEF ShutdownClient
  <2>9. CASE UNCHANGED contextVars
    BY <2>9 DEF contextVars
  <2> QED
    BY <1>1, <2>1, <2>2, <2>3, <2>4, <2>5, <2>6, <2>7, <2>8, <2>9 DEF ContextNext
<1>2. Shape /\ [ContextNext]_contextVars
        => [\A c \in Contexts : closed[c] => Secured(c)' \subseteq Secured(c)]_contextVars
  BY <1>1
<1> QED
  BY <1>2, ShapeHolds, PTL DEF ContextSpec, NoLeaseAfterClose

--------------------------------------------------------------------------------
(* The reference swapchain, for any number of images and any budget: its   *)
(* counters and fences are the images' own state, and it keeps the promise *)
(* of FrameLeases.                                                         *)

SlotRecord == [acquired : BOOLEAN, serial : 0..MaxAcquires, fence : 0..MaxAcquires]
Held == {i \in Images : slots[i].acquired}
Busy == {i \in Images : slots[i].fence # 0}

(* The images leased and the frames in flight are counted once each, are   *)
(* no more than there may be, and none when nothing is configured; each    *)
(* fence has been paid for with an acquire.                                *)
Tallied ==
    /\ CountsExact
    /\ acquired + inFlight <= MaxFrames
    /\ configured \/ (acquired = 0 /\ inFlight = 0)
    /\ configured => generation >= 1
    /\ nextFence + acquired <= nextSerial

(* Serials of leases and fences in flight are told apart, and lie between  *)
(* what is over and what is not yet given out; no image has both.          *)
ToldApart ==
    /\ \A i \in Held : slots[i].serial \in 1..nextSerial - 1 /\ slots[i].fence = 0
    /\ \A i, j \in Held : slots[i].serial = slots[j].serial => i = j
    /\ \A i \in Busy : completed < slots[i].fence /\ slots[i].fence <= submitted
    /\ \A i, j \in Busy : slots[i].fence = slots[j].fence => i = j

SwapchainInv == SwapchainTypeOK /\ Tallied /\ ToldApart

LEMMA ImagesFinite ==
    ASSUME SwapchainAssumption
    PROVE  /\ IsFiniteSet(Held) /\ IsFiniteSet(Busy)
           /\ Cardinality(Held) \in Nat /\ Cardinality(Busy) \in Nat
<1>1. IsFiniteSet(Images)
  BY FS_Interval DEF SwapchainAssumption, Images
<1>2. Held \subseteq Images /\ Busy \subseteq Images
  BY DEF Held, Busy
<1> QED
  BY <1>1, <1>2, FS_Subset, FS_CardinalityType

LEMMA SwapchainTypes ==
    ASSUME SwapchainAssumption, SwapchainTypeOK
    PROVE  /\ ImageCount \in Nat /\ ImageCount >= 1 /\ MaxFrames \in Nat /\ MaxFrames >= 1
           /\ MaxAcquires \in Nat /\ MaxGeneration \in Nat /\ MaxOpens \in Nat
           /\ Sizes \subseteq Nat /\ surface.bytes \in Nat /\ pending.bytes \in Nat
           /\ slots \in [Images -> SlotRecord] /\ \A i \in Images : slots[i] \in SlotRecord
           /\ acquired \in Nat /\ inFlight \in Nat /\ inFlightBytes \in Nat
           /\ nextSerial \in Nat /\ nextSerial >= 1 /\ nextSerial <= MaxAcquires + 1
           /\ nextFence \in Nat /\ nextFence >= 1 /\ nextFence <= MaxAcquires + 1
           /\ completed \in Nat /\ submitted \in Nat
           /\ completed <= submitted /\ submitted < nextFence
           /\ generation \in 0..MaxGeneration /\ generation \in Nat
<1>1. /\ ImageCount \in Nat /\ ImageCount >= 1 /\ MaxFrames \in Nat /\ MaxFrames >= 1
      /\ MaxAcquires \in Nat /\ MaxGeneration \in Nat /\ MaxOpens \in Nat /\ Sizes \subseteq Nat
  BY DEF SwapchainAssumption
<1>2. surface.bytes \in Nat /\ pending.bytes \in Nat
  <2>1. surface \in Surfaces \cup {NoSurface} /\ pending \in Surfaces \cup {NoSurface}
    BY DEF SwapchainTypeOK
  <2>2. \A s \in Surfaces : s.bytes \in Nat
    BY <1>1 DEF Surfaces
  <2>3. NoSurface.bytes \in Nat
    BY DEF NoSurface
  <2> QED
    BY <2>1, <2>2, <2>3
<1>3. slots \in [Images -> SlotRecord]
  BY DEF SwapchainTypeOK, SlotRecord
<1> QED
  BY <1>1, <1>2, <1>3 DEF SwapchainTypeOK

(* There are as many leases as images held, as many fences as busy images. *)
LEMMA LeasesCounted ==
    ASSUME SwapchainAssumption, SwapchainInv
    PROVE  /\ IsFiniteSet(Taken) /\ Cardinality(Taken) = acquired
           /\ IsFiniteSet(Flying) /\ Cardinality(Flying) = inFlight
<1>1. Tallied /\ ToldApart
  BY DEF SwapchainInv
<1> DEFINE g == [i \in Held |-> slots[i].serial]
           h == [i \in Busy |-> slots[i].fence]
<1>2. Taken = {g[i] : i \in Held}
  BY DEF Taken, Held
<1>3. Flying = {h[i] : i \in Busy}
  BY DEF Flying, Busy
<1>4. (\A i, j \in Held : g[i] = g[j] => i = j) /\ (\A i, j \in Busy : h[i] = h[j] => i = j)
  BY <1>1 DEF ToldApart
<1>5. DOMAIN g = Held /\ DOMAIN h = Busy
  OBVIOUS
<1> HIDE DEF g, h
<1>6. IsFiniteSet(Taken) /\ Cardinality(Taken) = Cardinality(Held)
  BY <1>2, <1>4, <1>5, ImagesFinite, SameSize
<1>7. IsFiniteSet(Flying) /\ Cardinality(Flying) = Cardinality(Busy)
  BY <1>3, <1>4, <1>5, ImagesFinite, SameSize
<1> QED
  BY <1>1, <1>6, <1>7 DEF Tallied, CountsExact, Held, Busy

(* What is counted as none is none.                                        *)
LEMMA NoneLeft ==
    ASSUME SwapchainAssumption, SwapchainInv, acquired = 0, inFlight = 0
    PROVE  Taken = {} /\ Flying = {}
BY LeasesCounted, FS_EmptySet

LEMMA SwapchainInvInit == SwapchainAssumption /\ Init => SwapchainInv /\ Taken = {} /\ Flying = {}
<1> SUFFICES ASSUME SwapchainAssumption, Init PROVE SwapchainInv /\ Taken = {} /\ Flying = {}
  OBVIOUS
<1>1. /\ ImageCount \in Nat /\ ImageCount >= 1 /\ MaxFrames \in Nat
      /\ MaxAcquires \in Nat /\ MaxGeneration \in Nat /\ MaxOpens \in Nat
  BY DEF SwapchainAssumption
<1>2. \A i \in Images : slots[i] = Empty
  BY DEF Init
<1>3. Held = {} /\ Busy = {} /\ Taken = {} /\ Flying = {}
  BY <1>2 DEF Held, Busy, Taken, Flying, Empty
<1>4. Empty \in SlotRecord /\ 0 \in Images
  BY <1>1 DEF Empty, SlotRecord, Images
<1>5. SwapchainTypeOK
  <2>1. slots \in [Images -> SlotRecord]
    BY <1>4 DEF Init
  <2>2. presents \in [Serials -> Nat] /\ NoSurface \in Surfaces \cup {NoSurface}
    BY DEF Init
  <2>3. configured \in BOOLEAN /\ outOfDate \in BOOLEAN /\ occluded \in BOOLEAN /\ lost \in BOOLEAN
    BY DEF Init
  <2>4. /\ opens \in 0..MaxOpens /\ generation \in 0..MaxGeneration
        /\ nextImage \in Images /\ nextSerial \in 1..MaxAcquires + 1
        /\ {acquired, inFlight} \subseteq 0..MaxFrames /\ inFlightBytes \in Nat
        /\ {completed, submitted} \subseteq Nat /\ nextFence \in 1..MaxAcquires + 1
        /\ completed <= submitted /\ submitted < nextFence /\ tokens = {}
    BY <1>1, <1>4 DEF Init
  <2>5. {surface, pending} \subseteq Surfaces \cup {NoSurface}
    BY DEF Init
  <2> QED
    BY <2>1, <2>2, <2>3, <2>4, <2>5 DEF SwapchainTypeOK, SlotRecord
<1>6. Tallied
  <2>1. Cardinality({}) = 0
    BY FS_EmptySet
  <2>2. acquired = Cardinality(Held) /\ inFlight = Cardinality(Busy)
    BY <1>3, <2>1 DEF Init
  <2>3. inFlightBytes = inFlight * surface.bytes
    BY DEF Init, NoSurface
  <2> QED
    BY <1>1, <2>2, <2>3 DEF Init, Tallied, CountsExact, Held, Busy
<1>7. ToldApart
  BY <1>3 DEF ToldApart
<1> QED
  BY <1>3, <1>5, <1>6, <1>7 DEF SwapchainInv

(* A fresh ring of images, for a surface that is published or none.        *)
LEMMA ResetIsSound ==
    ASSUME SwapchainAssumption, SwapchainInv, ResetImages,
           {configured', outOfDate', occluded', lost'} \subseteq BOOLEAN, opens' \in 0..MaxOpens,
           generation' \in 0..MaxGeneration, {surface', pending'} \subseteq Surfaces \cup {NoSurface},
           configured' => generation' >= 1,
           \/ submitted' = submitted /\ completed' = completed
           \/ submitted' = 0 /\ completed' = 0
    PROVE  SwapchainInv' /\ Taken' = {} /\ Flying' = {}
<1>1. SwapchainTypeOK /\ Tallied
  BY DEF SwapchainInv
<1>2. /\ slots' = [i \in Images |-> Empty] /\ acquired' = 0 /\ inFlight' = 0
      /\ inFlightBytes' = 0 /\ nextImage' = 0 /\ nextSerial' = nextSerial
      /\ nextFence' = nextFence /\ tokens' = tokens /\ presents' = presents
  BY DEF ResetImages
<1>t. /\ ImageCount \in Nat /\ ImageCount >= 1 /\ MaxFrames \in Nat /\ MaxAcquires \in Nat
      /\ nextSerial \in Nat /\ nextFence \in Nat /\ nextFence >= 1 /\ acquired \in Nat
      /\ completed \in Nat /\ submitted \in Nat /\ completed <= submitted /\ submitted < nextFence
  BY <1>1, SwapchainTypes
<1>3. \A i \in Images : slots'[i] = Empty
  BY <1>2
<1>4. Held' = {} /\ Busy' = {} /\ Taken' = {} /\ Flying' = {}
  BY <1>3 DEF Held, Busy, Taken, Flying, Empty
<1>5. Empty \in SlotRecord /\ 0 \in Images
  BY <1>t DEF Empty, SlotRecord, Images
<1>6. SwapchainTypeOK'
  <2>1. slots' \in [Images -> SlotRecord]
    BY <1>2, <1>5
  <2>2. /\ {acquired', inFlight'} \subseteq 0..MaxFrames /\ inFlightBytes' \in Nat
        /\ nextImage' \in Images
    BY <1>2, <1>5, <1>t
  <2>3. /\ {completed', submitted'} \subseteq Nat /\ completed' <= submitted'
        /\ submitted' < nextFence'
    BY <1>2, <1>t
  <2> QED
    BY <1>1, <1>2, <2>1, <2>2, <2>3 DEF SwapchainTypeOK, SlotRecord
<1>7. Tallied'
  <2>1. Cardinality({}) = 0
    BY FS_EmptySet
  <2>2. acquired' = Cardinality(Held') /\ inFlight' = Cardinality(Busy')
    BY <1>2, <1>4, <2>1
  <2>3. inFlightBytes' = inFlight' * surface'.bytes
    <3>1. surface'.bytes \in Nat
      <4>1. \A s \in Surfaces : s.bytes \in Nat
        BY DEF Surfaces, SwapchainAssumption
      <4> QED
        BY <4>1 DEF NoSurface
    <3> QED
      BY <1>2, <3>1
  <2>4. nextFence' + acquired' <= nextSerial'
    BY <1>1, <1>2, <1>t DEF Tallied
  <2>5. acquired' + inFlight' <= MaxFrames
    BY <1>2, <1>t
  <2> QED
    BY <1>2, <2>2, <2>3, <2>4, <2>5 DEF Tallied, CountsExact, Held, Busy
<1>8. ToldApart'
  BY <1>4 DEF ToldApart
<1> QED
  BY <1>4, <1>6, <1>7, <1>8 DEF SwapchainInv

(* Steps that leave images, counters and fences alone.                     *)
LEMMA FlagsMove ==
    ASSUME SwapchainAssumption, SwapchainInv,
           UNCHANGED <<configured, opens, generation, surface, counts, fences, lease>>,
           {outOfDate', occluded', lost'} \subseteq BOOLEAN, pending' \in Surfaces \cup {NoSurface}
    PROVE  SwapchainInv' /\ Taken' = Taken /\ Flying' = Flying
<1>1. SwapchainTypeOK' /\ Held' = Held /\ Busy' = Busy
  BY DEF SwapchainInv, SwapchainTypeOK, counts, fences, lease, Held, Busy
<1>2. Tallied' /\ ToldApart'
  BY <1>1 DEF SwapchainInv, Tallied, CountsExact, ToldApart, counts, fences, lease, Held, Busy
<1> QED
  BY <1>1, <1>2 DEF SwapchainInv, Taken, Flying, lease

(* A free image is leased under the next serial.                           *)
LEMMA AcquireIsSound ==
    ASSUME SwapchainAssumption, SwapchainInv, Acquire
    PROVE  SwapchainInv' /\ Taken' = Taken \cup {nextSerial} /\ Flying' = Flying
<1>1. SwapchainTypeOK /\ Tallied /\ ToldApart
  BY DEF SwapchainInv
<1>2. PICK i \in Images : Grant(i)
  BY DEF Acquire
<1>3. /\ slots' = [slots EXCEPT ![i].acquired = TRUE, ![i].serial = nextSerial]
      /\ tokens' = tokens \cup {[image |-> i, serial |-> nextSerial, generation |-> generation]}
      /\ nextSerial' = nextSerial + 1 /\ acquired' = acquired + 1
      /\ nextImage' = (i + 1) % ImageCount /\ ~slots[i].acquired /\ slots[i].fence = 0
  BY <1>2 DEF Grant, Free
<1>4. /\ configured /\ acquired + inFlight < MaxFrames /\ nextSerial <= MaxAcquires
      /\ UNCHANGED <<configured, opens, generation, surface, pending, outOfDate, occluded, lost,
                     inFlight, inFlightBytes, nextFence, submitted, completed, presents>>
  BY DEF Acquire, MayAcquire, HasRoom, conf, flags, fences
<1>t. /\ ImageCount \in Nat /\ ImageCount >= 1 /\ MaxFrames \in Nat /\ MaxAcquires \in Nat
      /\ slots \in [Images -> SlotRecord] /\ acquired \in Nat /\ inFlight \in Nat
      /\ nextSerial \in Nat /\ nextSerial >= 1 /\ nextFence \in Nat
      /\ generation \in 0..MaxGeneration /\ MaxGeneration \in Nat
  BY <1>1, SwapchainTypes
<1>5. /\ slots' \in [Images -> SlotRecord]
      /\ slots'[i].acquired /\ slots'[i].serial = nextSerial /\ slots'[i].fence = 0
      /\ \A j \in Images : j # i => slots'[j] = slots[j]
  <2> DEFINE one == [slots[i] EXCEPT !.acquired = TRUE, !.serial = nextSerial]
  <2>1. slots' = [slots EXCEPT ![i] = one]
    BY <1>3, <1>t
  <2>2. slots[i] \in [acquired : BOOLEAN, serial : 0..MaxAcquires, fence : 0..MaxAcquires]
        /\ nextSerial \in 0..MaxAcquires
    BY <1>4, <1>t DEF SlotRecord
  <2>3. one \in SlotRecord
    BY <2>2 DEF SlotRecord
  <2>4. one.acquired /\ one.serial = nextSerial /\ one.fence = 0
    BY <2>2, <1>3
  <2> HIDE DEF one
  <2> QED
    BY <2>1, <2>3, <2>4, <1>t
<1>6. Held' = Held \cup {i} /\ i \notin Held /\ Busy' = Busy /\ i \notin Busy
  BY <1>3, <1>5 DEF Held, Busy
<1>7. \A j \in Held \cup Busy : j # i /\ slots'[j] = slots[j]
  BY <1>5, <1>6 DEF Held, Busy
<1>8. SwapchainTypeOK'
  <2>1. tokens' \subseteq [image : Images, serial : Serials, generation : 1..MaxGeneration]
    <3>1. nextSerial \in Serials /\ generation \in 1..MaxGeneration
      BY <1>1, <1>4, <1>t DEF Tallied, Serials
    <3> QED
      BY <1>1, <1>3, <3>1 DEF SwapchainTypeOK
  <2>2. nextImage' \in Images
    <3>1. i + 1 \in Nat
      BY <1>t DEF Images
    <3>2. (i + 1) % ImageCount \in 0..ImageCount - 1
      BY <3>1, <1>t
    <3> QED
      BY <3>2, <1>3 DEF Images
  <2>3. {acquired', inFlight'} \subseteq 0..MaxFrames /\ nextSerial' \in 1..MaxAcquires + 1
    BY <1>3, <1>4, <1>t
  <2> QED
    BY <1>1, <1>4, <1>5, <2>1, <2>2, <2>3 DEF SwapchainTypeOK, SlotRecord
<1>9. Tallied'
  <2>1. Cardinality(Held') = Cardinality(Held) + 1
    BY <1>6, ImagesFinite, FS_AddElement
  <2>2. acquired' = Cardinality(Held') /\ inFlight' = Cardinality(Busy')
    BY <1>1, <1>3, <1>4, <1>6, <2>1 DEF Tallied, CountsExact, Held, Busy
  <2>3. acquired' + inFlight' <= MaxFrames /\ nextFence' + acquired' <= nextSerial'
    BY <1>1, <1>3, <1>4, <1>t DEF Tallied
  <2>4. inFlightBytes' = inFlight' * surface'.bytes
    BY <1>1, <1>4 DEF Tallied, CountsExact
  <2> QED
    BY <1>1, <1>4, <2>2, <2>3, <2>4 DEF Tallied, CountsExact, Held, Busy
<1>10. ToldApart'
  <2>1. \A j \in Held : slots[j].serial \in 1..nextSerial - 1 /\ slots[j].serial # nextSerial
    BY <1>1, <1>t DEF ToldApart
  <2>2. \A j \in Held' : slots'[j].serial \in 1..nextSerial' - 1 /\ slots'[j].fence = 0
    <3>1. slots'[i].serial \in 1..nextSerial' - 1 /\ slots'[i].fence = 0
      BY <1>3, <1>5, <1>t
    <3>2. \A j \in Held : slots[j].serial \in 1..nextSerial' - 1
      BY <1>3, <1>t, <2>1
    <3>3. \A j \in Held : slots'[j] = slots[j] /\ slots[j].fence = 0
      BY <1>1, <1>7 DEF ToldApart
    <3> QED
      BY <1>6, <3>1, <3>2, <3>3
  <2>3. \A j, k \in Held' : slots'[j].serial = slots'[k].serial => j = k
    BY <1>1, <1>5, <1>6, <1>7, <2>1 DEF ToldApart
  <2>4. /\ \A j \in Busy' : completed' < slots'[j].fence /\ slots'[j].fence <= submitted'
        /\ \A j, k \in Busy' : slots'[j].fence = slots'[k].fence => j = k
    BY <1>1, <1>4, <1>6, <1>7 DEF ToldApart
  <2> QED
    BY <2>2, <2>3, <2>4 DEF ToldApart
<1>11. Taken' = {slots'[j].serial : j \in Held'} /\ Taken = {slots[j].serial : j \in Held}
  BY DEF Taken, Held
<1>12. Flying' = {slots'[j].fence : j \in Busy'} /\ Flying = {slots[j].fence : j \in Busy}
  BY DEF Flying, Busy
<1>13. Taken' = Taken \cup {nextSerial}
  BY <1>5, <1>6, <1>7, <1>11
<1>14. Flying' = Flying
  BY <1>6, <1>7, <1>12
<1> QED
  BY <1>8, <1>9, <1>10, <1>13, <1>14 DEF SwapchainInv

(* A lease that ends: the image keeps no fence, or the one that is given.  *)
LEMMA LeaseEnds ==
    ASSUME SwapchainAssumption, SwapchainInv, NEW t \in tokens, Owned(t), Answered(t),
           NEW fence \in {0, nextFence}, configured,
           slots' = [slots EXCEPT ![t.image].acquired = FALSE, ![t.image].fence = fence],
           {outOfDate', occluded', lost'} \subseteq BOOLEAN, UNCHANGED <<conf, completed>>,
           IF fence = 0 THEN UNCHANGED <<inFlight, inFlightBytes, nextFence, submitted>>
           ELSE /\ inFlight' = inFlight + 1 /\ inFlightBytes' = inFlightBytes + surface.bytes
                /\ submitted' = nextFence /\ nextFence' = nextFence + 1
    PROVE  /\ SwapchainInv' /\ t.serial \in Taken /\ Taken' = Taken \ {t.serial}
           /\ Flying' = Flying \cup ({fence} \ {0})
           /\ \A s \in Serials : presents'[s] # presents[s] => s = t.serial
<1>1. SwapchainTypeOK /\ Tallied /\ ToldApart
  BY DEF SwapchainInv
<1> DEFINE i == t.image
<1>2. /\ i \in Images /\ t.serial \in Serials
      /\ slots[i].acquired /\ t.serial = slots[i].serial
  BY <1>1 DEF SwapchainTypeOK, Owned
<1>3. /\ presents' = [presents EXCEPT ![t.serial] = @ + 1] /\ acquired' = acquired - 1
      /\ nextImage' = nextImage /\ nextSerial' = nextSerial /\ tokens' = tokens
  BY DEF Answered
<1>t. /\ MaxFrames \in Nat /\ MaxAcquires \in Nat /\ surface.bytes \in Nat
      /\ slots \in [Images -> SlotRecord] /\ acquired \in Nat /\ inFlight \in Nat
      /\ inFlightBytes \in Nat /\ nextSerial \in Nat /\ nextSerial <= MaxAcquires + 1
      /\ nextFence \in Nat /\ nextFence >= 1 /\ completed \in Nat /\ submitted \in Nat
      /\ completed <= submitted /\ submitted < nextFence
  BY <1>1, SwapchainTypes
<1>4. i \in Held /\ i \notin Busy /\ slots[i].fence = 0
  BY <1>1, <1>2 DEF ToldApart, Held, Busy
<1>5. acquired >= 1 /\ Cardinality(Held \ {i}) = Cardinality(Held) - 1
  <2>1. Cardinality(Held) = acquired
    BY <1>1 DEF Tallied, CountsExact, Held
  <2>2. Cardinality(Held \ {i}) = Cardinality(Held) - 1 /\ Held \ {i} \subseteq Held
    BY <1>4, ImagesFinite, FS_RemoveElement
  <2>3. Cardinality(Held \ {i}) \in Nat
    BY <2>2, ImagesFinite, FS_Subset, FS_CardinalityType
  <2> QED
    BY <1>t, <2>1, <2>2, <2>3
<1>6. nextFence \in 0..MaxAcquires /\ fence \in 0..MaxAcquires /\ fence \in Nat
  BY <1>1, <1>5, <1>t DEF Tallied
<1>7. /\ slots' \in [Images -> SlotRecord]
      /\ ~slots'[i].acquired /\ slots'[i].fence = fence
      /\ \A j \in Images : j # i => slots'[j] = slots[j]
  <2> DEFINE one == [slots[i] EXCEPT !.acquired = FALSE, !.fence = fence]
  <2>1. slots' = [slots EXCEPT ![i] = one]
    BY <1>2, <1>t
  <2>2. slots[i] \in [acquired : BOOLEAN, serial : 0..MaxAcquires, fence : 0..MaxAcquires]
    BY <1>2, <1>t DEF SlotRecord
  <2>3. one \in SlotRecord
    BY <1>6, <2>2 DEF SlotRecord
  <2>4. ~one.acquired /\ one.fence = fence
    BY <2>2
  <2> HIDE DEF one
  <2> QED
    BY <2>1, <2>3, <2>4, <1>2, <1>t
<1> HIDE DEF i
<1>8. Held' = Held \ {i} /\ Busy' = IF fence = 0 THEN Busy ELSE Busy \cup {i}
  <2>1. Held' = Held \ {i}
    BY <1>2, <1>7 DEF Held
  <2>2. \A j \in Images : j # i => (slots'[j].fence # 0 <=> slots[j].fence # 0)
    BY <1>7
  <2>3. Busy' = {j \in Images : slots'[j].fence # 0} /\ Busy = {j \in Images : slots[j].fence # 0}
    BY DEF Busy
  <2>4. i \notin Busy /\ i \in Images /\ slots'[i].fence = fence
    BY <1>2, <1>4, <1>7
  <2>5. fence = 0 => Busy' = Busy
    BY <2>2, <2>3, <2>4
  <2>6. fence # 0 => Busy' = Busy \cup {i}
    BY <2>2, <2>3, <2>4
  <2> QED
    BY <2>1, <2>5, <2>6
<1>9. \A j \in (Held \ {i}) \cup Busy : j # i /\ slots'[j] = slots[j]
  BY <1>4, <1>7 DEF Held, Busy
<1>10. SwapchainTypeOK'
  <2>1. presents' \in [Serials -> Nat]
    BY <1>1, <1>2, <1>3 DEF SwapchainTypeOK
  <2>2. /\ {acquired', inFlight'} \subseteq 0..MaxFrames /\ inFlightBytes' \in Nat
        /\ {completed', submitted'} \subseteq Nat /\ nextFence' \in 1..MaxAcquires + 1
        /\ completed' <= submitted' /\ submitted' < nextFence'
    <3>1. acquired' \in 0..MaxFrames
      BY <1>1, <1>3, <1>5, <1>t DEF Tallied
    <3>2. inFlight' \in 0..MaxFrames /\ inFlightBytes' \in Nat
      BY <1>1, <1>5, <1>t DEF Tallied
    <3>3. nextFence' \in 1..MaxAcquires + 1 /\ submitted' \in Nat
          /\ completed' <= submitted' /\ submitted' < nextFence'
      BY <1>1, <1>6, <1>t
    <3> QED
      BY <3>1, <3>2, <3>3, <1>t
  <2> QED
    BY <1>1, <1>3, <1>7, <2>1, <2>2 DEF SwapchainTypeOK, SlotRecord, conf
<1>11. Tallied'
  <2>1. Cardinality(Busy \cup {i}) = Cardinality(Busy) + 1
    BY <1>4, ImagesFinite, FS_AddElement
  <2>2. acquired = Cardinality(Held) /\ inFlight = Cardinality(Busy)
        /\ inFlightBytes = inFlight * surface.bytes
    BY <1>1 DEF Tallied, CountsExact, Held, Busy
  <2>3. acquired' = Cardinality(Held') /\ inFlight' = Cardinality(Busy')
    BY <1>3, <1>5, <1>6, <1>8, <2>1, <2>2
  <2>4. inFlightBytes' = inFlight' * surface'.bytes
    <3>1. (inFlight + 1) * surface.bytes = inFlight * surface.bytes + surface.bytes
      BY <1>t
    <3> QED
      BY <2>2, <3>1 DEF conf
  <2>5. acquired' + inFlight' <= MaxFrames /\ nextFence' + acquired' <= nextSerial'
    BY <1>1, <1>3, <1>5, <1>t DEF Tallied
  <2> QED
    BY <1>1, <2>3, <2>4, <2>5 DEF Tallied, CountsExact, Held, Busy, conf
<1>12. ToldApart'
  <2>1. \A j \in Held' : slots'[j].serial \in 1..nextSerial' - 1 /\ slots'[j].fence = 0
    BY <1>1, <1>3, <1>8, <1>9 DEF ToldApart
  <2>2. \A j, k \in Held' : slots'[j].serial = slots'[k].serial => j = k
    BY <1>1, <1>8, <1>9 DEF ToldApart
  <2>3. \A j \in Busy : slots[j].fence \in Nat
    BY <1>t DEF Busy, SlotRecord
  <2>4. \A j \in Busy : slots'[j].fence = slots[j].fence
    BY <1>9
  <2>5. /\ \A j \in Busy : completed < slots[j].fence /\ slots[j].fence <= submitted
        /\ \A j, k \in Busy : slots[j].fence = slots[k].fence => j = k
    BY <1>1 DEF ToldApart
  <2>6. \A j \in Busy : slots[j].fence < nextFence
    BY <1>t, <2>3, <2>5
  <2>7. completed' = completed
    OBVIOUS
  <2>8. CASE fence = 0
    <3>1. Busy' = Busy /\ submitted' = submitted
      BY <1>8, <2>8
    <3>2. \A j \in Busy' : completed' < slots'[j].fence /\ slots'[j].fence <= submitted'
      BY <2>4, <2>5, <2>7, <3>1
    <3>3. \A j, k \in Busy' : slots'[j].fence = slots'[k].fence => j = k
      BY <2>4, <2>5, <3>1
    <3> QED
      BY <2>1, <2>2, <3>2, <3>3 DEF ToldApart
  <2>9. CASE fence # 0
    <3>1. Busy' = Busy \cup {i} /\ submitted' = nextFence /\ slots'[i].fence = nextFence
      BY <1>7, <1>8, <2>9
    <3>2. completed < nextFence /\ nextFence <= nextFence /\ submitted <= nextFence
      BY <1>t
    <3>3. \A j \in Busy : slots[j].fence <= nextFence /\ slots[j].fence # nextFence
      BY <1>t, <2>3, <2>6
    <3>4. \A j \in Busy' : completed' < slots'[j].fence /\ slots'[j].fence <= submitted'
      BY <2>4, <2>5, <2>7, <3>1, <3>2, <3>3
    <3>5. \A j, k \in Busy' : slots'[j].fence = slots'[k].fence => j = k
      BY <2>4, <2>5, <3>1, <3>3
    <3> QED
      BY <2>1, <2>2, <3>4, <3>5 DEF ToldApart
  <2> QED
    BY <2>8, <2>9
<1>13. Taken' = {slots'[j].serial : j \in Held'} /\ Taken = {slots[j].serial : j \in Held}
  BY DEF Taken, Held
<1>14. Flying' = {slots'[j].fence : j \in Busy'} /\ Flying = {slots[j].fence : j \in Busy}
  BY DEF Flying, Busy
<1>15. t.serial \in Taken /\ Taken' = Taken \ {t.serial}
  <2>1. \A j \in Held : j # i => slots[j].serial # t.serial
    BY <1>1, <1>2, <1>4 DEF ToldApart, i
  <2>2. t.serial = slots[i].serial
    BY <1>2
  <2> QED
    BY <1>4, <1>8, <1>9, <1>13, <2>1, <2>2
<1>16. Flying' = Flying \cup ({fence} \ {0})
  <2>1. CASE fence = 0
    BY <1>8, <1>9, <1>14, <2>1
  <2>2. CASE fence # 0
    <3>1. Busy' = Busy \cup {i} /\ slots'[i].fence = fence
      BY <1>7, <1>8, <2>2
    <3>2. \A j \in Busy : slots'[j].fence = slots[j].fence
      BY <1>9
    <3>3. {slots'[j].fence : j \in Busy \cup {i}} = {slots'[j].fence : j \in Busy} \cup {fence}
      BY <3>1
    <3>4. {slots'[j].fence : j \in Busy} = {slots[j].fence : j \in Busy}
      BY <3>2
    <3> QED
      BY <1>14, <2>2, <3>1, <3>3, <3>4
  <2> QED
    BY <2>1, <2>2
<1>17. \A s \in Serials : presents'[s] # presents[s] => s = t.serial
  BY <1>1, <1>3 DEF SwapchainTypeOK
<1> QED
  BY <1>10, <1>11, <1>12, <1>15, <1>16, <1>17 DEF SwapchainInv

(* Frames whose fence has passed are no longer in flight.                  *)
LEMMA RetireIsSound ==
    ASSUME SwapchainAssumption, SwapchainInv, NEW v, RetireCompleted(v)
    PROVE  SwapchainInv' /\ Taken' = Taken /\ Flying' \subseteq Flying
<1>1. SwapchainTypeOK /\ Tallied /\ ToldApart
  BY DEF SwapchainInv
<1> DEFINE L == Landed(v)
<1>2. /\ v \in completed..submitted /\ completed' = v
      /\ slots' = [i \in Images |-> IF i \in L THEN [slots[i] EXCEPT !.fence = 0] ELSE slots[i]]
      /\ inFlight' = inFlight - Cardinality(L)
      /\ inFlightBytes' = inFlightBytes - Cardinality(L) * surface.bytes
      /\ UNCHANGED <<configured, opens, generation, surface, pending, outOfDate, occluded, lost,
                     acquired, nextImage, nextSerial, tokens, presents, nextFence, submitted>>
  BY DEF RetireCompleted, conf, flags
<1>t. /\ MaxFrames \in Nat /\ MaxAcquires \in Nat /\ surface.bytes \in Nat
      /\ slots \in [Images -> SlotRecord] /\ acquired \in Nat /\ inFlight \in Nat
      /\ inFlightBytes \in Nat /\ completed \in Nat /\ submitted \in Nat
      /\ completed <= submitted /\ submitted < nextFence /\ nextFence \in Nat
  BY <1>1, SwapchainTypes
<1>3. v \in Nat /\ completed <= v /\ v <= submitted
  BY <1>2, <1>t
<1>4. L = {i \in Busy : slots[i].fence <= v} /\ L \subseteq Busy
  <2>1. \A i \in Images : slots[i].fence \in Nat
    BY <1>t DEF SlotRecord
  <2> QED
    BY <1>3, <2>1 DEF Landed, Busy
<1>5. /\ slots' \in [Images -> SlotRecord]
      /\ \A i \in Images : /\ slots'[i].acquired = slots[i].acquired
                           /\ slots'[i].serial = slots[i].serial
                           /\ slots'[i].fence = IF i \in L THEN 0 ELSE slots[i].fence
  <2>1. ASSUME NEW i \in Images
        PROVE  /\ slots'[i] \in SlotRecord
               /\ slots'[i].acquired = slots[i].acquired /\ slots'[i].serial = slots[i].serial
               /\ slots'[i].fence = IF i \in L THEN 0 ELSE slots[i].fence
    <3>1. slots[i] \in [acquired : BOOLEAN, serial : 0..MaxAcquires, fence : 0..MaxAcquires]
      BY <1>t DEF SlotRecord
    <3>2. CASE i \in L
      <4>1. slots'[i] = [slots[i] EXCEPT !.fence = 0]
        BY <1>2, <3>2
      <4> QED
        BY <3>1, <3>2, <4>1, <1>t DEF SlotRecord
    <3>3. CASE i \notin L
      BY <1>2, <3>1, <3>3 DEF SlotRecord
    <3> QED
      BY <3>2, <3>3
  <2>2. DOMAIN slots' = Images /\ slots' = [i \in Images |-> slots'[i]]
    BY <1>2
  <2> QED
    BY <2>1, <2>2
<1> HIDE DEF L
<1>6. Held' = Held /\ Busy' = Busy \ L
  BY <1>4, <1>5 DEF Held, Busy
<1>7. /\ Cardinality(L) \in Nat /\ Cardinality(L) <= Cardinality(Busy)
      /\ Cardinality(Busy \ L) = Cardinality(Busy) - Cardinality(L)
  <2>1. IsFiniteSet(L) /\ Cardinality(L) <= Cardinality(Busy)
    BY <1>4, ImagesFinite, FS_Subset
  <2>2. Busy \cap L = L
    BY <1>4
  <2>3. Cardinality(Busy \ L) = Cardinality(Busy) - Cardinality(Busy \cap L)
    BY ImagesFinite, FS_Difference
  <2> QED
    BY <2>1, <2>2, <2>3, FS_CardinalityType
<1>8. /\ acquired = Cardinality(Held) /\ inFlight = Cardinality(Busy)
      /\ inFlightBytes = inFlight * surface.bytes
  BY <1>1 DEF Tallied, CountsExact, Held, Busy
<1>9. inFlight' \in Nat /\ inFlight' <= inFlight /\ inFlightBytes' = inFlight' * surface.bytes
      /\ inFlightBytes' \in Nat
  <2>1. inFlight' \in Nat /\ inFlight' <= inFlight
    BY <1>2, <1>7, <1>8, <1>t
  <2>2. (inFlight - Cardinality(L)) * surface.bytes =
           inFlight * surface.bytes - Cardinality(L) * surface.bytes
    BY <1>7, <1>t
  <2>3. inFlightBytes' = inFlight' * surface.bytes
    BY <1>2, <1>8, <2>2
  <2>4. \A n, b \in Nat : n * b \in Nat
    OBVIOUS
  <2> QED
    BY <2>1, <2>3, <2>4, <1>t
<1>10. SwapchainTypeOK'
  <2>1. {acquired', inFlight'} \subseteq 0..MaxFrames
    BY <1>1, <1>2, <1>9, <1>t DEF SwapchainTypeOK
  <2>2. {completed', submitted'} \subseteq Nat /\ completed' <= submitted' /\ submitted' < nextFence'
    BY <1>2, <1>3, <1>t
  <2> QED
    BY <1>1, <1>2, <1>5, <1>9, <2>1, <2>2 DEF SwapchainTypeOK, SlotRecord
<1>11. Tallied'
  <2>1. acquired' = Cardinality(Held') /\ inFlight' = Cardinality(Busy')
    BY <1>2, <1>6, <1>7, <1>8
  <2>2. acquired' + inFlight' <= MaxFrames
    BY <1>1, <1>2, <1>9, <1>t DEF Tallied
  <2>3. configured' \/ (acquired' = 0 /\ inFlight' = 0)
    BY <1>1, <1>2, <1>9, <1>t DEF Tallied
  <2> QED
    BY <1>1, <1>2, <1>9, <2>1, <2>2, <2>3 DEF Tallied, CountsExact, Held, Busy
<1>12. ToldApart'
  <2>1. \A j \in Held : /\ slots'[j].serial = slots[j].serial /\ slots[j].fence = 0 /\ j \in Images
                        /\ slots'[j].fence = 0
    BY <1>1, <1>5 DEF ToldApart, Held
  <2>2. \A j \in Busy' : j \in Busy /\ slots'[j].fence = slots[j].fence /\ v < slots[j].fence
    <3>1. \A j \in Busy : j \in Images /\ slots[j].fence \in Nat
      BY <1>t DEF Busy, SlotRecord
    <3> QED
      BY <1>3, <1>4, <1>5, <1>6, <3>1
  <2> QED
    BY <1>1, <1>2, <1>6, <2>1, <2>2 DEF ToldApart
<1>13. Taken' = Taken
  <2>1. Taken' = {slots'[j].serial : j \in Held'} /\ Taken = {slots[j].serial : j \in Held}
    BY DEF Taken, Held
  <2>2. \A j \in Held : slots'[j].serial = slots[j].serial
    BY <1>5 DEF Held
  <2> QED
    BY <1>6, <2>1, <2>2
<1>14. Flying' \subseteq Flying
  <2>1. Flying' = {slots'[j].fence : j \in Busy'} /\ Flying = {slots[j].fence : j \in Busy}
    BY DEF Flying, Busy
  <2>2. \A j \in Busy' : j \in Busy /\ slots'[j].fence = slots[j].fence
    BY <1>5, <1>6 DEF Busy
  <2> QED
    BY <2>1, <2>2
<1> QED
  BY <1>10, <1>11, <1>12, <1>13, <1>14 DEF SwapchainInv

(* What a step shows the caller: it is one of FrameLeases, or none.         *)
LeaseStep ==
    [Leases!Next]_<<configured, generation, Taken, Flying, nextSerial - 1, nextFence - 1>>

OnlyLeasesEnd == \A s \in Serials : presents'[s] # presents[s] => s \in Taken /\ s \notin Taken'

(* Nothing is out when the swapchain is not configured or is drained.      *)
LEMMA PublishingIsSound ==
    ASSUME SwapchainAssumption, SwapchainInv,
           NEW g \in 1..MaxGeneration, NEW s \in Surfaces, Configure(g, s) \/ Recreate(g)
    PROVE  SwapchainInv' /\ LeaseStep /\ OnlyLeasesEnd
<1>1. SwapchainTypeOK /\ Tallied
  BY DEF SwapchainInv
<1>t. /\ MaxGeneration \in Nat /\ MaxOpens \in Nat /\ acquired \in Nat /\ inFlight \in Nat
      /\ generation \in Nat
  BY <1>1, SwapchainTypes
<1>2. pending \in Surfaces \cup {NoSurface} /\ opens \in 0..MaxOpens
  BY <1>1 DEF SwapchainTypeOK
<1>3. acquired = 0 /\ inFlight = 0
  BY <1>1 DEF Configure, Recreate, Drained, Tallied
<1>4. Taken = {} /\ Flying = {}
  BY <1>3, NoneLeft
<1>5. /\ ResetImages /\ configured' = TRUE /\ generation' = g /\ pending' = NoSurface
      /\ outOfDate' = FALSE /\ occluded' = FALSE /\ lost' = FALSE
      /\ submitted' = submitted /\ completed' = completed
      /\ surface' \in Surfaces \cup {NoSurface}
  BY <1>2 DEF Configure, Recreate, Publish
<1>6. opens' \in 0..MaxOpens
  BY <1>2, <1>t DEF Configure, Recreate
<1>7. SwapchainInv' /\ Taken' = {} /\ Flying' = {}
  <2>1. generation' \in 0..MaxGeneration /\ generation' >= 1
    BY <1>5, <1>t
  <2>2. {configured', outOfDate', occluded', lost'} \subseteq BOOLEAN
        /\ {surface', pending'} \subseteq Surfaces \cup {NoSurface}
    BY <1>5
  <2> QED
    BY <1>5, <1>6, <2>1, <2>2, ResetIsSound
<1>8. nextSerial' = nextSerial /\ nextFence' = nextFence /\ presents' = presents
  BY <1>5 DEF ResetImages
<1>9. LeaseStep
  <2>1. g \in Nat
    BY <1>t
  <2>2. CASE Configure(g, s)
    <3>1. Leases!Open
      BY <1>4, <1>5, <1>7, <1>8, <2>1, <2>2 DEF Leases!Open, Configure
    <3> QED
      BY <3>1 DEF LeaseStep, Leases!Next
  <2>3. CASE Recreate(g)
    <3>1. configured /\ g > generation
      BY <2>3 DEF Recreate
    <3>2. Leases!Renew
      BY <1>4, <1>5, <1>7, <1>8, <2>1, <3>1 DEF Leases!Renew
    <3> QED
      BY <3>2 DEF LeaseStep, Leases!Next
  <2> QED
    BY <2>2, <2>3
<1> QED
  BY <1>7, <1>8, <1>9 DEF OnlyLeasesEnd

LEMMA ShutdownIsSound ==
    ASSUME SwapchainAssumption, SwapchainInv, Shutdown
    PROVE  SwapchainInv' /\ LeaseStep /\ OnlyLeasesEnd
<1>1. SwapchainTypeOK
  BY DEF SwapchainInv
<1>t. MaxGeneration \in Nat
  BY <1>1, SwapchainTypes
<1>2. /\ ResetImages /\ configured' = FALSE /\ generation' = 0
      /\ surface' = NoSurface /\ pending' = NoSurface
      /\ outOfDate' = FALSE /\ occluded' = FALSE /\ lost' = FALSE
      /\ submitted' = 0 /\ completed' = 0 /\ opens' \in 0..MaxOpens
  BY <1>1 DEF Shutdown, SwapchainTypeOK
<1>3. SwapchainInv' /\ Taken' = {} /\ Flying' = {}
  <2>1. 0 \in 0..MaxGeneration
    BY <1>t
  <2>2. {configured', outOfDate', occluded', lost'} \subseteq BOOLEAN
        /\ {surface', pending'} \subseteq Surfaces \cup {NoSurface}
    BY <1>2
  <2> QED
    BY <1>2, <2>1, <2>2, ResetIsSound
<1>4. nextSerial' = nextSerial /\ nextFence' = nextFence /\ presents' = presents
  BY <1>2 DEF ResetImages
<1>5. Leases!Close
  BY <1>2, <1>3, <1>4 DEF Leases!Close
<1> QED
  BY <1>3, <1>4, <1>5 DEF OnlyLeasesEnd, LeaseStep, Leases!Next

(* A resize asked for and the window's events give and take no lease.      *)
LEMMA EventsAreSound ==
    ASSUME SwapchainAssumption, SwapchainInv,
           \/ \E s \in Surfaces : RequestResize(s)
           \/ \E b \in BOOLEAN : SetOccluded(b) \/ SetDeviceLost(b)
           \/ \E status \in {"NotReady", "OutOfDate", "Occluded", "DeviceLost"} :
                AcquireToldOtherwise(status)
    PROVE  SwapchainInv' /\ LeaseStep /\ OnlyLeasesEnd
<1>1. /\ outOfDate \in BOOLEAN /\ occluded \in BOOLEAN /\ lost \in BOOLEAN
      /\ pending \in Surfaces \cup {NoSurface}
  BY DEF SwapchainInv, SwapchainTypeOK
<1>2. UNCHANGED <<configured, opens, generation, surface, counts, fences, lease>>
  BY DEF RequestResize, SetOccluded, SetDeviceLost, AcquireToldOtherwise, conf
<1>3. pending' \in Surfaces \cup {NoSurface}
  BY <1>1 DEF RequestResize, SetOccluded, SetDeviceLost, AcquireToldOtherwise, conf
<1>4. {outOfDate', occluded', lost'} \subseteq BOOLEAN
  BY <1>1 DEF RequestResize, SetOccluded, SetDeviceLost, AcquireToldOtherwise, Marks
<1>5. SwapchainInv' /\ Taken' = Taken /\ Flying' = Flying
  BY <1>2, <1>3, <1>4, FlagsMove
<1> QED
  BY <1>2, <1>5 DEF LeaseStep, OnlyLeasesEnd, fences, lease

LEMMA AcquireTakes ==
    ASSUME SwapchainAssumption, SwapchainInv, Acquire
    PROVE  SwapchainInv' /\ LeaseStep /\ OnlyLeasesEnd
<1>1. SwapchainInv' /\ Taken' = Taken \cup {nextSerial} /\ Flying' = Flying
  BY AcquireIsSound
<1>2. nextSerial' = nextSerial + 1
  BY DEF Acquire, Grant
<1>3. /\ configured /\ acquired + inFlight < MaxFrames
      /\ configured' = configured /\ generation' = generation /\ nextFence' = nextFence
      /\ presents' = presents
  BY DEF Acquire, MayAcquire, HasRoom, conf, fences
<1>4. nextSerial \in Nat
  BY SwapchainTypes DEF SwapchainInv
<1>5. Cardinality(Taken) + Cardinality(Flying) < MaxFrames
  BY <1>3, LeasesCounted
<1>6. nextSerial' - 1 = (nextSerial - 1) + 1 /\ nextSerial' - 1 = nextSerial
  BY <1>2, <1>4
<1>7. Leases!Take
  <2>1. Taken' = Taken \cup {nextSerial' - 1}
    BY <1>1, <1>6
  <2>2. nextFence' - 1 = nextFence - 1
    BY <1>3
  <2>3. Leases!Cardinality(Taken) + Leases!Cardinality(Flying) < MaxFrames
    BY <1>5 DEF Leases!Cardinality, Cardinality
  <2> QED
    BY <1>1, <1>3, <1>6, <2>1, <2>2, <2>3 DEF Leases!Take
<1> QED
  BY <1>1, <1>3, <1>7 DEF OnlyLeasesEnd, LeaseStep, Leases!Next

(* A lease given back, unpresented.                                        *)
LEMMA GivingBackIsSound ==
    ASSUME SwapchainAssumption, SwapchainInv, NEW t \in tokens, configured, Owned(t), GivenBack(t),
           {outOfDate', occluded', lost'} \subseteq BOOLEAN
    PROVE  SwapchainInv' /\ LeaseStep /\ OnlyLeasesEnd
<1>1. SwapchainTypeOK /\ ToldApart
  BY DEF SwapchainInv
<1>2. /\ slots \in [Images -> SlotRecord] /\ t.image \in Images
      /\ slots[t.image].acquired
  BY <1>1, SwapchainTypes DEF SwapchainTypeOK, Owned
<1>3. slots[t.image].fence = 0
  BY <1>1, <1>2 DEF ToldApart, Held
<1>4. slots' = [slots EXCEPT ![t.image].acquired = FALSE, ![t.image].fence = 0]
  <2> DEFINE i == t.image
             c == [slots[i] EXCEPT !.acquired = FALSE]
             d == [slots[i] EXCEPT !.acquired = FALSE, !.fence = 0]
  <2>1. slots[i] \in [acquired : BOOLEAN, serial : 0..MaxAcquires, fence : 0..MaxAcquires]
    BY <1>2 DEF SlotRecord
  <2>2. c = d
    BY <1>3, <2>1
  <2>3. slots' = [slots EXCEPT ![i] = c]
    BY DEF GivenBack
  <2> HIDE DEF c, d
  <2>4. slots' = [slots EXCEPT ![i] = d]
    BY <2>2, <2>3
  <2> QED
    BY <2>4, <1>2 DEF d
<1>5. /\ Answered(t) /\ UNCHANGED <<conf, completed>>
      /\ UNCHANGED <<inFlight, inFlightBytes, nextFence, submitted>>
  BY DEF GivenBack, fences
<1>6. /\ SwapchainInv' /\ t.serial \in Taken /\ Taken' = Taken \ {t.serial}
      /\ Flying' = Flying \cup ({0} \ {0})
      /\ \A s \in Serials : presents'[s] # presents[s] => s = t.serial
  BY <1>4, <1>5, LeaseEnds
<1>7. Flying' = Flying
  BY <1>6
<1>8. configured' = configured /\ generation' = generation /\ nextSerial' = nextSerial
      /\ nextFence' = nextFence
  BY <1>5 DEF conf, Answered
<1>9. Leases!GiveBack(t.serial)
  BY <1>6, <1>7, <1>8 DEF Leases!GiveBack
<1> QED
  BY <1>6, <1>9 DEF OnlyLeasesEnd, LeaseStep, Leases!Next

LEMMA PresentFlies ==
    ASSUME SwapchainAssumption, SwapchainInv, NEW t \in tokens, Present(t)
    PROVE  SwapchainInv' /\ LeaseStep /\ OnlyLeasesEnd
<1>1. /\ outOfDate \in BOOLEAN /\ occluded \in BOOLEAN /\ lost \in BOOLEAN
      /\ nextFence \in Nat /\ nextFence >= 1
  BY SwapchainTypes DEF SwapchainInv, SwapchainTypeOK
<1>2. /\ configured /\ Owned(t) /\ Answered(t) /\ nextFence # 0
      /\ slots' = [slots EXCEPT ![t.image].acquired = FALSE, ![t.image].fence = nextFence]
      /\ inFlight' = inFlight + 1 /\ inFlightBytes' = inFlightBytes + surface.bytes
      /\ submitted' = nextFence /\ nextFence' = nextFence + 1
      /\ UNCHANGED <<conf, completed>> /\ UNCHANGED flags
  BY <1>1 DEF Present
<1>3. {outOfDate', occluded', lost'} \subseteq BOOLEAN
  BY <1>1, <1>2 DEF flags
<1>4. /\ SwapchainInv' /\ t.serial \in Taken /\ Taken' = Taken \ {t.serial}
      /\ Flying' = Flying \cup ({nextFence} \ {0})
      /\ \A s \in Serials : presents'[s] # presents[s] => s = t.serial
  BY <1>2, <1>3, LeaseEnds
<1>5. Flying' = Flying \cup {nextFence}
  BY <1>2, <1>4
<1>6. nextFence' - 1 = (nextFence - 1) + 1 /\ nextFence' - 1 = nextFence
  BY <1>1, <1>2
<1>7. configured' = configured /\ generation' = generation /\ nextSerial' = nextSerial
  BY <1>2 DEF conf, Answered
<1>8. Leases!Fly(t.serial)
  BY <1>4, <1>5, <1>6, <1>7 DEF Leases!Fly
<1> QED
  BY <1>4, <1>8 DEF OnlyLeasesEnd, LeaseStep, Leases!Next

LEMMA RetireLands ==
    ASSUME SwapchainAssumption, SwapchainInv, NEW v, RetireCompleted(v)
    PROVE  SwapchainInv' /\ LeaseStep /\ OnlyLeasesEnd
<1>1. SwapchainInv' /\ Taken' = Taken /\ Flying' \subseteq Flying
  BY RetireIsSound
<1>2. UNCHANGED <<configured, generation, nextSerial, nextFence, presents>>
  BY DEF RetireCompleted, conf
<1>3. Leases!Land
  BY <1>1, <1>2 DEF Leases!Land
<1> QED
  BY <1>1, <1>2, <1>3 DEF OnlyLeasesEnd, LeaseStep, Leases!Next

LEMMA EveryStepIsALeaseStep ==
    ASSUME SwapchainAssumption, SwapchainInv, [Next]_vars
    PROVE  SwapchainInv' /\ LeaseStep /\ OnlyLeasesEnd
<1>1. ASSUME NEW g \in 1..MaxGeneration, (\E s \in Surfaces : Configure(g, s)) \/ Recreate(g)
      PROVE  SwapchainInv' /\ LeaseStep /\ OnlyLeasesEnd
  <2>1. CASE \E s \in Surfaces : Configure(g, s)
    BY <2>1, PublishingIsSound
  <2>2. CASE Recreate(g)
    <3>1. pending \in Surfaces
      BY <2>2 DEF SwapchainInv, SwapchainTypeOK, Recreate
    <3> QED
      BY <2>2, <3>1, PublishingIsSound
  <2> QED
    BY <1>1, <2>1, <2>2
<1>2. CASE Shutdown
  BY <1>2, ShutdownIsSound
<1>3. CASE \/ \E s \in Surfaces : RequestResize(s)
           \/ \E b \in BOOLEAN : SetOccluded(b) \/ SetDeviceLost(b)
           \/ \E status \in {"NotReady", "OutOfDate", "Occluded", "DeviceLost"} :
                AcquireToldOtherwise(status)
  BY <1>3, EventsAreSound
<1>4. CASE Acquire
  BY <1>4, AcquireTakes
<1>5. ASSUME NEW t \in tokens,
             \/ SkipNoDamage(t)
             \/ \E requested \in {"Presented", "OutOfDate", "Occluded", "DeviceLost"} :
                  PresentRefused(t, requested)
      PROVE  SwapchainInv' /\ LeaseStep /\ OnlyLeasesEnd
  <2>1. outOfDate \in BOOLEAN /\ occluded \in BOOLEAN /\ lost \in BOOLEAN
    BY DEF SwapchainInv, SwapchainTypeOK
  <2>2. {outOfDate', occluded', lost'} \subseteq BOOLEAN
    BY <1>5, <2>1 DEF SkipNoDamage, PresentRefused, flags, Marks
  <2>3. configured /\ Owned(t) /\ GivenBack(t)
    BY <1>5 DEF SkipNoDamage, PresentRefused
  <2> QED
    BY <2>2, <2>3, GivingBackIsSound
<1>6. ASSUME NEW t \in tokens, Present(t)
      PROVE  SwapchainInv' /\ LeaseStep /\ OnlyLeasesEnd
  BY <1>6, PresentFlies
<1>7. CASE \E v \in 0..MaxAcquires : RetireCompleted(v)
  BY <1>7, RetireLands
<1>8. CASE UNCHANGED vars
  <2>1. UNCHANGED <<configured, opens, generation, surface, counts, fences, lease>>
        /\ UNCHANGED <<pending, outOfDate, occluded, lost>>
    BY <1>8 DEF vars, conf, flags
  <2>2. {outOfDate', occluded', lost'} \subseteq BOOLEAN /\ pending' \in Surfaces \cup {NoSurface}
    BY <2>1 DEF SwapchainInv, SwapchainTypeOK
  <2>3. SwapchainInv' /\ Taken' = Taken /\ Flying' = Flying
    BY <2>1, <2>2, FlagsMove
  <2> QED
    BY <2>1, <2>3 DEF LeaseStep, OnlyLeasesEnd, fences, lease
<1> QED
  BY <1>1, <1>2, <1>3, <1>4, <1>5, <1>6, <1>7, <1>8 DEF Next

LEMMA SwapchainInvAlways ==
    ASSUME SwapchainAssumption
    PROVE  Spec => []SwapchainInv
<1>1. Init => SwapchainInv
  BY SwapchainInvInit
<1>2. SwapchainInv /\ [Next]_vars => SwapchainInv'
  BY EveryStepIsALeaseStep
<1> QED
  BY <1>1, <1>2, PTL DEF Spec

(* The state is always well formed, the counters that acquire and recreate *)
(* read are always the images' own state, and a frame whose fence has been *)
(* retired is not in flight.                                               *)
THEOREM SwapchainCountersAreExact ==
    ASSUME SwapchainAssumption
    PROVE  Spec => [](SwapchainTypeOK /\ CountsExact /\ RetiredHasLanded)
<1>1. SwapchainInv => SwapchainTypeOK /\ CountsExact
  BY DEF SwapchainInv, Tallied
<1>2. SwapchainInv => RetiredHasLanded
  <2> SUFFICES ASSUME SwapchainInv PROVE RetiredHasLanded
    OBVIOUS
  <2>1. Flying = {slots[i].fence : i \in Busy}
    BY DEF Flying, Busy
  <2>2. \A i \in Busy : completed < slots[i].fence /\ slots[i].fence <= submitted
    BY DEF SwapchainInv, ToldApart
  <2> QED
    BY <2>1, <2>2 DEF RetiredHasLanded
<1> QED
  BY <1>1, <1>2, SwapchainInvAlways, PTL

(* A present is accepted only with a token whose lease is still held, and  *)
(* ends it, whatever tokens the caller has kept.                           *)
THEOREM PresentsEndTheirLease ==
    ASSUME SwapchainAssumption
    PROVE  Spec => OnlyTheLeaseIsPresented
<1>1. SwapchainInv /\ [Next]_vars => [OnlyLeasesEnd]_vars
  BY EveryStepIsALeaseStep
<1>2. Spec => [][OnlyLeasesEnd]_vars
  BY <1>1, SwapchainInvAlways, PTL DEF Spec
<1> QED
  BY <1>2 DEF OnlyTheLeaseIsPresented, OnlyLeasesEnd

(* Every call is a step of FrameLeases, or shows its caller nothing.       *)
THEOREM SwapchainKeepsLeases ==
    ASSUME SwapchainAssumption
    PROVE  Spec => KeepsLeases
<1>1. Init => Leases!Init
  <2>1. 1 - 1 = 0
    OBVIOUS
  <2> QED
    BY <2>1, SwapchainInvInit DEF Init, Leases!Init
<1>2. SwapchainInv /\ [Next]_vars => LeaseStep
  BY EveryStepIsALeaseStep
<1> QED
  BY <1>1, <1>2, SwapchainInvAlways, PTL DEF Spec, KeepsLeases, Leases!Spec, LeaseStep
====================================================================================
