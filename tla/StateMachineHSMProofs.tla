----------------------- MODULE StateMachineHSMProofs -----------------------
(***************************************************************************)
(* Theorems about the hierarchical engine, for every map of states, columns *)
(* of parents and depth.                                                    *)
(***************************************************************************)
EXTENDS StateMachineHSM, StateMachineProofs, FiniteSetTheorems, WellFoundedInduction

---------------------------------------------------------------------------
(* Induction over the naturals, in the form a chain of parents needs.       *)

\* A set of naturals that is not empty has a least element.
LEMMA LeastNatural ==
  ASSUME NEW T, T \subseteq Nat, T # {}
  PROVE  \E x \in T : \A y \in T : x <= y
<1> DEFINE R == OpToRel(<, Nat)
<1>1. IsWellFoundedOn(R, Nat)
  BY NatLessThanWellFounded
<1>2. \A x, y \in Nat : x < y => <<x, y>> \in R
  BY DEF OpToRel
<1> HIDE DEF R
<1>3. PICK x \in T : \A y \in T : ~ (<<y, x>> \in R)
  BY <1>1, WFMin
<1>4. \A y \in T : x <= y
  <2>1. \A a, b \in Nat : ~(b < a) => a <= b
    OBVIOUS
  <2> QED
    BY <1>2, <1>3, <2>1
<1> QED
  BY <1>4

\* A set that holds 0 and with each natural the next one holds them all.
LEMMA Induction ==
  ASSUME NEW S, 0 \in S, \A n \in Nat : n \in S => n + 1 \in S
  PROVE  Nat \subseteq S
<1> DEFINE T == Nat \ S
<1> SUFFICES ASSUME T # {} PROVE FALSE
  OBVIOUS
<1>1. PICK x \in T : \A y \in T : x <= y
  <2>1. T \subseteq Nat
    OBVIOUS
  <2> HIDE DEF T
  <2> QED
    BY <2>1, LeastNatural
<1>2. x - 1 \in Nat /\ x - 1 + 1 = x
  OBVIOUS
<1>3. x - 1 \notin T
  BY <1>1, <1>2
<1> QED
  BY <1>2, <1>3

---------------------------------------------------------------------------
(* The chain of parents of a state, for a column P and without a last level. *)

Columns   == [States -> States \cup {NO_PARENT}]
Parent(P, s) == IF s \in States THEN P[s] ELSE NO_PARENT
IsChain(P, s, k, c) == c = [n \in 0 .. k |-> IF n = 0 THEN s ELSE Parent(P, c[n - 1])]
Chain(P, s, n) == (CHOOSE c : IsChain(P, s, n, c))[n]

\* Two chains of a state agree as far as both go.
LEMMA ChainsAgree ==
  ASSUME NEW P, NEW s, NEW j \in Nat, NEW k \in Nat, NEW c, NEW d,
         IsChain(P, s, j, c), IsChain(P, s, k, d)
  PROVE  \A n \in 0 .. j : n <= k => c[n] = d[n]
<1> DEFINE S == {n \in Nat : n <= j /\ n <= k => c[n] = d[n]}
<1>1. \A n \in 0 .. j : c[n] = IF n = 0 THEN s ELSE Parent(P, c[n - 1])
  BY DEF IsChain
<1>2. \A n \in 0 .. k : d[n] = IF n = 0 THEN s ELSE Parent(P, d[n - 1])
  BY DEF IsChain
<1>3. 0 \in S
  BY <1>1, <1>2
<1>4. ASSUME NEW n \in Nat, n \in S, n + 1 <= j, n + 1 <= k
      PROVE  c[n + 1] = d[n + 1]
  <2>1. n + 1 \in 0 .. j /\ n + 1 \in 0 .. k /\ n + 1 # 0 /\ n + 1 - 1 = n /\ n <= j /\ n <= k
    BY <1>4
  <2>2. c[n + 1] = Parent(P, c[n]) /\ d[n + 1] = Parent(P, d[n])
    BY <1>1, <1>2, <2>1
  <2> QED
    BY <1>4, <2>1, <2>2
<1>5. \A n \in Nat : n \in S => n + 1 \in S
  BY <1>4
<1>6. Nat \subseteq S
  <2> HIDE DEF S
  <2> QED
    BY <1>3, <1>5, Induction
<1> QED
  BY <1>6

\* A chain goes on one level further.
LEMMA ChainExtends ==
  ASSUME NEW P, NEW s, NEW k \in Nat, NEW c, IsChain(P, s, k, c)
  PROVE  \E d : IsChain(P, s, k + 1, d)
<1> DEFINE d == [n \in 0 .. k + 1 |-> IF n = k + 1 THEN Parent(P, c[k]) ELSE c[n]]
<1>1. \A n \in 0 .. k : c[n] = IF n = 0 THEN s ELSE Parent(P, c[n - 1])
  BY DEF IsChain
<1>2. \A n \in 0 .. k + 1 : d[n] = IF n = 0 THEN s ELSE Parent(P, d[n - 1])
  <2> TAKE n \in 0 .. k + 1
  <2>1. CASE n = k + 1
    <3>1. n # 0 /\ n - 1 = k /\ k \in 0 .. k + 1 /\ k # k + 1
      BY <2>1
    <3>2. d[k] = c[k]
      BY <3>1
    <3> QED
      BY <2>1, <3>1, <3>2
  <2>2. CASE n \in 0 .. k
    <3>1. n # k + 1 /\ d[n] = c[n]
      BY <2>2
    <3>2. n # 0 => n - 1 \in 0 .. k + 1 /\ n - 1 # k + 1
      BY <2>2
    <3>3. n # 0 => d[n - 1] = c[n - 1]
      BY <3>2
    <3> HIDE DEF d
    <3> QED
      BY <1>1, <2>2, <3>1, <3>3
  <2> QED
    BY <2>1, <2>2
<1>3. d = [n \in 0 .. k + 1 |-> d[n]]
  OBVIOUS
<1> HIDE DEF d
<1>4. d = [n \in 0 .. k + 1 |-> IF n = 0 THEN s ELSE Parent(P, d[n - 1])]
  BY <1>2, <1>3
<1> QED
  BY <1>4 DEF IsChain

\* Every state has a chain of every length.
LEMMA ChainExists ==
  ASSUME NEW P, NEW s
  PROVE  \A k \in Nat : \E c : IsChain(P, s, k, c)
<1> DEFINE S == {k \in Nat : \E c : IsChain(P, s, k, c)}
<1>1. 0 \in S
  <2> DEFINE c == [n \in 0 .. 0 |-> s]
  <2>1. c = [n \in 0 .. 0 |-> IF n = 0 THEN s ELSE Parent(P, c[n - 1])]
    OBVIOUS
  <2> QED
    BY <2>1 DEF IsChain
<1>2. \A k \in Nat : k \in S => k + 1 \in S
  BY ChainExtends
<1> HIDE DEF S
<1>3. Nat \subseteq S
  BY <1>1, <1>2, Induction
<1> QED
  BY <1>3 DEF S

\* Any chain holds what Chain says of its levels.
LEMMA ChainIs ==
  ASSUME NEW P, NEW s, NEW k \in Nat, NEW c, IsChain(P, s, k, c)
  PROVE  \A n \in 0 .. k : c[n] = Chain(P, s, n)
<1> TAKE n \in 0 .. k
<1>1. IsChain(P, s, n, CHOOSE d : IsChain(P, s, n, d))
  BY ChainExists
<1>2. n \in Nat /\ n \in 0 .. n /\ n <= k
  OBVIOUS
<1> QED
  BY <1>1, <1>2, ChainsAgree DEF Chain

\* The chain of a state starts with it, and goes from parent to parent.
LEMMA ChainStep ==
  ASSUME NEW P, NEW s
  PROVE  /\ Chain(P, s, 0) = s
         /\ \A n \in Nat : Chain(P, s, n + 1) = Parent(P, Chain(P, s, n))
<1>1. ASSUME NEW k \in Nat
      PROVE  /\ Chain(P, s, 0) = s
             /\ k # 0 => Chain(P, s, k) = Parent(P, Chain(P, s, k - 1))
  <2>1. PICK c : IsChain(P, s, k, c)
    BY ChainExists
  <2>2. \A n \in 0 .. k : c[n] = Chain(P, s, n)
    BY <2>1, ChainIs
  <2>3. \A n \in 0 .. k : c[n] = IF n = 0 THEN s ELSE Parent(P, c[n - 1])
    BY <2>1 DEF IsChain
  <2>4. 0 \in 0 .. k /\ k \in 0 .. k /\ (k # 0 => k - 1 \in 0 .. k)
    OBVIOUS
  <2> QED
    BY <2>2, <2>3, <2>4
<1>2. \A n \in Nat : n + 1 \in Nat /\ n + 1 # 0 /\ n + 1 - 1 = n
  OBVIOUS
<1> QED
  BY <1>1, <1>2

\* NO_PARENT is no state.
LEMMA NoParentIsNoState == NO_PARENT \notin States
BY HSMAssumption DEF Outcomes

\* A chain holds states, and NO_PARENT from the top of the hierarchy on.
LEMMA ChainType ==
  ASSUME NEW P \in Columns, NEW s \in States \cup {NO_PARENT}
  PROVE  \A n \in Nat : Chain(P, s, n) \in States \cup {NO_PARENT}
<1> DEFINE S == {n \in Nat : Chain(P, s, n) \in States \cup {NO_PARENT}}
<1>1. 0 \in S
  BY ChainStep
<1>2. ASSUME NEW n \in Nat, n \in S
      PROVE  n + 1 \in S
  <2>1. Chain(P, s, n + 1) = Parent(P, Chain(P, s, n))
    BY ChainStep
  <2>2. Chain(P, s, n + 1) \in States \cup {NO_PARENT}
    BY <2>1 DEF Columns, Parent
  <2> QED
    BY <2>2
<1> HIDE DEF S
<1>3. Nat \subseteq S
  BY <1>1, <1>2, Induction
<1> QED
  BY <1>3 DEF S

\* The chain of the state n levels up is the rest of the chain.
LEMMA ChainSum ==
  ASSUME NEW P, NEW s, NEW n \in Nat
  PROVE  \A m \in Nat : Chain(P, s, n + m) = Chain(P, Chain(P, s, n), m)
<1> DEFINE S == {m \in Nat : Chain(P, s, n + m) = Chain(P, Chain(P, s, n), m)}
<1>1. 0 \in S
  <2>1. n + 0 = n
    OBVIOUS
  <2> QED
    BY <2>1, ChainStep
<1>2. ASSUME NEW m \in Nat, m \in S
      PROVE  m + 1 \in S
  <2>1. n + (m + 1) = (n + m) + 1 /\ n + m \in Nat /\ m + 1 \in Nat
    OBVIOUS
  <2>2. Chain(P, s, n + (m + 1)) = Parent(P, Chain(P, s, n + m))
    BY <2>1, ChainStep
  <2>3. Chain(P, Chain(P, s, n), m + 1) = Parent(P, Chain(P, Chain(P, s, n), m))
    BY ChainStep
  <2> QED
    BY <1>2, <2>1, <2>2, <2>3
<1> HIDE DEF S
<1>3. Nat \subseteq S
  BY <1>1, <1>2, Induction
<1> QED
  BY <1>3 DEF S

\* There is nothing above NO_PARENT.
LEMMA NothingAbove ==
  ASSUME NEW P
  PROVE  \A k \in Nat : Chain(P, NO_PARENT, k) = NO_PARENT
<1> DEFINE S == {k \in Nat : Chain(P, NO_PARENT, k) = NO_PARENT}
<1>1. 0 \in S
  BY ChainStep
<1>2. ASSUME NEW k \in Nat, k \in S
      PROVE  k + 1 \in S
  <2>1. Chain(P, NO_PARENT, k + 1) = Parent(P, Chain(P, NO_PARENT, k))
    BY ChainStep
  <2> QED
    BY <1>2, <2>1, NoParentIsNoState DEF Parent
<1> HIDE DEF S
<1>3. Nat \subseteq S
  BY <1>1, <1>2, Induction
<1> QED
  BY <1>3 DEF S

\* Above the top there is no state.
LEMMA ChainStays ==
  ASSUME NEW P, NEW s, NEW n \in Nat, Chain(P, s, n) = NO_PARENT, NEW m \in Nat, n <= m
  PROVE  Chain(P, s, m) = NO_PARENT
<1>4. PICK k \in Nat : m = n + k
  <2>1. m - n \in Nat /\ m = n + (m - n)
    OBVIOUS
  <2> QED
    BY <2>1
<1>5. Chain(P, s, n + k) = Chain(P, Chain(P, s, n), k)
  BY ChainSum
<1> QED
  BY <1>4, <1>5, NothingAbove

\* A chain that reaches the top visits no state twice.
LEMMA ChainIsInjective ==
  ASSUME NEW P, NEW s, NEW t \in Nat, Chain(P, s, t) = NO_PARENT,
         NEW i \in Nat, NEW j \in Nat, i # j, Chain(P, s, i) = Chain(P, s, j)
  PROVE  Chain(P, s, i) = NO_PARENT
<1>1. ASSUME NEW a \in Nat, NEW b \in Nat, a < b, Chain(P, s, a) = Chain(P, s, b)
      PROVE  Chain(P, s, a) = NO_PARENT
  <2> DEFINE T == {n \in Nat : Chain(P, s, n) = NO_PARENT}
  <2>1. PICK x \in T : \A y \in T : x <= y
    <3>1. T \subseteq Nat /\ T # {}
      OBVIOUS
    <3> HIDE DEF T
    <3> QED
      BY <3>1, LeastNatural
  <2>2. x \in Nat /\ Chain(P, s, x) = NO_PARENT
    OBVIOUS
  <2>3. CASE x <= b
    BY <1>1, <2>2, <2>3, ChainStays
  <2>4. CASE b < x
    <3>1. PICK k \in Nat : x = b + k
      <4>1. x - b \in Nat /\ x = b + (x - b)
        BY <2>2, <2>4
      <4> QED
        BY <4>1
    <3>2. Chain(P, s, a + k) = Chain(P, s, b + k)
      <4> HIDE DEF T
      <4>1. Chain(P, s, a + k) = Chain(P, Chain(P, s, a), k)
        BY ChainSum
      <4>2. Chain(P, s, b + k) = Chain(P, Chain(P, s, b), k)
        BY ChainSum
      <4> QED
        BY <1>1, <4>1, <4>2
    <3>3. a + k \in Nat /\ a + k < x
      BY <1>1, <3>1
    <3>4. a + k \in T
      BY <2>2, <3>1, <3>2, <3>3
    <3> HIDE DEF T
    <3> QED
      BY <2>1, <2>2, <3>3, <3>4
  <2> QED
    BY <2>2, <2>3, <2>4
<1>2. CASE i < j
  BY <1>1, <1>2
<1>3. CASE j < i
  BY <1>1, <1>3
<1> QED
  BY <1>2, <1>3

---------------------------------------------------------------------------
(* The states on a chain.                                                   *)

Lineage(P, s)  == {Chain(P, s, n) : n \in Nat} \ {NO_PARENT}
Below(P, s, m) == {Chain(P, s, n) : n \in 0 .. m - 1}

\* A state's lineage is what a walk up to one of them passes, and the lineage of
\* that one; the two have nothing in common when the chain reaches the top.
LEMMA LineageSplits ==
  ASSUME NEW P, NEW s, NEW m \in Nat, NO_PARENT \notin Below(P, s, m)
  PROVE  /\ Lineage(P, s) = Below(P, s, m) \cup Lineage(P, Chain(P, s, m))
         /\ (\E t \in Nat : Chain(P, s, t) = NO_PARENT) =>
              Below(P, s, m) \cap Lineage(P, Chain(P, s, m)) = {}
<1>1. \A n \in Nat : n \in 0 .. m - 1 \/ \E k \in Nat : n = m + k
  <2> TAKE n \in Nat
  <2>1. n - m \in Nat => n = m + (n - m)
    OBVIOUS
  <2>2. n \in 0 .. m - 1 \/ n - m \in Nat
    OBVIOUS
  <2> QED
    BY <2>1, <2>2
<1>2. \A k \in Nat : m + k \in Nat /\ Chain(P, s, m + k) = Chain(P, Chain(P, s, m), k)
  BY ChainSum
<1>3. \A n \in 0 .. m - 1 : n \in Nat
  OBVIOUS
<1>4. Lineage(P, s) \subseteq Below(P, s, m) \cup Lineage(P, Chain(P, s, m))
  BY <1>1, <1>2 DEF Lineage, Below
<1>5. Below(P, s, m) \cup Lineage(P, Chain(P, s, m)) \subseteq Lineage(P, s)
  BY <1>2, <1>3 DEF Lineage, Below
<1>6. ASSUME NEW t \in Nat, Chain(P, s, t) = NO_PARENT,
             NEW n \in 0 .. m - 1, NEW k \in Nat,
             Chain(P, s, n) = Chain(P, Chain(P, s, m), k)
      PROVE  FALSE
  <2>1. n \in Nat /\ m + k \in Nat /\ n # m + k /\ Chain(P, s, n) = Chain(P, s, m + k)
    BY <1>2, <1>3, <1>6
  <2>2. Chain(P, s, n) = NO_PARENT
    BY <1>6, <2>1, ChainIsInjective
  <2> QED
    BY <2>2 DEF Below
<1> QED
  BY <1>4, <1>5, <1>6 DEF Lineage, Below

---------------------------------------------------------------------------
(* The levels of the model are enough: a chain of parents has no other state. *)

\* Levels goes as far as the depth of the walks and the number of states.
LEMMA LevelsReach ==
  \E k \in Nat : Levels = 0 .. k /\ MAX_HSM_DEPTH <= k /\ Cardinality(States) <= k
<1> DEFINE c == Cardinality(States)
           k == Max({MAX_HSM_DEPTH, c})
<1>1. MAX_HSM_DEPTH \in Nat /\ c \in Nat
  BY HSMAssumption, FS_CardinalityType
<1>2. \E x \in {MAX_HSM_DEPTH, c} : \A y \in {MAX_HSM_DEPTH, c} : x >= y
  <2>1. MAX_HSM_DEPTH >= c \/ c >= MAX_HSM_DEPTH
    BY <1>1
  <2> QED
    BY <1>1, <2>1
<1> HIDE DEF c
<1>3. k \in {MAX_HSM_DEPTH, c} /\ \A y \in {MAX_HSM_DEPTH, c} : k >= y
  BY <1>2 DEF Max
<1>4. Levels = 0 .. k
  BY DEF Levels, c
<1> HIDE DEF k
<1>5. k \in Nat /\ MAX_HSM_DEPTH <= k /\ c <= k
  BY <1>1, <1>3
<1> QED
  BY <1>4, <1>5 DEF c

\* A walk takes levels.
LEMMA StepsAreLevels == Steps \subseteq Levels /\ Levels \subseteq Nat /\ 0 \in Steps
<1>1. PICK k \in Nat : Levels = 0 .. k /\ MAX_HSM_DEPTH <= k
  BY LevelsReach
<1>2. MAX_HSM_DEPTH \in Nat
  BY HSMAssumption
<1> QED
  BY <1>1, <1>2 DEF Steps

\* Whatever state a chain visits it visits within Levels: with more levels than
\* states it has come to some state twice, and goes round from there.
LEMMA LevelsSuffice ==
  ASSUME NEW P \in Columns, NEW s \in States \cup {NO_PARENT},
         NEW n \in Nat, Chain(P, s, n) # NO_PARENT
  PROVE  \E k \in Levels : Chain(P, s, k) = Chain(P, s, n)
<1> DEFINE T == {k \in Nat : Chain(P, s, k) = Chain(P, s, n)}
<1>1. PICK x \in T : \A y \in T : x <= y
  <2>1. T \subseteq Nat /\ T # {}
    OBVIOUS
  <2> HIDE DEF T
  <2> QED
    BY <2>1, LeastNatural
<1>2. x \in Nat /\ Chain(P, s, x) = Chain(P, s, n)
  OBVIOUS
<1>3. \A y \in Nat : Chain(P, s, y) = Chain(P, s, n) => x <= y
  BY <1>1
<1> HIDE DEF T
<1>4. PICK k \in Nat : Levels = 0 .. k /\ Cardinality(States) <= k
  BY LevelsReach
<1>5. CASE x <= k
  BY <1>2, <1>4, <1>5
<1>6. CASE k < x
  <2> DEFINE f == [i \in 0 .. k |-> Chain(P, s, i)]
  <2>1. f \in [0 .. k -> States]
    <3>1. ASSUME NEW i \in 0 .. k
          PROVE  Chain(P, s, i) \in States
      <4>1. i \in Nat /\ i <= x
        BY <1>2, <1>6
      <4>2. Chain(P, s, i) # NO_PARENT
        BY <1>2, <4>1, ChainStays
      <4> QED
        BY <4>1, <4>2, ChainType
    <3> QED
      BY <3>1
  <2>2. IsFiniteSet(0 .. k) /\ Cardinality(0 .. k) = k + 1
    <3>1. 0 \in Int /\ k \in Int /\ (IF 0 > k THEN 0 ELSE k - 0 + 1) = k + 1
      OBVIOUS
    <3> QED
      BY <3>1, FS_Interval
  <2>3. IsFiniteSet(States) /\ Cardinality(States) < Cardinality(0 .. k)
    <3>1. IsFiniteSet(States) /\ Cardinality(States) \in Nat
      BY HSMAssumption, FS_CardinalityType
    <3> QED
      BY <1>4, <2>2, <3>1
  <2> HIDE DEF f
  <2>4. PICK i, j \in 0 .. k : i # j /\ f[i] = f[j]
    BY <2>1, <2>2, <2>3, FS_PigeonHole
  <2>5. \A a, b \in 0 .. k : a < b => Chain(P, s, a) # Chain(P, s, b)
    <3> SUFFICES ASSUME NEW a \in 0 .. k, NEW b \in 0 .. k, a < b,
                        Chain(P, s, a) = Chain(P, s, b)
                 PROVE  FALSE
      OBVIOUS
    <3>1. a \in Nat /\ b \in Nat
      OBVIOUS
    <3>2. PICK r \in Nat : x = b + r
      <4>1. x - b \in Nat /\ x = b + (x - b)
        BY <1>2, <1>6
      <4> QED
        BY <4>1
    <3>3. Chain(P, s, a + r) = Chain(P, Chain(P, s, a), r)
      BY <3>1, ChainSum
    <3>4. Chain(P, s, b + r) = Chain(P, Chain(P, s, b), r)
      BY <3>1, ChainSum
    <3>5. Chain(P, s, a + r) = Chain(P, s, n)
      BY <1>2, <3>2, <3>3, <3>4
    <3>6. a + r \in Nat /\ a + r < x
      BY <3>1, <3>2
    <3> QED
      BY <1>2, <1>3, <3>5, <3>6
  <2>6. Chain(P, s, i) = Chain(P, s, j)
    BY <2>4 DEF f
  <2>7. i < j \/ j < i
    BY <2>4
  <2> QED
    BY <2>5, <2>6, <2>7
<1> QED
  BY <1>2, <1>4, <1>5, <1>6

\* What the model walks up is the chain of parents.
LEMMA UpIsTheChain ==
  ASSUME NEW s
  PROVE  /\ DOMAIN Up(s) = Levels
         /\ \A n \in Levels : Up(s)[n] = Chain(ParentState, s, n)
<1>1. PICK k \in Nat : Levels = 0 .. k
  BY LevelsReach
<1>2. \E c : IsChain(ParentState, s, k, c)
  BY <1>1, ChainExists
<1>3. IsChain(ParentState, s, k, Up(s))
  BY <1>1, <1>2 DEF IsChain, Up, Above, Parent
<1>4. \A n \in 0 .. k : Up(s)[n] = Chain(ParentState, s, n)
  BY <1>3, ChainIs
<1>5. DOMAIN Up(s) = 0 .. k
  <2>1. \A c : IsChain(ParentState, s, k, c) => DOMAIN c = 0 .. k
    BY DEF IsChain
  <2> QED
    BY <1>3, <2>1
<1> QED
  BY <1>1, <1>4, <1>5

\* The ancestors of a state, and itself, are its lineage.
LEMMA AncestorsAreTheLineage ==
  ASSUME ParentState \in Columns, NEW s \in States \cup {NO_PARENT}
  PROVE  AncestorsOrSelf(s) = Lineage(ParentState, s)
<1>1. /\ DOMAIN Up(s) = Levels /\ Levels \subseteq Nat
      /\ \A n \in Levels : Up(s)[n] = Chain(ParentState, s, n)
  BY UpIsTheChain, StepsAreLevels
<1>2. AncestorsOrSelf(s) = {Chain(ParentState, s, n) : n \in Levels} \ {NO_PARENT}
  BY <1>1 DEF AncestorsOrSelf, Range
<1>3. \A n \in Nat : Chain(ParentState, s, n) # NO_PARENT =>
        \E k \in Levels : Chain(ParentState, s, k) = Chain(ParentState, s, n)
  BY LevelsSuffice
<1> QED
  BY <1>1, <1>2, <1>3 DEF Lineage

---------------------------------------------------------------------------
(* What a walk leaves to do: v are the states it has not reached yet.       *)

\* The rest of a sequence, by its indices.
LEMMA TailOf ==
  ASSUME NEW S, NEW v \in Seq(S), v # <<>>
  PROVE  /\ Tail(v) \in Seq(S) /\ Head(v) = v[1] /\ Head(v) \in S /\ 1 \in DOMAIN v
         /\ \A i \in DOMAIN Tail(v) :
              /\ i + 1 \in DOMAIN v /\ i + 1 # 1 /\ Tail(v)[i] = v[i + 1]
              /\ i = Len(Tail(v)) <=> i + 1 = Len(v)
         /\ \A i \in DOMAIN v : i = 1 \/ \E k \in DOMAIN Tail(v) : i = k + 1
         /\ Range(v) = {v[1]} \cup Range(Tail(v))
         /\ Tail(v) = <<>> <=> Len(v) = 1
         /\ Len(v) \in Nat /\ Len(v) > 1 <=> Tail(v) # <<>>
<1>1. /\ Tail(v) \in Seq(S) /\ Len(Tail(v)) = Len(v) - 1 /\ Head(v) \in S
      /\ \A i \in 1 .. Len(Tail(v)) : Tail(v)[i] = v[i + 1]
  BY HeadTailProperties
<1>2. /\ Len(v) \in Nat \ {0} /\ DOMAIN v = 1 .. Len(v) /\ Head(v) = v[1]
      /\ Len(Tail(v)) \in Nat /\ DOMAIN Tail(v) = 1 .. Len(Tail(v))
  BY <1>1, EmptySeq, LenProperties
<1>3. \A n \in Nat \ {0} : /\ 1 \in 1 .. n
                           /\ \A i \in 1 .. n - 1 : /\ i + 1 \in 1 .. n /\ i + 1 # 1
                                                    /\ i = n - 1 <=> i + 1 = n
                           /\ \A i \in 1 .. n : i = 1 \/ (i - 1 \in 1 .. n - 1 /\ i = (i - 1) + 1)
  OBVIOUS
<1>4. /\ \A i \in DOMAIN Tail(v) :
           /\ i + 1 \in DOMAIN v /\ i + 1 # 1 /\ Tail(v)[i] = v[i + 1]
           /\ i = Len(Tail(v)) <=> i + 1 = Len(v)
      /\ \A i \in DOMAIN v : i = 1 \/ \E k \in DOMAIN Tail(v) : i = k + 1
      /\ 1 \in DOMAIN v
  <2>1. /\ 1 \in 1 .. Len(v)
        /\ \A i \in 1 .. Len(v) - 1 : /\ i + 1 \in 1 .. Len(v) /\ i + 1 # 1
                                      /\ i = Len(v) - 1 <=> i + 1 = Len(v)
        /\ \A i \in 1 .. Len(v) : i = 1 \/ (i - 1 \in 1 .. Len(v) - 1 /\ i = (i - 1) + 1)
    BY <1>2, <1>3
  <2>2. DOMAIN Tail(v) = 1 .. Len(v) - 1
    BY <1>1, <1>2
  <2>3. \A i \in DOMAIN v : i = 1 \/ \E k \in DOMAIN Tail(v) : i = k + 1
    BY <1>2, <2>1, <2>2
  <2> QED
    BY <1>1, <1>2, <2>1, <2>2, <2>3
<1>5. Range(v) = {v[1]} \cup Range(Tail(v))
  BY <1>4 DEF Range
<1>6. Tail(v) = <<>> <=> Len(v) = 1
  <2>1. CASE Tail(v) = <<>>
    <3>1. Len(Tail(v)) = 0
      BY <2>1, EmptySeq
    <3> QED
      BY <1>1, <1>2, <2>1, <3>1
  <2>2. CASE Tail(v) # <<>>
    <3>1. Len(Tail(v)) # 0
      BY <1>1, <2>2, EmptySeq
    <3> QED
      BY <1>1, <1>2, <2>2, <3>1
  <2> QED
    BY <2>1, <2>2
<1>7. Len(v) \in Nat /\ Len(v) > 1 <=> Tail(v) # <<>>
  BY <1>2, <1>6
<1> QED
  BY <1>1, <1>2, <1>4, <1>5, <1>6, <1>7

\* The walk up leaves the states of v, ends at l, and comes to none of them again.
Climbs(P, v, l) == \A i \in DOMAIN v : P[v[i]] = IF i = Len(v) THEN l ELSE v[i + 1]
Once(v)         == \A i, j \in DOMAIN v : v[i] = v[j] => i = j
Exits(P, v, l, occ) ==
  /\ Climbs(P, v, l) /\ Once(v) /\ Range(v) \cap Lineage(P, l) = {}
  /\ occ = Range(v) \cup Lineage(P, l)

\* The walk down enters the states of v, each below the one before, and makes occ
\* the lineage of t; none is occupied when the columns have no cycle.
Descends(P, v, occ) ==
  \A i \in DOMAIN v : P[v[i]] \in IF i = 1 THEN occ \cup {NO_PARENT} ELSE {v[i - 1]}
TopsOut(P) == \A s \in States : \E n \in Nat : Chain(P, s, n) = NO_PARENT
Enters(P, v, t, occ) ==
  /\ Descends(P, v, occ) /\ occ \cup Range(v) = Lineage(P, t)
  /\ TopsOut(P) => Once(v) /\ Range(v) \cap occ = {}

\* The parents of occupied states are occupied.
Closed(P, occ) == \A s \in occ : P[s] \in occ \cup {NO_PARENT}

\* To leave the first state of a walk up leaves the rest of the walk.
LEMMA ExitOne ==
  ASSUME NEW P, NEW v \in Seq(States), v # <<>>, NEW l, NEW occ, Exits(P, v, l, occ)
  PROVE  Exits(P, Tail(v), l, occ \ {Head(v)})
<1>1. /\ Head(v) = v[1] /\ 1 \in DOMAIN v
      /\ \A i \in DOMAIN Tail(v) :
           /\ i + 1 \in DOMAIN v /\ i + 1 # 1 /\ Tail(v)[i] = v[i + 1]
           /\ i = Len(Tail(v)) <=> i + 1 = Len(v)
      /\ Range(v) = {v[1]} \cup Range(Tail(v))
      /\ Tail(v) \in Seq(States)
  BY TailOf
<1>2. DOMAIN Tail(v) = 1 .. Len(Tail(v)) /\ Len(Tail(v)) \in Nat
  BY <1>1, LenProperties
<1>3. Climbs(P, Tail(v), l)
  <2> SUFFICES ASSUME NEW i \in DOMAIN Tail(v)
               PROVE  P[Tail(v)[i]] = IF i = Len(Tail(v)) THEN l ELSE Tail(v)[i + 1]
    BY DEF Climbs
  <2>1. P[v[i + 1]] = IF i + 1 = Len(v) THEN l ELSE v[i + 1 + 1]
    BY <1>1 DEF Exits, Climbs
  <2>2. i # Len(Tail(v)) => i + 1 \in DOMAIN Tail(v)
    BY <1>2
  <2> QED
    BY <1>1, <2>1, <2>2
<1>4. \A i \in DOMAIN Tail(v) : i \in Nat
  BY <1>2
<1>5. Once(Tail(v))
  <2> SUFFICES ASSUME NEW i \in DOMAIN Tail(v), NEW j \in DOMAIN Tail(v), Tail(v)[i] = Tail(v)[j]
               PROVE  i = j
    BY DEF Once
  <2>1. i + 1 = j + 1
    BY <1>1 DEF Exits, Once
  <2> QED
    BY <1>4, <2>1
<1>6. Head(v) \notin Range(Tail(v)) /\ Head(v) \notin Lineage(P, l)
  BY <1>1 DEF Exits, Once, Range
<1> QED
  BY <1>1, <1>3, <1>5, <1>6 DEF Exits

\* To enter the first state of a walk down leaves the rest of the walk.
LEMMA EnterOne ==
  ASSUME NEW P, NEW v \in Seq(States), v # <<>>, NEW t, NEW occ, Enters(P, v, t, occ)
  PROVE  /\ Enters(P, Tail(v), t, occ \cup {Head(v)})
         /\ P[Head(v)] \in occ \cup {NO_PARENT}
         /\ TopsOut(P) => Head(v) \notin occ
<1>1. /\ Head(v) = v[1] /\ 1 \in DOMAIN v
      /\ \A i \in DOMAIN Tail(v) : i + 1 \in DOMAIN v /\ i + 1 # 1 /\ Tail(v)[i] = v[i + 1]
      /\ Range(v) = {v[1]} \cup Range(Tail(v))
      /\ Tail(v) \in Seq(States)
  BY TailOf
<1>2. DOMAIN Tail(v) = 1 .. Len(Tail(v)) /\ Len(Tail(v)) \in Nat
  BY <1>1, LenProperties
<1>3. Descends(P, Tail(v), occ \cup {Head(v)})
  <2> SUFFICES ASSUME NEW i \in DOMAIN Tail(v)
               PROVE  P[Tail(v)[i]] \in IF i = 1 THEN occ \cup {Head(v)} \cup {NO_PARENT}
                                        ELSE {Tail(v)[i - 1]}
    BY DEF Descends
  <2>1. i + 1 - 1 = i /\ i \in Nat
    BY <1>2
  <2>2. P[v[i + 1]] = v[i]
    <3>1. Descends(P, v, occ) /\ i + 1 \in DOMAIN v /\ i + 1 # 1
      BY <1>1 DEF Enters
    <3>2. \A k \in DOMAIN v : k # 1 => P[v[k]] = v[k - 1]
      BY <3>1 DEF Descends
    <3> QED
      BY <2>1, <3>1, <3>2
  <2>3. i # 1 => i - 1 \in DOMAIN Tail(v) /\ i - 1 + 1 = i
    BY <1>2
  <2>4. i # 1 => Tail(v)[i - 1] = v[i]
    BY <1>1, <2>3
  <2> QED
    BY <1>1, <2>2, <2>4
<1>4. \A i \in DOMAIN Tail(v) : i \in Nat
  BY <1>2
<1>5. ASSUME TopsOut(P)
      PROVE  /\ Once(Tail(v)) /\ Head(v) \notin occ
             /\ Range(Tail(v)) \cap (occ \cup {Head(v)}) = {}
  <2>1. Once(v) /\ Range(v) \cap occ = {}
    BY <1>5 DEF Enters
  <2>2. ASSUME NEW i \in DOMAIN Tail(v), NEW j \in DOMAIN Tail(v), Tail(v)[i] = Tail(v)[j]
        PROVE  i = j
    <3>1. i + 1 = j + 1
      BY <1>1, <2>1, <2>2 DEF Once
    <3> QED
      BY <1>4, <3>1
  <2>3. Head(v) \notin Range(Tail(v))
    BY <1>1, <2>1 DEF Once, Range
  <2> QED
    BY <1>1, <2>1, <2>2, <2>3 DEF Once
<1>6. P[Head(v)] \in occ \cup {NO_PARENT}
  <2>1. Descends(P, v, occ)
    BY DEF Enters
  <2>2. P[v[1]] \in IF 1 = 1 THEN occ \cup {NO_PARENT} ELSE {v[1 - 1]}
    BY <1>1, <2>1 DEF Descends
  <2> QED
    BY <1>1, <2>2
<1>7. occ \cup {Head(v)} \cup Range(Tail(v)) = Lineage(P, t)
  BY <1>1 DEF Enters
<1> QED
  BY <1>3, <1>5, <1>6, <1>7 DEF Enters

\* A lineage holds the parents of its states.
LEMMA LineageIsClosed ==
  ASSUME NEW P, NEW s
  PROVE  /\ \A x \in Lineage(P, s) : x \in States => P[x] \in Lineage(P, s) \cup {NO_PARENT}
         /\ s # NO_PARENT => s \in Lineage(P, s)
<1>1. ASSUME NEW n \in Nat, Chain(P, s, n) \in States
      PROVE  P[Chain(P, s, n)] \in Lineage(P, s) \cup {NO_PARENT}
  <2>1. Chain(P, s, n + 1) = Parent(P, Chain(P, s, n))
    BY ChainStep
  <2>2. P[Chain(P, s, n)] = Chain(P, s, n + 1)
    BY <1>1, <2>1 DEF Parent
  <2>3. n + 1 \in Nat
    OBVIOUS
  <2> QED
    BY <2>2, <2>3 DEF Lineage
<1>2. s = Chain(P, s, 0) /\ 0 \in Nat
  BY ChainStep
<1> QED
  BY <1>1, <1>2 DEF Lineage

\* In the middle of a walk up the parents of occupied states are occupied.
LEMMA ExitsKeepsParents ==
  ASSUME NEW P, NEW v \in Seq(States), NEW l \in States \cup {NO_PARENT}, NEW occ,
         Exits(P, v, l, occ), occ \subseteq States
  PROVE  Closed(P, occ)
<1>1. l \in Lineage(P, l) \cup {NO_PARENT}
  BY LineageIsClosed
<1>2. \A x \in Lineage(P, l) : x \in States => P[x] \in occ \cup {NO_PARENT}
  BY LineageIsClosed DEF Exits
<1>3. ASSUME NEW i \in DOMAIN v
      PROVE  P[v[i]] \in occ \cup {NO_PARENT}
  <2>1. i # Len(v) => i + 1 \in DOMAIN v
    BY LenProperties
  <2>2. P[v[i]] = IF i = Len(v) THEN l ELSE v[i + 1]
    BY DEF Exits, Climbs
  <2> QED
    BY <1>1, <2>1, <2>2 DEF Exits, Range
<1>4. \A x \in Range(v) : P[x] \in occ \cup {NO_PARENT}
  BY <1>3 DEF Range
<1> QED
  BY <1>2, <1>4 DEF Exits, Closed

---------------------------------------------------------------------------
(* The walks of the engine.                                                 *)

\* The least of some naturals.
LEMMA MinIsLeast ==
  ASSUME NEW T, T \subseteq Nat, T # {}
  PROVE  Min(T) \in T /\ Min(T) \in Nat /\ \A y \in T : Min(T) <= y
<1>1. \E x \in T : \A y \in T : x <= y
  BY LeastNatural
<1>2. Min(T) \in T /\ \A y \in T : Min(T) <= y
  BY <1>1 DEF Min
<1> QED
  BY <1>2

\* A walk of the engine ends at l, if it comes to it at all, and above the top
\* otherwise.
Meets(P, s, l) == l = NO_PARENT \/ \E n \in Steps : Chain(P, s, n) = l

\* What a walk visits is the chain up to where it ends.
LEMMA VisitedIsTheChain ==
  ASSUME ParentState \in Columns, NEW s \in States, NEW l \in States \cup {NO_PARENT},
         Stops(s, l) # {}, Meets(ParentState, s, l)
  PROVE  \E m \in Nat :
           /\ Chain(ParentState, s, m) = l
           /\ \A n \in 0 .. m - 1 : Chain(ParentState, s, n) \in States \ {l}
           /\ Visited(s, l) \in Seq(States) /\ Len(Visited(s, l)) = m
           /\ DOMAIN Visited(s, l) = 1 .. m
           /\ \A i \in 1 .. m : Visited(s, l)[i] = Chain(ParentState, s, i - 1)
<1> DEFINE S == Stops(s, l) \cup {MAX_HSM_DEPTH}
           m == Min(S)
           v == Visited(s, l)
<1>1. \A n \in Levels : Up(s)[n] = Chain(ParentState, s, n)
  BY UpIsTheChain
<1>2. Steps \subseteq Levels /\ Levels \subseteq Nat /\ Steps = 0 .. MAX_HSM_DEPTH /\ MAX_HSM_DEPTH \in Nat
  BY StepsAreLevels, HSMAssumption DEF Steps
<1>3. Stops(s, l) = {n \in Steps : Chain(ParentState, s, n) \in {l, NO_PARENT}}
  BY <1>1, <1>2 DEF Stops
<1>4. /\ m \in Steps /\ m \in Nat /\ Chain(ParentState, s, m) \in {l, NO_PARENT}
      /\ \A n \in Steps : Chain(ParentState, s, n) \in {l, NO_PARENT} => m <= n
  <2>1. m \in S /\ \A n \in S : m <= n
    <3>1. S \subseteq Nat /\ S # {}
      BY <1>2, <1>3
    <3> QED
      BY <3>1, MinIsLeast
  <2> HIDE DEF m
  <2>2. PICK k \in Stops(s, l) : k <= MAX_HSM_DEPTH
    BY <1>2, <1>3
  <2>3. m \in Stops(s, l)
    BY <1>2, <1>3, <2>1, <2>2
  <2> QED
    BY <1>2, <1>3, <2>1, <2>3
<1>5. v = [n \in 1 .. m |-> Up(s)[n - 1]]
  BY DEF Visited
<1> HIDE DEF m, v
<1>6. Chain(ParentState, s, m) = l
  <2> SUFFICES ASSUME l # NO_PARENT, Chain(ParentState, s, m) = NO_PARENT
               PROVE  FALSE
    BY <1>4
  <2>1. PICK n \in Steps : Chain(ParentState, s, n) = l
    BY DEF Meets
  <2>2. m <= n /\ n \in Nat
    BY <1>2, <1>4, <2>1
  <2> QED
    BY <1>4, <2>1, <2>2, ChainStays
<1>7. ASSUME NEW n \in 0 .. m - 1
      PROVE  n \in Steps /\ Chain(ParentState, s, n) \in States \ {l}
  <2>1. n \in Steps /\ n \in Nat /\ ~(m <= n)
    BY <1>2, <1>4
  <2>2. Chain(ParentState, s, n) \notin {l, NO_PARENT}
    BY <1>4, <2>1
  <2>3. Chain(ParentState, s, n) \in States \cup {NO_PARENT}
    BY <2>1, ChainType
  <2> QED
    BY <2>1, <2>2, <2>3
<1>8. \A i \in 1 .. m : v[i] = Chain(ParentState, s, i - 1) /\ v[i] \in States
  <2> TAKE i \in 1 .. m
  <2>1. i - 1 \in 0 .. m - 1
    BY <1>4
  <2>2. v[i] = Up(s)[i - 1]
    BY <1>5
  <2>3. i - 1 \in Steps /\ Chain(ParentState, s, i - 1) \in States
    BY <1>7, <2>1
  <2> QED
    BY <1>1, <1>2, <2>2, <2>3
<1>9. v \in Seq(States) /\ DOMAIN v = 1 .. m /\ Len(v) = m
  <2>1. v \in [1 .. m -> States]
    BY <1>5, <1>8
  <2>2. v \in Seq(States)
    BY <1>4, <2>1, SeqDef
  <2> QED
    BY <1>4, <2>1, <2>2, LenProperties
<1>10. \A n \in 0 .. m - 1 : Chain(ParentState, s, n) \in States \ {l}
  BY <1>7
<1>11. /\ v \in Seq(States) /\ Len(v) = m /\ DOMAIN v = 1 .. m
       /\ \A i \in 1 .. m : v[i] = Chain(ParentState, s, i - 1)
  BY <1>8, <1>9
<1> QED
  BY <1>4, <1>6, <1>10, <1>11 DEF v

\* The states of a walk, one by one, and what is above them.
LEMMA VisitedOnce ==
  ASSUME ParentState \in Columns, NEW s \in States, NEW l \in States \cup {NO_PARENT},
         Stops(s, l) # {}, Meets(ParentState, s, l), NEW v, v = Visited(s, l)
  PROVE  /\ v \in Seq(States) /\ (v = <<>> <=> s = l)
         /\ Climbs(ParentState, v, l)
         /\ v # <<>> => v[1] = s
         /\ Lineage(ParentState, s) = Range(v) \cup Lineage(ParentState, l)
         /\ (\E t \in Nat : Chain(ParentState, s, t) = NO_PARENT) =>
              Once(v) /\ Range(v) \cap Lineage(ParentState, l) = {}
<1> DEFINE C(n) == Chain(ParentState, s, n)
<1>1. PICK m \in Nat :
        /\ C(m) = l
        /\ \A n \in 0 .. m - 1 : C(n) \in States \ {l}
        /\ v \in Seq(States) /\ Len(v) = m /\ DOMAIN v = 1 .. m
        /\ \A i \in 1 .. m : v[i] = C(i - 1)
  BY VisitedIsTheChain
<1>2. C(0) = s
  BY ChainStep
<1>3. v = <<>> <=> m = 0
  BY <1>1, EmptySeq
<1>4. v # <<>> => v[1] = s
  <2>1. m # 0 => 1 \in 1 .. m /\ 1 - 1 = 0
    BY <1>1
  <2> QED
    BY <1>1, <1>2, <1>3, <2>1
<1>5. v = <<>> <=> s = l
  <2>1. m # 0 => 0 \in 0 .. m - 1
    BY <1>1
  <2> QED
    BY <1>1, <1>2, <1>3, <2>1
<1>6. Climbs(ParentState, v, l)
  <2> SUFFICES ASSUME NEW i \in 1 .. m
               PROVE  ParentState[v[i]] = IF i = m THEN l ELSE v[i + 1]
    BY <1>1 DEF Climbs
  <2>1. i - 1 \in Nat /\ (i - 1) + 1 = i /\ i - 1 \in 0 .. m - 1
    BY <1>1
  <2>2. C((i - 1) + 1) = Parent(ParentState, C(i - 1))
    BY <2>1, ChainStep
  <2>3. v[i] = C(i - 1) /\ v[i] \in States
    BY <1>1, <2>1
  <2>4. ParentState[v[i]] = C(i)
    BY <2>1, <2>2, <2>3 DEF Parent
  <2>5. i # m => i + 1 \in 1 .. m /\ i + 1 - 1 = i
    BY <1>1
  <2>6. i # m => v[i + 1] = C(i)
    <3>1. \A k \in 1 .. m : k - 1 = i => v[k] = C(i)
      BY <1>1
    <3> QED
      BY <2>5, <3>1
  <2> QED
    BY <1>1, <2>4, <2>6
<1>7. Range(v) = Below(ParentState, s, m)
  <2>1. ASSUME NEW i \in 1 .. m
        PROVE  v[i] \in Below(ParentState, s, m)
    <3>1. i - 1 \in 0 .. m - 1
      BY <1>1
    <3>2. v[i] = Chain(ParentState, s, i - 1)
      BY <1>1
    <3> QED
      BY <3>1, <3>2 DEF Below
  <2>2. ASSUME NEW n \in 0 .. m - 1
        PROVE  Chain(ParentState, s, n) \in Range(v)
    <3>1. n + 1 \in 1 .. m /\ n + 1 - 1 = n
      BY <1>1
    <3>2. \A i \in 1 .. m : i - 1 = n => v[i] = Chain(ParentState, s, n)
      BY <1>1
    <3>3. v[n + 1] = Chain(ParentState, s, n)
      BY <3>1, <3>2
    <3> QED
      BY <1>1, <3>1, <3>3 DEF Range
  <2>3. Below(ParentState, s, m) \subseteq Range(v)
    BY <2>2 DEF Below
  <2>4. Range(v) \subseteq Below(ParentState, s, m)
    BY <1>1, <2>1 DEF Range
  <2> QED
    BY <2>3, <2>4
<1>8. NO_PARENT \notin Below(ParentState, s, m)
  BY <1>1, NoParentIsNoState DEF Below
<1>9. /\ Lineage(ParentState, s) = Range(v) \cup Lineage(ParentState, l)
      /\ (\E t \in Nat : C(t) = NO_PARENT) => Range(v) \cap Lineage(ParentState, l) = {}
  BY <1>1, <1>7, <1>8, LineageSplits
<1>10. ASSUME NEW t \in Nat, C(t) = NO_PARENT
       PROVE  Once(v)
  <2> SUFFICES ASSUME NEW i \in 1 .. m, NEW j \in 1 .. m, v[i] = v[j], i # j
               PROVE  FALSE
    BY <1>1 DEF Once
  <2>1. i - 1 \in Nat /\ j - 1 \in Nat /\ i - 1 # j - 1 /\ i - 1 \in 0 .. m - 1
    OBVIOUS
  <2>2. C(i - 1) = C(j - 1) /\ C(i - 1) \in States
    BY <1>1, <2>1
  <2>3. C(i - 1) = NO_PARENT
    BY <1>10, <2>1, <2>2, ChainIsInjective
  <2> QED
    BY <2>2, <2>3, NoParentIsNoState
<1> QED
  BY <1>1, <1>4, <1>5, <1>6, <1>9, <1>10

\* A sequence from its end.
LEMMA ReverseOf ==
  ASSUME NEW S, NEW v \in Seq(S), NEW r, r = Reverse(v)
  PROVE  /\ r \in Seq(S) /\ (r = <<>> <=> v = <<>>)
         /\ Len(v) \in Nat /\ DOMAIN v = 1 .. Len(v) /\ DOMAIN r = 1 .. Len(v)
         /\ \A i \in 1 .. Len(v) : Len(v) - i + 1 \in 1 .. Len(v) /\ r[i] = v[Len(v) - i + 1]
         /\ Range(r) = Range(v) /\ (Once(v) => Once(r))
<1>1. Len(v) \in Nat /\ DOMAIN v = 1 .. Len(v) /\ v \in [1 .. Len(v) -> S]
  BY LenProperties
<1> DEFINE n == Len(v)
<1>2. r = [i \in 1 .. n |-> v[n - i + 1]]
  BY DEF Reverse
<1>3. n \in Nat
  BY <1>1
<1>4. \A i \in 1 .. n : v[i] \in S
  BY <1>1
<1>5. \A i \in 1 .. n : n - i + 1 \in 1 .. n /\ n - (n - i + 1) + 1 = i
  BY <1>3
<1>6. r \in [1 .. n -> S]
  BY <1>2, <1>4, <1>5
<1>7. r \in Seq(S)
  BY <1>3, <1>6, SeqDef
<1>8. DOMAIN r = 1 .. n /\ Len(r) = n
  BY <1>3, <1>6, <1>7, LenProperties
<1>9. r = <<>> <=> v = <<>>
  BY <1>1, <1>7, <1>8, EmptySeq
<1>10. \A i \in 1 .. n : r[i] = v[n - i + 1]
  BY <1>2
<1>11. DOMAIN v = 1 .. n
  BY <1>1
<1> HIDE DEF n
<1>12. Range(r) = Range(v)
  <2>1. ASSUME NEW i \in 1 .. n
        PROVE  r[i] \in Range(v) /\ v[i] \in Range(r)
    <3>1. r[i] = v[n - i + 1] /\ n - i + 1 \in 1 .. n
      BY <1>5, <1>10
    <3>2. PICK k \in 1 .. n : k = n - i + 1 /\ n - k + 1 = i
      BY <1>5
    <3>3. r[k] = v[i]
      BY <1>10, <3>2
    <3> QED
      BY <1>8, <1>11, <3>1, <3>3 DEF Range
  <2> QED
    BY <1>8, <1>11, <2>1 DEF Range
<1>13. ASSUME Once(v)
       PROVE  Once(r)
  <2> SUFFICES ASSUME NEW i \in 1 .. n, NEW j \in 1 .. n, r[i] = r[j]
               PROVE  i = j
    BY <1>8 DEF Once
  <2>1. PICK a \in 1 .. n : a = n - i + 1 /\ n - a + 1 = i
    BY <1>5
  <2>2. PICK b \in 1 .. n : b = n - j + 1 /\ n - b + 1 = j
    BY <1>5
  <2>3. v[a] = v[b]
    BY <1>10, <2>1, <2>2
  <2> QED
    BY <1>11, <1>13, <2>1, <2>2, <2>3 DEF Once
<1> QED
  BY <1>1, <1>5, <1>7, <1>8, <1>9, <1>10, <1>12, <1>13 DEF n

\* The walk down to s from where a walk up from s ends.
LEMMA EntryStarts ==
  ASSUME ParentState \in Columns, NEW s \in States, NEW l \in States \cup {NO_PARENT},
         Stops(s, l) # {}, Meets(ParentState, s, l), NEW r, r = Reverse(Visited(s, l))
  PROVE  /\ r \in Seq(States) /\ (r = <<>> <=> s = l)
         /\ Enters(ParentState, r, s, Lineage(ParentState, l))
<1> DEFINE v == Visited(s, l)
<1>1. /\ v \in Seq(States) /\ (v = <<>> <=> s = l)
      /\ Climbs(ParentState, v, l)
      /\ Lineage(ParentState, s) = Range(v) \cup Lineage(ParentState, l)
      /\ (\E t \in Nat : Chain(ParentState, s, t) = NO_PARENT) =>
           Once(v) /\ Range(v) \cap Lineage(ParentState, l) = {}
  BY VisitedOnce
<1> HIDE DEF v
<1>2. r = Reverse(v)
  BY DEF v
<1>3. /\ r \in Seq(States) /\ (r = <<>> <=> v = <<>>)
      /\ Len(v) \in Nat /\ DOMAIN v = 1 .. Len(v) /\ DOMAIN r = 1 .. Len(v)
      /\ \A i \in 1 .. Len(v) : Len(v) - i + 1 \in 1 .. Len(v) /\ r[i] = v[Len(v) - i + 1]
      /\ Range(r) = Range(v) /\ (Once(v) => Once(r))
  BY <1>1, <1>2, ReverseOf
<1> DEFINE n == Len(v)
           occ == Lineage(ParentState, l)
<1>4. Descends(ParentState, r, occ)
  <2> SUFFICES ASSUME NEW i \in 1 .. n
               PROVE  ParentState[r[i]] \in IF i = 1 THEN occ \cup {NO_PARENT} ELSE {r[i - 1]}
    BY <1>3 DEF Descends
  <2>1. PICK k \in 1 .. n : k = n - i + 1 /\ r[i] = v[k]
    BY <1>3
  <2>2. ParentState[v[k]] = IF k = n THEN l ELSE v[k + 1]
    BY <1>1, <1>3 DEF Climbs
  <2>3. k = n <=> i = 1
    BY <1>3, <2>1
  <2>4. ASSUME i # 1
        PROVE  r[i - 1] = v[k + 1]
    <3>1. i - 1 \in 1 .. n /\ n - (i - 1) + 1 = k + 1
      BY <1>3, <2>1, <2>4
    <3>2. r[i - 1] = v[n - (i - 1) + 1]
      BY <1>3, <3>1
    <3> QED
      BY <3>1, <3>2
  <2>5. l \in occ \cup {NO_PARENT}
    BY LineageIsClosed
  <2> HIDE DEF n, occ
  <2> QED
    BY <2>1, <2>2, <2>3, <2>4, <2>5
<1>5. TopsOut(ParentState) => Once(r) /\ Range(r) \cap occ = {}
  BY <1>1, <1>3 DEF TopsOut
<1>6. occ \cup Range(r) = Lineage(ParentState, s)
  BY <1>1, <1>3
<1> QED
  BY <1>1, <1>3, <1>4, <1>5, <1>6 DEF Enters

\* A walk to the top succeeds when the chain has an end within the depth.
LEMMA ReachesTopMeans ==
  ASSUME NEW s
  PROVE  /\ ReachesTop(s) <=> \E n \in Steps : Chain(ParentState, s, n) = NO_PARENT
         /\ \A l : Stops(s, l) # {} <=>
              \E n \in Steps : Chain(ParentState, s, n) \in {l, NO_PARENT}
<1>1. \A n \in Steps : Up(s)[n] = Chain(ParentState, s, n)
  BY UpIsTheChain, StepsAreLevels
<1> QED
  BY <1>1 DEF ReachesTop, Stops

\* On a well-formed map every chain has an end.
LEMMA WellFormedTopsOut == WellFormed => TopsOut(ParentState)
BY ReachesTopMeans, StepsAreLevels DEF WellFormed, TopsOut

\* FindLCA returns a state that both chains come to, or NO_PARENT; a state is
\* left only when its chain has an end.
LEMMA LCAMeets ==
  ASSUME ParentState \in Columns, NEW a \in States, NEW b \in States
  PROVE  /\ FindLCA(a, b) \in States \cup {NO_PARENT}
         /\ Meets(ParentState, a, FindLCA(a, b)) /\ Meets(ParentState, b, FindLCA(a, b))
         /\ ~FindLCAAsserts(a, b) /\ a # FindLCA(a, b) =>
              \E t \in Nat : Chain(ParentState, a, t) = NO_PARENT
<1>1. \A s : \A n \in Steps : Up(s)[n] = Chain(ParentState, s, n)
  BY UpIsTheChain, StepsAreLevels
<1>2. Steps \subseteq Nat
  BY StepsAreLevels
<1>3. CASE Shared(a, b) = {}
  <2>1. FindLCA(a, b) = NO_PARENT /\ (~FindLCAAsserts(a, b) => ReachesTop(a))
    BY <1>3 DEF FindLCA, FindLCAAsserts
  <2> QED
    BY <1>2, <2>1, ReachesTopMeans DEF Meets
<1>4. CASE Shared(a, b) # {}
  <2> DEFINE m == Min(Shared(a, b))
             l == FindLCA(a, b)
  <2>1. m \in Shared(a, b) /\ m \in Nat /\ \A n \in Shared(a, b) : m <= n
    <3>1. Shared(a, b) \subseteq Nat
      BY <1>2 DEF Shared
    <3> QED
      BY <1>4, <3>1, MinIsLeast
  <2>2. l = Up(a)[m]
    BY <1>4 DEF FindLCA
  <2> HIDE DEF m, l
  <2>3. m \in Steps /\ Up(a)[m] \in States /\ \E j \in Steps : Up(a)[m] = Up(b)[j]
    BY <2>1 DEF Shared
  <2>4. PICK j \in Steps : Chain(ParentState, b, j) = l
    BY <1>1, <2>2, <2>3
  <2>5. Chain(ParentState, a, m) = l /\ l \in States
    BY <1>1, <2>2, <2>3
  <2>6. ASSUME ~FindLCAAsserts(a, b), a # l
        PROVE  \E t \in Nat : Chain(ParentState, a, t) = NO_PARENT
    <3>1. 0 \notin Shared(a, b)
      <4>1. ASSUME 0 \in Shared(a, b)
            PROVE  FALSE
        <5>1. m = 0
          BY <2>1, <4>1
        <5>2. l = a
          BY <2>5, <5>1, ChainStep
        <5> QED
          BY <2>6, <5>2
      <4> QED
        BY <4>1
    <3>2. PICK t \in Steps : Chain(ParentState, b, t) = NO_PARENT
      BY <1>4, <2>6, <3>1, ReachesTopMeans DEF FindLCAAsserts
    <3>3. j \in Nat /\ t \in Nat
      BY <1>2, <3>2
    <3>4. PICK k \in Nat : t = j + k
      <4>1. ~(t <= j)
        BY <2>4, <2>5, <3>2, <3>3, ChainStays, NoParentIsNoState
      <4>2. t - j \in Nat /\ t = j + (t - j)
        BY <3>3, <4>1
      <4> QED
        BY <4>2
    <3>5. Chain(ParentState, b, j + k) = Chain(ParentState, Chain(ParentState, b, j), k)
      BY <3>3, ChainSum
    <3>6. Chain(ParentState, a, m + k) = Chain(ParentState, Chain(ParentState, a, m), k)
      BY <2>1, ChainSum
    <3>7. m + k \in Nat
      BY <2>1
    <3> QED
      BY <2>4, <2>5, <3>2, <3>4, <3>5, <3>6, <3>7
  <2> QED
    BY <2>3, <2>4, <2>5, <2>6 DEF Meets, l
<1> QED
  BY <1>3, <1>4

---------------------------------------------------------------------------
(* Where the steps of the engine leave the innermost StateEngine.           *)

\* The types, the events and the call stack, a column of the map, and a walk that
\* has not ended has a state to reach.
HierarchyInv ==
  /\ EngineInv /\ ParentState \in Columns
  /\ \A i \in DOMAIN frames : Walking(frames[i]) => frames[i].todo # <<>>

\* Update leaves the frame it is given on top.
LEMMA UpdatedTop ==
  ASSUME TypeOK, frames # <<>>, NEW f \in Frame, Update(f)
  PROVE  TopBecomes(f.at, f.row, f.from, f.data) /\ Top' = f
<1>1. TopBecomes(f.at, f.row, f.from, f.data)
  BY Updated
<1>2. Len(frames) \in DOMAIN frames
  BY TopIsAFrame
<1> QED
  BY <1>1, <1>2 DEF TopBecomes, Update

\* A frame with another place, walk or state left is a frame.
LEMMA FrameAt ==
  ASSUME NEW f \in Frame, NEW at \in Callbacks \cup {"loop"}, NEW g, g = [f EXCEPT !.at = at]
  PROVE  /\ g \in Frame /\ g.at = at /\ g.row = f.row /\ g.from = f.from
         /\ g.data = f.data /\ g.todo = f.todo
BY DEF Frame

\* The same for the place and the walk together.
Walk(f, at, todo) == [f EXCEPT !.at = at, !.todo = todo]
LEMMA FrameWalking ==
  ASSUME NEW f \in Frame, NEW at \in Callbacks \cup {"loop"}, NEW todo \in Seq(States),
         NEW g, g = Walk(f, at, todo)
  PROVE  /\ g \in Frame /\ g.at = at /\ g.row = f.row /\ g.from = f.from
         /\ g.data = f.data /\ g.todo = todo
BY DEF Frame, Walk

\* The same for the state left.
LEMMA FrameFrom ==
  ASSUME NEW f \in Frame, NEW from \in States, NEW g, g = [f EXCEPT !.from = from]
  PROVE  /\ g \in Frame /\ g.at = f.at /\ g.row = f.row /\ g.from = from /\ g.data = f.data
BY DEF Frame

\* Goto keeps the walk.
LEMMA GoneTop ==
  ASSUME TypeOK, frames # <<>>, NEW at \in Callbacks \cup {"loop"}, Goto(at)
  PROVE  TopBecomes(at, Top.row, Top.from, Top.data) /\ Top'.todo = Top.todo
<1> DEFINE g == [Top EXCEPT !.at = at]
<1>1. Top \in Frame
  BY TopIsAFrame
<1>2. g \in Frame /\ g.todo = Top.todo
  BY <1>1, FrameAt
<1>3. Update(g)
  BY DEF Goto
<1> HIDE DEF g
<1>4. Top' = g
  BY <1>2, <1>3, UpdatedTop
<1> QED
  BY <1>2, <1>4, Gone

\* After a walk up: the walk down begins, or the state action, or the assertion
\* behind the walks fails.
LEMMA ArriveMoves ==
  ASSUME TypeOK, frames # <<>>, NEW f \in Frame, NEW todo \in Seq(States), Arrive(f, todo)
  PROVE  /\ todo # <<>> => /\ TopBecomes("entry", f.row, f.from, f.data)
                           /\ Top'.todo = todo /\ faulted' = faulted
         /\ todo = <<>> /\ ~m_eventGenerated =>
              TopBecomes("action", f.row, f.from, f.data) /\ faulted' = faulted
         /\ todo = <<>> /\ m_eventGenerated =>
              TopBecomes(f.at, f.row, f.from, f.data) /\ Top' = f /\ faulted' = TRUE
<1>1. "entry" \in Callbacks /\ "action" \in Callbacks /\ <<>> \in Seq(States)
  BY EmptySeq DEF Callbacks
<1>2. ASSUME NEW at \in Callbacks, NEW t \in Seq(States), NEW g,
             g = Walk(f, at, t), Update(g)
      PROVE  TopBecomes(at, f.row, f.from, f.data) /\ Top'.todo = t
  <2>1. at \in Callbacks \cup {"loop"}
    OBVIOUS
  <2>2. /\ g \in Frame /\ g.at = at /\ g.row = f.row /\ g.from = f.from
        /\ g.data = f.data /\ g.todo = t
    BY <1>2, <2>1, FrameWalking
  <2>3. TopBecomes(g.at, g.row, g.from, g.data) /\ Top' = g
    BY <1>2, <2>2, UpdatedTop
  <2> QED
    BY <2>2, <2>3
<1>3. CASE todo # <<>>
  <2>1. Update(Walk(f, "entry", todo)) /\ faulted' = faulted
    BY <1>3 DEF Arrive, Walk
  <2> QED
    BY <1>1, <1>2, <1>3, <2>1
<1>4. CASE todo = <<>> /\ ~m_eventGenerated
  <2>1. Update(Walk(f, "action", <<>>)) /\ faulted' = faulted
    BY <1>4 DEF Arrive, Walk
  <2> QED
    BY <1>1, <1>2, <1>4, <2>1
<1>5. CASE todo = <<>> /\ m_eventGenerated
  <2>1. Update(f) /\ faulted' = TRUE
    BY <1>5 DEF Arrive
  <2> QED
    BY <1>5, <2>1, UpdatedTop
<1> QED
  BY <1>3, <1>4, <1>5

\* The states to enter are states, and none when the walk up has ended there.
LEMMA EntriesAre ==
  ASSUME HierarchyInv, NEW f \in Frame, Stops(f.row, FindLCA(f.from, f.row)) # {}
  PROVE  LET l == FindLCA(f.from, f.row)
         IN  /\ EntryChain(f, l) \in Seq(States)
             /\ EntryChain(f, l) = <<>> <=> f.row = l
             /\ Enters(ParentState, EntryChain(f, l), f.row, Lineage(ParentState, l))
<1> DEFINE l == FindLCA(f.from, f.row)
<1>1. f.row \in States /\ f.from \in States /\ ParentState \in Columns
  BY DEF Frame, HierarchyInv
<1>2. l \in States \cup {NO_PARENT} /\ Meets(ParentState, f.row, l)
  BY <1>1, LCAMeets
<1>3. Stops(f.row, l) # {}
  OBVIOUS
<1> HIDE DEF l
<1>4. EntryChain(f, l) = Reverse(Visited(f.row, l))
  BY DEF EntryChain
<1>5. /\ EntryChain(f, l) \in Seq(States) /\ (EntryChain(f, l) = <<>> <=> f.row = l)
      /\ Enters(ParentState, EntryChain(f, l), f.row, Lineage(ParentState, l))
  BY <1>1, <1>2, <1>3, <1>4, EntryStarts
<1> QED
  BY <1>5 DEF l

\* The walk out ends when FindLCA has not failed.
LEMMA ExitEnds ==
  ASSUME NEW a, NEW b, ~FindLCAAsserts(a, b)
  PROVE  Stops(a, FindLCA(a, b)) # {}
<1>1. CASE Shared(a, b) = {}
  BY <1>1 DEF FindLCAAsserts, FindLCA, ReachesTop
<1>2. CASE Shared(a, b) # {}
  <2> DEFINE m == Min(Shared(a, b))
  <2>1. Shared(a, b) \subseteq Nat /\ Shared(a, b) \subseteq Steps
    BY StepsAreLevels DEF Shared
  <2>2. m \in Steps
    BY <1>2, <2>1, MinIsLeast
  <2>3. FindLCA(a, b) = Up(a)[m]
    BY <1>2 DEF FindLCA
  <2> HIDE DEF m
  <2> QED
    BY <2>2, <2>3 DEF Stops
<1> QED
  BY <1>1, <1>2

\* Where BeginEntries leaves the engine, and the current state.
LEMMA BeginEntriesMoves ==
  ASSUME HierarchyInv, frames # <<>>, NEW f \in Frame, BeginEntries(f)
  PROVE  LET l == FindLCA(f.from, f.row)
         IN  \/ (Stops(f.from, l) = {} \/ Stops(f.row, l) = {}) /\ Asserts
             \/ /\ Stops(f.row, l) # {} /\ m_currentState' = f.row
                /\ UNCHANGED <<m_newState, m_eventGenerated, m_pEventData, signalVars>>
                /\ EntryChain(f, l) \in Seq(States) /\ (EntryChain(f, l) = <<>> <=> f.row = l)
                /\ EntryChain(f, l) # <<>> => /\ TopBecomes("entry", f.row, f.from, f.data)
                                              /\ Top'.todo = EntryChain(f, l) /\ faulted' = faulted
                /\ EntryChain(f, l) = <<>> /\ ~m_eventGenerated =>
                     TopBecomes("action", f.row, f.from, f.data) /\ faulted' = faulted
                /\ EntryChain(f, l) = <<>> /\ m_eventGenerated =>
                     TopBecomes(f.at, f.row, f.from, f.data) /\ Top' = f /\ faulted' = TRUE
<1> DEFINE l == FindLCA(f.from, f.row)
<1>1. CASE Stops(f.from, l) = {} \/ Stops(f.row, l) = {}
  BY <1>1 DEF BeginEntries
<1>2. CASE ~(Stops(f.from, l) = {} \/ Stops(f.row, l) = {})
  <2>1. /\ m_currentState' = f.row /\ Arrive(f, EntryChain(f, l))
        /\ UNCHANGED <<m_newState, m_eventGenerated, m_pEventData, signalVars>>
    BY <1>2 DEF BeginEntries
  <2>2. EntryChain(f, l) \in Seq(States) /\ (EntryChain(f, l) = <<>> <=> f.row = l)
    BY <1>2, EntriesAre
  <2>3. TypeOK
    BY DEF HierarchyInv, EngineInv
  <2> HIDE DEF l
  <2> DEFINE todo == EntryChain(f, l)
  <2>4. todo \in Seq(States) /\ Arrive(f, todo)
    BY <2>1, <2>2
  <2> HIDE DEF todo
  <2>5. /\ todo # <<>> => /\ TopBecomes("entry", f.row, f.from, f.data)
                          /\ Top'.todo = todo /\ faulted' = faulted
        /\ todo = <<>> /\ ~m_eventGenerated =>
             TopBecomes("action", f.row, f.from, f.data) /\ faulted' = faulted
        /\ todo = <<>> /\ m_eventGenerated =>
             TopBecomes(f.at, f.row, f.from, f.data) /\ Top' = f /\ faulted' = TRUE
    BY <2>3, <2>4, ArriveMoves
  <2> QED
    BY <1>2, <2>1, <2>2, <2>5 DEF l, todo
<1> QED
  BY <1>1, <1>2

\* Where a guard that passes leaves the engine: l is the least common ancestor.
LEMMA PassMoves ==
  ASSUME HierarchyInv, ~faulted, Pass, NEW l, l = FindLCA(m_currentState, Top.row)
  PROVE  \/ Stands /\ faulted' = TRUE
         \/ /\ events' = Fate(Top.data, "executed")
            /\ UNCHANGED <<m_newState, m_eventGenerated, m_pEventData, signalVars, faulted>>
            /\ \/ /\ TopBecomes("action", Top.row, m_currentState, Top.data)
                  /\ UNCHANGED m_currentState
               \/ /\ m_currentState # l /\ ~FindLCAAsserts(m_currentState, Top.row)
                  /\ Stops(m_currentState, l) # {} /\ Visited(m_currentState, l) \in Seq(States)
                  /\ TopBecomes("exit", Top.row, m_currentState, Top.data)
                  /\ Top'.todo = Visited(m_currentState, l)
                  /\ UNCHANGED m_currentState
               \/ /\ m_currentState = l /\ Top.row # l /\ Stops(Top.row, l) # {}
                  /\ TopBecomes("entry", Top.row, m_currentState, Top.data)
                  /\ Top'.todo = Reverse(Visited(Top.row, l)) /\ Top'.todo # <<>>
                  /\ m_currentState' = Top.row
<1> DEFINE f == [Top EXCEPT !.from = m_currentState]
<1>1. TypeOK /\ frames # <<>> /\ Top \in Frame /\ m_currentState \in States /\ Top.row \in States
  <2>1. TypeOK /\ frames # <<>>
    BY DEF Pass, In, HierarchyInv, EngineInv
  <2> QED
    BY <2>1, TopIsAFrame DEF TypeOK, Frame
<1>2. f \in Frame /\ f.at = Top.at /\ f.row = Top.row /\ f.from = m_currentState /\ f.data = Top.data
  BY <1>1, FrameFrom
<1>3. /\ IF f.row = f.from
         THEN Update([f EXCEPT !.at = "action"]) /\ UNCHANGED <<machineVars, signalVars, faulted>>
         ELSE IF FindLCAAsserts(f.from, f.row) THEN Asserts
         ELSE IF f.from # l
         THEN /\ Update(Walk(f, "exit", Visited(f.from, l)))
              /\ UNCHANGED <<machineVars, signalVars, faulted>>
         ELSE BeginEntries(f)
      /\ events' = IF faulted' THEN events ELSE Fate(Top.data, "executed")
  BY <1>2 DEF Pass, Walk
<1> HIDE DEF f
<1>4. "action" \in Callbacks /\ "exit" \in Callbacks
  BY DEF Callbacks
<1>5. CASE f.row = f.from
  <2> DEFINE g == [f EXCEPT !.at = "action"]
  <2>1. g \in Frame /\ g.at = "action" /\ g.row = f.row /\ g.from = f.from /\ g.data = f.data
    BY <1>2, <1>4, FrameAt
  <2>2. Update(g) /\ UNCHANGED <<machineVars, signalVars, faulted>>
    BY <1>3, <1>5
  <2> HIDE DEF g
  <2>3. TopBecomes("action", f.row, f.from, f.data)
    BY <1>1, <2>1, <2>2, Updated
  <2> QED
    BY <1>2, <1>3, <2>2, <2>3 DEF machineVars
<1>6. CASE f.row # f.from /\ FindLCAAsserts(f.from, f.row)
  BY <1>3, <1>6 DEF Asserts, Stands
<1>7. CASE f.row # f.from /\ ~FindLCAAsserts(f.from, f.row) /\ f.from # l
  <2> DEFINE v == Visited(f.from, l)
  <2>0. Stops(f.from, l) # {}
    BY <1>1, <1>2, <1>7, ExitEnds
  <2>1. v \in Seq(States)
    <3>1. ParentState \in Columns
      BY DEF HierarchyInv
    <3>2. l \in States \cup {NO_PARENT} /\ Meets(ParentState, m_currentState, l)
      BY <1>1, <3>1, LCAMeets
    <3> QED
      BY <1>1, <1>2, <1>7, <2>0, <3>1, <3>2, VisitedOnce
  <2>2. Update(Walk(f, "exit", v)) /\ UNCHANGED <<machineVars, signalVars, faulted>>
    BY <1>3, <1>7
  <2> DEFINE g == Walk(f, "exit", v)
  <2>3. /\ g \in Frame /\ g.at = "exit" /\ g.row = f.row /\ g.from = f.from
        /\ g.data = f.data /\ g.todo = v
    BY <1>2, <1>4, <2>1, FrameWalking
  <2> HIDE DEF g, v
  <2>4. Update(g)
    BY <2>2 DEF g
  <2>5. TopBecomes("exit", f.row, f.from, f.data) /\ Top' = g
    BY <1>1, <2>3, <2>4, UpdatedTop
  <2> QED
    BY <1>2, <1>3, <1>7, <2>0, <2>1, <2>2, <2>3, <2>5 DEF machineVars, v
<1>8. CASE f.row # f.from /\ ~FindLCAAsserts(f.from, f.row) /\ f.from = l
  <2>1. BeginEntries(f) /\ l = FindLCA(f.from, f.row)
    BY <1>2, <1>3, <1>8
  <2> DEFINE r == EntryChain(f, l)
  <2>2. r = Reverse(Visited(Top.row, l))
    BY <1>2 DEF EntryChain
  <2>3. \/ Asserts
        \/ /\ Stops(f.row, l) # {} /\ m_currentState' = f.row
           /\ UNCHANGED <<m_newState, m_eventGenerated, m_pEventData, signalVars>>
           /\ (r = <<>> <=> f.row = l)
           /\ r # <<>> => /\ TopBecomes("entry", f.row, f.from, f.data)
                          /\ Top'.todo = r /\ faulted' = faulted
    BY <1>1, <1>2, <2>1, BeginEntriesMoves
  <2> HIDE DEF r
  <2> QED
    BY <1>2, <1>3, <1>8, <2>2, <2>3 DEF Asserts, Stands
<1> QED
  BY <1>5, <1>6, <1>7, <1>8

\* Where a slot of OnExit leaves it.
LEMMA OnExitMoves ==
  ASSUME HierarchyInv, OnExitDone, NEW l, l = FindLCA(Top.from, Top.row)
  PROVE  \/ /\ Tail(Top.todo) # <<>>
            /\ TopBecomes("exit", Top.row, Top.from, Top.data) /\ Top'.todo = Tail(Top.todo)
            /\ UNCHANGED <<machineVars, events, signalVars, faulted>>
         \/ (Stops(Top.from, l) = {} \/ Stops(Top.row, l) = {}) /\ Stands /\ faulted' = TRUE
         \/ /\ Tail(Top.todo) = <<>> /\ Stops(Top.row, l) # {} /\ m_currentState' = Top.row
            /\ UNCHANGED <<m_newState, m_eventGenerated, m_pEventData, events, signalVars>>
            /\ \/ /\ Top.row # l /\ faulted' = faulted
                  /\ TopBecomes("entry", Top.row, Top.from, Top.data)
                  /\ Top'.todo = Reverse(Visited(Top.row, l)) /\ Top'.todo # <<>>
               \/ /\ Top.row = l /\ ~m_eventGenerated /\ faulted' = faulted
                  /\ TopBecomes("action", Top.row, Top.from, Top.data)
               \/ /\ Top.row = l /\ m_eventGenerated /\ faulted' = TRUE
                  /\ TopBecomes("onExit", Top.row, Top.from, Top.data) /\ Top' = Top
<1>1. TypeOK /\ frames # <<>> /\ Top.at = "onExit"
  BY DEF OnExitDone, In, HierarchyInv, EngineInv
<1>2. Top \in Frame /\ Top.todo \in Seq(States) /\ Top.todo # <<>>
  <2>1. Top \in Frame /\ Top = frames[Len(frames)] /\ Len(frames) \in DOMAIN frames
    BY <1>1, TopIsAFrame
  <2> QED
    BY <1>1, <2>1 DEF Frame, HierarchyInv, Walking
<1>3. Tail(Top.todo) \in Seq(States) /\ (Len(Top.todo) > 1 <=> Tail(Top.todo) # <<>>)
  BY <1>2, TailOf
<1>4. /\ IF Len(Top.todo) > 1
         THEN Update(Walk(Top, "exit", Tail(Top.todo))) /\ UNCHANGED <<machineVars, signalVars, faulted>>
         ELSE BeginEntries(Top)
      /\ UNCHANGED events
  BY DEF OnExitDone, Walk
<1>5. CASE Len(Top.todo) > 1
  <2> DEFINE v == Tail(Top.todo)
             g == Walk(Top, "exit", v)
  <2>1. "exit" \in Callbacks \cup {"loop"} /\ v \in Seq(States)
    BY <1>3 DEF Callbacks
  <2>3. Update(g) /\ UNCHANGED <<machineVars, signalVars, faulted>>
    BY <1>4, <1>5
  <2> HIDE DEF v
  <2>2. /\ g \in Frame /\ g.at = "exit" /\ g.row = Top.row /\ g.from = Top.from
        /\ g.data = Top.data /\ g.todo = v
    BY <1>2, <2>1, FrameWalking
  <2> HIDE DEF g
  <2>4. TopBecomes("exit", Top.row, Top.from, Top.data) /\ Top' = g
    BY <1>1, <2>2, <2>3, UpdatedTop
  <2> QED
    BY <1>3, <1>4, <1>5, <2>2, <2>3, <2>4 DEF v
<1>6. CASE ~(Len(Top.todo) > 1)
  <2> DEFINE r == EntryChain(Top, l)
  <2>1. r = Reverse(Visited(Top.row, l))
    BY DEF EntryChain
  <2>2. \/ (Stops(Top.from, l) = {} \/ Stops(Top.row, l) = {}) /\ Asserts
        \/ /\ Stops(Top.row, l) # {} /\ m_currentState' = Top.row
           /\ UNCHANGED <<m_newState, m_eventGenerated, m_pEventData, signalVars>>
           /\ (r = <<>> <=> Top.row = l)
           /\ r # <<>> => /\ TopBecomes("entry", Top.row, Top.from, Top.data)
                          /\ Top'.todo = r /\ faulted' = faulted
           /\ r = <<>> /\ ~m_eventGenerated =>
                TopBecomes("action", Top.row, Top.from, Top.data) /\ faulted' = faulted
           /\ r = <<>> /\ m_eventGenerated =>
                TopBecomes(Top.at, Top.row, Top.from, Top.data) /\ Top' = Top /\ faulted' = TRUE
    BY <1>1, <1>2, <1>4, <1>6, BeginEntriesMoves
  <2> HIDE DEF r
  <2> QED
    BY <1>1, <1>3, <1>4, <1>6, <2>1, <2>2 DEF Asserts, Stands
<1> QED
  BY <1>5, <1>6

\* Where a slot of OnEntry leaves it.
LEMMA OnEntryMoves ==
  ASSUME HierarchyInv, OnEntryDone
  PROVE  /\ UNCHANGED <<machineVars, events, signalVars>>
         /\ \/ /\ Tail(Top.todo) # <<>> /\ Top'.todo = Tail(Top.todo) /\ faulted' = faulted
               /\ TopBecomes("entry", Top.row, Top.from, Top.data)
            \/ /\ Tail(Top.todo) = <<>> /\ ~m_eventGenerated /\ faulted' = faulted
               /\ TopBecomes("action", Top.row, Top.from, Top.data)
            \/ /\ Tail(Top.todo) = <<>> /\ m_eventGenerated /\ faulted' = TRUE
               /\ TopBecomes("onEntry", Top.row, Top.from, Top.data) /\ Top' = Top
<1>1. TypeOK /\ frames # <<>> /\ Top.at = "onEntry"
  BY DEF OnEntryDone, In, HierarchyInv, EngineInv
<1>2. Top \in Frame /\ Top.todo \in Seq(States) /\ Top.todo # <<>>
  <2>1. Top \in Frame /\ Top = frames[Len(frames)] /\ Len(frames) \in DOMAIN frames
    BY <1>1, TopIsAFrame
  <2> QED
    BY <1>1, <2>1 DEF Frame, HierarchyInv, Walking
<1>3. Tail(Top.todo) \in Seq(States)
  BY <1>2, TailOf
<1>4. Arrive(Top, Tail(Top.todo)) /\ UNCHANGED <<machineVars, events, signalVars>>
  BY DEF OnEntryDone
<1> DEFINE todo == Tail(Top.todo)
<1> HIDE DEF todo
<1>5. todo \in Seq(States) /\ Arrive(Top, todo)
  BY <1>3, <1>4 DEF todo
<1>6. /\ todo # <<>> => /\ TopBecomes("entry", Top.row, Top.from, Top.data)
                        /\ Top'.todo = todo /\ faulted' = faulted
      /\ todo = <<>> /\ ~m_eventGenerated =>
           TopBecomes("action", Top.row, Top.from, Top.data) /\ faulted' = faulted
      /\ todo = <<>> /\ m_eventGenerated =>
           TopBecomes(Top.at, Top.row, Top.from, Top.data) /\ Top' = Top /\ faulted' = TRUE
  BY <1>1, <1>2, <1>5, ArriveMoves
<1> QED
  BY <1>1, <1>4, <1>6 DEF todo

---------------------------------------------------------------------------
(* The types, and a walk that has not ended has a state to reach.           *)

\* Every step is one of the engine, a call, a stray event or stands.
LEMMA StepKinds ==
  ASSUME Next
  PROVE  /\ ~faulted /\ UNCHANGED <<Reenters, ParentState>>
         /\ StateEngine \/ Called \/ StrayCalled \/ Stands
<1>1. ASSUME NEW e \in Events, CallEvent(Resolved(e)) \/ ReenterEvent(Resolved(e))
      PROVE  Called \/ Stands
  BY <1>1, CallKinds
<1> QED
  BY <1>1 DEF Next, StrayCalled

\* The steps of the engine, one by one, and in which frame each runs.
LEMMA EngineKinds ==
  ASSUME StateEngine
  PROVE  /\ frames # <<>>
         /\ \/ Begin \/ SharedSteps \/ Pass
            \/ ExitActionDone \/ OnExitDone \/ EntryActionDone \/ OnEntryDone
  BY DEF StateEngine, SharedSteps, Begin, EngineReturns, GuardVetoes, Pass,
         ExitActionDone, OnExitDone, EntryActionDone, OnEntryDone,
         ActionRaises, ActionReturns, OnTransitionDone, In

\* Nothing but an assertion sets faulted.
LEMMA FaultedStaysBoolean ==
  ASSUME Next, faulted \in BOOLEAN
  PROVE  faulted' \in BOOLEAN
<1>1. ASSUME NEW f, BeginEntries(f)
      PROVE  faulted' \in BOOLEAN
  BY <1>1 DEF BeginEntries, Arrive, Asserts
<1>2. Pass => faulted' \in BOOLEAN
  BY <1>1 DEF Pass, Asserts
<1>3. OnExitDone \/ OnEntryDone => faulted' \in BOOLEAN
  BY <1>1 DEF OnExitDone, OnEntryDone, Arrive
<1> QED
  BY <1>2, <1>3 DEF Next, StateEngine, Begin, EngineReturns, GuardVetoes, ExitActionDone,
     EntryActionDone, ActionRaises, ActionReturns, OnTransitionDone, CallEvent, ReenterEvent,
     ExternalEvent, ExternalEventImpl, StrayRaise, vars

\* A guard that passes leaves a walk to do, or none.
LEMMA PassWalks ==
  ASSUME HierarchyInv, ~faulted, Pass
  PROVE  \/ Stands /\ faulted' = TRUE
         \/ \E at \in {"action", "exit", "entry"} :
              /\ TopBecomes(at, Top.row, m_currentState, Top.data)
              /\ at # "action" => Top'.todo # <<>>
<1> DEFINE l == FindLCA(m_currentState, Top.row)
<1>1. Visited(m_currentState, l) # <<>> \/ m_currentState = l \/ Stops(m_currentState, l) = {}
  <2>1. m_currentState \in States /\ Top.row \in States /\ ParentState \in Columns
    <3>1. TypeOK /\ frames # <<>>
      BY DEF HierarchyInv, EngineInv, Pass, In
    <3> QED
      BY <3>1, TopIsAFrame DEF HierarchyInv, TypeOK, Frame
  <2>2. l \in States \cup {NO_PARENT} /\ Meets(ParentState, m_currentState, l)
    BY <2>1, LCAMeets
  <2> QED
    BY <2>1, <2>2, VisitedOnce
<1> HIDE DEF l
<1>2. l = FindLCA(m_currentState, Top.row)
  BY DEF l
<1> QED
  BY <1>1, <1>2, PassMoves

\* A step of the innermost StateEngine keeps the others' walks.
LEMMA WalksStay ==
  ASSUME HierarchyInv, frames # <<>>, NEW at, NEW row, NEW from, NEW data,
         TopBecomes(at, row, from, data), Walking(Top') => Top'.todo # <<>>
  PROVE  \A i \in DOMAIN frames' : Walking(frames'[i]) => frames'[i].todo # <<>>
<1>1. EngineInv
  BY DEF HierarchyInv
<1>2. /\ DOMAIN frames' = DOMAIN frames /\ Top' = frames'[Len(frames)]
      /\ \A i \in DOMAIN frames : i # Len(frames) => frames'[i] = frames[i]
  BY <1>1, OthersStay
<1> QED
  BY <1>2 DEF HierarchyInv

\* A call puts a StateEngine that walks nowhere on top of the others.
LEMMA CalledFrames ==
  ASSUME EngineInv, Called
  PROVE  /\ frames' # <<>> /\ Top'.at = "loop" /\ m_currentState' = m_currentState
         /\ UNCHANGED <<occupied, lastTransition, faulted>>
         /\ frames = <<>> \/ Top.at \in Reenters
         /\ \A i \in DOMAIN frames' :
              \/ i \in DOMAIN frames /\ frames'[i] = frames[i]
              \/ frames'[i].at = "loop"
<1>1. PICK t \in States : ExternalEventImpl(t) /\ (frames = <<>> \/ Top.at \in Reenters)
  BY DEF Called
<1>2. InternalEvent(t) /\ Enter(NewFrame) /\ UNCHANGED <<signalVars, faulted>>
  BY <1>1 DEF ExternalEventImpl
<1>3. TypeOK /\ frames \in Seq(Frame)
  BY DEF EngineInv, TypeOK
<1>4. /\ frames' # <<>> /\ \A i \in 1 .. Len(frames) : frames'[i] = frames[i]
      /\ DOMAIN frames' = DOMAIN frames \cup {Len(frames) + 1}
      /\ frames'[Len(frames) + 1] = NewFrame /\ Top' = NewFrame /\ NewFrame.at = "loop"
  BY <1>2, <1>3, Entered
<1>5. DOMAIN frames = 1 .. Len(frames)
  BY <1>3, LenProperties
<1> QED
  BY <1>1, <1>2, <1>4, <1>5 DEF InternalEvent, signalVars

\* The constructor establishes the invariant.
LEMMA HierarchyStarts == Init => HierarchyInv
<1> SUFFICES ASSUME Init PROVE HierarchyInv
  OBVIOUS
<1>1. ParentState \in Columns /\ StateMachineInit(AncestorsOrSelf(InitialState))
  BY HSMAssumption DEF Init, Columns
<1>2. AncestorsOrSelf(InitialState) \subseteq States
  <2>1. InitialState \in States
    BY StateMachineAssumption
  <2>2. \A n \in Nat : Chain(ParentState, InitialState, n) \in States \cup {NO_PARENT}
    BY <1>1, <2>1, ChainType
  <2>3. AncestorsOrSelf(InitialState) = Lineage(ParentState, InitialState)
    BY <1>1, <2>1, AncestorsAreTheLineage
  <2> QED
    BY <2>2, <2>3 DEF Lineage
<1>3. EngineInv
  BY <1>1, <1>2, EngineStarts
<1>4. DOMAIN frames = {}
  BY <1>1 DEF StateMachineInit
<1> QED
  BY <1>1, <1>3, <1>4 DEF HierarchyInv

\* Every step of the hierarchical engine keeps it.
LEMMA HierarchyStep == HierarchyInv /\ [Next]_hsmVars => HierarchyInv'
<1> SUFFICES ASSUME HierarchyInv, [Next]_hsmVars PROVE HierarchyInv'
  OBVIOUS
<1>1. EngineInv /\ ParentState \in Columns
  BY DEF HierarchyInv
<1>2. CASE UNCHANGED hsmVars
  BY <1>2 DEF hsmVars, vars, machineVars, signalVars, HierarchyInv, EngineInv, TypeOK, StackInv, DataInv
<1>3. CASE Next
  <2>1. ~faulted /\ Reenters' = Reenters /\ ParentState' = ParentState
        /\ (StateEngine \/ Called \/ StrayCalled \/ Stands)
    BY <1>3, StepKinds
  <2>2. TypeOK /\ StackInv /\ DataInv
    BY <1>1 DEF EngineInv
  <2> SUFFICES /\ EngineInv'
               /\ \A i \in DOMAIN frames' : Walking(frames'[i]) => frames'[i].todo # <<>>
    BY <1>1, <2>1 DEF HierarchyInv, Walking
  <2>3. CASE Stands
    <3>1. faulted' \in BOOLEAN
      BY <1>3, <2>2, FaultedStaysBoolean DEF TypeOK
    <3> QED
      BY <1>1, <2>1, <2>3, <3>1, StandingKeepsEngine DEF Stands, HierarchyInv
  <2>4. CASE Called
    BY <1>1, <2>1, <2>4, CalledKeepsEngine, CalledFrames DEF HierarchyInv, Walking
  <2>5. CASE StrayCalled
    BY <1>1, <2>1, <2>5, StrayKeepsEngine DEF StrayCalled, StrayRaise, HierarchyInv
  <2>6. CASE StateEngine
    <3>1. frames # <<>> /\ Top \in Frame /\ Top = frames[Len(frames)] /\ Len(frames) \in DOMAIN frames
      BY <2>2, <2>6, EngineKinds, TopIsAFrame
    <3>2. /\ Top.at \in Entering => Top.data \in DOMAIN events /\ events[Top.data].target = Top.row
          /\ Walking(Top) => Top.todo # <<>>
      BY <2>2, <3>1 DEF DataInv, HierarchyInv
    <3>3. events \in Seq(Event) /\ Top.row \in States
      BY <2>2, <3>1 DEF TypeOK, Frame
    <3>4. CASE Begin
      <4>1. TopBecomes("guard", m_newState, Top.from, m_pEventData)
        BY <2>2, <3>1, <3>4, Fetched DEF Begin
      <4>2. m_eventGenerated /\ m_eventGenerated' = FALSE /\ m_pEventData' = 0
            /\ UNCHANGED <<m_currentState, m_newState, events, signalVars, faulted>>
        BY <3>4 DEF Begin, Consume
      <4>3. EngineInv'
        BY <1>1, <2>1, <2>2, <3>1, <3>3, <4>1, <4>2, MoveKeepsEngine DEF DataInv, TypeOK, signalVars
      <4>4. ~Walking(Top')
        BY <4>1 DEF TopBecomes, Walking
      <4> QED
        BY <3>1, <4>1, <4>3, <4>4, WalksStay
    <3>5. CASE SharedSteps
      <4>1. EngineInv'
        BY <1>1, <2>1, <3>5, SharedKeepsEngine
      <4>2. CASE EngineReturns
        <5>1. /\ DOMAIN frames' = 1 .. Len(frames) - 1
              /\ \A i \in 1 .. Len(frames) - 1 : frames'[i] = frames[i]
          BY <2>2, <3>1, <4>2, Left DEF EngineReturns
        <5>2. \A i \in 1 .. Len(frames) - 1 : i \in DOMAIN frames
          BY <2>2, <3>1, TopIsAFrame
        <5> QED
          BY <4>1, <5>1, <5>2 DEF HierarchyInv
      <4>3. CASE ~EngineReturns
        <5>1. PICK at \in {"loop", "raised", "onTransition"} : TopBecomes(at, Top.row, Top.from, Top.data)
          BY <1>1, <3>5, <4>3, SharedMoves DEF SharedSteps
        <5>2. ~Walking(Top')
          BY <5>1 DEF TopBecomes, Walking
        <5> QED
          BY <3>1, <4>1, <5>1, <5>2, WalksStay
      <4> QED
        BY <4>2, <4>3
    <3>6. CASE Pass
      <4>1. Top.at = "guard"
        BY <3>6 DEF Pass, In
      <4>2. CASE Stands /\ faulted' = TRUE
        BY <1>1, <2>1, <4>2, StandingKeepsEngine DEF Stands, HierarchyInv
      <4>3. CASE ~(Stands /\ faulted' = TRUE)
        <5>1. PICK at \in {"action", "exit", "entry"} :
                TopBecomes(at, Top.row, m_currentState, Top.data) /\ (at # "action" => Top'.todo # <<>>)
          BY <2>1, <3>6, <4>3, PassWalks
        <5>2. /\ events' = Fate(Top.data, "executed") /\ m_currentState' \in States
              /\ UNCHANGED <<m_newState, m_eventGenerated, m_pEventData, signalVars, faulted>>
          BY <2>1, <2>2, <3>3, <3>6, <4>3, PassMoves DEF TypeOK
        <5>3. /\ events' \in Seq(Event) /\ Len(events') = Len(events)
              /\ \A e \in DOMAIN events : events'[e].target = events[e].target
          BY <1>1, <5>2, FateKeepsTargets
        <5>4. EngineInv'
          BY <1>1, <2>1, <2>2, <3>1, <3>2, <4>1, <5>1, <5>2, <5>3, MoveKeepsEngine
             DEF TypeOK, signalVars, Entering
        <5> QED
          BY <3>1, <5>1, <5>4, WalksStay DEF TopBecomes, Walking
      <4> QED
        BY <4>2, <4>3
    <3>7. CASE ExitActionDone \/ EntryActionDone
      <4>1. PICK at \in {"onExit", "onEntry"} : Goto(at)
        BY <3>7 DEF ExitActionDone, EntryActionDone
      <4>2. Top.at \in {"exit", "entry"} /\ UNCHANGED <<machineVars, events, lastTransition, faulted>>
        BY <3>7 DEF ExitActionDone, EntryActionDone, In
      <4>3. TopBecomes(at, Top.row, Top.from, Top.data) /\ Top'.todo = Top.todo
        BY <2>2, <3>1, <4>1, GoneTop DEF Callbacks
      <4>4. Head(Top.todo) \in States /\ Top.todo # <<>>
        <5>1. Top.todo \in Seq(States) /\ Top.todo # <<>>
          BY <3>1, <3>2, <4>2 DEF Frame, Walking
        <5> QED
          BY <5>1, TailOf
      <4>5. occupied' \subseteq States
        BY <2>2, <3>7, <4>4 DEF ExitActionDone, EntryActionDone, TypeOK
      <4>6. EngineInv'
        BY <1>1, <2>1, <2>2, <3>1, <3>2, <3>3, <4>2, <4>3, <4>5, MoveKeepsEngine
           DEF TypeOK, machineVars, Entering
      <4> QED
        BY <3>1, <4>3, <4>4, <4>6, WalksStay
    <3>8. CASE OnExitDone
      <4>1. Top.at = "onExit"
        BY <3>8 DEF OnExitDone, In
      <4>2. CASE Stands /\ faulted' = TRUE
        BY <1>1, <2>1, <4>2, StandingKeepsEngine DEF Stands, HierarchyInv
      <4>3. CASE ~(Stands /\ faulted' = TRUE)
        <5>1. PICK at \in {"action", "exit", "entry", "onExit"} :
                TopBecomes(at, Top.row, Top.from, Top.data) /\ (at # "action" => Top'.todo # <<>>)
          BY <3>2, <3>8, <4>1, <4>3, OnExitMoves DEF Walking
        <5>2. /\ UNCHANGED <<m_newState, m_eventGenerated, m_pEventData, events, signalVars>>
              /\ m_currentState' \in States /\ faulted' \in BOOLEAN
          BY <2>2, <3>3, <3>8, <4>3, OnExitMoves DEF TypeOK, machineVars
        <5>3. EngineInv'
          BY <1>1, <2>1, <2>2, <3>1, <3>2, <3>3, <4>1, <5>1, <5>2, MoveKeepsEngine
             DEF TypeOK, signalVars, Entering
        <5> QED
          BY <3>1, <5>1, <5>3, WalksStay DEF TopBecomes, Walking
      <4> QED
        BY <4>2, <4>3
    <3>9. CASE OnEntryDone
      <4>1. Top.at = "onEntry"
        BY <3>9 DEF OnEntryDone, In
      <4>2. PICK at \in {"action", "entry", "onEntry"} :
              TopBecomes(at, Top.row, Top.from, Top.data) /\ (at # "action" => Top'.todo # <<>>)
        BY <3>2, <3>9, <4>1, OnEntryMoves DEF Walking
      <4>3. UNCHANGED <<machineVars, events, signalVars>> /\ faulted' \in BOOLEAN
        BY <2>2, <3>9, OnEntryMoves DEF TypeOK
      <4>4. EngineInv'
        BY <1>1, <2>1, <2>2, <3>1, <3>2, <3>3, <4>1, <4>2, <4>3, MoveKeepsEngine
           DEF TypeOK, signalVars, machineVars, Entering
      <4> QED
        BY <3>1, <4>2, <4>4, WalksStay DEF TopBecomes, Walking
    <3> QED
      BY <2>6, <3>4, <3>5, <3>6, <3>7, <3>8, <3>9, EngineKinds
  <2> QED
    BY <2>1, <2>3, <2>4, <2>5, <2>6
<1> QED
  BY <1>2, <1>3

\* Every variable of the machine keeps its type, and a walk that has not ended
\* has a state to reach: StateEngine of the hierarchical machine.
THEOREM TypeCorrect == Spec => []TypeOK
<1>1. HierarchyInv => TypeOK
  BY DEF HierarchyInv, EngineInv
<1> QED
  BY <1>1, HierarchyStarts, HierarchyStep, PTL DEF Spec

---------------------------------------------------------------------------
(* The occupied states.                                                     *)

\* FindLCA in terms of the chains of a column.
Met(P, a, b) == {i \in Steps \ {MAX_HSM_DEPTH} :
                   \E j \in Steps \ {MAX_HSM_DEPTH} : Chain(P, a, i) \in States /\ Chain(P, a, i) = Chain(P, b, j)}
LCA(P, a, b) == IF Met(P, a, b) = {} THEN NO_PARENT ELSE Chain(P, a, Min(Met(P, a, b)))

\* FindLCA is that state.
LEMMA FindLCAIs ==
  ASSUME NEW a, NEW b
  PROVE  Shared(a, b) = Met(ParentState, a, b) /\ FindLCA(a, b) = LCA(ParentState, a, b)
<1>1. \A s : \A n \in Steps : Up(s)[n] = Chain(ParentState, s, n)
  BY UpIsTheChain, StepsAreLevels
<1>2. Shared(a, b) = Met(ParentState, a, b)
  BY <1>1 DEF Shared, Met
<1>3. Steps \subseteq Nat
  BY StepsAreLevels
<1>4. Met(ParentState, a, b) \subseteq Steps
  BY DEF Met
<1>5. Met(ParentState, a, b) # {} => Min(Met(ParentState, a, b)) \in Steps
  BY <1>3, <1>4, MinIsLeast
<1> QED
  BY <1>1, <1>2, <1>5 DEF FindLCA, LCA

\* While no walk is in progress the occupied states are the current state and its
\* ancestors; a walk up still has to leave its todo, a walk down to enter it.
ConfigurationInv ==
  WalksAlone =>
    /\ frames = <<>> \/ ~Walking(Top) => occupied = Lineage(ParentState, m_currentState)
    /\ In("exit") => Exits(ParentState, Top.todo, LCA(ParentState, Top.from, Top.row), occupied)
    /\ In("onExit") => Exits(ParentState, Tail(Top.todo), LCA(ParentState, Top.from, Top.row), occupied)
    /\ In("entry") \/ In("onEntry") => m_currentState = Top.row
    /\ In("entry") => Enters(ParentState, Top.todo, Top.row, occupied)
    /\ In("onEntry") => Enters(ParentState, Tail(Top.todo), Top.row, occupied)
    /\ Closed(ParentState, occupied)

\* What a lineage of states holds is closed.
LEMMA LineageKeepsParents ==
  ASSUME NEW P \in Columns, NEW s \in States \cup {NO_PARENT}
  PROVE  Lineage(P, s) \subseteq States /\ Closed(P, Lineage(P, s))
<1>1. Lineage(P, s) \subseteq States
  BY ChainType DEF Lineage
<1> QED
  BY <1>1, LineageIsClosed DEF Closed

\* Nothing left to exit, or to enter.
LEMMA NothingLeft ==
  ASSUME NEW P, NEW l, NEW occ
  PROVE  /\ Exits(P, <<>>, l, occ) => occ = Lineage(P, l)
         /\ Enters(P, <<>>, l, occ) => occ = Lineage(P, l)
<1>1. Range(<<>>) = {}
  BY DEF Range
<1> QED
  BY <1>1 DEF Exits, Enters

\* The occupied states as a step leaves them, of the innermost StateEngine.
LEMMA ConfigurationStep == HierarchyInv /\ ConfigurationInv /\ [Next]_hsmVars => ConfigurationInv'
<1> SUFFICES ASSUME HierarchyInv, ConfigurationInv, [Next]_hsmVars PROVE ConfigurationInv'
  OBVIOUS
<1>1. EngineInv /\ ParentState \in Columns
  BY DEF HierarchyInv
<1>2. CASE UNCHANGED hsmVars
  BY <1>2 DEF hsmVars, vars, machineVars, signalVars, ConfigurationInv, WalksAlone, In, Top, Walking
<1>3. CASE Next
  <2>1. ~faulted /\ Reenters' = Reenters /\ ParentState' = ParentState
        /\ (StateEngine \/ Called \/ StrayCalled \/ Stands)
    BY <1>3, StepKinds
  <2> DEFINE P == ParentState
             Aside == {"exit", "onExit", "entry", "onEntry"}
  <2> SUFFICES ASSUME WalksAlone
               PROVE  /\ frames' = <<>> \/ Top'.at \notin Aside => occupied' = Lineage(P, m_currentState')
                      /\ frames' # <<>> /\ Top'.at = "exit" =>
                           Exits(P, Top'.todo, LCA(P, Top'.from, Top'.row), occupied')
                      /\ frames' # <<>> /\ Top'.at = "onExit" =>
                           Exits(P, Tail(Top'.todo), LCA(P, Top'.from, Top'.row), occupied')
                      /\ frames' # <<>> /\ Top'.at \in {"entry", "onEntry"} => m_currentState' = Top'.row
                      /\ frames' # <<>> /\ Top'.at = "entry" => Enters(P, Top'.todo, Top'.row, occupied')
                      /\ frames' # <<>> /\ Top'.at = "onEntry" => Enters(P, Tail(Top'.todo), Top'.row, occupied')
                      /\ Closed(P, occupied')
    BY <2>1 DEF ConfigurationInv, WalksAlone, In, Walking
  <2>2. /\ frames = <<>> \/ Top.at \notin Aside => occupied = Lineage(P, m_currentState)
        /\ frames # <<>> /\ Top.at = "exit" => Exits(P, Top.todo, LCA(P, Top.from, Top.row), occupied)
        /\ frames # <<>> /\ Top.at = "onExit" =>
             Exits(P, Tail(Top.todo), LCA(P, Top.from, Top.row), occupied)
        /\ frames # <<>> /\ Top.at \in {"entry", "onEntry"} => m_currentState = Top.row
        /\ frames # <<>> /\ Top.at = "entry" => Enters(P, Top.todo, Top.row, occupied)
        /\ frames # <<>> /\ Top.at = "onEntry" => Enters(P, Tail(Top.todo), Top.row, occupied)
        /\ Closed(P, occupied)
    BY DEF ConfigurationInv, In, Walking
  <2>3. Reenters \cap Aside = {}
    BY DEF WalksAlone
  <2> HIDE DEF P
  <2>4. CASE Stands \/ StrayCalled
    <3>1. frames' = frames /\ occupied' = occupied /\ m_currentState' = m_currentState /\ Top' = Top
      BY <2>4 DEF Stands, StrayCalled, StrayRaise, InternalEvent, signalVars, machineVars, Top
    <3> QED
      BY <2>2, <3>1
  <2>5. CASE Called
    <3>1. /\ frames' # <<>> /\ Top'.at = "loop" /\ m_currentState' = m_currentState
          /\ occupied' = occupied /\ (frames = <<>> \/ Top.at \in Reenters)
      BY <1>1, <2>5, CalledFrames
    <3> QED
      BY <2>2, <2>3, <3>1
  <2>6. CASE StateEngine
    <3>1. TypeOK /\ frames # <<>> /\ Top \in Frame /\ Len(frames) \in DOMAIN frames /\ Top = frames[Len(frames)]
      BY <1>1, <2>6, EngineKinds, TopIsAFrame DEF EngineInv
    <3>2. /\ Top.row \in States /\ Top.from \in States /\ m_currentState \in States
          /\ Top.todo \in Seq(States) /\ occupied \subseteq States
      BY <3>1 DEF TypeOK, Frame
    <3>3. Top.at \in Aside => Top.todo # <<>>
      BY <3>1 DEF HierarchyInv, Walking
    <3>4. \A at, row, from, data : TopBecomes(at, row, from, data) =>
            /\ frames' # <<>> /\ Top'.at = at /\ Top'.row = row /\ Top'.from = from
      BY DEF TopBecomes
    <3>5. P \in Columns /\ (\A a, b : FindLCA(a, b) = LCA(P, a, b))
      BY <1>1, FindLCAIs DEF P
    <3>6. CASE Begin
      <4>1. TopBecomes("guard", m_newState, Top.from, m_pEventData)
        BY <1>1, <3>1, <3>6, Fetched DEF Begin, EngineInv
      <4>2. Top.at = "loop" /\ m_currentState' = m_currentState /\ occupied' = occupied
        BY <3>6 DEF Begin, In, signalVars
      <4> QED
        BY <2>2, <3>1, <3>4, <4>1, <4>2
    <3>7. CASE SharedSteps
      <4>1. Top.at \notin Aside /\ m_currentState' = m_currentState /\ occupied' = occupied
        BY <3>7 DEF SharedSteps, EngineReturns, GuardVetoes, ActionRaises, ActionReturns,
           OnTransitionDone, In, signalVars, machineVars, InternalEvent
      <4>2. frames' = <<>> \/ Top'.at \notin Aside
        <5>1. CASE EngineReturns
          BY <1>1, <2>3, <3>1, <5>1, Uncovered DEF EngineReturns
        <5>2. CASE ~EngineReturns
          <6>1. PICK at \in {"loop", "raised", "onTransition"} :
                  TopBecomes(at, Top.row, Top.from, Top.data)
            BY <1>1, <3>7, <5>2, SharedMoves DEF SharedSteps
          <6> QED
            BY <3>4, <6>1
        <5> QED
          BY <5>1, <5>2
      <4> QED
        BY <2>2, <3>1, <4>1, <4>2
    <3>8. CASE Pass
      <4> DEFINE c == m_currentState
                 l == LCA(P, c, Top.row)
      <4>1. Top.at = "guard" /\ occupied = Lineage(P, c)
        BY <2>2, <3>1, <3>8 DEF Pass, In
      <4>2. l = FindLCA(m_currentState, Top.row)
        BY <3>5
      <4>3. /\ l \in States \cup {NO_PARENT} /\ Meets(P, c, l) /\ Meets(P, Top.row, l)
            /\ ~FindLCAAsserts(c, Top.row) /\ c # l => \E t \in Nat : Chain(P, c, t) = NO_PARENT
        BY <1>1, <3>2, <4>2, LCAMeets DEF P
      <4> HIDE DEF l
      <4>4. CASE Stands
        <5>1. frames' = frames /\ occupied' = occupied /\ m_currentState' = m_currentState /\ Top' = Top
          BY <4>4 DEF Stands, signalVars, machineVars, Top
        <5> QED
          BY <2>2, <5>1
      <4>5. CASE /\ TopBecomes("action", Top.row, m_currentState, Top.data)
                 /\ UNCHANGED <<m_currentState, signalVars>>
        BY <2>2, <3>1, <3>4, <4>1, <4>5 DEF signalVars
      <4>6. CASE /\ c # l /\ ~FindLCAAsserts(c, Top.row) /\ Stops(c, l) # {}
                 /\ TopBecomes("exit", Top.row, c, Top.data) /\ Top'.todo = Visited(c, l)
                 /\ UNCHANGED <<m_currentState, signalVars>>
        <5>1. /\ Climbs(P, Visited(c, l), l)
              /\ Lineage(P, c) = Range(Visited(c, l)) \cup Lineage(P, l)
              /\ Once(Visited(c, l)) /\ Range(Visited(c, l)) \cap Lineage(P, l) = {}
          BY <1>1, <3>2, <4>3, <4>6, VisitedOnce DEF P
        <5>2. Exits(P, Visited(c, l), l, occupied)
          BY <4>1, <5>1 DEF Exits
        <5> QED
          BY <2>2, <3>4, <4>6, <5>2 DEF signalVars, l
      <4>7. CASE /\ c = l /\ Stops(Top.row, l) # {}
                 /\ TopBecomes("entry", Top.row, c, Top.data)
                 /\ Top'.todo = Reverse(Visited(Top.row, l)) /\ m_currentState' = Top.row
                 /\ UNCHANGED signalVars
        <5>1. Enters(P, Reverse(Visited(Top.row, l)), Top.row, Lineage(P, l))
          BY <1>1, <3>2, <4>3, <4>7, EntryStarts DEF P
        <5> QED
          BY <2>2, <3>4, <4>1, <4>7, <5>1 DEF signalVars
      <4> QED
        BY <2>1, <3>8, <4>2, <4>4, <4>5, <4>6, <4>7, PassMoves
    <3>9. CASE ExitActionDone
      <4> DEFINE v == Top.todo
                 l == LCA(P, Top.from, Top.row)
      <4>1. Top.at = "exit" /\ Goto("onExit") /\ occupied' = occupied \ {Head(v)}
            /\ m_currentState' = m_currentState
        BY <3>9 DEF ExitActionDone, In, machineVars
      <4>2. TopBecomes("onExit", Top.row, Top.from, Top.data) /\ Top'.todo = v
        BY <3>1, <4>1, GoneTop DEF Callbacks
      <4>3. v \in Seq(States) /\ v # <<>> /\ Exits(P, v, l, occupied)
        BY <2>2, <3>1, <3>2, <3>3, <4>1
      <4>4. l \in States \cup {NO_PARENT}
        BY <1>1, <3>2, <3>5, LCAMeets
      <4> HIDE DEF v, l
      <4>5. Exits(P, Tail(v), l, occupied') /\ Tail(v) \in Seq(States)
        BY <4>1, <4>3, ExitOne, TailOf
      <4>6. Closed(P, occupied')
        <5>1. occupied' \subseteq States
          BY <3>2, <4>1
        <5> DEFINE w == Tail(v)
        <5> HIDE DEF w
        <5>2. w \in Seq(States) /\ Exits(P, w, l, occupied')
          BY <4>5 DEF w
        <5> QED
          BY <4>4, <5>1, <5>2, ExitsKeepsParents
      <4> QED
        BY <3>4, <4>2, <4>5, <4>6 DEF v, l
    <3>10. CASE OnExitDone
      <4> DEFINE l == LCA(P, Top.from, Top.row)
      <4>1. Top.at = "onExit" /\ Exits(P, Tail(Top.todo), l, occupied)
        BY <2>2, <3>1, <3>10 DEF OnExitDone, In
      <4>2. l = FindLCA(Top.from, Top.row)
        BY <3>5
      <4>3. l \in States \cup {NO_PARENT} /\ Meets(P, Top.row, l)
        BY <1>1, <3>2, <4>2, LCAMeets DEF P
      <4> HIDE DEF l
      <4>4. CASE Stands
        <5>1. frames' = frames /\ occupied' = occupied /\ m_currentState' = m_currentState /\ Top' = Top
          BY <4>4 DEF Stands, signalVars, machineVars, Top
        <5> QED
          BY <2>2, <5>1
      <4>5. CASE /\ TopBecomes("exit", Top.row, Top.from, Top.data) /\ Top'.todo = Tail(Top.todo)
                 /\ UNCHANGED <<machineVars, signalVars>>
        BY <2>2, <3>4, <4>1, <4>5 DEF signalVars, machineVars, l
      <4>6. CASE /\ Tail(Top.todo) = <<>> /\ Stops(Top.row, l) # {} /\ m_currentState' = Top.row
                 /\ UNCHANGED signalVars
                 /\ \/ /\ TopBecomes("entry", Top.row, Top.from, Top.data)
                       /\ Top'.todo = Reverse(Visited(Top.row, l))
                    \/ Top.row = l /\ TopBecomes("action", Top.row, Top.from, Top.data)
                    \/ /\ Top.row = l /\ TopBecomes("onExit", Top.row, Top.from, Top.data)
                       /\ Top' = Top
        <5>1. occupied = Lineage(P, l) /\ occupied' = occupied
          BY <4>1, <4>6, NothingLeft DEF signalVars
        <5>2. Enters(P, Reverse(Visited(Top.row, l)), Top.row, Lineage(P, l))
          BY <1>1, <3>2, <4>3, <4>6, EntryStarts DEF P
        <5>3. CASE /\ TopBecomes("entry", Top.row, Top.from, Top.data)
                   /\ Top'.todo = Reverse(Visited(Top.row, l))
          BY <2>2, <3>4, <4>6, <5>1, <5>2, <5>3
        <5>4. CASE Top.row = l /\ TopBecomes("action", Top.row, Top.from, Top.data)
          BY <2>2, <3>4, <4>6, <5>1, <5>4
        <5>5. CASE /\ Top.row = l /\ TopBecomes("onExit", Top.row, Top.from, Top.data)
                   /\ Top' = Top
          BY <2>2, <3>4, <4>1, <4>6, <5>1, <5>5 DEF l
        <5> QED
          BY <4>6, <5>3, <5>4, <5>5
      <4> QED
        BY <3>10, <4>2, <4>4, <4>5, <4>6, OnExitMoves
    <3>11. CASE EntryActionDone
      <4> DEFINE v == Top.todo
      <4>1. Top.at = "entry" /\ Goto("onEntry") /\ occupied' = occupied \cup {Head(v)}
            /\ m_currentState' = m_currentState
        BY <3>11 DEF EntryActionDone, In, machineVars
      <4>2. TopBecomes("onEntry", Top.row, Top.from, Top.data) /\ Top'.todo = v
        BY <3>1, <4>1, GoneTop DEF Callbacks
      <4>3. v \in Seq(States) /\ v # <<>> /\ Enters(P, v, Top.row, occupied)
        BY <2>2, <3>1, <3>2, <3>3, <4>1
      <4>4. m_currentState = Top.row
        BY <2>2, <3>1, <4>1
      <4> HIDE DEF v
      <4>5. Enters(P, Tail(v), Top.row, occupied') /\ P[Head(v)] \in occupied \cup {NO_PARENT}
        BY <4>1, <4>3, EnterOne
      <4>6. Closed(P, occupied')
        BY <2>2, <4>1, <4>5 DEF Closed
      <4> QED
        BY <3>4, <4>1, <4>2, <4>4, <4>5, <4>6 DEF v
    <3>12. CASE OnEntryDone
      <4>1. Top.at = "onEntry" /\ Enters(P, Tail(Top.todo), Top.row, occupied) /\ m_currentState = Top.row
        BY <2>2, <3>1, <3>12 DEF OnEntryDone, In
      <4>2. m_currentState' = m_currentState /\ occupied' = occupied
        BY <3>12, OnEntryMoves DEF machineVars, signalVars
      <4>3. CASE /\ Top'.todo = Tail(Top.todo)
                 /\ TopBecomes("entry", Top.row, Top.from, Top.data)
        BY <2>2, <3>4, <4>1, <4>2, <4>3
      <4>4. CASE Tail(Top.todo) = <<>> /\ TopBecomes("action", Top.row, Top.from, Top.data)
        <5>1. occupied = Lineage(P, Top.row)
          BY <4>1, <4>4, NothingLeft
        <5> QED
          BY <2>2, <3>4, <4>1, <4>2, <4>4, <5>1
      <4>5. CASE TopBecomes("onEntry", Top.row, Top.from, Top.data) /\ Top' = Top
        BY <2>2, <3>4, <4>1, <4>2, <4>5
      <4> QED
        BY <3>12, <4>3, <4>4, <4>5, OnEntryMoves
    <3> QED
      BY <2>6, <3>6, <3>7, <3>8, <3>9, <3>10, <3>11, <3>12, EngineKinds
  <2> QED
    BY <2>1, <2>4, <2>5, <2>6
<1> QED
  BY <1>2, <1>3

\* The constructor leaves the initial state and its ancestors occupied.
LEMMA ConfigurationStarts == Init => ConfigurationInv
<1> SUFFICES ASSUME Init PROVE ConfigurationInv
  OBVIOUS
<1>1. /\ ParentState \in Columns /\ frames = <<>> /\ m_currentState = InitialState
      /\ occupied = AncestorsOrSelf(InitialState) /\ InitialState \in States
  BY HSMAssumption, StateMachineAssumption DEF Init, Columns, StateMachineInit
<1>2. occupied = Lineage(ParentState, InitialState)
  BY <1>1, AncestorsAreTheLineage
<1>3. Closed(ParentState, occupied)
  BY <1>1, <1>2, LineageKeepsParents
<1> QED
  BY <1>1, <1>2, <1>3 DEF ConfigurationInv, In

\* The walks leave and enter exactly the states that differ: on any column, with
\* any number of nested calls from callbacks that are in no walk.
LEMMA ConfigurationHolds == Spec => [](HierarchyInv /\ ConfigurationInv)
BY HierarchyStarts, HierarchyStep, ConfigurationStarts, ConfigurationStep, PTL DEF Spec

\* While no walk is in progress the occupied states are the current state and its
\* ancestors: what a subscriber that pairs OnExit with OnEntry sees.
THEOREM ConfigurationIsExact == Spec => []ConfigurationExact
<1>1. ASSUME HierarchyInv, ConfigurationInv
      PROVE  ConfigurationExact
  <2> SUFFICES ASSUME WalksAlone, \A i \in DOMAIN frames : ~Walking(frames[i])
               PROVE  occupied = AncestorsOrSelf(m_currentState)
    BY DEF ConfigurationExact
  <2>1. TypeOK /\ ParentState \in Columns
    BY <1>1 DEF HierarchyInv, EngineInv
  <2>2. frames = <<>> \/ ~Walking(Top)
    BY <2>1, TopIsAFrame
  <2>3. m_currentState \in States
    BY <2>1 DEF TypeOK
  <2> QED
    BY <1>1, <2>1, <2>2, <2>3, AncestorsAreTheLineage DEF ConfigurationInv
<1> QED
  BY <1>1, ConfigurationHolds, PTL

\* Not even in the middle of a transition is a state occupied whose parent is not,
\* and no occupied state is entered a second time.
THEOREM ParentsStayOccupied == Spec => []ParentsOccupied
<1>1. ASSUME HierarchyInv, ConfigurationInv
      PROVE  ParentsOccupied
  <2> SUFFICES ASSUME WellFormed, WalksAlone
               PROVE  /\ \A s \in occupied : ParentState[s] \in occupied \cup {NO_PARENT}
                      /\ In("entry") => Head(Top.todo) \notin occupied
    BY DEF ParentsOccupied
  <2>1. \A s \in occupied : ParentState[s] \in occupied \cup {NO_PARENT}
    BY <1>1 DEF ConfigurationInv, Closed
  <2>2. ASSUME In("entry")
        PROVE  Head(Top.todo) \notin occupied
    <3>1. TypeOK /\ frames # <<>> /\ Top.at = "entry"
      BY <1>1, <2>2 DEF HierarchyInv, EngineInv, In
    <3>2. Top \in Frame /\ Top = frames[Len(frames)] /\ Len(frames) \in DOMAIN frames
      BY <3>1, TopIsAFrame
    <3>3. Top.todo \in Seq(States) /\ Top.todo # <<>>
      BY <1>1, <3>1, <3>2 DEF HierarchyInv, Walking, Frame
    <3>4. Enters(ParentState, Top.todo, Top.row, occupied) /\ TopsOut(ParentState)
      BY <1>1, <2>2, WellFormedTopsOut DEF ConfigurationInv
    <3> QED
      BY <3>3, <3>4, EnterOne
  <2> QED
    BY <2>1, <2>2
<1> QED
  BY <1>1, ConfigurationHolds, PTL

\* FindLCA fails on no well-formed map, and returns the deepest state that is
\* above or equal to both its arguments, NO_PARENT when there is none.
THEOREM LCAIsDeepest == Spec => []FindLCACorrect
<1>1. ASSUME HierarchyInv
      PROVE  FindLCACorrect
  <2> SUFFICES ASSUME WellFormed, NEW a \in States, NEW b \in States
               PROVE  LET common == AncestorsOrSelf(a) \cap AncestorsOrSelf(b)
                          lca    == FindLCA(a, b)
                      IN  /\ ~FindLCAAsserts(a, b)
                          /\ IF common = {} THEN lca = NO_PARENT
                             ELSE lca \in common /\ common \subseteq AncestorsOrSelf(lca)
    BY DEF FindLCACorrect
  <2> DEFINE P == ParentState
             common == Lineage(P, a) \cap Lineage(P, b)
             l == LCA(P, a, b)
             m == Min(Met(P, a, b))
  <2>1. P \in Columns /\ ReachesTop(a) /\ ReachesTop(b)
    BY <1>1 DEF HierarchyInv, WellFormed
  <2>2. ~FindLCAAsserts(a, b) /\ FindLCA(a, b) = l /\ l \in States \cup {NO_PARENT}
    <3>1. FindLCA(a, b) \in States \cup {NO_PARENT}
      BY <2>1, LCAMeets
    <3> QED
      BY <2>1, <3>1, FindLCAIs DEF FindLCAAsserts
  <2>3. Steps = 0 .. MAX_HSM_DEPTH /\ MAX_HSM_DEPTH \in Nat /\ Met(P, a, b) \subseteq Nat
    BY HSMAssumption DEF Steps, Met
  <2>4. ASSUME NEW s \in {a, b}, NEW i \in Nat, Chain(P, s, i) # NO_PARENT
        PROVE  i \in Steps \ {MAX_HSM_DEPTH} /\ Chain(P, s, i) \in States
    <3>1. PICK n \in Steps : Chain(P, s, n) = NO_PARENT
      BY <2>1, ReachesTopMeans
    <3>2. ~(n <= i)
      BY <2>3, <2>4, <3>1, ChainStays
    <3>3. Chain(P, s, i) \in States
      BY <2>1, <2>4, ChainType
    <3> QED
      BY <2>3, <3>1, <3>2, <3>3
  <2> HIDE DEF P
  <2>5. ASSUME NEW x \in common
        PROVE  \E i \in Met(P, a, b) : x = Chain(P, a, i)
    <3>1. PICK i \in Nat, j \in Nat : x = Chain(P, a, i) /\ x = Chain(P, b, j) /\ x # NO_PARENT
      BY DEF Lineage
    <3>2. i \in Steps \ {MAX_HSM_DEPTH} /\ j \in Steps \ {MAX_HSM_DEPTH} /\ x \in States
      BY <2>4, <3>1
    <3> QED
      BY <3>1, <3>2 DEF Met
  <2>6. ASSUME Met(P, a, b) # {}
        PROVE  l \in common /\ common \subseteq Lineage(P, l)
    <3>1. m \in Met(P, a, b) /\ m \in Nat /\ \A n \in Met(P, a, b) : m <= n
      BY <2>3, <2>6, MinIsLeast
    <3>2. l = Chain(P, a, m)
      BY <2>6 DEF LCA
    <3> HIDE DEF m, l
    <3>3. PICK j \in Steps : l \in States /\ l = Chain(P, b, j)
      BY <3>1, <3>2 DEF Met
    <3>4. l \in common
      <4>1. l # NO_PARENT /\ j \in Nat
        BY <2>3, <3>3, NoParentIsNoState
      <4>2. l \in Lineage(P, a)
        BY <3>1, <3>2, <4>1 DEF Lineage
      <4>3. l \in Lineage(P, b)
        BY <3>3, <4>1 DEF Lineage
      <4> QED
        BY <4>2, <4>3
    <3>5. ASSUME NEW x \in common
          PROVE  x \in Lineage(P, l)
      <4>1. PICK i \in Met(P, a, b) : x = Chain(P, a, i)
        BY <2>5
      <4>2. i \in Nat /\ m <= i
        BY <2>3, <3>1
      <4>3. PICK k \in Nat : i = m + k
        <5>1. i - m \in Nat /\ i = m + (i - m)
          BY <3>1, <4>2
        <5> QED
          BY <5>1
      <4>4. Chain(P, a, m + k) = Chain(P, Chain(P, a, m), k)
        BY <3>1, ChainSum
      <4>5. x # NO_PARENT
        BY DEF Lineage
      <4> QED
        BY <3>2, <4>1, <4>3, <4>4, <4>5 DEF Lineage
    <3> QED
      BY <3>4, <3>5
  <2>7. Met(P, a, b) = {} => common = {} /\ l = NO_PARENT
    BY <2>5 DEF LCA
  <2>8. AncestorsOrSelf(a) = Lineage(P, a) /\ AncestorsOrSelf(b) = Lineage(P, b)
        /\ AncestorsOrSelf(l) = Lineage(P, l)
    BY <2>1, <2>2, AncestorsAreTheLineage DEF P
  <2> HIDE DEF l
  <2> QED
    BY <2>2, <2>6, <2>7, <2>8
<1> QED
  BY <1>1, ConfigurationHolds, PTL

\* Between transitions an event goes to the innermost occupied state that does not
\* propagate it: on any column, with a cycle or deeper than the walks go.
THEOREM InnermostHandles == Spec => []InnermostHandler
<1>1. ASSUME HierarchyInv, ConfigurationInv
      PROVE  InnermostHandler
  <2> DEFINE P == ParentState
             c == m_currentState
  <2> SUFFICES ASSUME AtRest, WalksAlone, NEW e \in Events
               PROVE  LET able == {s \in occupied : Transitions[e][s] # PROPAGATE_TO_PARENT}
                      IN  IF able = {} THEN Resolved(e) = EVENT_IGNORED
                          ELSE \E s \in able : able \subseteq AncestorsOrSelf(s) /\ Resolved(e) = Transitions[e][s]
    BY DEF InnermostHandler
  <2> DEFINE able == {s \in occupied : Transitions[e][s] # PROPAGATE_TO_PARENT}
             h == Handlers(e)
             m == Min(h)
  <2>1. P \in Columns /\ c \in States /\ occupied = Lineage(P, c)
    BY <1>1 DEF HierarchyInv, EngineInv, TypeOK, ConfigurationInv, AtRest
  <2>2. /\ Levels \subseteq Nat
        /\ \A n \in Levels : Up(c)[n] = Chain(P, c, n)
    BY UpIsTheChain, StepsAreLevels
  <2>3. h = {n \in Levels : Chain(P, c, n) \in States /\ Transitions[e][Chain(P, c, n)] # PROPAGATE_TO_PARENT}
    BY <2>2 DEF Handlers
  <2>4. Resolved(e) = IF h = {} THEN EVENT_IGNORED ELSE Transitions[e][Up(c)[m]]
    BY DEF Resolved
  <2>5. \A s \in States \cup {NO_PARENT} : AncestorsOrSelf(s) = Lineage(P, s)
    BY <2>1, AncestorsAreTheLineage
  <2> HIDE DEF h, P, c
  <2>6. ASSUME NEW x \in able
        PROVE  \E n \in h : x = Chain(P, c, n)
    <3>1. PICK n \in Nat : x = Chain(P, c, n) /\ x # NO_PARENT
      BY <2>1 DEF Lineage
    <3>2. PICK k \in Levels : Chain(P, c, k) = Chain(P, c, n)
      BY <2>1, <3>1, LevelsSuffice
    <3>3. x \in States
      BY <2>1, <3>1, ChainType
    <3> QED
      BY <2>3, <3>1, <3>2, <3>3
  <2>7. CASE h = {}
    BY <2>4, <2>6, <2>7
  <2>8. CASE h # {}
    <3>1. m \in h /\ m \in Nat /\ \A n \in h : m <= n
      BY <2>2, <2>3, <2>8, MinIsLeast
    <3> HIDE DEF m
    <3> DEFINE s == Chain(P, c, m)
    <3>2. s \in States /\ Transitions[e][s] # PROPAGATE_TO_PARENT /\ Resolved(e) = Transitions[e][s]
      BY <2>2, <2>3, <2>4, <2>8, <3>1
    <3>3. s \in able
      BY <2>1, <3>1, <3>2, NoParentIsNoState DEF Lineage
    <3>4. ASSUME NEW x \in able
          PROVE  x \in Lineage(P, s)
      <4>1. PICK n \in h : x = Chain(P, c, n)
        BY <2>6
      <4>2. n \in Nat /\ m <= n
        BY <2>2, <2>3, <3>1
      <4>3. PICK k \in Nat : n = m + k
        <5>1. n - m \in Nat /\ n = m + (n - m)
          BY <3>1, <4>2
        <5> QED
          BY <5>1
      <4>4. Chain(P, c, m + k) = Chain(P, s, k)
        BY <3>1, ChainSum
      <4>5. x # NO_PARENT
        BY <2>1 DEF Lineage
      <4> QED
        BY <4>1, <4>3, <4>4, <4>5 DEF Lineage
    <3> HIDE DEF s
    <3>5. able \subseteq AncestorsOrSelf(s)
      BY <2>5, <3>2, <3>4
    <3> QED
      BY <3>2, <3>3, <3>5
  <2> QED
    BY <2>7, <2>8
<1> QED
  BY <1>1, ConfigurationHolds, PTL

---------------------------------------------------------------------------
(* A transition that has begun to leave states does not stop half-way.      *)

\* Up from s the walk ends: at l or above the top.
Ends(P, s, l) == \E n \in Steps : Chain(P, s, n) \in {l, NO_PARENT}

\* When FindLCA does not fail and the current state is to be left, the walk down
\* to the new state fits, whatever the map.
LEMMA EntryFits ==
  ASSUME ParentState \in Columns, NEW a \in States, NEW b \in States,
         ~FindLCAAsserts(a, b), a # LCA(ParentState, a, b)
  PROVE  Ends(ParentState, b, LCA(ParentState, a, b))
<1>1. FindLCA(a, b) = LCA(ParentState, a, b)
  BY FindLCAIs
<1>2. ReachesTop(b) => Ends(ParentState, b, LCA(ParentState, a, b))
  BY ReachesTopMeans DEF Ends
<1>3. CASE Shared(a, b) = {}
  BY <1>2, <1>3 DEF FindLCAAsserts
<1>4. CASE Shared(a, b) # {} /\ 0 \notin Shared(a, b)
  BY <1>2, <1>4 DEF FindLCAAsserts
<1>5. CASE 0 \in Shared(a, b)
  <2> DEFINE m == Min(Shared(a, b))
  <2>1. Shared(a, b) \subseteq Nat
    BY StepsAreLevels DEF Shared
  <2>2. m \in Nat /\ m <= 0
    BY <1>5, <2>1, MinIsLeast
  <2>3. m = 0
    BY <2>2
  <2>4. FindLCA(a, b) = Up(a)[0]
    BY <1>5, <2>3 DEF FindLCA
  <2>5. Up(a)[0] = a
    BY StepsAreLevels, UpIsTheChain, ChainStep
  <2> QED
    BY <1>1, <2>4, <2>5
<1> QED
  BY <1>3, <1>4, <1>5

\* Both walks of a transition end.
BothEnd(P, a, b) == Ends(P, a, LCA(P, a, b)) /\ Ends(P, b, LCA(P, a, b))

\* While states are left the walk up is known to end and the one down to fit, so
\* that no assertion fails between the first exit and the last entry.
HalfwayInv ==
  WalksAlone =>
    /\ In("exit") \/ In("onExit") => BothEnd(ParentState, Top.from, Top.row)
    /\ faulted /\ ~m_eventGenerated => frames = <<>> \/ ~Walking(Top)

\* The step of an event function: it finds no walk, or every walk is the top's.
LEMMA HalfwayStep == HierarchyInv /\ HalfwayInv /\ [Next]_hsmVars => HalfwayInv'
<1> SUFFICES ASSUME HierarchyInv, HalfwayInv, [Next]_hsmVars PROVE HalfwayInv'
  OBVIOUS
<1>1. EngineInv /\ ParentState \in Columns
  BY DEF HierarchyInv
<1>2. CASE UNCHANGED hsmVars
  BY <1>2 DEF hsmVars, vars, machineVars, signalVars, HalfwayInv, WalksAlone, In, Top, Walking
<1>3. CASE Next
  <2>1. ~faulted /\ Reenters' = Reenters /\ ParentState' = ParentState
    BY <1>3, StepKinds
  <2> DEFINE P == ParentState
             Aside == {"exit", "onExit", "entry", "onEntry"}
  <2> SUFFICES ASSUME WalksAlone
               PROVE  /\ frames' # <<>> /\ Top'.at \in {"exit", "onExit"} =>
                           BothEnd(P, Top'.from, Top'.row)
                      /\ faulted' /\ ~m_eventGenerated' => frames' = <<>> \/ Top'.at \notin Aside
    BY <2>1 DEF HalfwayInv, WalksAlone, In, Walking
  <2>2. frames # <<>> /\ Top.at \in {"exit", "onExit"} => BothEnd(P, Top.from, Top.row)
    BY DEF HalfwayInv, In
  <2>3. Reenters \cap Aside = {}
    BY DEF WalksAlone
  <2> HIDE DEF P
  <2>4. ASSUME NEW e \in Events, CallEvent(Resolved(e)) \/ ReenterEvent(Resolved(e))
        PROVE  frames' = <<>> \/ Top'.at \notin Aside
    <3>1. CASE Called
      BY <1>1, <3>1, CalledFrames
    <3>2. CASE Stands
      <4>1. frames = <<>> \/ Top.at \in Reenters
        BY <2>4 DEF CallEvent, ReenterEvent, In
      <4>2. frames' = frames /\ Top' = Top
        BY <3>2 DEF Stands, Top
      <4> QED
        BY <2>3, <4>1, <4>2
    <3> QED
      BY <2>4, <3>1, <3>2, CallKinds
  <2>5. ASSUME NEW t \in States, StrayRaise(t)
        PROVE  frames' = frames /\ Top' = Top /\ m_eventGenerated' = TRUE
    BY <2>5 DEF StrayRaise, InternalEvent, Top
  <2>6. CASE StateEngine
    <3>1. TypeOK /\ frames # <<>> /\ Top \in Frame /\ Len(frames) \in DOMAIN frames /\ Top = frames[Len(frames)]
      BY <1>1, <2>6, EngineKinds, TopIsAFrame DEF EngineInv
    <3>2. Top.row \in States /\ Top.from \in States /\ m_currentState \in States
      BY <3>1 DEF TypeOK, Frame
    <3>3. \A at, row, from, data : TopBecomes(at, row, from, data) =>
            /\ frames' # <<>> /\ Top'.at = at /\ Top'.row = row /\ Top'.from = from
      BY DEF TopBecomes
    <3>4. \A a, b : FindLCA(a, b) = LCA(P, a, b)
      BY FindLCAIs DEF P
    <3>5. CASE Begin
      <4>1. TopBecomes("guard", m_newState, Top.from, m_pEventData)
        BY <1>1, <3>1, <3>5, Fetched DEF Begin, EngineInv
      <4> QED
        BY <3>3, <4>1
    <3>6. CASE SharedSteps
      <4>1. CASE EngineReturns
        BY <1>1, <2>3, <3>1, <4>1, Uncovered DEF EngineReturns
      <4>2. CASE ~EngineReturns
        <5>1. PICK at \in {"loop", "raised", "onTransition"} :
                TopBecomes(at, Top.row, Top.from, Top.data)
          BY <1>1, <3>6, <4>2, SharedMoves DEF SharedSteps
        <5> QED
          BY <3>3, <5>1
      <4> QED
        BY <4>1, <4>2
    <3>7. CASE Pass
      <4> DEFINE c == m_currentState
                 l == LCA(P, c, Top.row)
      <4>1. l = FindLCA(m_currentState, Top.row) /\ Top.at = "guard"
        BY <3>4, <3>7 DEF Pass, In
      <4> HIDE DEF l
      <4>2. CASE Stands
        BY <3>1, <4>1, <4>2 DEF Stands, Top
      <4>3. CASE faulted' = faulted /\ \E at \in {"action", "entry"} : TopBecomes(at, Top.row, c, Top.data)
        BY <2>1, <3>3, <4>3
      <4>4. CASE /\ faulted' = faulted /\ c # l /\ ~FindLCAAsserts(c, Top.row)
                 /\ TopBecomes("exit", Top.row, c, Top.data)
        <5>1. Ends(P, Top.row, l)
          BY <1>1, <3>2, <4>4, EntryFits DEF P, l
        <5>2. Ends(P, c, l)
          <6>1. Stops(c, l) # {}
            BY <4>1, <4>4, ExitEnds
          <6>2. \E n \in Steps : Chain(ParentState, c, n) \in {l, NO_PARENT}
            <7> HIDE DEF c
            <7> QED
              BY <6>1, ReachesTopMeans
          <6> QED
            BY <6>2 DEF Ends, P
        <5> QED
          BY <2>1, <3>3, <4>4, <5>1, <5>2 DEF l, BothEnd
      <4> QED
        BY <2>1, <3>7, <4>1, <4>2, <4>3, <4>4, PassMoves
    <3>8. CASE ExitActionDone \/ EntryActionDone
      <4>1. PICK at \in {"onExit", "onEntry"} : Goto(at) /\ (at = "onExit" => Top.at = "exit")
        BY <3>8 DEF ExitActionDone, EntryActionDone, In
      <4>2. TopBecomes(at, Top.row, Top.from, Top.data) /\ faulted' = faulted
        BY <3>1, <3>8, <4>1, GoneTop DEF Callbacks, ExitActionDone, EntryActionDone
      <4> QED
        BY <2>1, <2>2, <3>1, <3>3, <4>1, <4>2
    <3>9. CASE OnExitDone
      <4> DEFINE l == LCA(P, Top.from, Top.row)
      <4>1. l = FindLCA(Top.from, Top.row)
        BY <3>4
      <4>2. Ends(P, Top.from, l) /\ Ends(P, Top.row, l)
        BY <2>2, <3>9 DEF OnExitDone, In, BothEnd
      <4> HIDE DEF l
      <4>3. Stops(Top.from, l) # {} /\ Stops(Top.row, l) # {}
        BY <4>2, ReachesTopMeans DEF Ends, P
      <4>4. CASE TopBecomes("exit", Top.row, Top.from, Top.data) /\ faulted' = faulted
        BY <2>1, <3>3, <4>2, <4>4 DEF l, BothEnd
      <4>5. CASE /\ faulted' = faulted
                 /\ \E at \in {"entry", "action"} : TopBecomes(at, Top.row, Top.from, Top.data)
        BY <2>1, <3>3, <4>5
      <4>6. CASE /\ m_eventGenerated /\ m_eventGenerated' = m_eventGenerated
                 /\ TopBecomes("onExit", Top.row, Top.from, Top.data)
        BY <3>3, <4>2, <4>6 DEF l, BothEnd
      <4> QED
        BY <3>9, <4>1, <4>3, <4>4, <4>5, <4>6, OnExitMoves
    <3>10. CASE OnEntryDone
      <4>1. m_eventGenerated' = m_eventGenerated
        BY <3>10 DEF OnEntryDone, machineVars
      <4>2. PICK at \in {"entry", "action", "onEntry"} :
              /\ TopBecomes(at, Top.row, Top.from, Top.data)
              /\ faulted' = faulted \/ m_eventGenerated
        BY <3>10, OnEntryMoves
      <4> QED
        BY <2>1, <3>3, <4>1, <4>2
    <3> QED
      BY <2>6, <3>5, <3>6, <3>7, <3>8, <3>9, <3>10, EngineKinds
  <2> QED
    <3>1. CASE \E e \in Events : CallEvent(Resolved(e)) \/ ReenterEvent(Resolved(e))
      BY <2>4, <3>1
    <3>2. CASE \E t \in States : StrayRaise(t)
      BY <2>2, <2>5, <3>2
    <3> QED
      BY <1>3, <2>6, <3>1, <3>2 DEF Next
<1> QED
  BY <1>2, <1>3

\* On a malformed map FindLCA fails before anything is left: when an assertion
\* stops the program no StateEngine is in the middle of a walk.
THEOREM NothingIsHalfLeft == Spec => []NoHalfTransition
<1>1. Init => HalfwayInv
  BY DEF Init, StateMachineInit, HalfwayInv, In
<1>2. ASSUME HierarchyInv, HalfwayInv
      PROVE  NoHalfTransition
  <2> SUFFICES ASSUME faulted, ~m_eventGenerated, WalksAlone, NEW i \in DOMAIN frames
               PROVE  ~Walking(frames[i])
    BY DEF NoHalfTransition
  <2>1. TypeOK /\ StackInv
    BY <1>2 DEF HierarchyInv, EngineInv
  <2>2. frames # <<>>
    BY DEF TypeOK
  <2>3. Top = frames[Len(frames)] /\ (i = Len(frames) \/ i \in 1 .. Len(frames) - 1)
    BY <2>1, <2>2, TopIsAFrame
  <2>4. CASE i = Len(frames)
    BY <1>2, <2>2, <2>3, <2>4 DEF HalfwayInv
  <2>5. CASE i \in 1 .. Len(frames) - 1
    BY <2>1, <2>5 DEF StackInv, WalksAlone, Walking
  <2> QED
    BY <2>3, <2>4, <2>5
<1> QED
  BY <1>1, <1>2, HierarchyStarts, HierarchyStep, HalfwayStep, PTL DEF Spec

---------------------------------------------------------------------------
(* Where no state has a parent.                                             *)

Rootless(P) == \A s \in States : P[s] = NO_PARENT

\* A state is the whole of its chain.
LEMMA RootlessChain ==
  ASSUME NEW P \in Columns, Rootless(P), NEW s \in States
  PROVE  /\ Chain(P, s, 0) = s
         /\ \A n \in Nat : n # 0 => Chain(P, s, n) = NO_PARENT
         /\ Lineage(P, s) = {s}
<1>1. Chain(P, s, 0) = s /\ Chain(P, s, 1) = NO_PARENT
  <2>1. Chain(P, s, 0 + 1) = Parent(P, Chain(P, s, 0)) /\ Chain(P, s, 0) = s
    BY ChainStep
  <2> QED
    BY <2>1 DEF Parent, Rootless
<1>2. \A n \in Nat : n # 0 => Chain(P, s, n) = NO_PARENT
  <2>1. \A n \in Nat : n # 0 => 1 <= n
    OBVIOUS
  <2> QED
    BY <1>1, <2>1, ChainStays
<1>3. Lineage(P, s) = {s}
  BY <1>1, <1>2, NoParentIsNoState DEF Lineage
<1> QED
  BY <1>1, <1>2, <1>3

\* Two states have no common ancestor, and each is all that is to leave or to enter.
LEMMA RootlessWalks ==
  ASSUME ParentState \in Columns, Rootless(ParentState), NEW a \in States, NEW b \in States, a # b
  PROVE  /\ FindLCA(a, b) = NO_PARENT /\ ~FindLCAAsserts(a, b)
         /\ Stops(a, NO_PARENT) # {} /\ Stops(b, NO_PARENT) # {}
         /\ Visited(a, NO_PARENT) = <<a>> /\ Reverse(Visited(b, NO_PARENT)) = <<b>>
<1> DEFINE P == ParentState
<1>1. 1 \in Steps /\ Steps \subseteq Nat
  BY HSMAssumption DEF Steps
<1>2. \A s \in States : Chain(P, s, 0) = s /\ \A n \in Nat : n # 0 => Chain(P, s, n) = NO_PARENT
  BY RootlessChain
<1>3. Shared(a, b) = {}
  <2>1. Met(P, a, b) = {}
    BY <1>1, <1>2, NoParentIsNoState DEF Met
  <2> QED
    BY <2>1, FindLCAIs
<1>4. ReachesTop(a) /\ ReachesTop(b)
  BY <1>1, <1>2, ReachesTopMeans
<1>5. ASSUME NEW s \in States
      PROVE  Stops(s, NO_PARENT) # {} /\ Visited(s, NO_PARENT) = <<s>>
  <2>1. Stops(s, NO_PARENT) # {}
    BY <1>1, <1>2, ReachesTopMeans
  <2>2. Meets(P, s, NO_PARENT)
    BY DEF Meets
  <2> DEFINE v == Visited(s, NO_PARENT)
  <2>3. PICK m \in Nat : /\ Chain(P, s, m) = NO_PARENT
                         /\ \A n \in 0 .. m - 1 : Chain(P, s, n) \in States
                         /\ v \in Seq(States) /\ Len(v) = m /\ DOMAIN v = 1 .. m
                         /\ \A i \in 1 .. m : v[i] = Chain(P, s, i - 1)
    BY <2>1, <2>2, VisitedIsTheChain
  <2> HIDE DEF v
  <2>4. m = 1
    <3>1. m # 0
      BY <1>2, <2>3, NoParentIsNoState
    <3>2. m > 1 => 1 \in 0 .. m - 1
      OBVIOUS
    <3>3. ~(m > 1)
      BY <1>2, <2>3, <3>2, NoParentIsNoState
    <3> QED
      BY <3>1, <3>3
  <2>5. v[1] = s
    <3>1. 1 \in 1 .. m /\ 1 - 1 = 0
      BY <2>4
    <3> QED
      BY <1>2, <2>3, <3>1
  <2>6. v = <<s>>
    BY <2>3, <2>4, <2>5
  <2> QED
    BY <2>1, <2>6 DEF v
<1>6. Reverse(<<b>>) = <<b>>
  BY DEF Reverse
<1> QED
  BY <1>3, <1>4, <1>5, <1>6 DEF FindLCA, FindLCAAsserts

\* The transition maps of the flat engine: an entry that propagates is ignored.
FlatMap == [e \in Events |-> [s \in States |->
              IF Transitions[e][s] = PROPAGATE_TO_PARENT THEN EVENT_IGNORED ELSE Transitions[e][s]]]

\* An event goes to the current state, or nowhere.
LEMMA RootlessResolves ==
  ASSUME ParentState \in Columns, Rootless(ParentState), m_currentState \in States, NEW e \in Events
  PROVE  Resolved(e) = FlatMap[e][m_currentState]
<1> DEFINE c == m_currentState
           h == Handlers(e)
<1>1. 0 \in Levels /\ Levels \subseteq Nat
  BY StepsAreLevels
<1>2. Up(c)[0] = c /\ \A n \in Levels : n # 0 => Up(c)[n] \notin States
  <2>1. \A n \in Levels : Up(c)[n] = Chain(ParentState, c, n)
    BY UpIsTheChain
  <2> QED
    BY <1>1, <2>1, RootlessChain, NoParentIsNoState
<1>3. h = IF Transitions[e][c] = PROPAGATE_TO_PARENT THEN {} ELSE {0}
  BY <1>1, <1>2 DEF Handlers
<1>4. Min({0}) = 0
  BY MinIsLeast
<1> HIDE DEF h
<1>5. Resolved(e) = IF h = {} THEN EVENT_IGNORED ELSE Transitions[e][Up(c)[Min(h)]]
  BY DEF Resolved, h
<1> QED
  BY <1>2, <1>3, <1>4, <1>5 DEF FlatMap

\* What the walks of such a machine come to: one state is left, one is entered,
\* and m_newState is the state the row was fetched for until a callback of a walk
\* generates an event.
Flattened  == Rootless(ParentState) /\ WalksAlone /\ "guard" \notin Reenters
FlatInv ==
  Flattened /\ frames # <<>> =>
    /\ Top.at = "guard" => m_newState = Top.row
    /\ Top.at \in {"exit", "onExit"} =>
         /\ Top.from = m_currentState /\ Top.todo = <<Top.from>> /\ Top.row # Top.from
         /\ m_newState = Top.row \/ m_eventGenerated
    /\ Top.at \in {"entry", "onEntry"} => Top.todo = <<Top.row>> /\ m_currentState = Top.row

\* A walk of one state has no rest.
LEMMA OneState == \A s : Tail(<<s>>) = <<>> /\ Head(<<s>>) = s /\ <<s>> # <<>>
OBVIOUS

\* Every step keeps the frames flat.
LEMMA FlatStep == HierarchyInv /\ FlatInv /\ [Next]_hsmVars => FlatInv'
<1> SUFFICES ASSUME HierarchyInv, FlatInv, [Next]_hsmVars PROVE FlatInv'
  OBVIOUS
<1>1. EngineInv /\ ParentState \in Columns
  BY DEF HierarchyInv
<1>2. CASE UNCHANGED hsmVars
  BY <1>2 DEF hsmVars, vars, machineVars, signalVars, FlatInv, Flattened, WalksAlone, Top, Rootless
<1>3. CASE Next
  <2>1. ~faulted /\ Reenters' = Reenters /\ ParentState' = ParentState
        /\ (StateEngine \/ Called \/ StrayCalled \/ Stands)
    BY <1>3, StepKinds
  <2> DEFINE Busy == {"guard", "exit", "onExit", "entry", "onEntry"}
  <2> SUFFICES ASSUME Flattened, frames' # <<>>
               PROVE  /\ Top'.at = "guard" => m_newState' = Top'.row
                      /\ Top'.at \in {"exit", "onExit"} =>
                           /\ Top'.from = m_currentState' /\ Top'.todo = <<Top'.from>>
                           /\ Top'.row # Top'.from
                           /\ m_newState' = Top'.row \/ m_eventGenerated'
                      /\ Top'.at \in {"entry", "onEntry"} =>
                           Top'.todo = <<Top'.row>> /\ m_currentState' = Top'.row
    BY <2>1 DEF FlatInv, Flattened, WalksAlone, Rootless
  <2>2. frames # <<>> =>
          /\ Top.at = "guard" => m_newState = Top.row
          /\ Top.at \in {"exit", "onExit"} =>
               /\ Top.from = m_currentState /\ Top.todo = <<Top.from>> /\ Top.row # Top.from
               /\ m_newState = Top.row \/ m_eventGenerated
          /\ Top.at \in {"entry", "onEntry"} => Top.todo = <<Top.row>> /\ m_currentState = Top.row
    BY DEF FlatInv
  <2>3. Reenters \cap Busy = {} /\ Rootless(ParentState)
    BY DEF Flattened, WalksAlone
  <2>4. CASE Stands
    <3>1. frames' = frames /\ Top' = Top
      BY <2>4 DEF Stands, Top
    <3> QED
      BY <2>2, <2>4, <3>1 DEF Stands, machineVars
  <2>5. CASE StrayCalled
    <3>1. PICK c \in StrayRaises : In(c) /\ StrayRaises \subseteq {"exit", "onExit", "entry", "onEntry"}
      BY <2>5, StateMachineAssumption DEF StrayCalled, StrayRaise
    <3>2. frames' = frames /\ Top' = Top /\ m_eventGenerated' = TRUE /\ m_currentState' = m_currentState
      BY <2>5 DEF StrayCalled, StrayRaise, InternalEvent, Top
    <3> QED
      BY <2>2, <3>1, <3>2 DEF In
  <2>6. CASE Called
    BY <1>1, <2>6, CalledFrames
  <2>7. CASE StateEngine
    <3>1. TypeOK /\ frames # <<>> /\ Top \in Frame /\ Len(frames) \in DOMAIN frames /\ Top = frames[Len(frames)]
      BY <1>1, <2>7, EngineKinds, TopIsAFrame DEF EngineInv
    <3>2. Top.row \in States /\ Top.from \in States /\ m_currentState \in States
      BY <3>1 DEF TypeOK, Frame
    <3>3. \A at, row, from, data : TopBecomes(at, row, from, data) =>
            /\ frames' # <<>> /\ Top'.at = at /\ Top'.row = row /\ Top'.from = from
      BY DEF TopBecomes
    <3>4. CASE Begin
      <4>1. TopBecomes("guard", m_newState, Top.from, m_pEventData) /\ m_newState' = m_newState
        BY <1>1, <3>1, <3>4, Fetched DEF Begin, EngineInv
      <4> QED
        BY <3>3, <4>1
    <3>5. CASE SharedSteps
      <4>1. Top'.at \notin Busy
        <5>1. CASE EngineReturns
          BY <1>1, <2>3, <3>1, <5>1, Uncovered DEF EngineReturns
        <5>2. CASE ~EngineReturns
          <6>1. PICK at \in {"loop", "raised", "onTransition"} :
                  TopBecomes(at, Top.row, Top.from, Top.data)
            BY <1>1, <3>5, <5>2, SharedMoves DEF SharedSteps
          <6> QED
            BY <3>3, <6>1
        <5> QED
          BY <5>1, <5>2
      <4> QED
        BY <4>1
    <3>6. CASE Pass
      <4> DEFINE l == FindLCA(m_currentState, Top.row)
      <4>1. Top.at = "guard" /\ m_newState = Top.row
        BY <2>2, <3>1, <3>6 DEF Pass, In
      <4>2. m_currentState # Top.row => l = NO_PARENT /\ Visited(m_currentState, NO_PARENT) = <<m_currentState>>
        BY <1>1, <2>3, <3>2, RootlessWalks
      <4>3. m_currentState = Top.row => Top'.at \notin Busy
        <5>1. ASSUME m_currentState = Top.row
              PROVE  \E f \in Frame : Update(f) /\ f.at = "action"
          <6> DEFINE f == [Top EXCEPT !.from = m_currentState]
                     g == [f EXCEPT !.at = "action"]
          <6>1. f \in Frame /\ f.row = Top.row /\ f.from = m_currentState
            BY <3>1, <3>2, FrameFrom
          <6>2. g \in Frame /\ g.at = "action"
            BY <6>1 DEF Callbacks, Frame
          <6>3. Update(g)
            BY <3>6, <5>1, <6>1 DEF Pass
          <6> HIDE DEF g
          <6> QED
            BY <6>2, <6>3
        <5> QED
          BY <3>1, <3>3, <5>1, Updated
      <4> HIDE DEF l
      <4>4. l = FindLCA(m_currentState, Top.row)
        BY DEF l
      <4>5. CASE Stands
        <5>1. frames' = frames /\ Top' = Top
          BY <4>5 DEF Stands, Top
        <5> QED
          BY <2>2, <4>1, <4>5, <5>1 DEF Stands, machineVars
      <4>6. CASE TopBecomes("action", Top.row, m_currentState, Top.data)
        BY <3>3, <4>6
      <4>7. CASE /\ m_currentState # Top.row /\ UNCHANGED <<m_newState, m_currentState>>
                 /\ TopBecomes("exit", Top.row, m_currentState, Top.data)
                 /\ Top'.todo = Visited(m_currentState, l)
        BY <3>3, <4>1, <4>2, <4>7
      <4>8. CASE m_currentState = l /\ Top.row # l
        BY <3>2, <4>2, <4>8, NoParentIsNoState
      <4> QED
        <5>1. CASE m_currentState = Top.row
          BY <4>3, <5>1
        <5>2. CASE m_currentState # Top.row
          BY <2>1, <3>6, <4>4, <4>5, <4>6, <4>7, <4>8, <5>2, PassMoves
        <5> QED
          BY <5>1, <5>2
    <3>7. CASE ExitActionDone \/ EntryActionDone
      <4>1. PICK at \in {"onExit", "onEntry"} :
              /\ Goto(at) /\ (at = "onExit" => Top.at = "exit") /\ (at = "onEntry" => Top.at = "entry")
        BY <3>7 DEF ExitActionDone, EntryActionDone, In
      <4>2. TopBecomes(at, Top.row, Top.from, Top.data) /\ Top'.todo = Top.todo
        BY <3>1, <4>1, GoneTop DEF Callbacks
      <4>3. UNCHANGED <<m_currentState, m_newState, m_eventGenerated>>
        BY <3>7 DEF ExitActionDone, EntryActionDone, machineVars
      <4> QED
        BY <2>2, <3>1, <3>3, <4>1, <4>2, <4>3
    <3>8. CASE OnExitDone
      <4> DEFINE l == FindLCA(Top.from, Top.row)
      <4>1. Top.at = "onExit" /\ Top.from = m_currentState /\ Top.todo = <<Top.from>> /\ Top.row # Top.from
        BY <2>2, <3>1, <3>8 DEF OnExitDone, In
      <4>2. /\ l = NO_PARENT /\ Stops(Top.from, NO_PARENT) # {}
            /\ Stops(Top.row, NO_PARENT) # {} /\ Top.row # NO_PARENT
            /\ Reverse(Visited(Top.row, NO_PARENT)) = <<Top.row>>
        BY <1>1, <2>3, <3>2, <4>1, RootlessWalks, NoParentIsNoState
      <4>3. Tail(Top.todo) = <<>>
        BY <4>1, OneState
      <4> HIDE DEF l
      <4>4. l = FindLCA(Top.from, Top.row)
        BY DEF l
      <4>5. /\ TopBecomes("entry", Top.row, Top.from, Top.data)
            /\ Top'.todo = <<Top.row>> /\ m_currentState' = Top.row
        BY <3>8, <4>2, <4>3, <4>4, OnExitMoves
      <4> QED
        BY <3>3, <4>5
    <3>9. CASE OnEntryDone
      <4>1. Top.at = "onEntry" /\ Top.todo = <<Top.row>> /\ m_currentState = Top.row
        BY <2>2, <3>1, <3>9 DEF OnEntryDone, In
      <4>2. Tail(Top.todo) = <<>>
        BY <4>1, OneState
      <4>3. CASE TopBecomes("action", Top.row, Top.from, Top.data)
        BY <3>3, <4>3
      <4>4. CASE TopBecomes("onEntry", Top.row, Top.from, Top.data) /\ Top' = Top
        <5>1. m_currentState' = m_currentState
          BY <3>9 DEF OnEntryDone, machineVars
        <5> QED
          BY <3>3, <4>1, <4>4, <5>1
      <4> QED
        BY <3>9, <4>2, <4>3, <4>4, OnEntryMoves
    <3> QED
      BY <2>7, <3>4, <3>5, <3>6, <3>7, <3>8, <3>9, EngineKinds
  <2> QED
    BY <2>1, <2>4, <2>5, <2>6, <2>7
<1> QED
  BY <1>2, <1>3

---------------------------------------------------------------------------
(* The hierarchical engine over such a map is the flat engine.              *)

\* The call stack of the flat engine: the same frames without a walk.
Strip(f) == [f EXCEPT !.todo = <<>>]

\* Frames are equal when their members are.
LEMMA SameFrame ==
  ASSUME NEW f \in Frame, NEW g \in Frame,
         f.at = g.at, f.row = g.row, f.from = g.from, f.data = g.data, f.todo = g.todo
  PROVE  f = g
BY DEF Frame

\* A stripped frame is a frame.
LEMMA StripKeeps ==
  ASSUME NEW f \in Frame, NEW g, g = Strip(f)
  PROVE  /\ g \in Frame /\ g.at = f.at /\ g.row = f.row /\ g.from = f.from
         /\ g.data = f.data /\ g.todo = <<>>
<1>1. <<>> \in Seq(States)
  BY EmptySeq
<1> QED
  BY <1>1 DEF Frame, Strip

Bare(fs) == [i \in DOMAIN fs |-> Strip(fs[i])]

\* Stripping every frame of a stack.
LEMMA BareIs ==
  ASSUME NEW fs \in Seq(Frame), NEW bs, bs = Bare(fs)
  PROVE  /\ bs \in Seq(Frame) /\ Len(bs) = Len(fs) /\ DOMAIN bs = DOMAIN fs
         /\ \A i \in DOMAIN fs : bs[i] = Strip(fs[i])
         /\ bs = <<>> <=> fs = <<>>
         /\ fs # <<>> => Last(bs) = Strip(Last(fs))
<1>1. Len(fs) \in Nat /\ DOMAIN fs = 1 .. Len(fs) /\ \A i \in DOMAIN fs : fs[i] \in Frame
  BY LenProperties, ElementOfSeq
<1>2. DOMAIN bs = 1 .. Len(fs) /\ \A i \in DOMAIN fs : bs[i] = Strip(fs[i])
  BY <1>1 DEF Bare
<1>3. \A i \in DOMAIN fs : bs[i] \in Frame
  BY <1>1, <1>2, StripKeeps
<1>4. bs = [i \in 1 .. Len(fs) |-> bs[i]]
  BY <1>2 DEF Bare
<1>5. bs \in [1 .. Len(fs) -> Frame]
  BY <1>1, <1>3, <1>4
<1>6. bs \in Seq(Frame)
  BY <1>1, <1>5, SeqDef
<1>7. Len(bs) = Len(fs)
  BY <1>1, <1>5, <1>6, LenProperties
<1>8. bs = <<>> <=> fs = <<>>
  BY <1>6, <1>7, EmptySeq
<1>9. ASSUME fs # <<>>
      PROVE  Last(bs) = Strip(Last(fs))
  <2>1. Len(fs) \in DOMAIN fs
    BY <1>1, <1>9, EmptySeq
  <2> QED
    BY <1>2, <1>7, <2>1 DEF Last
<1> QED
  BY <1>1, <1>2, <1>6, <1>7, <1>8, <1>9

\* Sequences are equal when their elements are.
LEMMA SameSequence ==
  ASSUME NEW S, NEW a \in Seq(S), NEW b \in Seq(S), Len(a) = Len(b),
         \A i \in 1 .. Len(a) : a[i] = b[i]
  PROVE  a = b
BY SeqEqual

\* What the flat engine sees of the stack.
LEMMA FlatView ==
  ASSUME TypeOK
  PROVE  /\ Flat!Top = Last(Bare(frames))
         /\ frames # <<>> => Flat!Top = Strip(Top) /\ Top \in Frame
         /\ \A at : Flat!In(at) <=> In(at)
         /\ frames = <<>> <=> Bare(frames) = <<>>
<1>1. frames \in Seq(Frame)
  BY DEF TypeOK
<1>2. Flat!Top = Last(Bare(frames))
  BY DEF Flat!Top, Flat!Last, Last, Bare, Strip
<1>3. /\ Bare(frames) = <<>> <=> frames = <<>>
      /\ frames # <<>> => Last(Bare(frames)) = Strip(Last(frames))
  BY <1>1, BareIs
<1>4. frames # <<>> => Top \in Frame /\ Strip(Top).at = Top.at
  BY TopIsAFrame, StripKeeps
<1>5. \A at : Flat!In(at) <=> Bare(frames) # <<>> /\ Flat!Top.at = at
  BY DEF Flat!In, Bare, Strip
<1> QED
  BY <1>2, <1>3, <1>4, <1>5 DEF Top, In

\* A move of the innermost StateEngine is one of the flat engine's.
LEMMA FlatMove ==
  ASSUME TypeOK, frames # <<>>, NEW at, NEW row, NEW from, NEW data,
         TopBecomes(at, row, from, data), Top' \in Frame,
         NEW h \in Frame, h.at = at, h.row = row, h.from = from, h.data = data, h.todo = <<>>
  PROVE  Flat!Update(h)
<1> DEFINE F == Bare(frames)
           G == Bare(frames')
           n == Len(frames)
<1>1. /\ frames \in Seq(Frame) /\ n \in Nat /\ DOMAIN frames = 1 .. n /\ n \in DOMAIN frames
      /\ \A i \in DOMAIN frames : i = n \/ i \in 1 .. n - 1
  BY TopIsAFrame DEF TypeOK
<1>2. /\ frames' \in Seq(Frame) /\ Len(frames') = n /\ DOMAIN frames' = DOMAIN frames
      /\ \A i \in 1 .. n - 1 : frames'[i] = frames[i]
      /\ Top' = frames'[n]
      /\ Top'.at = at /\ Top'.row = row /\ Top'.from = from /\ Top'.data = data
  BY DEF TopBecomes
<1>3. F \in Seq(Frame) /\ Len(F) = n /\ DOMAIN F = DOMAIN frames
      /\ \A i \in DOMAIN frames : F[i] = Strip(frames[i])
  BY <1>1, BareIs
<1>4. G \in Seq(Frame) /\ Len(G) = n /\ DOMAIN G = DOMAIN frames
      /\ \A i \in DOMAIN frames : G[i] = Strip(frames'[i])
  BY <1>2, BareIs
<1>5. Strip(frames'[n]) = h
  BY <1>2, StripKeeps, SameFrame
<1>6. ASSUME NEW bs, bs = [F EXCEPT ![Len(F)] = h]
      PROVE  G = bs
  <2> HIDE DEF F, G, n
  <2>1. bs \in Seq(Frame) /\ Len(bs) = n
    BY <1>1, <1>3, <1>6, ExceptSeq
  <2>2. \A i \in 1 .. n : bs[i] = IF i = n THEN h ELSE F[i]
    BY <1>1, <1>3, <1>6
  <2>3. \A i \in 1 .. n : G[i] = bs[i]
    BY <1>1, <1>2, <1>3, <1>4, <1>5, <2>2
  <2> QED
    BY <1>4, <2>1, <2>3, SameSequence
<1> QED
  BY <1>6 DEF Flat!Update, Bare, Strip

\* So is one that leaves the row, the state left and the data.
LEMMA FlatGone ==
  ASSUME TypeOK, frames # <<>>, NEW at \in Callbacks \cup {"loop"},
         TopBecomes(at, Top.row, Top.from, Top.data)
  PROVE  Flat!Goto(at)
<1>1. Top \in Frame /\ Top' \in Frame
  <2>1. Top \in Frame /\ Len(frames) \in DOMAIN frames
    BY TopIsAFrame
  <2>2. frames' \in Seq(Frame) /\ DOMAIN frames' = DOMAIN frames /\ Top' = frames'[Len(frames)]
    BY DEF TopBecomes
  <2>3. Top' \in Frame
    BY <2>1, <2>2, ElementOfSeq, LenProperties
  <2> QED
    BY <2>1, <2>3
<1>2. PICK t \in Frame : /\ t = Flat!Top /\ t.row = Top.row /\ t.from = Top.from
                         /\ t.data = Top.data /\ t.todo = <<>>
  BY <1>1, FlatView, StripKeeps
<1>3. PICK h \in Frame : /\ h = [t EXCEPT !.at = at] /\ h.at = at /\ h.row = Top.row
                         /\ h.from = Top.from /\ h.data = Top.data /\ h.todo = <<>>
  <2>1. PICK g : g = [t EXCEPT !.at = at]
    OBVIOUS
  <2> QED
    BY <1>2, <2>1, FrameAt
<1>4. PICK row, from, data : row = Top.row /\ from = Top.from /\ data = Top.data
  OBVIOUS
<1>5. TopBecomes(at, row, from, data)
  BY <1>4 DEF TopBecomes
<1>6. Flat!Update(h)
  BY <1>1, <1>3, <1>4, <1>5, FlatMove
<1> QED
  BY <1>2, <1>3, <1>6 DEF Flat!Goto, Flat!Update

\* Entering and leaving a StateEngine are the flat engine's too.
LEMMA FlatCalls ==
  ASSUME TypeOK
  PROVE  /\ Enter(NewFrame) => Flat!Enter(Flat!NewFrame)
         /\ frames # <<>> /\ Leave => Flat!Leave
<1> DEFINE F == Bare(frames)
           G == Bare(frames')
           n == Len(frames)
<1>1. frames \in Seq(Frame) /\ n \in Nat /\ DOMAIN frames = 1 .. n
  BY LenProperties DEF TypeOK
<1>2. F \in Seq(Frame) /\ Len(F) = n /\ (F = <<>> <=> frames = <<>>)
      /\ \A i \in DOMAIN frames : F[i] = Strip(frames[i])
  BY <1>1, BareIs
<1>3. ASSUME Enter(NewFrame)
      PROVE  Flat!Enter(Flat!NewFrame)
  <2>1. /\ frames' \in Seq(Frame) /\ Len(frames') = n + 1
        /\ \A i \in 1 .. n : frames'[i] = frames[i]
        /\ DOMAIN frames' = DOMAIN frames \cup {n + 1} /\ frames'[n + 1] = NewFrame
    BY <1>3, Entered
  <2>2. G \in Seq(Frame) /\ Len(G) = n + 1 /\ \A i \in DOMAIN frames' : G[i] = Strip(frames'[i])
    BY <2>1, BareIs
  <2>3. NewFrame \in Frame /\ Strip(NewFrame) = NewFrame
    <3>1. <<>> \in Seq(States) /\ 0 \in 0 .. MaxEvents /\ InitialState \in States
      BY EmptySeq, StateMachineAssumption
    <3> QED
      BY <3>1 DEF NewFrame, Strip, Frame
  <2>4. ASSUME NEW bs, bs = Append(F, NewFrame)
        PROVE  G = bs
    <3> HIDE DEF F, G, n
    <3>1. /\ bs \in Seq(Frame) /\ Len(bs) = n + 1 /\ bs[n + 1] = NewFrame
          /\ \A i \in 1 .. n : bs[i] = F[i]
      BY <1>2, <2>3, <2>4, LastAppended
    <3>2. \A i \in 1 .. n + 1 : i = n + 1 \/ i \in 1 .. n
      BY <1>1
    <3>3. \A i \in 1 .. n + 1 : G[i] = bs[i]
      BY <1>1, <1>2, <2>1, <2>2, <2>3, <3>1, <3>2
    <3> QED
      BY <2>2, <3>1, <3>3, SameSequence
  <2> QED
    BY <2>4 DEF Flat!Enter, Flat!NewFrame, NewFrame, Bare, Strip
<1>4. ASSUME frames # <<>>, Leave
      PROVE  Flat!Leave
  <2>1. /\ frames' \in Seq(Frame) /\ Len(frames') = n - 1
        /\ \A i \in 1 .. n - 1 : frames'[i] = frames[i]
        /\ DOMAIN frames' = 1 .. n - 1
    BY <1>4, Left
  <2>2. G \in Seq(Frame) /\ Len(G) = n - 1 /\ \A i \in DOMAIN frames' : G[i] = Strip(frames'[i])
    BY <2>1, BareIs
  <2>3. ASSUME NEW bs, bs = Front(F)
        PROVE  G = bs
    <3> HIDE DEF F, G, n
    <3>1. bs \in Seq(Frame) /\ Len(bs) = n - 1 /\ \A i \in 1 .. n - 1 : bs[i] = F[i]
      BY <1>2, <1>4, <2>3, LastDropped
    <3>2. \A i \in 1 .. n - 1 : i \in 1 .. n
      BY <1>1
    <3>3. \A i \in 1 .. n - 1 : G[i] = bs[i]
      BY <1>1, <1>2, <2>1, <2>2, <3>1, <3>2
    <3> QED
      BY <2>2, <3>1, <3>3, SameSequence
  <2> QED
    BY <2>3 DEF Flat!Leave, Flat!Front, Front, Bare, Strip
<1> QED
  BY <1>3, <1>4

\* A guard that passes.
LEMMA FlatPass ==
  ASSUME HierarchyInv, FlatInv, NoParents, ~faulted, Pass
  PROVE  Flat!GuardPasses
<1>1. Flattened /\ Rootless(ParentState) /\ ParentState \in Columns
  BY DEF NoParents, Flattened, Rootless, HierarchyInv
<1>2. TypeOK /\ frames # <<>> /\ Top.at = "guard" /\ Top \in Frame
      /\ Len(frames) \in DOMAIN frames /\ m_newState = Top.row
  <2>1. TypeOK /\ frames # <<>> /\ Top.at = "guard"
    BY DEF Pass, In, HierarchyInv, EngineInv
  <2> QED
    BY <1>1, <2>1, TopIsAFrame DEF FlatInv
<1>3. Top.row \in States /\ m_currentState \in States
  BY <1>2 DEF Frame, TypeOK
<1> DEFINE to == IF m_newState # m_currentState THEN "exit" ELSE "action"
<1>4. /\ TopBecomes(to, Top.row, m_currentState, Top.data)
      /\ events' = Fate(Top.data, "executed")
      /\ UNCHANGED <<machineVars, signalVars, faulted>>
  <2>1. CASE m_currentState = Top.row
    <3> DEFINE f == [Top EXCEPT !.from = m_currentState]
               g == [f EXCEPT !.at = "action"]
    <3>1. /\ f \in Frame /\ f.at = Top.at /\ f.row = Top.row
          /\ f.from = m_currentState /\ f.data = Top.data
      BY <1>2, <1>3, FrameFrom
    <3>2. /\ g \in Frame /\ g.at = "action" /\ g.row = Top.row
          /\ g.from = m_currentState /\ g.data = Top.data
      <4>1. "action" \in Callbacks \cup {"loop"}
        BY DEF Callbacks
      <4> HIDE DEF f, g
      <4>2. PICK h : h = f
        OBVIOUS
      <4>3. g = [h EXCEPT !.at = "action"]
        BY <4>2 DEF g
      <4> QED
        BY <3>1, <4>1, <4>2, <4>3, FrameAt
    <3>3. /\ Update(g) /\ UNCHANGED <<machineVars, signalVars, faulted>>
          /\ events' = IF faulted' THEN events ELSE Fate(Top.data, "executed")
      BY <2>1, <3>1 DEF Pass
    <3> HIDE DEF g
    <3>4. TopBecomes("action", Top.row, m_currentState, Top.data)
      BY <1>2, <3>2, <3>3, Updated
    <3> QED
      BY <1>2, <2>1, <3>3, <3>4
  <2>2. CASE m_currentState # Top.row
    <3> DEFINE l == FindLCA(m_currentState, Top.row)
    <3>1. /\ l = NO_PARENT /\ ~FindLCAAsserts(m_currentState, Top.row)
          /\ Stops(m_currentState, NO_PARENT) # {}
      BY <1>1, <1>3, <2>2, RootlessWalks
    <3> DEFINE f == [Top EXCEPT !.from = m_currentState]
               v == Visited(f.from, l)
               g == Walk(f, "exit", v)
    <3>2. f \in Frame /\ f.row = Top.row /\ f.from = m_currentState /\ f.data = Top.data
      BY <1>2, <1>3, FrameFrom
    <3>3. /\ Update(g) /\ UNCHANGED <<machineVars, signalVars, faulted>>
          /\ events' = IF faulted' THEN events ELSE Fate(Top.data, "executed")
      BY <1>3, <2>2, <3>1, <3>2, NoParentIsNoState DEF Pass, Walk
    <3>4. v \in Seq(States)
      <4>1. v = <<m_currentState>>
        BY <1>1, <1>3, <2>2, <3>1, <3>2, RootlessWalks
      <4> HIDE DEF v
      <4> QED
        BY <1>3, <4>1
    <3>5. g \in Frame /\ g.at = "exit" /\ g.row = Top.row /\ g.from = m_currentState /\ g.data = Top.data
      <4>1. "exit" \in Callbacks \cup {"loop"}
        BY DEF Callbacks
      <4> HIDE DEF f, g, v
      <4>2. g = Walk(f, "exit", v)
        BY DEF g
      <4> QED
        BY <3>2, <3>4, <4>1, <4>2, FrameWalking
    <3> HIDE DEF f, g, v
    <3>6. TopBecomes("exit", Top.row, m_currentState, Top.data)
      BY <1>2, <3>3, <3>5, Updated
    <3> QED
      BY <1>2, <2>2, <3>3, <3>6
  <2> QED
    BY <2>1, <2>2
<1>5. Top' \in Frame
  <2>1. frames' \in Seq(Frame) /\ DOMAIN frames' = DOMAIN frames /\ Top' = frames'[Len(frames)]
    BY <1>4 DEF TopBecomes
  <2> QED
    BY <1>2, <2>1, ElementOfSeq, LenProperties
<1>6. PICK t \in Frame : /\ t = Flat!Top /\ t.row = Top.row /\ t.from = Top.from
                         /\ t.data = Top.data /\ t.todo = <<>>
  BY <1>2, FlatView, StripKeeps
<1>7. PICK at, c, row, data : /\ at \in {"exit", "action"} /\ at = to
                              /\ c \in States /\ c = m_currentState
                              /\ row = Top.row /\ data = Top.data
  BY <1>3
<1> HIDE DEF to
<1>8. PICK h \in Frame : /\ h = [t EXCEPT !.from = c, !.at = at]
                         /\ h.at = at /\ h.row = row /\ h.from = c /\ h.data = data /\ h.todo = <<>>
  <2>1. PICK g : g = [t EXCEPT !.from = c, !.at = at]
    OBVIOUS
  <2>2. at \in Callbacks
    BY <1>7 DEF Callbacks
  <2>3. g \in Frame /\ g.at = at /\ g.row = t.row /\ g.from = c /\ g.data = t.data /\ g.todo = t.todo
    BY <1>7, <2>1, <2>2 DEF Frame
  <2> QED
    BY <1>6, <1>7, <2>1, <2>3
<1>9. TopBecomes(at, row, c, data)
  BY <1>4, <1>7 DEF TopBecomes
<1>10. Flat!Update(h)
  BY <1>2, <1>5, <1>8, <1>9, FlatMove
<1>11. Flat!Update([Flat!Top EXCEPT !.from = Flat!FromState,
                                    !.at = IF m_newState # m_currentState THEN "exit" ELSE "action"])
  BY <1>6, <1>7, <1>8, <1>10 DEF Flat!Update, Flat!FromState, to
<1>12. Flat!In("guard") /\ Flat!Top.data = Top.data
  BY <1>2, <1>6, FlatView DEF In
<1> QED
  BY <1>4, <1>11, <1>12 DEF Flat!GuardPasses, Flat!Fate, Fate, Flat!machineVars, machineVars,
     Flat!signalVars, signalVars

\* The row is fetched.
LEMMA FlatBegins ==
  ASSUME HierarchyInv, Begin
  PROVE  Flat!BeginEx
<1>1. TypeOK /\ StackInv /\ frames # <<>> /\ Len(frames) \in DOMAIN frames /\ Top \in Frame
      /\ In("loop") /\ m_eventGenerated
  <2>1. TypeOK /\ StackInv /\ frames # <<>> /\ In("loop") /\ m_eventGenerated
    BY DEF Begin, In, HierarchyInv, EngineInv
  <2> QED
    BY <2>1, TopIsAFrame
<1>2. TopBecomes("guard", m_newState, Top.from, m_pEventData)
  BY <1>1, Fetched DEF Begin
<1>3. Top' \in Frame
  <2>1. frames' \in Seq(Frame) /\ DOMAIN frames' = DOMAIN frames /\ Top' = frames'[Len(frames)]
    BY <1>2 DEF TopBecomes
  <2> QED
    BY <1>1, <2>1, ElementOfSeq, LenProperties
<1>4. PICK t \in Frame : /\ t = Flat!Top /\ t.row = Top.row /\ t.from = Top.from
                         /\ t.data = Top.data /\ t.todo = <<>>
  BY <1>1, FlatView, StripKeeps
<1>5. PICK row, data, from : /\ row \in States /\ row = m_newState
                             /\ data \in 0 .. MaxEvents /\ data = m_pEventData
                             /\ from = Top.from
  <2>1. m_newState \in States /\ m_pEventData \in 0 .. Len(events) /\ Len(events) \in Nat
    BY <1>1, LenProperties DEF TypeOK
  <2>2. Len(events) <= MaxEvents /\ MaxEvents \in Nat
    BY <1>1, StateMachineAssumption DEF StackInv
  <2> QED
    BY <2>1, <2>2
<1>6. PICK h \in Frame : /\ h = [t EXCEPT !.at = "guard", !.row = row, !.data = data]
                         /\ h.at = "guard" /\ h.row = row /\ h.from = from /\ h.data = data
                         /\ h.todo = <<>>
  <2>1. PICK g : g = [t EXCEPT !.at = "guard", !.row = row, !.data = data]
    OBVIOUS
  <2>2. /\ g \in Frame /\ g.at = "guard" /\ g.row = row /\ g.from = t.from /\ g.data = data
        /\ g.todo = t.todo
    BY <1>5, <2>1 DEF Frame, Callbacks
  <2> QED
    BY <1>4, <1>5, <2>1, <2>2
<1>7. TopBecomes("guard", row, from, data)
  BY <1>2, <1>5 DEF TopBecomes
<1>8. Flat!Update(h)
  BY <1>1, <1>3, <1>6, <1>7, FlatMove
<1>9. Flat!Update([Flat!Top EXCEPT !.at = "guard", !.row = m_newState, !.data = m_pEventData])
  BY <1>4, <1>5, <1>6, <1>8 DEF Flat!Update
<1>10. Flat!In("loop")
  BY <1>1, FlatView
<1> QED
  BY <1>1, <1>9, <1>10 DEF Begin, Flat!BeginEx, Consume, Flat!Consume, Flat!signalVars, signalVars

\* The slots and actions of a walk.
LEMMA FlatWalk ==
  ASSUME HierarchyInv, FlatInv, NoParents, ~faulted,
         ExitActionDone \/ OnExitDone \/ EntryActionDone \/ OnEntryDone
  PROVE  Flat!ExitActionDone \/ Flat!OnExitDone \/ Flat!EntryActionDone \/ Flat!OnEntryDone
<1> USE DEF machineVars, signalVars, Flat!machineVars, Flat!signalVars
<1>1. Flattened /\ Rootless(ParentState) /\ ParentState \in Columns
  BY DEF NoParents, Flattened, Rootless, HierarchyInv
<1>2. TypeOK /\ frames # <<>> /\ Top \in Frame /\ \A at : Flat!In(at) <=> In(at)
  <2>1. TypeOK /\ frames # <<>>
    BY DEF ExitActionDone, OnExitDone, EntryActionDone, OnEntryDone, In, HierarchyInv, EngineInv
  <2> QED
    BY <2>1, TopIsAFrame, FlatView
<1>3. Top.row \in States /\ Top.from \in States /\ ~m_eventGenerated
  <2>1. Walking(Top)
    BY DEF ExitActionDone, OnExitDone, EntryActionDone, OnEntryDone, In, Walking
  <2> QED
    BY <1>2, <2>1 DEF Frame, NoParents, Strayed
<1>4. CASE ExitActionDone
  <2>1. In("exit") /\ Goto("onExit") /\ occupied' = occupied \ {Head(Top.todo)}
        /\ UNCHANGED <<machineVars, events, lastTransition, faulted>>
    BY <1>4 DEF ExitActionDone
  <2>2. Head(Top.todo) = m_currentState
    BY <1>1, <2>1, OneState DEF FlatInv, In
  <2>3. Flat!Goto("onExit")
    BY <1>2, <2>1, Gone, FlatGone DEF Callbacks
  <2> QED
    BY <1>2, <2>1, <2>2, <2>3 DEF Flat!ExitActionDone
<1>5. CASE EntryActionDone
  <2>1. In("entry") /\ Goto("onEntry") /\ occupied' = occupied \cup {Head(Top.todo)}
        /\ UNCHANGED <<machineVars, events, lastTransition, faulted>>
    BY <1>5 DEF EntryActionDone
  <2>2. Head(Top.todo) = m_currentState
    BY <1>1, <2>1, OneState DEF FlatInv, In
  <2>3. Flat!Goto("onEntry")
    BY <1>2, <2>1, Gone, FlatGone DEF Callbacks
  <2> QED
    BY <1>2, <2>1, <2>2, <2>3 DEF Flat!EntryActionDone
<1>6. CASE OnExitDone
  <2> DEFINE l == FindLCA(Top.from, Top.row)
  <2>1. /\ In("onExit") /\ Top.todo = <<Top.from>> /\ Top.row # Top.from /\ m_newState = Top.row
    BY <1>1, <1>2, <1>3, <1>6 DEF FlatInv, OnExitDone, In
  <2>2. /\ l = NO_PARENT /\ Stops(Top.from, NO_PARENT) # {}
        /\ Stops(Top.row, NO_PARENT) # {} /\ Top.row # NO_PARENT
    BY <1>1, <1>3, <2>1, RootlessWalks, NoParentIsNoState
  <2>3. Tail(Top.todo) = <<>>
    BY <2>1, OneState
  <2> HIDE DEF l
  <2>4. l = FindLCA(Top.from, Top.row)
    BY DEF l
  <2>5. /\ TopBecomes("entry", Top.row, Top.from, Top.data) /\ m_currentState' = Top.row
        /\ UNCHANGED <<m_newState, m_eventGenerated, m_pEventData, events, signalVars, faulted>>
    BY <1>6, <2>2, <2>3, <2>4, OnExitMoves
  <2>6. Flat!Goto("entry")
    BY <1>2, <2>5, FlatGone DEF Callbacks
  <2> QED
    BY <1>2, <2>1, <2>5, <2>6 DEF Flat!OnExitDone, Flat!EnteredState
<1>7. CASE OnEntryDone
  <2>1. In("onEntry") /\ Tail(Top.todo) = <<>>
    BY <1>1, <1>7, OneState DEF FlatInv, OnEntryDone, In
  <2>2. /\ TopBecomes("action", Top.row, Top.from, Top.data)
        /\ UNCHANGED <<machineVars, events, signalVars, faulted>>
    BY <1>3, <1>7, <2>1, OnEntryMoves
  <2>3. Flat!Goto("action")
    BY <1>2, <2>2, FlatGone DEF Callbacks
  <2> QED
    BY <1>2, <1>3, <2>1, <2>2, <2>3 DEF Flat!OnEntryDone
<1> QED
  BY <1>4, <1>5, <1>6, <1>7

\* What the engines share.
LEMMA FlatShared ==
  ASSUME HierarchyInv, SharedSteps
  PROVE  Flat!EngineReturns \/ Flat!GuardVetoes \/ Flat!ActionRaises \/ Flat!ActionReturns
         \/ Flat!OnTransitionDone
<1> USE DEF machineVars, signalVars, Flat!machineVars, Flat!signalVars
<1>1. EngineInv /\ TypeOK /\ frames # <<>>
  BY SharedMoves DEF HierarchyInv, EngineInv
<1>2. /\ \A at : Flat!In(at) <=> In(at)
      /\ Flat!Top.row = Top.row /\ Flat!Top.from = Top.from /\ Flat!Top.data = Top.data
  BY <1>1, FlatView, StripKeeps
<1>3. CASE EngineReturns
  <2>1. Flat!Leave
    BY <1>1, <1>3, FlatCalls DEF EngineReturns
  <2> QED
    BY <1>2, <1>3, <2>1 DEF EngineReturns, Flat!EngineReturns
<1>4. CASE GuardVetoes
  <2>1. Flat!Goto("loop")
    BY <1>1, <1>4, SharedMoves, FlatGone DEF Callbacks
  <2> QED
    BY <1>2, <1>4, <2>1 DEF GuardVetoes, Flat!GuardVetoes, Fate, Flat!Fate
<1>5. CASE ActionRaises
  <2>1. Flat!Goto("raised")
    BY <1>1, <1>5, SharedMoves, FlatGone DEF Callbacks
  <2>2. PICK r \in Raises[Top.row] \ {NoEvent} : InternalEvent(r)
    BY <1>5 DEF ActionRaises
  <2>3. Flat!InternalEvent(r)
    BY <2>2 DEF InternalEvent, Flat!InternalEvent, Fate, Flat!Fate
  <2> QED
    BY <1>2, <1>5, <2>1, <2>2, <2>3 DEF ActionRaises, Flat!ActionRaises
<1>6. CASE ActionReturns
  <2>1. Flat!Goto("onTransition")
    BY <1>1, <1>6, SharedMoves, FlatGone DEF Callbacks
  <2> QED
    BY <1>2, <1>6, <2>1 DEF ActionReturns, Flat!ActionReturns
<1>7. CASE OnTransitionDone
  <2>1. Flat!Goto("loop")
    BY <1>1, <1>7, SharedMoves, FlatGone DEF Callbacks
  <2> QED
    BY <1>2, <1>7, <2>1 DEF OnTransitionDone, Flat!OnTransitionDone
<1> QED
  BY <1>3, <1>4, <1>5, <1>6, <1>7 DEF SharedSteps

\* An event function, and a callback that generates an event.
LEMMA FlatEvents ==
  ASSUME HierarchyInv, NEW o
  PROVE  /\ CallEvent(o) => Flat!CallEvent(o)
         /\ ReenterEvent(o) => Flat!ReenterEvent(o)
         /\ StrayRaise(o) => Flat!StrayRaise(o)
<1> USE DEF machineVars, signalVars, Flat!machineVars, Flat!signalVars
<1>1. TypeOK
  BY DEF HierarchyInv, EngineInv
<1>2. /\ \A at : Flat!In(at) <=> In(at)
      /\ frames = <<>> <=> Bare(frames) = <<>>
  BY <1>1, FlatView
<1>3. InternalEvent(o) => Flat!InternalEvent(o)
  BY DEF InternalEvent, Flat!InternalEvent, Fate, Flat!Fate
<1>4. ExternalEventImpl(o) => Flat!ExternalEventImpl(o)
  BY <1>1, <1>3, FlatCalls DEF ExternalEventImpl, Flat!ExternalEventImpl
<1>5. ExternalEvent(o) => Flat!ExternalEvent(o)
  BY <1>4 DEF ExternalEvent, Flat!ExternalEvent, vars, Flat!vars
<1>6. CallEvent(o) => Flat!CallEvent(o)
  BY <1>2, <1>5 DEF CallEvent, Flat!CallEvent, Bare, Strip
<1>7. ReenterEvent(o) => Flat!ReenterEvent(o)
  BY <1>2, <1>5 DEF ReenterEvent, Flat!ReenterEvent
<1>8. StrayRaise(o) => Flat!StrayRaise(o)
  BY <1>2, <1>3 DEF StrayRaise, Flat!StrayRaise
<1> QED
  BY <1>6, <1>7, <1>8

\* Every step the flat engine could take as well.
LEMMA FlatTakes ==
  ASSUME HierarchyInv, FlatInv, NoParents, Next
  PROVE  Flat!Next
<1>1. ~faulted /\ Reenters' = Reenters
  BY DEF Next
<1>2. CASE StateEngine
  <2>1. Flat!StateEngine
    BY <1>1, <1>2, EngineKinds, FlatBegins, FlatShared, FlatPass, FlatWalk DEF Flat!StateEngine
  <2> QED
    BY <1>1, <2>1 DEF Flat!Next
<1>3. ASSUME NEW e \in Events, CallEvent(Resolved(e)) \/ ReenterEvent(Resolved(e))
      PROVE  Flat!Next
  <2>1. ParentState \in Columns /\ Rootless(ParentState) /\ m_currentState \in States
    BY DEF HierarchyInv, EngineInv, TypeOK, NoParents, Rootless
  <2>2. PICK o : o = Resolved(e)
    OBVIOUS
  <2>3. CallEvent(o) \/ ReenterEvent(o)
    BY <1>3, <2>2 DEF CallEvent, ReenterEvent, ExternalEvent
  <2>4. Flat!CallEvent(o) \/ Flat!ReenterEvent(o)
    BY <2>3, FlatEvents
  <2>5. o = FlatMap[e][m_currentState]
    BY <2>1, <2>2, RootlessResolves
  <2> QED
    BY <1>1, <2>4, <2>5 DEF Flat!Next, FlatMap
<1>4. ASSUME NEW t \in States, StrayRaise(t)
      PROVE  Flat!Next
  <2>1. Flat!StrayRaise(t)
    BY <1>4, FlatEvents
  <2> QED
    BY <1>1, <2>1 DEF Flat!Next
<1> QED
  BY <1>2, <1>3, <1>4 DEF Next

\* Over a map in which no state has a parent the hierarchical engine is the flat
\* engine over a StateMapRowEx map.
THEOREM HierarchyImplementsFlat == Spec => ImplementsFlatEngine
<1>1. Init => FlatInv
  BY DEF Init, StateMachineInit, FlatInv
<1>2. ASSUME Init, NoParents
      PROVE  Flat!Init
  <2>1. /\ ParentState \in Columns /\ Rootless(ParentState) /\ InitialState \in States
        /\ StateMachineInit(AncestorsOrSelf(InitialState))
    BY <1>2, HSMAssumption, StateMachineAssumption DEF Init, Columns, NoParents, Rootless
  <2>2. AncestorsOrSelf(InitialState) = {InitialState}
    BY <2>1, AncestorsAreTheLineage, RootlessChain
  <2>3. Bare(frames) = <<>>
    <3>1. frames = <<>> /\ TypeOK
      BY <1>2, <2>1, HierarchyStarts DEF StateMachineInit, HierarchyInv, EngineInv
    <3> QED
      BY <3>1, FlatView
  <2> QED
    BY <2>1, <2>2, <2>3 DEF StateMachineInit, Flat!Init, Flat!StateMachineInit, Bare, Strip
<1>3. HierarchyInv /\ FlatInv /\ [Next]_hsmVars => (NoParents => [Flat!Next]_(Flat!flatVars))
  <2> SUFFICES ASSUME HierarchyInv, FlatInv, [Next]_hsmVars, NoParents
               PROVE  Flat!Next \/ UNCHANGED Flat!flatVars
    OBVIOUS
  <2>1. UNCHANGED hsmVars => UNCHANGED Flat!flatVars
    BY DEF hsmVars, vars, machineVars, signalVars, Flat!flatVars, Flat!vars, Flat!machineVars,
       Flat!signalVars
  <2> QED
    BY <2>1, FlatTakes
<1> QED
  BY <1>1, <1>2, <1>3, HierarchyStarts, HierarchyStep, FlatStep, PTL DEF Spec, ImplementsFlatEngine
===========================================================================
