------------------------- MODULE NetworkNodeProofs -------------------------
(***************************************************************************)
(* What TLAPS proves of NetworkNode and of the timers it runs on, for any   *)
(* timers, time-outs, size of a batch and identities of delegates.          *)
(***************************************************************************)
EXTENDS NetworkNode, FiniteSetTheorems, WellFoundedInduction, TLAPS

---------------------------------------------------------------------------
(* What the recursive functions on sequences compute.                       *)

\* A set that holds 0 and with each natural the next one holds them all.
LEMMA Induction ==
  ASSUME NEW S, 0 \in S, \A n \in Nat : n \in S => n + 1 \in S
  PROVE  Nat \subseteq S
<1> DEFINE R == OpToRel(<, Nat)
           T == Nat \ S
<1> SUFFICES ASSUME T # {} PROVE FALSE
  OBVIOUS
<1>1. IsWellFoundedOn(R, Nat)
  BY NatLessThanWellFounded
<1>2. \A x, y \in Nat : x < y => <<x, y>> \in R
  BY DEF OpToRel
<1>3. T \subseteq Nat
  OBVIOUS
<1>4. PICK x \in T : \A y \in T : ~(<<y, x>> \in R)
  <2> HIDE DEF R, T
  <2> QED
    BY <1>1, <1>3, WFMin
<1>5. x \in Nat /\ x # 0
  OBVIOUS
<1>6. x - 1 \in Nat /\ x - 1 < x /\ x - 1 + 1 = x
  BY <1>5
<1> HIDE DEF R
<1>7. x - 1 \in S
  BY <1>2, <1>4, <1>5, <1>6
<1> QED
  BY <1>6, <1>7

\* A function on 0 .. N may be defined by its first value and by each next one.
IsRecursive(f, n, b, step) == f[0] = b /\ \A i \in 1 .. n : f[i] = step[<<i, f[i - 1]>>]
MapsTo(step, n, V) == \A i \in 1 .. n, v \in V : step[<<i, v>>] \in V

\* Such a function exists for every length.
LEMMA RecursionExists ==
  ASSUME NEW N \in Nat, NEW V, NEW b \in V, NEW step, MapsTo(step, N, V)
  PROVE  \E f : f \in [0 .. N -> V] /\ IsRecursive(f, N, b, step)
<1> DEFINE Is(n, f) == f[0] = b /\ \A i \in 1 .. n : f[i] = step[<<i, f[i - 1]>>]
           S == {n \in Nat : n <= N => \E f \in [0 .. n -> V] : Is(n, f)}
<1>1. 0 \in S
  <2> PICK f : f = [i \in 0 .. 0 |-> b]
    OBVIOUS
  <2>1. f \in [0 .. 0 -> V] /\ Is(0, f)
    OBVIOUS
  <2> HIDE DEF Is
  <2> QED
    BY <2>1
<1>2. ASSUME NEW n \in Nat, n \in S, n + 1 <= N
      PROVE  \E f \in [0 .. n + 1 -> V] : Is(n + 1, f)
  <2>1. PICK g \in [0 .. n -> V] : Is(n, g)
    BY <1>2
  <2> PICK f : f = [i \in 0 .. n + 1 |-> IF i = n + 1 THEN step[<<n + 1, g[n]>>] ELSE g[i]]
    OBVIOUS
  <2>2. n \in 0 .. n /\ n + 1 \in 1 .. N /\ g[n] \in V
    BY <1>2
  <2>3. step[<<n + 1, g[n]>>] \in V
    BY <2>2 DEF MapsTo
  <2>4. f \in [0 .. n + 1 -> V]
    BY <2>3
  <2>5. ASSUME NEW i \in 1 .. n + 1 PROVE f[i] = step[<<i, f[i - 1]>>]
    <3>1. i - 1 \in 0 .. n /\ i - 1 # n + 1 /\ f[i - 1] = g[i - 1]
      OBVIOUS
    <3>2. CASE i = n + 1
      <4>1. i - 1 = n /\ f[i] = step[<<n + 1, g[n]>>]
        BY <3>2
      <4> QED
        BY <3>1, <3>2, <4>1
    <3>3. CASE i # n + 1
      <4>1. i \in 1 .. n /\ f[i] = g[i]
        BY <3>3
      <4> QED
        BY <2>1, <3>1, <4>1
    <3> QED
      BY <3>2, <3>3
  <2>6. f[0] = b
    BY <2>1
  <2> QED
    BY <2>4, <2>5, <2>6
<1>3. \A n \in Nat : n \in S => n + 1 \in S
  BY <1>2
<1> HIDE DEF S
<1>4. N \in S
  BY <1>1, <1>3, Induction
<1> QED
  BY <1>4 DEF S, IsRecursive

NoRepeats(s) == \A i, j \in 1 .. Len(s) : s[i] = s[j] => i = j

\* What Append and Tail do to the elements of a sequence.
LEMMA AppendRange ==
  ASSUME NEW T, NEW q \in Seq(T), NEW x \in T
  PROVE  Append(q, x) \in Seq(T) /\ Range(Append(q, x)) = Range(q) \cup {x}
<1>1. /\ Append(q, x) \in Seq(T)
      /\ DOMAIN Append(q, x) = 1 .. Len(q) + 1 /\ DOMAIN q = 1 .. Len(q)
      /\ \A i \in 1 .. Len(q) : Append(q, x)[i] = q[i]
      /\ Append(q, x)[Len(q) + 1] = x /\ Len(q) \in Nat
  OBVIOUS
<1> PICK a : a = Append(q, x)
  OBVIOUS
<1>2. 1 .. Len(q) + 1 = (1 .. Len(q)) \cup {Len(q) + 1}
  BY <1>1
<1>3. Range(a) = Range(q) \cup {x}
  BY <1>1, <1>2 DEF Range
<1> QED
  BY <1>1, <1>3

\* What Filter computes step by step.
LEMMA FilterSteps ==
  ASSUME NEW T, NEW s \in Seq(T), NEW S
  PROVE  \E f : /\ f[0] = <<>> /\ Filter(s, S) = f[Len(s)]
                /\ \A i \in 1 .. Len(s) :
                     f[i] = IF s[i] \in S THEN Append(f[i - 1], s[i]) ELSE f[i - 1]
<1> PICK n : n = Len(s)
  OBVIOUS
<1>a. PICK V : V = Seq(T)
  OBVIOUS
<1>b. PICK step : step = [p \in (1 .. n) \X V |->
                           IF s[p[1]] \in S THEN Append(p[2], s[p[1]]) ELSE p[2]]
  OBVIOUS
<1>1. n \in Nat /\ <<>> \in V /\ \A i \in 1 .. n : s[i] \in T
  BY <1>a
<1>2. MapsTo(step, n, V)
  <2>1. \A i \in 1 .. n, v \in V : Append(v, s[i]) \in V
    BY <1>1, <1>a
  <2> QED
    BY <2>1, <1>b DEF MapsTo
<1>3. PICK f : f \in [0 .. n -> V] /\ IsRecursive(f, n, <<>>, step)
  BY <1>1, <1>2, RecursionExists
<1>4. ASSUME NEW i \in 1 .. n
      PROVE  f[i] = IF s[i] \in S THEN Append(f[i - 1], s[i]) ELSE f[i - 1]
  <2>1. i - 1 \in 0 .. n /\ f[i - 1] \in V
    BY <1>1, <1>3
  <2> PICK v : v = f[i - 1]
    OBVIOUS
  <2>2. step[<<i, v>>] = IF s[i] \in S THEN Append(v, s[i]) ELSE v
    BY <2>1, <1>b
  <2> QED
    BY <1>3, <2>2 DEF IsRecursive
<1> DEFINE F(g) == [i \in 0 .. n |->
                     IF i = 0 THEN <<>>
                     ELSE IF s[i] \in S THEN Append(g[i - 1], s[i]) ELSE g[i - 1]]
<1>5. f = F(f)
  <2>1. \A i \in 0 .. n : f[i] = IF i = 0 THEN <<>>
                     ELSE IF s[i] \in S THEN Append(f[i - 1], s[i]) ELSE f[i - 1]
    <3> TAKE i \in 0 .. n
    <3>1. CASE i = 0
      BY <1>3, <3>1 DEF IsRecursive
    <3>2. CASE i \in 1 .. n
      <4>1. i # 0
        BY <3>2
      <4> QED
        BY <1>4, <3>2, <4>1
    <3> QED
      BY <1>1, <3>1, <3>2
  <2> QED
    BY <1>3, <2>1
<1>6. PICK g : g = (CHOOSE h : h = F(h))
  OBVIOUS
<1>7. g = F(g)
  <2> HIDE DEF F
  <2> QED
    BY <1>5, <1>6
<1>8. Filter(s, S) = g[n]
  BY <1>6 DEF Filter
<1>9. ASSUME NEW i \in 0 .. n
      PROVE  g[i] = IF i = 0 THEN <<>>
                    ELSE IF s[i] \in S THEN Append(g[i - 1], s[i]) ELSE g[i - 1]
  BY <1>7
<1>10. 0 \in 0 .. n /\ \A i \in 1 .. n : i \in 0 .. n /\ i # 0
  BY <1>1
<1> QED
  BY <1>8, <1>9, <1>10

\* A filtered sequence has the elements of s that are in S, and repeats none
\* that s does not repeat.
LEMMA FilterElements ==
  ASSUME NEW T, NEW s \in Seq(T), NEW S
  PROVE  /\ Filter(s, S) \in Seq(T)
         /\ Range(Filter(s, S)) = Range(s) \cap S
         /\ NoRepeats(s) => NoRepeats(Filter(s, S))
<1>1. PICK f : /\ f[0] = <<>> /\ Filter(s, S) = f[Len(s)]
               /\ \A i \in 1 .. Len(s) :
                    f[i] = IF s[i] \in S THEN Append(f[i - 1], s[i]) ELSE f[i - 1]
  BY FilterSteps
<1> DEFINE Upto(n) == {s[k] : k \in 1 .. n} \cap S
           Holds(n) == /\ f[n] \in Seq(T) /\ Range(f[n]) = Upto(n)
                       /\ NoRepeats(s) => NoRepeats(f[n])
           N == {n \in Nat : n <= Len(s) => Holds(n)}
<1>2. 0 \in N
  <2>1. f[0] \in Seq(T) /\ Range(f[0]) = {} /\ NoRepeats(f[0])
    <3> PICK q : q = f[0]
      OBVIOUS
    <3>1. q = <<>>
      BY <1>1
    <3> QED
      BY <3>1 DEF Range, NoRepeats
  <2> QED
    BY <2>1
<1>3. ASSUME NEW n \in Nat, n \in N, n + 1 <= Len(s)
      PROVE  Holds(n + 1)
  <2>1. n <= Len(s) /\ n + 1 \in 1 .. Len(s) /\ n + 1 - 1 = n /\ s[n + 1] \in T /\ Holds(n)
    BY <1>3
  <2>2. Upto(n + 1) = Upto(n) \cup ({s[n + 1]} \cap S)
    <3>1. 1 .. n + 1 = (1 .. n) \cup {n + 1}
      OBVIOUS
    <3> QED
      BY <3>1
  <2>3. CASE s[n + 1] \notin S
    <3>1. f[n + 1] = f[n] /\ Upto(n + 1) = Upto(n)
      BY <1>1, <2>1, <2>2, <2>3
    <3> QED
      BY <2>1, <3>1
  <2>4. CASE s[n + 1] \in S
    <3>0. f[n + 1] = Append(f[n], s[n + 1])
      <4>1. n + 1 \in 1 .. Len(s) /\ n + 1 - 1 = n
        BY <2>1
      <4>2. \A i \in 1 .. Len(s) : s[i] \in S => f[i] = Append(f[i - 1], s[i])
        BY <1>1, Zenon
      <4>3. PICK m : m = n + 1
        OBVIOUS
      <4>4. m \in 1 .. Len(s) /\ s[m] \in S /\ m - 1 = n
        BY <2>4, <4>1, <4>3
      <4>5. f[m] = Append(f[m - 1], s[m])
        BY <4>2, <4>4, Zenon
      <4> QED
        BY <4>3, <4>4, <4>5
    <3>1. f[n + 1] = Append(f[n], s[n + 1]) /\ Upto(n + 1) = Upto(n) \cup {s[n + 1]}
      <4> HIDE DEF Upto
      <4> QED
        BY <3>0, <2>2, <2>4
    <3> PICK q : q = f[n]
      OBVIOUS
    <3> PICK x : x = s[n + 1]
      OBVIOUS
    <3> HIDE DEF Upto
    <3>2. Append(q, x) \in Seq(T) /\ Range(Append(q, x)) = Range(q) \cup {x}
      <4>1. q \in Seq(T) /\ x \in T
        BY <2>1
      <4> QED
        BY <4>1, AppendRange
    <3>3. ASSUME NoRepeats(s) PROVE NoRepeats(Append(q, x))
      <4>1. NoRepeats(q) /\ q \in Seq(T) /\ x \in T
        BY <2>1, <3>3
      <4>2. x \notin Range(q)
        <5> SUFFICES ASSUME NEW k \in 1 .. n, s[k] = s[n + 1] PROVE FALSE
          BY <2>1 DEF Upto
        <5>1. k \in 1 .. Len(s) /\ k # n + 1
          BY <2>1
        <5> QED
          BY <2>1, <3>3, <5>1 DEF NoRepeats
      <4> QED
        BY <4>1, <4>2 DEF NoRepeats, Range
    <3> QED
      BY <3>1, <3>2, <3>3, <2>1
  <2> QED
    BY <2>3, <2>4
<1>4. \A n \in Nat : n \in N => n + 1 \in N
  <2> HIDE DEF Holds
  <2> QED
    BY <1>3
<1>5. Len(s) \in N
  <2> HIDE DEF N
  <2> QED
    BY <1>2, <1>4, Induction
<1>6. Upto(Len(s)) = Range(s) \cap S
  BY DEF Range
<1> QED
  BY <1>1, <1>5, <1>6
\* A concatenation has the elements of both sequences.
LEMMA ConcatRange ==
  ASSUME NEW T, NEW p \in Seq(T), NEW q \in Seq(T)
  PROVE  p \o q \in Seq(T) /\ Range(p \o q) = Range(p) \cup Range(q)
<1>1. /\ p \o q \in Seq(T) /\ Len(p) \in Nat /\ Len(q) \in Nat
      /\ DOMAIN (p \o q) = 1 .. Len(p) + Len(q)
      /\ DOMAIN p = 1 .. Len(p) /\ DOMAIN q = 1 .. Len(q)
      /\ \A i \in 1 .. Len(p) : (p \o q)[i] = p[i]
      /\ \A i \in 1 .. Len(q) : (p \o q)[Len(p) + i] = q[i]
  OBVIOUS
<1> PICK a : a = p \o q
  OBVIOUS
<1>2. ASSUME NEW i \in 1 .. Len(p) + Len(q) PROVE a[i] \in Range(p) \cup Range(q)
  <2>1. CASE i \in 1 .. Len(p)
    BY <1>1, <2>1 DEF Range
  <2>2. CASE i \notin 1 .. Len(p)
    <3>1. i - Len(p) \in 1 .. Len(q) /\ Len(p) + (i - Len(p)) = i
      BY <1>1, <2>2
    <3>2. a[i] = q[i - Len(p)]
      BY <1>1, <3>1
    <3> QED
      BY <1>1, <3>1, <3>2 DEF Range
  <2> QED
    BY <2>1, <2>2
<1>3. ASSUME NEW i \in 1 .. Len(p) PROVE p[i] \in Range(a)
  <2>1. i \in 1 .. Len(p) + Len(q)
    BY <1>1
  <2> QED
    BY <1>1, <2>1 DEF Range
<1>4. ASSUME NEW i \in 1 .. Len(q) PROVE q[i] \in Range(a)
  <2>1. Len(p) + i \in 1 .. Len(p) + Len(q)
    BY <1>1
  <2> QED
    BY <1>1, <2>1 DEF Range
<1>5. Range(a) = Range(p) \cup Range(q)
  <2>1. Range(a) \subseteq Range(p) \cup Range(q)
    <3> SUFFICES ASSUME NEW i \in DOMAIN a PROVE a[i] \in Range(p) \cup Range(q)
      BY DEF Range
    <3> QED
      BY <1>1, <1>2
  <2>2. Range(p) \subseteq Range(a)
    <3> SUFFICES ASSUME NEW i \in DOMAIN p PROVE p[i] \in Range(a)
      BY DEF Range
    <3> QED
      BY <1>1, <1>3
  <2>3. Range(q) \subseteq Range(a)
    <3> SUFFICES ASSUME NEW i \in DOMAIN q PROVE q[i] \in Range(a)
      BY DEF Range
    <3> QED
      BY <1>1, <1>4
  <2> QED
    BY <2>1, <2>2, <2>3
<1> QED
  BY <1>1, <1>5

\* What FlattenSeq computes step by step.
LEMMA FlattenSteps ==
  ASSUME NEW T, NEW seqs \in Seq(Seq(T)), seqs # <<>>
  PROVE  \E f : /\ f[1] = seqs[1] /\ FlattenSeq(seqs) = f[Len(seqs)]
                /\ \A i \in 2 .. Len(seqs) : f[i] = f[i - 1] \o seqs[i]
<1> PICK n : n = Len(seqs)
  OBVIOUS
<1>a. PICK V : V = Seq(T)
  OBVIOUS
<1>b. PICK step : step = [p \in (1 .. n) \X V |-> p[2] \o seqs[p[1]]]
  OBVIOUS
<1>1. n \in Nat \ {0} /\ <<>> \in V /\ \A i \in 1 .. n : seqs[i] \in V
  BY <1>a
<1>2. MapsTo(step, n, V)
  <2>1. \A i \in 1 .. n, v \in V : v \o seqs[i] \in V
    BY <1>1, <1>a
  <2> QED
    BY <2>1, <1>b DEF MapsTo
<1>3. PICK e : e \in [0 .. n -> V] /\ IsRecursive(e, n, <<>>, step)
  BY <1>1, <1>2, RecursionExists
<1>4. ASSUME NEW i \in 1 .. n PROVE e[i] = e[i - 1] \o seqs[i]
  <2>1. i - 1 \in 0 .. n
    BY <1>1
  <2>a. e[i - 1] \in V
    BY <1>3, <2>1
  <2> PICK v : v = e[i - 1]
    OBVIOUS
  <2>2. step[<<i, v>>] = v \o seqs[i]
    BY <2>a, <1>b
  <2> QED
    BY <1>3, <2>2 DEF IsRecursive
<1>5. e[1] = seqs[1]
  <2>1. 1 \in 1 .. n /\ 1 - 1 = 0 /\ e[0] = <<>>
    BY <1>1, <1>3 DEF IsRecursive
  <2>2. e[1] = e[0] \o seqs[1]
    BY <1>4, <2>1
  <2>3. seqs[1] \in Seq(T)
    BY <1>1, <1>a, <2>1
  <2>4. <<>> \o seqs[1] = seqs[1]
    BY <2>3
  <2> QED
    BY <2>1, <2>2, <2>4
<1> DEFINE F(g) == [i \in 1 .. n |-> IF i = 1 THEN seqs[i] ELSE g[i - 1] \o seqs[i]]
<1>6. PICK f : f = [i \in 1 .. n |-> e[i]]
  OBVIOUS
<1>7. f = F(f)
  <2>1. ASSUME NEW i \in 1 .. n
        PROVE  f[i] = IF i = 1 THEN seqs[i] ELSE f[i - 1] \o seqs[i]
    <3>1. CASE i = 1
      BY <1>5, <1>6, <3>1
    <3>2. CASE i # 1
      <4>1. i - 1 \in 1 .. n
        BY <1>1, <3>2
      <4>2. f[i] = e[i] /\ f[i - 1] = e[i - 1]
        BY <1>6, <4>1
      <4> QED
        BY <1>4, <3>2, <4>2
    <3> QED
      BY <3>1, <3>2
  <2> QED
    BY <1>6, <2>1
<1>8. PICK g : g = (CHOOSE h : h = F(h))
  OBVIOUS
<1>9. g = F(g)
  <2> HIDE DEF F
  <2> QED
    BY <1>7, <1>8
<1>10. FlattenSeq(seqs) = g[n]
  BY <1>1, <1>8 DEF FlattenSeq
<1>11. ASSUME NEW i \in 1 .. n
       PROVE  g[i] = IF i = 1 THEN seqs[i] ELSE g[i - 1] \o seqs[i]
  BY <1>9
<1>12. 1 \in 1 .. n /\ \A i \in 2 .. n : i \in 1 .. n /\ i # 1
  BY <1>1
<1> QED
  BY <1>10, <1>11, <1>12

\* The elements of the flattened sequence are elements of its parts.
LEMMA FlattenElements ==
  ASSUME NEW T, NEW seqs \in Seq(Seq(T))
  PROVE  /\ FlattenSeq(seqs) \in Seq(T)
         /\ \A x \in Range(FlattenSeq(seqs)) : \E i \in 1 .. Len(seqs) : x \in Range(seqs[i])
<1>1. CASE seqs = <<>>
  <2>1. FlattenSeq(seqs) = <<>>
    BY <1>1 DEF FlattenSeq
  <2>2. <<>> \in Seq(T) /\ Range(<<>>) = {}
    BY DEF Range
  <2> QED
    BY <2>1, <2>2
<1>2. CASE seqs # <<>>
  <2>1. PICK f : /\ f[1] = seqs[1] /\ FlattenSeq(seqs) = f[Len(seqs)]
                 /\ \A i \in 2 .. Len(seqs) : f[i] = f[i - 1] \o seqs[i]
    BY <1>2, FlattenSteps
  <2> DEFINE Holds(n) == /\ f[n] \in Seq(T)
                         /\ \A x \in Range(f[n]) : \E i \in 1 .. Len(seqs) : x \in Range(seqs[i])
             N == {n \in Nat : n + 1 <= Len(seqs) => Holds(n + 1)}
  <2>2. Len(seqs) \in Nat \ {0} /\ 1 \in 1 .. Len(seqs) /\ \A i \in 1 .. Len(seqs) : seqs[i] \in Seq(T)
    BY <1>2
  <2>3. 0 \in N
    <3>1. Holds(1)
      BY <2>1, <2>2
    <3> HIDE DEF Holds
    <3> QED
      BY <3>1
  <2>4. ASSUME NEW n \in Nat, n \in N, n + 1 + 1 <= Len(seqs)
        PROVE  Holds(n + 1 + 1)
    <3>1. PICK m : m = n + 1 + 1
      OBVIOUS
    <3>2. m \in 2 .. Len(seqs) /\ m \in 1 .. Len(seqs) /\ m - 1 = n + 1 /\ n + 1 <= Len(seqs)
      BY <2>2, <2>4, <3>1
    <3>3. Holds(m - 1)
      <4> HIDE DEF Holds
      <4> QED
        BY <2>4, <3>2
    <3>4. f[m] = f[m - 1] \o seqs[m]
      BY <2>1, <3>2
    <3> PICK p : p = f[m - 1]
      OBVIOUS
    <3>5. p \in Seq(T) /\ seqs[m] \in Seq(T)
      BY <2>2, <3>2, <3>3
    <3>6. p \o seqs[m] \in Seq(T) /\ Range(p \o seqs[m]) = Range(p) \cup Range(seqs[m])
      BY <3>5, ConcatRange
    <3>7. Holds(m)
      BY <3>2, <3>3, <3>4, <3>6
    <3> QED
      BY <3>1, <3>7
  <2>5. \A n \in Nat : n \in N => n + 1 \in N
    <3> HIDE DEF Holds
    <3> QED
      BY <2>4
  <2>6. Len(seqs) - 1 \in N
    <3> HIDE DEF N
    <3>1. Len(seqs) - 1 \in Nat
      BY <2>2
    <3> QED
      BY <2>3, <2>5, <3>1, Induction
  <2>7. Holds(Len(seqs))
    <3>1. Len(seqs) - 1 + 1 = Len(seqs) /\ Len(seqs) <= Len(seqs)
      BY <2>2
    <3> HIDE DEF Holds
    <3> QED
      BY <2>6, <3>1
  <2> QED
    BY <2>1, <2>7
<1> QED
  BY <1>1, <1>2

\* A sequence that repeats nothing is as long as it has elements.
LEMMA LengthIsCardinality ==
  ASSUME NEW T, NEW s \in Seq(T), NoRepeats(s)
  PROVE  Len(s) = Cardinality(Range(s))
<1>1. Len(s) \in Nat /\ s \in [1 .. Len(s) -> Range(s)]
  BY DEF Range
<1>2. \A x \in Range(s) : \E i \in 1 .. Len(s) : s[i] = x
  BY DEF Range
<1>3. ExistsBijection(1 .. Len(s), Range(s))
  <2>1. s \in Bijection(1 .. Len(s), Range(s))
    BY <1>1, <1>2 DEF NoRepeats, Bijection, Injection, Surjection, IsInjective
  <2> QED
    BY <2>1 DEF ExistsBijection
<1>4. IsFiniteSet(1 .. Len(s)) /\ Cardinality(1 .. Len(s)) = Len(s)
  BY <1>1, FS_Interval
<1> QED
  BY <1>1, <1>3, FS_CountingElements
---------------------------------------------------------------------------
(* The invariants.                                                          *)

Entries == [left : Int, m_timeout : Timeouts, m_once : BOOLEAN]

TimerTypes ==
  /\ live \subseteq Timers /\ timers \in Seq(Timers)
  /\ DOMAIN enabled \subseteq Timers /\ \A t \in DOMAIN enabled : enabled[t] \in Entries
  /\ m_timerStopped \in BOOLEAN /\ owed \subseteq Timers
  /\ at \in {"idle", "scan", "invoke"} /\ snapshots \in Seq(Delegates) /\ full \in BOOLEAN
  /\ delegates \in [Timers -> Seq(Delegates)] /\ connections \subseteq Delegates

\* The list repeats no timer; it has every timer that is enabled, and of the
\* others only some that are alive and wait to be unlinked.
ListInv ==
  /\ NoRepeats(timers)
  /\ DOMAIN enabled \subseteq Range(timers) /\ Range(timers) \subseteq live
  /\ Range(timers) \subseteq DOMAIN enabled \/ m_timerStopped

\* What ProcessTimers still owes has expired, and a batch that was not full
\* has left nothing.
OwedInv ==
  /\ owed \subseteq Due
  /\ at = "idle" \/ (at = "invoke" /\ ~full) => owed = {}

TimerInv == TimerTypes /\ ListInv /\ OwedInv

NodeTypes ==
  /\ owner \in {"stopped", "starting", "started", "stopping", "exit", "joining"}
  /\ thread \in {"none", "open", "exiting", "exited"}
  /\ queue \in Seq(Delegates) /\ running \in Delegates \cup {None}
  /\ m_mutex \in {"free", "owner", "tick"} /\ stale \subseteq Delegates

\* Every reference to a TimerDelegate, in a snapshot, in the queue or in a tick
\* that runs, is to one that is connected or stale; only m_recvTimer has any;
\* and when the thread has exited no tick is left.
TargetInv ==
  /\ Range(snapshots) \cup Range(queue) \cup ({running} \ {None}) \subseteq connections \cup stale
  /\ \A t \in Timers : Range(delegates[t]) \subseteq connections
  /\ \A t \in Clients : delegates[t] = <<>>
  /\ thread = "exited" => queue = <<>> /\ running = None

NodeInv == TimerInv /\ NodeTypes /\ TargetInv

---------------------------------------------------------------------------
(* What the clients of Timer do.                                            *)

\* What is left of a table.
LEMMA WithoutEntry ==
  ASSUME NEW f, NEW K
  PROVE  /\ DOMAIN Without(f, K) = DOMAIN f \ K
         /\ \A x \in DOMAIN f \ K : Without(f, K)[x] = f[x]
BY DEF Without

\* Start: the timer is enabled and in the list once.
LEMMA StartKeeps ==
  ASSUME TimerInv, NEW t \in Timers, NEW timeout \in Timeouts, NEW once \in BOOLEAN,
         Start(t, timeout, once), UNCHANGED processVars,
         delegates' \in [Timers -> Seq(Delegates)], connections' \subseteq Delegates
  PROVE  TimerInv'
<1>a. PICK e : e = [left |-> timeout, m_timeout |-> timeout, m_once |-> once]
  OBVIOUS
<1>1. e \in Entries
  BY <1>a, TimerAssumption DEF TimerAssumption, Entries
<1>2. /\ t \in live /\ enabled' = With(enabled, t, e) /\ owed' = owed \ {t}
      /\ UNCHANGED <<live, m_timerStopped, at, snapshots, full>>
  BY <1>a DEF Start, processVars
<1>3. /\ DOMAIN enabled' = DOMAIN enabled \cup {t}
      /\ \A x \in DOMAIN enabled \cup {t} : enabled'[x] = IF x = t THEN e ELSE enabled[x]
  BY <1>2 DEF With
<1>4. /\ timers' \in Seq(Timers) /\ NoRepeats(timers')
      /\ Range(timers') = Range(timers) \cup {t}
  <2>1. timers \in Seq(Timers) /\ NoRepeats(timers)
    BY DEF TimerInv, TimerTypes, ListInv
  <2>2. CASE t \in Range(timers)
    <3>1. timers' = timers
      BY <2>2 DEF Start
    <3> QED
      BY <2>1, <2>2, <3>1
  <2>3. CASE t \notin Range(timers)
    <3>1. timers' = <<t>> \o timers
      BY <2>3 DEF Start
    <3>2. PICK s : s = timers
      OBVIOUS
    <3>3. PICK h : h = <<t>>
      OBVIOUS
    <3>4. h \in Seq(Timers) /\ s \in Seq(Timers) /\ Range(h) = {t}
      BY <2>1, <3>2, <3>3 DEF Range
    <3>5. h \o s \in Seq(Timers) /\ Range(h \o s) = {t} \cup Range(s)
      BY <3>4, ConcatRange
    <3>6. NoRepeats(h \o s)
      <4>1. /\ Len(s) \in Nat /\ Len(h \o s) = 1 + Len(s) /\ (h \o s)[1] = t
            /\ \A i \in 2 .. 1 + Len(s) : (h \o s)[i] = s[i - 1]
        BY <3>3, <3>4
      <4>2. PICK q : q = h \o s
        OBVIOUS
      <4>3. \A i \in 2 .. Len(q) : i - 1 \in 1 .. Len(s) /\ q[i] = s[i - 1] /\ q[i] # t
        BY <2>3, <3>2, <4>1, <4>2 DEF Range
      <4>4. ASSUME NEW i \in 1 .. Len(q), NEW j \in 1 .. Len(q), q[i] = q[j] PROVE i = j
        <5>1. q[1] = t /\ Len(q) \in Nat
          BY <4>1, <4>2
        <5>2. CASE i = 1 \/ j = 1
          BY <4>3, <4>4, <5>1, <5>2
        <5>3. CASE i # 1 /\ j # 1
          <6>1. i \in 2 .. Len(q) /\ j \in 2 .. Len(q)
            BY <5>1, <5>3
          <6>2. i - 1 = j - 1
            BY <2>1, <3>2, <4>3, <4>4, <6>1 DEF NoRepeats
          <6> QED
            BY <6>1, <6>2
        <5> QED
          BY <5>2, <5>3
      <4> QED
        BY <4>2, <4>4 DEF NoRepeats
    <3> QED
      BY <3>1, <3>2, <3>3, <3>5, <3>6
  <2> QED
    BY <2>2, <2>3
<1>5. TimerTypes'
  BY <1>1, <1>2, <1>3, <1>4 DEF TimerInv, TimerTypes
<1>6. ListInv'
  BY <1>2, <1>3, <1>4 DEF TimerInv, ListInv
<1>7. owed' \subseteq Due'
  BY <1>2, <1>3 DEF TimerInv, OwedInv, Due
<1>8. OwedInv'
  BY <1>2, <1>7 DEF TimerInv, OwedInv
<1> QED
  BY <1>5, <1>6, <1>8 DEF TimerInv

\* Stop: the timer stays in the list until the next pass.
LEMMA StopKeeps ==
  ASSUME TimerInv, NEW t \in Timers, Stop(t), UNCHANGED <<processVars, delegates, connections>>
  PROVE  TimerInv'
<1>1. /\ enabled' = Without(enabled, {t}) /\ owed' = owed \ {t} /\ m_timerStopped' = TRUE
      /\ UNCHANGED <<live, timers, at, snapshots, full, delegates, connections>>
  BY DEF Stop, processVars
<1>2. /\ DOMAIN enabled' = DOMAIN enabled \ {t}
      /\ \A x \in DOMAIN enabled \ {t} : enabled'[x] = enabled[x]
  BY <1>1, WithoutEntry
<1>3. TimerTypes'
  BY <1>1, <1>2 DEF TimerInv, TimerTypes
<1>4. ListInv'
  BY <1>1, <1>2 DEF TimerInv, ListInv
<1>5. owed' \subseteq Due'
  BY <1>1, <1>2 DEF TimerInv, OwedInv, Due
<1>6. OwedInv'
  BY <1>1, <1>5 DEF TimerInv, OwedInv
<1> QED
  BY <1>3, <1>4, <1>6 DEF TimerInv

\* ~Timer: the timer is unlinked, whether it is enabled or not.
LEMMA DestroyKeeps ==
  ASSUME TimerInv, NEW t \in Timers, Destroy(t)
  PROVE  TimerInv'
<1>1. /\ live' = live \ {t} /\ timers' = Filter(timers, Timers \ {t})
      /\ enabled' = Without(enabled, {t}) /\ owed' = owed \ {t}
      /\ delegates' = [delegates EXCEPT ![t] = <<>>]
      /\ UNCHANGED <<m_timerStopped, at, snapshots, full, connections>>
  BY DEF Destroy, Unlinked, MarkDead, processVars
<1>2. /\ DOMAIN enabled' = DOMAIN enabled \ {t}
      /\ \A x \in DOMAIN enabled \ {t} : enabled'[x] = enabled[x]
  BY <1>1, WithoutEntry
<1>3. timers \in Seq(Timers) /\ NoRepeats(timers) /\ Range(timers) \subseteq Timers
  BY DEF TimerInv, TimerTypes, ListInv, Range
<1> PICK s : s = timers
  OBVIOUS
<1>4. /\ Filter(s, Timers \ {t}) \in Seq(Timers) /\ NoRepeats(Filter(s, Timers \ {t}))
      /\ Range(Filter(s, Timers \ {t})) = Range(s) \cap (Timers \ {t})
  BY <1>3, FilterElements
<1>5. timers' \in Seq(Timers) /\ NoRepeats(timers') /\ Range(timers') = Range(timers) \ {t}
  BY <1>1, <1>3, <1>4
<1>6. TimerTypes'
  <2>1. delegates' \in [Timers -> Seq(Delegates)]
    <3>1. <<>> \in Seq(Delegates) /\ delegates \in [Timers -> Seq(Delegates)]
      BY DEF TimerInv, TimerTypes
    <3> QED
      BY <1>1, <3>1
  <2> QED
    BY <1>1, <1>2, <1>5, <2>1 DEF TimerInv, TimerTypes
<1>7. ListInv'
  BY <1>1, <1>2, <1>5 DEF TimerInv, ListInv
<1>8. owed' \subseteq Due'
  BY <1>1, <1>2 DEF TimerInv, OwedInv, Due
<1>9. OwedInv'
  BY <1>1, <1>8 DEF TimerInv, OwedInv
<1> QED
  BY <1>6, <1>7, <1>9 DEF TimerInv
---------------------------------------------------------------------------
(* What ProcessTimers does.                                                 *)

\* A batch has only timers that have expired, and all of them unless it is full.
LEMMA BatchIs ==
  ASSUME NEW list \in Seq(Timers), Range(list) = DOMAIN enabled
  PROVE  /\ Batch(list) \in Seq(Timers) /\ Range(Batch(list)) \subseteq Due
         /\ Len(Batch(list)) # MAX_TIMER_EXPIRED => Range(Batch(list)) = Due
<1>1. PICK x : x = Filter(list, Due)
  OBVIOUS
<1>2. x \in Seq(Timers) /\ Range(x) = Due
  <2>1. Due \subseteq DOMAIN enabled
    BY DEF Due
  <2>2. PICK S : S = Due
    OBVIOUS
  <2>3. Filter(list, S) \in Seq(Timers) /\ Range(Filter(list, S)) = Range(list) \cap S
    BY FilterElements
  <2> QED
    BY <1>1, <2>1, <2>2, <2>3
<1>3. PICK m : m = Min({MAX_TIMER_EXPIRED, Len(x)})
  OBVIOUS
<1>4. m \in Nat /\ m <= Len(x) /\ (m = Len(x) \/ m = MAX_TIMER_EXPIRED)
  <2>1. MAX_TIMER_EXPIRED \in Nat /\ Len(x) \in Nat
    BY <1>2, TimerAssumption DEF TimerAssumption
  <2>2. \E y \in {MAX_TIMER_EXPIRED, Len(x)} : \A z \in {MAX_TIMER_EXPIRED, Len(x)} : y <= z
    BY <2>1
  <2>3. m \in {MAX_TIMER_EXPIRED, Len(x)} /\ \A z \in {MAX_TIMER_EXPIRED, Len(x)} : m <= z
    BY <1>3, <2>2 DEF Min
  <2> QED
    BY <2>1, <2>3
<1>5. PICK b : b = SubSeq(x, 1, m)
  OBVIOUS
<1>6. /\ b \in Seq(Timers) /\ Len(b) = m
      /\ \A i \in 1 .. Len(b) : i \in 1 .. Len(x) /\ b[i] = x[i]
  BY <1>2, <1>4, <1>5
<1>7. Range(b) \subseteq Due
  <2>1. \A i \in 1 .. Len(b) : b[i] \in Range(x)
    BY <1>2, <1>6 DEF Range
  <2> QED
    BY <1>2, <1>6, <2>1 DEF Range
<1>8. ASSUME Len(b) # MAX_TIMER_EXPIRED PROVE Range(b) = Due
  <2>1. Len(b) = Len(x)
    BY <1>4, <1>6, <1>8
  <2>2. \A i \in 1 .. Len(x) : x[i] \in Range(b)
    BY <1>6, <2>1 DEF Range
  <2>3. Range(x) \subseteq Range(b)
    BY <1>2, <2>2 DEF Range
  <2> QED
    BY <1>2, <1>7, <2>3
<1>9. Batch(list) = b
  BY <1>1, <1>3, <1>5 DEF Batch
<1> QED
  BY <1>6, <1>7, <1>8, <1>9

\* The snapshots of a sequence of timers hold delegates of these timers.
LEMMA SnapshotsOf ==
  ASSUME NEW D, NEW f \in [Timers -> Seq(D)], NEW b \in Seq(Timers)
  PROVE  /\ FlattenSeq([i \in DOMAIN b |-> f[b[i]]]) \in Seq(D)
         /\ \A d \in Range(FlattenSeq([i \in DOMAIN b |-> f[b[i]]])) :
              \E t \in Timers : d \in Range(f[t])
<1>1. PICK seqs : seqs = [i \in DOMAIN b |-> f[b[i]]]
  OBVIOUS
<1>2. seqs \in Seq(Seq(D)) /\ Len(seqs) = Len(b)
  <2>1. Len(b) \in Nat /\ DOMAIN b = 1 .. Len(b) /\ \A i \in 1 .. Len(b) : b[i] \in Timers
    OBVIOUS
  <2>2. seqs \in [1 .. Len(b) -> Seq(D)]
    BY <1>1, <2>1
  <2>3. PICK n : n = Len(b)
    OBVIOUS
  <2>4. n \in Nat /\ seqs \in [1 .. n -> Seq(D)] /\ DOMAIN seqs = 1 .. n
    BY <2>1, <2>2, <2>3
  <2>5. seqs \in Seq(Seq(D))
    BY <2>4
  <2> QED
    BY <2>3, <2>4, <2>5
<1>3. \A i \in 1 .. Len(seqs) : b[i] \in Timers /\ seqs[i] = f[b[i]]
  BY <1>1, <1>2
<1>4. /\ FlattenSeq(seqs) \in Seq(D)
      /\ \A x \in Range(FlattenSeq(seqs)) : \E i \in 1 .. Len(seqs) : x \in Range(seqs[i])
  BY <1>2, FlattenElements
<1>5. ASSUME NEW d \in Range(FlattenSeq(seqs)) PROVE \E t \in Timers : d \in Range(f[t])
  <2>1. PICK i \in 1 .. Len(seqs) : d \in Range(seqs[i])
    BY <1>4
  <2> QED
    BY <1>3, <2>1
<1> QED
  BY <1>1, <1>4, <1>5

\* Scan: the list is purged, a batch taken, and its timers re-armed or stopped.
LEMMA ScanKeeps ==
  ASSUME TimerInv, Scan
  PROVE  /\ TimerInv' /\ UNCHANGED <<delegates, connections>>
         /\ \A d \in Range(snapshots') : \E t \in Timers : d \in Range(delegates[t])
<1>1. PICK list : list = IF m_timerStopped THEN Filter(timers, DOMAIN enabled) ELSE timers
  OBVIOUS
<1>2. PICK b : b = Batch(list)
  OBVIOUS
<1>3. PICK once : once = {t \in Range(b) : enabled[t].m_once}
  OBVIOUS
<1>4. /\ at = "scan" /\ at' = "invoke" /\ timers' = list
      /\ enabled' = [t \in DOMAIN enabled \ once |->
                        IF t \in Range(b) THEN Rearmed(enabled[t]) ELSE enabled[t]]
      /\ m_timerStopped' = (once # {})
      /\ snapshots' = FlattenSeq([i \in DOMAIN b |-> delegates[b[i]]])
      /\ full' = (Len(b) = MAX_TIMER_EXPIRED) /\ owed' = owed \ Range(b)
      /\ UNCHANGED <<live, delegates, connections>>
  BY <1>1, <1>2, <1>3 DEF Scan, Checked, GetSnapshot
<1>5. list \in Seq(Timers) /\ NoRepeats(list) /\ Range(list) = DOMAIN enabled
  <2>1. PICK s : s = timers
    OBVIOUS
  <2>2. PICK E : E = DOMAIN enabled
    OBVIOUS
  <2>3. s \in Seq(Timers) /\ NoRepeats(s) /\ E \subseteq Range(s)
    BY <2>1, <2>2 DEF TimerInv, TimerTypes, ListInv
  <2>4. CASE m_timerStopped
    <3>1. /\ Filter(s, E) \in Seq(Timers) /\ NoRepeats(Filter(s, E))
          /\ Range(Filter(s, E)) = Range(s) \cap E
      BY <2>3, FilterElements
    <3> QED
      BY <1>1, <2>1, <2>2, <2>3, <2>4, <3>1
  <2>5. CASE ~m_timerStopped
    <3>1. list = timers /\ Range(timers) \subseteq DOMAIN enabled
      BY <1>1, <2>5 DEF TimerInv, ListInv
    <3> QED
      BY <2>1, <2>2, <2>3, <3>1
  <2> QED
    BY <2>4, <2>5
<1>6. /\ b \in Seq(Timers) /\ Range(b) \subseteq Due
      /\ Len(b) # MAX_TIMER_EXPIRED => Range(b) = Due
  BY <1>2, <1>5, BatchIs
<1>7. /\ snapshots' \in Seq(Delegates)
      /\ \A d \in Range(snapshots') : \E t \in Timers : d \in Range(delegates[t])
  <2>1. PICK f : f = delegates
    OBVIOUS
  <2>2. f \in [Timers -> Seq(Delegates)]
    BY <2>1 DEF TimerInv, TimerTypes
  <2>3. /\ FlattenSeq([i \in DOMAIN b |-> f[b[i]]]) \in Seq(Delegates)
        /\ \A d \in Range(FlattenSeq([i \in DOMAIN b |-> f[b[i]]])) :
             \E t \in Timers : d \in Range(f[t])
    BY <1>6, <2>2, SnapshotsOf
  <2>4. snapshots' = FlattenSeq([i \in DOMAIN b |-> f[b[i]]])
    BY <1>4, <2>1
  <2> QED
    BY <2>1, <2>3, <2>4
<1>8. Due \subseteq DOMAIN enabled /\ DOMAIN enabled \subseteq Timers
  BY DEF Due, TimerInv, TimerTypes
<1>9. DOMAIN enabled' = DOMAIN enabled \ once
  BY <1>4
<1>10. ASSUME NEW t \in DOMAIN enabled'
       PROVE  enabled'[t] \in Entries /\ (t \notin Range(b) => enabled'[t] = enabled[t])
  <2>1. t \in DOMAIN enabled /\ enabled[t] \in Entries
    BY <1>9 DEF TimerInv, TimerTypes
  <2>2. enabled'[t] = IF t \in Range(b) THEN Rearmed(enabled[t]) ELSE enabled[t]
    BY <1>4, <1>9
  <2>3. PICK e : e = enabled[t]
    OBVIOUS
  <2>4. Rearmed(e) \in Entries
    BY <2>1, <2>3, TimerAssumption DEF Entries, Rearmed, TimerAssumption
  <2> QED
    BY <2>1, <2>2, <2>3, <2>4
<1>11. TimerTypes'
  BY <1>4, <1>5, <1>7, <1>8, <1>9, <1>10 DEF TimerInv, TimerTypes
<1>12. ListInv'
  <2>1. once = {} \/ once # {}
    OBVIOUS
  <2> QED
    BY <1>4, <1>5, <1>9, <2>1 DEF TimerInv, ListInv
<1>13. owed' \subseteq Due'
  <2>1. ASSUME NEW t \in owed' PROVE t \in Due'
    <3>1. t \in Due /\ t \notin Range(b)
      BY <1>4, <2>1 DEF TimerInv, OwedInv
    <3>2. t \in DOMAIN enabled' /\ t \in DOMAIN enabled /\ enabled[t].left <= 0
      BY <1>3, <1>9, <3>1 DEF Due
    <3>3. enabled'[t] = enabled[t]
      BY <1>10, <3>1, <3>2
    <3> QED
      BY <3>2, <3>3 DEF Due
  <2> QED
    BY <2>1
<1>14. at' # "idle" /\ (~full' => owed' = {})
  BY <1>4, <1>6 DEF TimerInv, OwedInv
<1>15. OwedInv'
  BY <1>13, <1>14 DEF OwedInv
<1> QED
  BY <1>4, <1>7, <1>11, <1>12, <1>15 DEF TimerInv

\* The other steps of ProcessTimers, and time.
LEMMA ProcessKeeps ==
  ASSUME TimerInv, ProcessTimers \/ PassDone
  PROVE  TimerInv'
<1>1. CASE ProcessTimers
  <2>1. /\ at' = "scan" /\ owed' = Due
        /\ UNCHANGED <<live, timers, enabled, m_timerStopped, snapshots, full, delegates, connections>>
    BY <1>1 DEF ProcessTimers, timerVars
  <2>2. Due \subseteq Timers /\ Due' = Due
    BY <2>1 DEF Due, TimerInv, TimerTypes
  <2>3. TimerTypes' /\ ListInv'
    BY <2>1, <2>2 DEF TimerInv, TimerTypes, ListInv
  <2> QED
    BY <2>1, <2>2, <2>3 DEF TimerInv, OwedInv
<1>2. CASE PassDone
  <2>1. /\ at = "invoke" /\ at' = (IF full THEN "scan" ELSE "idle") /\ full' = FALSE
        /\ UNCHANGED <<live, timers, enabled, m_timerStopped, snapshots, owed, delegates, connections>>
    BY <1>2 DEF PassDone, timerVars
  <2>2. Due' = Due
    BY <2>1 DEF Due
  <2>3. TimerTypes' /\ ListInv'
    BY <2>1 DEF TimerInv, TimerTypes, ListInv
  <2> QED
    BY <2>1, <2>2, <2>3 DEF TimerInv, OwedInv
<1> QED
  BY <1>1, <1>2

\* Time passes: the entries left in the list come closer to their expiry.
LEMMA TimeKeeps ==
  ASSUME TimerInv, TimePasses
  PROVE  TimerInv'
<1>1. /\ enabled' = [t \in DOMAIN enabled |-> Later(enabled[t])]
      /\ UNCHANGED <<live, timers, m_timerStopped, at, snapshots, full, owed, delegates, connections>>
  BY DEF TimePasses, processVars
<1>2. ASSUME NEW t \in DOMAIN enabled
      PROVE  Later(enabled[t]) \in Entries /\ Later(enabled[t]).left <= enabled[t].left
  <2>1. PICK e : e = enabled[t]
    OBVIOUS
  <2>2. e \in Entries
    BY <2>1 DEF TimerInv, TimerTypes
  <2>3. Later(e) \in Entries /\ Later(e).left <= e.left /\ e.left \in Int
    BY <2>2, TimerAssumption DEF Entries, Later, TimerAssumption
  <2> QED
    BY <2>1, <2>3
<1>3. TimerTypes' /\ ListInv'
  BY <1>1, <1>2 DEF TimerInv, TimerTypes, ListInv
<1>4. owed' \subseteq Due'
  <2>1. ASSUME NEW t \in owed PROVE t \in Due'
    <3>1. t \in DOMAIN enabled /\ enabled[t].left <= 0 /\ enabled[t].left \in Int
      BY <2>1 DEF TimerInv, OwedInv, Due, TimerTypes, Entries
    <3>2. t \in DOMAIN enabled' /\ enabled'[t] = Later(enabled[t])
      BY <1>1, <3>1
    <3>3. enabled'[t].left \in Int /\ enabled'[t].left <= 0
      BY <1>2, <3>1, <3>2 DEF Entries
    <3> QED
      BY <3>2, <3>3 DEF Due
  <2> QED
    BY <1>1, <2>1
<1>5. OwedInv'
  BY <1>1, <1>4 DEF TimerInv, OwedInv
<1> QED
  BY <1>3, <1>5 DEF TimerInv
---------------------------------------------------------------------------
(* The steps of the node.                                                   *)

\* A step that leaves the timers alone, and one that leaves the node alone.
LEMMA TimersStay ==
  ASSUME TimerInv, UNCHANGED <<timerVars, processVars, owed>>,
         delegates' \in [Timers -> Seq(Delegates)], connections' \subseteq Delegates
  PROVE  TimerInv'
<1>1. Due' = Due
  BY DEF Due, timerVars
<1> QED
  BY <1>1 DEF TimerInv, TimerTypes, ListInv, OwedInv, timerVars, processVars

\* Connect and Disconnect change the delegates of one timer.
LEMMA Reconnected ==
  ASSUME NodeInv, NEW t \in Timers, NEW q \in Seq(Delegates),
         delegates' = [delegates EXCEPT ![t] = q]
  PROVE  /\ delegates' \in [Timers -> Seq(Delegates)]
         /\ \A s \in Timers : delegates'[s] = IF s = t THEN q ELSE delegates[s]
BY DEF NodeInv, TimerInv, TimerTypes

\* StartTimer: a fresh TimerDelegate is connected, and nothing refers to it yet.
LEMMA StartTimerKeeps ==
  ASSUME NodeInv, StartTimer
  PROVE  NodeInv'
<1>1. PICK d \in Delegates : ~InUse(d) /\ Connect(m_recvTimer, d) /\ stale' = stale \ {d}
  BY DEF StartTimer
<1>2. PICK timeout \in Timeouts : Start(m_recvTimer, timeout, FALSE)
  BY DEF StartTimer
<1>3. /\ m_recvTimer \in Timers
      /\ UNCHANGED <<at, snapshots, full, thread, queue, running>>
      /\ owner' = "started" /\ m_mutex' = "free"
  BY NetworkNodeAssumption DEF NetworkNodeAssumption, StartTimer, processVars
<1>4. PICK q : q = Append(delegates[m_recvTimer], d)
  OBVIOUS
<1>5. /\ q \in Seq(Delegates) /\ Range(q) = Range(delegates[m_recvTimer]) \cup {d}
      /\ delegates' = [delegates EXCEPT ![m_recvTimer] = q]
      /\ connections' = connections \cup {d}
  <2>1. PICK p : p = delegates[m_recvTimer]
    OBVIOUS
  <2>2. p \in Seq(Delegates)
    BY <1>3, <2>1 DEF NodeInv, TimerInv, TimerTypes
  <2>3. Append(p, d) \in Seq(Delegates) /\ Range(Append(p, d)) = Range(p) \cup {d}
    BY <2>2, AppendRange
  <2> QED
    BY <1>1, <1>4, <2>1, <2>3 DEF Connect
<1>6. /\ delegates' \in [Timers -> Seq(Delegates)]
      /\ \A s \in Timers : delegates'[s] = IF s = m_recvTimer THEN q ELSE delegates[s]
  BY <1>3, <1>5, Reconnected
<1>7. connections \subseteq Delegates /\ connections' \subseteq Delegates
  BY <1>5 DEF NodeInv, TimerInv, TimerTypes
<1>8. TimerInv'
  BY <1>2, <1>3, <1>6, <1>7, StartKeeps DEF NodeInv, processVars
<1>9. NodeTypes'
  BY <1>1, <1>3 DEF NodeInv, NodeTypes
<1>10. TargetInv'
  <2>1. Range(snapshots') \cup Range(queue') \cup ({running'} \ {None}) \subseteq connections' \cup stale'
    BY <1>1, <1>3, <1>5 DEF NodeInv, TargetInv, InUse, Alive
  <2>2. \A t \in Timers : Range(delegates'[t]) \subseteq connections'
    BY <1>3, <1>5, <1>6 DEF NodeInv, TargetInv
  <2>3. \A t \in Clients : delegates'[t] = <<>>
    BY <1>6 DEF NodeInv, TargetInv, Clients
  <2>4. thread' = "exited" => queue' = <<>> /\ running' = None
    BY <1>3 DEF NodeInv, TargetInv
  <2> QED
    BY <2>1, <2>2, <2>3, <2>4 DEF TargetInv
<1> QED
  BY <1>8, <1>9, <1>10 DEF NodeInv

\* StopTimer keeps the connection.
LEMMA StopTimerKeeps ==
  ASSUME NodeInv, StopTimer
  PROVE  NodeInv'
<1>1. /\ Stop(m_recvTimer) /\ m_recvTimer \in Timers
      /\ UNCHANGED <<processVars, delegates, connections>>
      /\ UNCHANGED <<snapshots, thread, queue, running, stale>>
      /\ owner' = "exit" /\ m_mutex' = "free"
  BY NetworkNodeAssumption
  DEF NetworkNodeAssumption, StopTimer, Unlocks, processVars, signalVars
<1>2. TimerInv'
  BY <1>1, StopKeeps DEF NodeInv
<1>3. NodeTypes' /\ TargetInv'
  BY <1>1 DEF NodeInv, NodeTypes, TargetInv
<1> QED
  BY <1>2, <1>3 DEF NodeInv

\* DisconnectRecv: the thread has exited, so only a snapshot may still refer to
\* the TimerDelegate.
LEMMA DisconnectKeeps ==
  ASSUME NodeInv, DisconnectRecv
  PROVE  NodeInv'
<1>1. PICK d \in connections :
        /\ Disconnect(m_recvTimer, d)
        /\ stale' = IF d \in Range(snapshots) THEN stale \cup {d} ELSE stale
  BY DEF DisconnectRecv
<1>2. /\ m_recvTimer \in Timers /\ thread = "exited" /\ owner' = "stopped"
      /\ UNCHANGED <<timerVars, processVars, owed>>
      /\ UNCHANGED <<snapshots, thread, queue, running, m_mutex>>
  BY NetworkNodeAssumption DEF NetworkNodeAssumption, DisconnectRecv, Joined, processVars
<1>3. PICK p : p = delegates[m_recvTimer]
  OBVIOUS
<1>4. PICK q : q = Filter(p, Delegates \ {d})
  OBVIOUS
<1>5. /\ q \in Seq(Delegates) /\ Range(q) = Range(p) \cap (Delegates \ {d})
      /\ delegates' = [delegates EXCEPT ![m_recvTimer] = q]
      /\ connections' = connections \ {d} /\ connections \subseteq Delegates
  <2>1. p \in Seq(Delegates) /\ connections \subseteq Delegates
    BY <1>2, <1>3 DEF NodeInv, TimerInv, TimerTypes
  <2>2. /\ Filter(p, Delegates \ {d}) \in Seq(Delegates)
        /\ Range(Filter(p, Delegates \ {d})) = Range(p) \cap (Delegates \ {d})
    BY <2>1, FilterElements
  <2> QED
    BY <1>1, <1>3, <1>4, <2>1, <2>2 DEF Disconnect
<1>6. /\ delegates' \in [Timers -> Seq(Delegates)]
      /\ \A s \in Timers : delegates'[s] = IF s = m_recvTimer THEN q ELSE delegates[s]
  BY <1>2, <1>5, Reconnected
<1>7. TimerInv'
  BY <1>2, <1>5, <1>6, TimersStay DEF NodeInv
<1>8. NodeTypes'
  BY <1>1, <1>2, <1>5 DEF NodeInv, NodeTypes
<1>9. TargetInv'
  <2>1. queue = <<>> /\ running = None /\ Range(queue) = {}
    BY <1>2 DEF NodeInv, TargetInv, Range
  <2>2. Range(snapshots') \cup Range(queue') \cup ({running'} \ {None}) \subseteq connections' \cup stale'
    BY <1>1, <1>2, <1>5, <2>1 DEF NodeInv, TargetInv
  <2>3. \A t \in Timers : Range(delegates'[t]) \subseteq connections'
    <3>1. ASSUME NEW t \in Timers PROVE Range(delegates'[t]) \subseteq connections'
      <4>1. CASE t = m_recvTimer
        BY <1>3, <1>5, <1>6, <4>1 DEF NodeInv, TargetInv
      <4>2. CASE t # m_recvTimer
        <5>1. delegates'[t] = <<>> /\ Range(<<>>) = {}
          BY <1>6, <4>2 DEF NodeInv, TargetInv, Clients, Range
        <5> QED
          BY <5>1
      <4> QED
        BY <4>1, <4>2
    <3> QED
      BY <3>1
  <2>4. \A t \in Clients : delegates'[t] = <<>>
    BY <1>6 DEF NodeInv, TargetInv, Clients
  <2>5. thread' = "exited" => queue' = <<>> /\ running' = None
    BY <1>2, <2>1
  <2> QED
    BY <2>2, <2>3, <2>4, <2>5 DEF TargetInv
<1> QED
  BY <1>7, <1>8, <1>9 DEF NodeInv

\* Steps of the owner and the thread that change no reference.
LEMMA QuietKeeps ==
  ASSUME NodeInv, StartThread \/ CallStop \/ ExitThread \/ LockTick \/ ThreadExits
  PROVE  NodeInv'
<1>1. UNCHANGED <<timerVars, processVars, owed>> /\ UNCHANGED <<snapshots, delegates, connections>>
  BY DEF StartThread, CallStop, ExitThread, LockTick, ThreadExits, processVars, signalVars
<1>2. UNCHANGED <<queue, running, stale>>
  BY DEF StartThread, CallStop, ExitThread, LockTick, ThreadExits
<1>3. TimerInv'
  BY <1>1, TimersStay DEF NodeInv, TimerInv, TimerTypes
<1>4. NodeTypes'
  BY <1>2 DEF NodeInv, NodeTypes, StartThread, CallStop, ExitThread, LockTick, ThreadExits
<1>5. thread' = "exited" => queue' = <<>> /\ running' = None
  BY <1>2 DEF NodeInv, TargetInv, StartThread, CallStop, ExitThread, LockTick, ThreadExits
<1>6. TargetInv'
  BY <1>1, <1>2, <1>5 DEF NodeInv, TargetInv
<1> QED
  BY <1>3, <1>4, <1>6 DEF NodeInv

\* The first element and the rest of a sequence.
LEMMA HeadAndTail ==
  ASSUME NEW T, NEW q \in Seq(T), q # <<>>
  PROVE  /\ Head(q) \in T /\ Head(q) \in Range(q)
         /\ Tail(q) \in Seq(T) /\ Range(Tail(q)) \subseteq Range(q)
<1>1. /\ Len(q) \in Nat \ {0} /\ Head(q) = q[1] /\ Head(q) \in T
      /\ Tail(q) \in Seq(T) /\ Len(Tail(q)) = Len(q) - 1
      /\ \A i \in 1 .. Len(Tail(q)) : Tail(q)[i] = q[i + 1] /\ i + 1 \in 1 .. Len(q)
  OBVIOUS
<1>2. DOMAIN q = 1 .. Len(q) /\ DOMAIN Tail(q) = 1 .. Len(Tail(q)) /\ 1 \in 1 .. Len(q)
  BY <1>1
<1> PICK r : r = Tail(q)
  OBVIOUS
<1>3. Range(r) \subseteq Range(q)
  BY <1>1, <1>2 DEF Range
<1>4. Head(q) \in Range(q)
  BY <1>1, <1>2 DEF Range
<1> QED
  BY <1>1, <1>3, <1>4

\* Fire: the delegate invoked may enter the queue of an open thread.
LEMMA FireKeeps ==
  ASSUME NodeInv, Fire
  PROVE  NodeInv'
<1>1. PICK d : d = Head(snapshots)
  OBVIOUS
<1>2. /\ at = "invoke" /\ snapshots # <<>> /\ snapshots' = Tail(snapshots)
      /\ queue' = (IF InFlight(d) \/ thread # "open" THEN queue ELSE Append(queue, d))
      /\ UNCHANGED <<live, timers, enabled, m_timerStopped, at, full, owed, delegates, connections>>
      /\ UNCHANGED <<owner, thread, running, m_mutex, stale>>
  BY <1>1 DEF Fire, Invoked, timerVars, signalVars
<1>3. snapshots \in Seq(Delegates) /\ queue \in Seq(Delegates)
  BY DEF NodeInv, TimerInv, TimerTypes, NodeTypes
<1>4. /\ d \in Delegates /\ d \in Range(snapshots)
      /\ snapshots' \in Seq(Delegates) /\ Range(snapshots') \subseteq Range(snapshots)
  <2>1. PICK s : s = snapshots
    OBVIOUS
  <2>2. s \in Seq(Delegates) /\ s # <<>>
    BY <1>2, <1>3, <2>1
  <2>3. /\ Head(s) \in Delegates /\ Head(s) \in Range(s)
        /\ Tail(s) \in Seq(Delegates) /\ Range(Tail(s)) \subseteq Range(s)
    BY <2>2, HeadAndTail
  <2> QED
    BY <1>1, <1>2, <2>1, <2>3
<1>5. queue' \in Seq(Delegates) /\ Range(queue') \subseteq Range(queue) \cup {d}
  <2>1. PICK q : q = queue
    OBVIOUS
  <2>2. q \in Seq(Delegates)
    BY <1>3, <2>1
  <2>3. Append(q, d) \in Seq(Delegates) /\ Range(Append(q, d)) = Range(q) \cup {d}
    BY <1>4, <2>2, AppendRange
  <2> QED
    BY <1>2, <1>3, <2>1, <2>3
<1>6. TimerInv'
  <2>1. Due' = Due
    BY <1>2 DEF Due
  <2> QED
    BY <1>2, <1>4, <2>1 DEF NodeInv, TimerInv, TimerTypes, ListInv, OwedInv
<1>7. NodeTypes'
  BY <1>2, <1>5 DEF NodeInv, NodeTypes
<1>8. TargetInv'
  <2>1. Range(snapshots') \cup Range(queue') \cup ({running'} \ {None}) \subseteq connections' \cup stale'
    BY <1>2, <1>4, <1>5 DEF NodeInv, TargetInv
  <2>2. thread' = "exited" => queue' = <<>> /\ running' = None
    BY <1>2 DEF NodeInv, TargetInv
  <2> QED
    BY <1>2, <2>1, <2>2 DEF NodeInv, TargetInv
<1> QED
  BY <1>6, <1>7, <1>8 DEF NodeInv

\* TakeTick and TickDone: the reference moves from the queue to the tick, and goes.
LEMMA TickKeeps ==
  ASSUME NodeInv, TakeTick \/ TickDone
  PROVE  NodeInv'
<1>1. UNCHANGED <<timerVars, processVars, owed>> /\ UNCHANGED <<snapshots, delegates, connections>>
  BY DEF TakeTick, TickDone, processVars, signalVars
<1>2. UNCHANGED <<thread, stale>>
  BY DEF TakeTick, TickDone
<1>3. TimerInv'
  BY <1>1, TimersStay DEF NodeInv, TimerInv, TimerTypes
<1>4. /\ NodeTypes'
      /\ Range(queue') \cup ({running'} \ {None}) \subseteq Range(queue) \cup ({running} \ {None})
      /\ thread' = "exited" => queue' = <<>> /\ running' = None
  <2>1. CASE TakeTick
    <3>1. PICK q : q = queue
      OBVIOUS
    <3>2. q \in Seq(Delegates) /\ q # <<>>
      BY <2>1, <3>1 DEF TakeTick, NodeInv, NodeTypes
    <3>3. /\ Head(q) \in Delegates /\ Head(q) \in Range(q)
          /\ Tail(q) \in Seq(Delegates) /\ Range(Tail(q)) \subseteq Range(q)
      BY <3>2, HeadAndTail
    <3>4. /\ queue' = Tail(q) /\ running' = Head(q) /\ UNCHANGED <<owner, m_mutex>>
      BY <2>1, <3>1 DEF TakeTick
    <3>5. thread # "exited"
      BY <3>1, <3>2 DEF NodeInv, TargetInv
    <3> QED
      BY <1>2, <3>1, <3>3, <3>4, <3>5 DEF NodeInv, NodeTypes
  <2>2. CASE TickDone
    BY <1>2, <2>2 DEF TickDone, NodeInv, NodeTypes, TargetInv
  <2> QED
    BY <2>1, <2>2
<1>5. TargetInv'
  BY <1>1, <1>2, <1>4 DEF NodeInv, TargetInv
<1> QED
  BY <1>3, <1>4, <1>5 DEF NodeInv

\* The clients' timers have no TimerDelegate.
LEMMA ClientKeeps ==
  ASSUME NodeInv, ClientStep
  PROVE  NodeInv'
<1>1. UNCHANGED <<owner, thread, queue, running, m_mutex, stale>>
  BY DEF ClientStep, nodeVars
<1>2. PICK t \in Clients :
        \/ Construct(t) \/ Destroy(t)
        \/ Stop(t) /\ UNCHANGED <<processVars, signalVars>>
        \/ \E timeout \in Timeouts, once \in BOOLEAN :
             Start(t, timeout, once) /\ UNCHANGED <<processVars, signalVars>>
  BY DEF ClientStep
<1>3. t \in Timers
  BY DEF Clients
<1>4. /\ TimerInv' /\ UNCHANGED <<snapshots, connections>>
      /\ \A s \in Timers : delegates'[s] = delegates[s] \/ (delegates'[s] = <<>>)
  <2>1. CASE Construct(t)
    <3>1. /\ live' = live \cup {t}
          /\ UNCHANGED <<timers, enabled, m_timerStopped, at, snapshots, full, owed, delegates, connections>>
      BY <2>1 DEF Construct, processVars
    <3>2. Due' = Due
      BY <3>1 DEF Due
    <3> QED
      BY <1>3, <3>1, <3>2 DEF NodeInv, TimerInv, TimerTypes, ListInv, OwedInv
  <2>2. CASE Destroy(t)
    <3>1. TimerInv'
      BY <1>3, <2>2, DestroyKeeps DEF NodeInv
    <3>2. /\ delegates' = [delegates EXCEPT ![t] = <<>>] /\ UNCHANGED <<snapshots, connections>>
      BY <2>2 DEF Destroy, MarkDead, processVars
    <3>3. delegates \in [Timers -> Seq(Delegates)]
      BY DEF NodeInv, TimerInv, TimerTypes
    <3> QED
      BY <3>1, <3>2, <3>3
  <2>3. CASE Stop(t) /\ UNCHANGED <<processVars, signalVars>>
    <3>1. UNCHANGED <<processVars, delegates, connections>> /\ UNCHANGED snapshots
      BY <2>3 DEF signalVars, processVars
    <3> QED
      BY <1>3, <2>3, <3>1, StopKeeps DEF NodeInv
  <2>4. CASE \E timeout \in Timeouts, once \in BOOLEAN :
               Start(t, timeout, once) /\ UNCHANGED <<processVars, signalVars>>
    <3>1. PICK timeout \in Timeouts, once \in BOOLEAN :
            Start(t, timeout, once) /\ UNCHANGED <<processVars, signalVars>>
      BY <2>4
    <3>2. UNCHANGED processVars /\ UNCHANGED <<delegates, connections, snapshots>>
      BY <3>1 DEF signalVars, processVars
    <3>3. delegates' \in [Timers -> Seq(Delegates)] /\ connections' \subseteq Delegates
      BY <3>2 DEF NodeInv, TimerInv, TimerTypes
    <3> QED
      BY <1>3, <3>1, <3>2, <3>3, StartKeeps DEF NodeInv
  <2> QED
    BY <1>2, <2>1, <2>2, <2>3, <2>4
<1>5. NodeTypes'
  BY <1>1 DEF NodeInv, NodeTypes
<1>6. TargetInv'
  <2>1. Range(<<>>) = {}
    BY DEF Range
  <2>2. \A s \in Timers : Range(delegates'[s]) \subseteq connections'
    BY <1>4, <2>1 DEF NodeInv, TargetInv
  <2>3. \A s \in Clients : delegates'[s] = <<>>
    BY <1>4 DEF NodeInv, TargetInv, Clients
  <2> QED
    BY <1>1, <1>4, <2>2, <2>3 DEF NodeInv, TargetInv
<1> QED
  BY <1>4, <1>5, <1>6 DEF NodeInv

\* A snapshot is taken of connected delegates.
LEMMA TimerStepKeeps ==
  ASSUME NodeInv, TimerStep
  PROVE  NodeInv'
<1>1. UNCHANGED <<owner, thread, queue, running, m_mutex, stale>>
  BY DEF TimerStep, nodeVars
<1>2. /\ TimerInv' /\ UNCHANGED <<delegates, connections>>
      /\ \/ snapshots' = snapshots
         \/ \A d \in Range(snapshots') : \E t \in Timers : d \in Range(delegates[t])
  <2>1. CASE ProcessTimers \/ PassDone
    BY <2>1, ProcessKeeps DEF NodeInv, ProcessTimers, PassDone
  <2>2. CASE Scan
    BY <2>2, ScanKeeps DEF NodeInv
  <2>3. CASE TimePasses
    BY <2>3, TimeKeeps DEF NodeInv, TimePasses, processVars
  <2> QED
    BY <2>1, <2>2, <2>3 DEF TimerStep
<1>3. Range(snapshots') \subseteq connections \cup stale
  BY <1>2 DEF NodeInv, TargetInv
<1>4. NodeTypes' /\ TargetInv'
  BY <1>1, <1>2, <1>3 DEF NodeInv, NodeTypes, TargetInv
<1> QED
  BY <1>2, <1>4 DEF NodeInv

---------------------------------------------------------------------------
(* The theorems.                                                            *)

\* The invariant holds of a node that has not been started.
LEMMA NodeStarts == Init => NodeInv
<1> SUFFICES ASSUME Init PROVE NodeInv
  OBVIOUS
<1>1. /\ live = {m_recvTimer} /\ timers = <<>> /\ enabled = <<>> /\ m_timerStopped = FALSE
      /\ at = "idle" /\ snapshots = <<>> /\ full = FALSE /\ owed = {}
      /\ delegates = [s \in Timers |-> <<>>] /\ connections = {}
      /\ owner = "stopped" /\ thread = "none" /\ queue = <<>> /\ running = None
      /\ m_mutex = "free" /\ stale = {} /\ m_recvTimer \in Timers
  BY TimerAssumption, NetworkNodeAssumption
  DEF Init, TimerInit, TimerAssumption, NetworkNodeAssumption
<1>2. Range(<<>>) = {} /\ DOMAIN <<>> = {} /\ \A T : <<>> \in Seq(T)
  BY DEF Range
<1>3. TimerInv
  <2>1. TimerTypes
    BY <1>1, <1>2 DEF TimerTypes
  <2>2. NoRepeats(timers)
    <3>1. NoRepeats(<<>>)
      BY DEF NoRepeats
    <3> QED
      BY <1>1, <3>1
  <2>3. Range(timers) = {} /\ DOMAIN enabled = {}
    BY <1>1, <1>2
  <2>4. ListInv
    BY <2>2, <2>3 DEF ListInv
  <2>5. OwedInv
    BY <1>1 DEF OwedInv
  <2> QED
    BY <2>1, <2>4, <2>5 DEF TimerInv
<1>4. NodeTypes /\ TargetInv
  BY <1>1, <1>2 DEF NodeTypes, TargetInv, Clients
<1> QED
  BY <1>3, <1>4 DEF NodeInv

\* Every step of a node keeps it.
LEMMA NodeStep == NodeInv /\ [Next]_vars => NodeInv'
<1> SUFFICES ASSUME NodeInv, [Next]_vars PROVE NodeInv'
  OBVIOUS
<1>1. CASE StartThread \/ CallStop \/ ExitThread \/ LockTick \/ ThreadExits
  BY <1>1, QuietKeeps
<1>2. CASE StartTimer
  BY <1>2, StartTimerKeeps
<1>3. CASE StopTimer
  BY <1>3, StopTimerKeeps
<1>4. CASE DisconnectRecv
  BY <1>4, DisconnectKeeps
<1>5. CASE Fire
  BY <1>5, FireKeeps
<1>6. CASE TakeTick \/ TickDone
  BY <1>6, TickKeeps
<1>7. CASE ClientStep
  BY <1>7, ClientKeeps
<1>8. CASE TimerStep
  BY <1>8, TimerStepKeeps
<1>9. CASE UNCHANGED vars
  <2>1. /\ UNCHANGED <<timerVars, processVars, owed>>
        /\ UNCHANGED <<snapshots, delegates, connections, owner, thread, queue, running, m_mutex, stale>>
    BY <1>9 DEF vars, processVars, signalVars, nodeVars
  <2>2. TimerInv'
    BY <2>1, TimersStay DEF NodeInv, TimerInv, TimerTypes
  <2>3. NodeTypes' /\ TargetInv'
    BY <2>1 DEF NodeInv, NodeTypes, TargetInv
  <2> QED
    BY <2>2, <2>3 DEF NodeInv
<1> QED
  BY <1>1, <1>2, <1>3, <1>4, <1>5, <1>6, <1>7, <1>8, <1>9 DEF Next, ThreadStep, StopStep

\* The inductive invariant of the node and its timers: the types, the list, what
\* ProcessTimers still owes, and what every reference to a TimerDelegate is to.
THEOREM NodeInvHolds == Spec => []NodeInv
BY NodeStarts, NodeStep, PTL DEF Spec

\* The intrusive list of timers is sound, however Start, Stop, destruction and
\* the passes of ProcessTimers interleave: no timer twice, none that is destroyed,
\* every one that runs, and one that does not run waits to be unlinked.
THEOREM TimerListSound == Spec => []ListSound
<1>1. NodeInv => ListSound
  <2> SUFFICES ASSUME NodeInv PROVE ListSound
    OBVIOUS
  <2>1. PICK s : s = timers
    OBVIOUS
  <2>2. s \in Seq(Timers) /\ NoRepeats(s)
    BY <2>1 DEF NodeInv, TimerInv, TimerTypes, ListInv
  <2>3. Len(s) = Cardinality(Range(s))
    BY <2>2, LengthIsCardinality
  <2> QED
    BY <2>1, <2>3 DEF NodeInv, TimerInv, ListInv, ListSound
<1> QED
  BY <1>1, NodeInvHolds, PTL

\* When ProcessTimers returns, every timer that had expired when it was called
\* has been seen to or was stopped, restarted or destroyed meanwhile, whatever the
\* size of a batch: full batches drop no expiry.
THEOREM NoExpiryDropped == Spec => []BacklogCleared
<1>1. NodeInv => BacklogCleared
  BY DEF NodeInv, TimerInv, OwedInv, BacklogCleared
<1> QED
  BY <1>1, NodeInvHolds, PTL

\* No tick that is queued or runs refers to a TimerDelegate that has been freed,
\* but for one that a snapshot carried over a Stop.
THEOREM TicksHaveTargets == Spec => []TickTargetAlive
<1>1. NodeInv => TickTargetAlive
  BY DEF NodeInv, TargetInv, TickTargetAlive, Alive
<1> QED
  BY <1>1, NodeInvHolds, PTL
=============================================================================
