---------------------------- MODULE FoldTheorems ----------------------------
(* Induction over a sequence that is folded from the left, for any operator  *)
(* that is folded and any property of the results: a module takes it as an   *)
(* instance, with its own step and its own property.                         *)
EXTENDS Integers, SequencesExt, WellFoundedInduction, TLAPS

CONSTANTS
  Step(_, _),     \* the operator that is folded
  Good(_, _, _)   \* in a context, after so many elements: of the result

(* A set of numbers with 0 and with each number's successor has all of them: *)
(* a smallest one that is missing would have a predecessor.                  *)
LEMMA SetInduction ==
  ASSUME NEW S \in SUBSET Nat, 0 \in S, \A n \in S : n + 1 \in S
  PROVE  S = Nat
<1> DEFINE T == Nat \ S
           R == OpToRel(<, Nat)
<1> SUFFICES ASSUME T # {} PROVE FALSE  OBVIOUS
<1>1. IsWellFoundedOn(R, Nat)  BY NatLessThanWellFounded
<1>2. T \subseteq Nat  OBVIOUS
<1>3. \A x, y \in Nat : x < y => <<x, y>> \in R  BY DEF OpToRel
<1> HIDE DEF R, T
<1>4. PICK x \in T : \A y \in T : <<y, x>> \notin R  BY <1>1, <1>2, WFMin, Zenon
<1>5. x \in Nat /\ x # 0  BY <1>4 DEF T
<1>6. x - 1 \in Nat /\ x - 1 < x /\ (x - 1) + 1 = x  BY <1>5
<1>7. x - 1 \in S  BY <1>3, <1>4, <1>5, <1>6 DEF T
<1> QED  BY <1>4, <1>6, <1>7 DEF T

(* The largest element of a set.                                             *)
LEMMA MaxIs ==
  ASSUME NEW s \in SUBSET Int, NEW n \in s, \A i \in s : i <= n
  PROVE  Max(s) = n
<1>1. \E x \in s : \A y \in s : x >= y  OBVIOUS
<1>2. /\ (CHOOSE x \in s : \A y \in s : x >= y) \in s
      /\ \A y \in s : (CHOOSE x \in s : \A z \in s : x >= z) >= y
  BY <1>1, Zenon
<1>3. Max(s) \in s /\ Max(s) >= n  BY <1>2 DEF Max
<1> DEFINE m == Max(s)
<1>4. m \in Int /\ m >= n /\ m <= n  BY <1>3
<1> HIDE DEF m
<1>5. m = n  BY <1>4
<1> QED  BY <1>5 DEF m

(* The first numbers, and the last of them.                                  *)
LEMMA Upto ==
  ASSUME NEW n \in Nat
  PROVE  /\ (1..(n + 1)) \ {n + 1} = 1..n /\ 1..(n + 1) # {}
         /\ Max(1..(n + 1)) = n + 1
<1>1. 1..(n + 1) \in SUBSET Int /\ n + 1 \in 1..(n + 1) /\ \A i \in 1..(n + 1) : i <= n + 1
  OBVIOUS
<1>2. Max(1..(n + 1)) = n + 1  BY ONLY <1>1, MaxIs
<1>3. (1..(n + 1)) \ {n + 1} = 1..n  OBVIOUS
<1>4. 1..(n + 1) # {}  BY ONLY <1>1
<1> QED  BY <1>2, <1>3, <1>4, Zenon

\* What FoldLeft computes on the sets of positions up to n.
Unfolds(f, q, base, n) ==
  f = [s \in SUBSET (1..n) |-> IF s = {} THEN base ELSE Step(f[s \ {Max(s)}], q[Max(s)])]

(* There is such a function.                                                 *)
LEMMA FoldExists ==
  ASSUME NEW q, NEW base, NEW m \in Nat
  PROVE  \E f : Unfolds(f, q, base, m)
<1> DEFINE T == {n \in Nat : \E f : Unfolds(f, q, base, n)}
<1>1. 0 \in T
  <2>1. Unfolds([s \in SUBSET (1..0) |-> base], q, base, 0)
    <3>1. \A s \in SUBSET (1..0) : s = {}  OBVIOUS
    <3> QED  BY <3>1 DEF Unfolds
  <2> QED  BY <2>1
<1>2. ASSUME NEW n \in T PROVE n + 1 \in T
  <2>1. PICK f : Unfolds(f, q, base, n)  OBVIOUS
  <2> DEFINE g == [s \in SUBSET (1..(n + 1)) |->
                     IF n + 1 \in s THEN Step(f[s \ {n + 1}], q[n + 1]) ELSE f[s]]
  <2>2. ASSUME NEW s \in SUBSET (1..(n + 1))
        PROVE  g[s] = IF s = {} THEN base ELSE Step(g[s \ {Max(s)}], q[Max(s)])
    <3>1. CASE n + 1 \in s
      <4>1. Max(s) = n + 1
        <5>1. s \in SUBSET Int /\ \A i \in s : i <= n + 1  OBVIOUS
        <5> QED  BY <3>1, <5>1, MaxIs
      <4>2. s \ {n + 1} \in SUBSET (1..n) /\ n + 1 \notin s \ {n + 1}  OBVIOUS
      <4>3. g[s \ {n + 1}] = f[s \ {n + 1}]  BY <4>2
      <4>4. g[s] = Step(f[s \ {n + 1}], q[n + 1])  BY <3>1
      <4> QED  BY <3>1, <4>1, <4>3, <4>4
    <3>2. CASE n + 1 \notin s
      <4>1. s \in SUBSET (1..n)  BY <3>2
      <4>2. g[s] = f[s] /\ g[s \ {Max(s)}] = f[s \ {Max(s)}]  BY <3>2
      <4>3. f[s] = IF s = {} THEN base ELSE Step(f[s \ {Max(s)}], q[Max(s)])
        BY <2>1, <4>1 DEF Unfolds
      <4> QED  BY <4>2, <4>3
    <3> QED  BY <3>1, <3>2
  <2>3. g = [s \in SUBSET (1..(n + 1)) |-> g[s]]  OBVIOUS
  <2> HIDE DEF g
  <2>4. Unfolds(g, q, base, n + 1)  BY <2>2, <2>3 DEF Unfolds
  <2>5. \E f1 : Unfolds(f1, q, base, n + 1)  BY <2>4, Zenon
  <2>6. n + 1 \in Nat  OBVIOUS
  <2> QED  BY ONLY <2>5, <2>6, Zenon DEF T
<1> HIDE DEF T
<1>3. T \in SUBSET Nat  BY DEF T
<1>4. T = Nat  BY <1>1, <1>2, <1>3, SetInduction
<1> QED  BY <1>4 DEF T

\* The results of a fold after each element.
Stages(g, q, base, n) ==
  g[0] = base /\ \A i \in 0..(n - 1) : g[i + 1] = Step(g[i], q[i + 1])

LEMMA FoldStages ==
  ASSUME NEW S, NEW q \in Seq(S), NEW base
  PROVE  \E g : Stages(g, q, base, Len(q)) /\ FoldLeft(Step, base, q) = g[Len(q)]
<1> DEFINE iter == CHOOSE f : Unfolds(f, q, base, Len(q))
<1>1. Len(q) \in Nat /\ DOMAIN q = 1..Len(q)  OBVIOUS
<1>2. FoldLeft(Step, base, q) = iter[1..Len(q)]
  <2>1. FoldLeft(Step, base, q) =
          (CHOOSE f : f = [s \in SUBSET DOMAIN q |->
             IF s = {} THEN base ELSE Step(f[s \ {Max(s)}], q[Max(s)])])[DOMAIN q]
    BY DEF FoldLeft, MapThenFoldSet
  <2> QED  BY <1>1, <2>1 DEF Unfolds
<1>3. Unfolds(iter, q, base, Len(q))
  <2>1. \E f : Unfolds(f, q, base, Len(q))  BY <1>1, FoldExists
  <2> QED  BY <2>1, Zenon
<1> HIDE DEF iter
<1>4. iter[{}] = base  BY <1>3 DEF Unfolds
<1>5. ASSUME NEW n \in 0..(Len(q) - 1) PROVE iter[1..(n + 1)] = Step(iter[1..n], q[n + 1])
  <2>1. n \in Nat  BY <1>1
  <2>2. 1..(n + 1) \in SUBSET (1..Len(q))  BY <1>1
  <2>3. /\ 1..(n + 1) # {} /\ Max(1..(n + 1)) = n + 1
        /\ (1..(n + 1)) \ {n + 1} = 1..n
    BY <2>1, Upto
  <2>4. iter[1..(n + 1)] = Step(iter[(1..(n + 1)) \ {Max(1..(n + 1))}], q[Max(1..(n + 1))])
    BY <1>3, <2>2, <2>3 DEF Unfolds
  <2> QED  BY <2>3, <2>4
<1> DEFINE g == [n \in 0..Len(q) |-> iter[1..n]]
<1>6. g[Len(q)] = iter[1..Len(q)]  BY <1>1
<1>7. g[0] = base
  <2>1. 1..0 = {}  OBVIOUS
  <2> QED  BY <1>1, <1>4, <2>1
<1>8. ASSUME NEW n \in 0..(Len(q) - 1) PROVE g[n + 1] = Step(g[n], q[n + 1])
  <2>1. n \in 0..Len(q) /\ n + 1 \in 0..Len(q)  BY <1>1
  <2>2. g[n] = iter[1..n] /\ g[n + 1] = iter[1..(n + 1)]  BY <2>1
  <2> QED  BY <1>5, <2>2
<1> HIDE DEF g
<1>9. Stages(g, q, base, Len(q))  BY <1>7, <1>8 DEF Stages
<1> QED  BY <1>2, <1>6, <1>9

(* A property that the start has, and that every step hands on, is one of    *)
(* the result.                                                               *)
THEOREM FoldInduction ==
  ASSUME NEW S, NEW q \in Seq(S), NEW base, NEW c,
         Good(c, 0, base),
         \A n \in 0..(Len(q) - 1) : \A x : Good(c, n, x) => Good(c, n + 1, Step(x, q[n + 1]))
  PROVE  Good(c, Len(q), FoldLeft(Step, base, q))
<1>1. Len(q) \in Nat  OBVIOUS
<1>2. PICK g : Stages(g, q, base, Len(q)) /\ FoldLeft(Step, base, q) = g[Len(q)]
  BY FoldStages
<1> DEFINE T == {n \in Nat : n <= Len(q) => Good(c, n, g[n])}
<1>3. 0 \in T  BY <1>2 DEF Stages
<1>4. ASSUME NEW n \in T PROVE n + 1 \in T
  <2> SUFFICES ASSUME n + 1 <= Len(q) PROVE Good(c, n + 1, g[n + 1])
    OBVIOUS
  <2>1. n \in 0..(Len(q) - 1) /\ Good(c, n, g[n])  BY <1>1
  <2>2. g[n + 1] = Step(g[n], q[n + 1])  BY <1>2, <2>1 DEF Stages
  <2>3. Good(c, n + 1, Step(g[n], q[n + 1]))  BY <2>1
  <2> QED  BY <2>2, <2>3
<1> HIDE DEF T
<1>5. T \in SUBSET Nat  BY DEF T
<1>6. T = Nat  BY <1>3, <1>4, <1>5, SetInduction
<1> QED  BY <1>1, <1>2, <1>6 DEF T

(* A fold takes one element after the other, from the left.                  *)
THEOREM FoldAppend ==
  ASSUME NEW S, NEW q \in Seq(S), NEW x \in S, NEW base
  PROVE  /\ FoldLeft(Step, base, <<>>) = base
         /\ FoldLeft(Step, base, Append(q, x)) = Step(FoldLeft(Step, base, q), x)
<1> DEFINE r == Append(q, x)
<1>1. /\ <<>> \in Seq(S) /\ Len(<<>>) = 0 /\ Len(q) \in Nat
      /\ r \in Seq(S) /\ Len(r) = Len(q) + 1 /\ r[Len(q) + 1] = x
      /\ \A n \in 1..Len(q) : r[n] = q[n]
  OBVIOUS
<1> HIDE DEF r
<1>2. FoldLeft(Step, base, <<>>) = base
  <2>1. PICK g : Stages(g, <<>>, base, Len(<<>>)) /\ FoldLeft(Step, base, <<>>) = g[Len(<<>>)]
    BY <1>1, FoldStages
  <2> QED  BY <1>1, <2>1 DEF Stages
<1>3. PICK g : Stages(g, q, base, Len(q)) /\ FoldLeft(Step, base, q) = g[Len(q)]
  BY FoldStages
<1>4. PICK h : Stages(h, r, base, Len(r)) /\ FoldLeft(Step, base, r) = h[Len(r)]
  BY <1>1, FoldStages
<1> DEFINE T == {n \in Nat : n <= Len(q) => g[n] = h[n]}
<1>5. 0 \in T  BY <1>3, <1>4 DEF Stages
<1>6. ASSUME NEW n \in T PROVE n + 1 \in T
  <2> SUFFICES ASSUME n + 1 <= Len(q) PROVE g[n + 1] = h[n + 1]
    OBVIOUS
  <2>1. n \in 0..(Len(q) - 1) /\ n \in 0..(Len(r) - 1) /\ g[n] = h[n]  BY <1>1
  <2>2. g[n + 1] = Step(g[n], q[n + 1])  BY <1>3, <2>1 DEF Stages
  <2>3. h[n + 1] = Step(h[n], r[n + 1])  BY <1>4, <2>1 DEF Stages
  <2>4. r[n + 1] = q[n + 1]  BY <1>1, <2>1
  <2> QED  BY <2>1, <2>2, <2>3, <2>4
<1> HIDE DEF T
<1>7. T \in SUBSET Nat  BY DEF T
<1>8. T = Nat  BY <1>5, <1>6, <1>7, SetInduction
<1>9. g[Len(q)] = h[Len(q)]  BY <1>1, <1>8 DEF T
<1>10. h[Len(q) + 1] = Step(h[Len(q)], r[Len(q) + 1])
  <2>1. Len(q) \in 0..(Len(r) - 1)  BY <1>1
  <2> QED  BY <1>4, <2>1 DEF Stages
<1> QED  BY <1>1, <1>2, <1>3, <1>4, <1>9, <1>10 DEF r

(***************************************************************************)
(* A step that is repeated, as a recursive function on the first numbers.  *)
(***************************************************************************)
Iterates(f, k, base, c) == f = [n \in 0..k |-> IF n = 0 THEN base ELSE Step(f[n-1], c)]
Iteration(k, base, c) == CHOOSE f : Iterates(f, k, base, c)

(* There is such a function, so each of its values is the step of the one    *)
(* before.                                                                   *)
THEOREM IterationIs ==
  ASSUME NEW k \in Nat, NEW base, NEW c
  PROVE  /\ Iteration(k, base, c)[0] = base
         /\ \A n \in 0..(k - 1) :
               Iteration(k, base, c)[n + 1] = Step(Iteration(k, base, c)[n], c)
<1> DEFINE T == {n \in Nat : \E f : Iterates(f, n, base, c)}
<1>1. 0 \in T
  <2>1. Iterates([n \in 0..0 |-> base], 0, base, c)  BY DEF Iterates
  <2> QED  BY <2>1
<1>2. ASSUME NEW m \in T PROVE m + 1 \in T
  <2>1. PICK f : Iterates(f, m, base, c)  OBVIOUS
  <2> DEFINE g == [n \in 0..(m + 1) |-> IF n = m + 1 THEN Step(f[m], c) ELSE f[n]]
  <2>2. ASSUME NEW n \in 0..(m + 1)
        PROVE  g[n] = IF n = 0 THEN base ELSE Step(g[n-1], c)
    <3>1. CASE n = m + 1
      <4>1. n # 0 /\ n - 1 = m /\ m \in 0..(m + 1) /\ m # m + 1  BY <3>1
      <4>2. g[n] = Step(f[m], c) /\ g[m] = f[m]  BY <3>1, <4>1
      <4> QED  BY <4>1, <4>2
    <3>2. CASE n # m + 1
      <4>1. n \in 0..m  BY <3>2
      <4>2. f[n] = IF n = 0 THEN base ELSE Step(f[n-1], c)  BY <2>1, <4>1 DEF Iterates
      <4>3. n # 0 => n - 1 \in 0..(m + 1) /\ n - 1 # m + 1  BY <4>1
      <4>4. g[n] = f[n] /\ (n # 0 => g[n-1] = f[n-1])  BY <3>2, <4>3
      <4> QED  BY <4>2, <4>4
    <3> QED  BY <3>1, <3>2
  <2>3. g = [n \in 0..(m + 1) |-> g[n]]  OBVIOUS
  <2> HIDE DEF g
  <2>4. Iterates(g, m + 1, base, c)  BY <2>2, <2>3 DEF Iterates
  <2>5. \E f1 : Iterates(f1, m + 1, base, c)  BY <2>4, Zenon
  <2>6. m + 1 \in Nat  OBVIOUS
  <2> QED  BY ONLY <2>5, <2>6, Zenon DEF T
<1>3. T = Nat
  <2> HIDE DEF T
  <2>1. T \in SUBSET Nat  BY DEF T
  <2> QED  BY <1>1, <1>2, <2>1, SetInduction
<1> DEFINE f == Iteration(k, base, c)
<1>4. Iterates(f, k, base, c)
  <2>1. \E x : Iterates(x, k, base, c)  BY <1>3
  <2> QED  BY <2>1, Zenon DEF Iteration
<1> HIDE DEF f
<1>5. f[0] = base  BY <1>4 DEF Iterates
<1>6. ASSUME NEW n \in 0..(k - 1) PROVE f[n + 1] = Step(f[n], c)
  <2>1. n + 1 \in 0..k /\ n + 1 # 0 /\ (n + 1) - 1 = n  OBVIOUS
  <2> QED  BY <1>4, <2>1 DEF Iterates
<1> QED  BY <1>5, <1>6 DEF f

(* A property that the start has, and that every step hands on, is one of    *)
(* all values.                                                               *)
THEOREM IterationInduction ==
  ASSUME NEW k \in Nat, NEW base, NEW c, NEW d,
         Good(d, 0, base),
         \A n \in 0..(k - 1) : \A x : Good(d, n, x) => Good(d, n + 1, Step(x, c))
  PROVE  \A n \in 0..k : Good(d, n, Iteration(k, base, c)[n])
<1> DEFINE f == Iteration(k, base, c)
           T == {n \in Nat : n <= k => Good(d, n, f[n])}
<1>1. f[0] = base /\ \A n \in 0..(k - 1) : f[n + 1] = Step(f[n], c)
  BY IterationIs
<1> HIDE DEF f
<1>2. 0 \in T  BY <1>1
<1>3. ASSUME NEW n \in T PROVE n + 1 \in T
  <2> SUFFICES ASSUME n + 1 <= k PROVE Good(d, n + 1, f[n + 1])
    OBVIOUS
  <2>1. n \in 0..(k - 1) /\ Good(d, n, f[n])  OBVIOUS
  <2> QED  BY <1>1, <2>1
<1>4. T = Nat
  <2> HIDE DEF T
  <2>1. T \in SUBSET Nat  BY DEF T
  <2> QED  BY <1>2, <1>3, <2>1, SetInduction
<1> QED  BY <1>4 DEF f
=============================================================================
