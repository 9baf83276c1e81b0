------------------------------- MODULE Loops -------------------------------
(***************************************************************************)
(* Facts about numbers and loops that the proofs about the components use: *)
(* the first and the last of some numbers, and what a loop over a list     *)
(* computes and keeps.  They stand in for an induction over the turns of   *)
(* a loop: of the turns that break what the loop is to keep there would be *)
(* a first one, and the one before it has kept it.                         *)
(***************************************************************************)
EXTENDS Integers, FiniteSets, FiniteSetsExt, FiniteSetTheorems, WellFoundedInduction, TLAPS

-----------------------------------------------------------------------------
(* The first and the last of some numbers.                                 *)

\* A set of numbers has a least one.
LEMMA HasLeast ==
    ASSUME NEW S \in SUBSET Nat, S # {}
    PROVE  \E x \in S : \A y \in S : x <= y
<1> DEFINE R == OpToRel(<, Nat)
<1>1. IsWellFoundedOn(R, Nat)
    BY NatLessThanWellFounded, Zenon
<1>2. R = {ss \in Nat \X Nat : ss[1] < ss[2]}
    BY DEF OpToRel
<1> HIDE DEF R
<1>3. \E x \in S : \A y \in S : ~ (<<y, x>> \in R)
    BY <1>1, WFMin
<1>4. PICK x \in S : \A y \in S : ~ (<<y, x>> \in R)
    BY <1>3
<1>5. \A y \in S : ~ (y < x)
    BY <1>2, <1>4
<1> QED
    BY <1>5

\* A set of numbers up to a bound has a greatest one.
LEMMA HasGreatest ==
    ASSUME NEW b \in Nat, NEW S \in SUBSET (0 .. b), S # {}
    PROVE  \E x \in S : \A y \in S : x >= y
<1> DEFINE T == {b - x : x \in S}
<1>1. T \in SUBSET Nat
    OBVIOUS
<1>2. PICK z \in S : TRUE
    OBVIOUS
<1>3. b - z \in T
    OBVIOUS
<1>4. PICK t \in T : \A u \in T : t <= u
    BY <1>1, <1>3, HasLeast
<1>5. PICK x \in S : t = b - x
    OBVIOUS
<1>6. \A y \in S : b - y \in T
    OBVIOUS
<1> HIDE DEF T
<1>7. \A y \in S : b - x <= b - y
    BY <1>4, <1>5, <1>6
<1>8. \A y \in S : x >= y
    BY <1>7
<1> QED
    BY <1>8

\* A set of numbers that is finite and not empty has a greatest one: if the
\* values of a surjection were not bounded, there would be a first point where
\* they are not.
LEMMA FiniteHasGreatest ==
    ASSUME NEW S \in SUBSET Nat, IsFiniteSet(S), S # {}
    PROVE  \E x \in S : \A y \in S : x >= y
<1>1. PICK n \in Nat : ExistsSurjection(1 .. n, S)
    BY FS_NatSurjection
<1>2. PICK f \in [1 .. n -> S] : \A t \in S : \E i \in 1 .. n : f[i] = t
    BY <1>1 DEF ExistsSurjection, Surjection
<1> DEFINE Above(k) == \E b \in Nat : \A i \in 1 .. k : f[i] <= b
           T == {k \in 0 .. n : ~ Above(k)}
<1>3. T = {}
  <2>1. SUFFICES ASSUME T # {} PROVE FALSE
    OBVIOUS
  <2>2. T \in SUBSET Nat
    OBVIOUS
  <2>3. PICK k \in T : \A l \in T : k <= l
    BY <2>1, <2>2, HasLeast
  <2>4. k # 0
    <3>1. Above(0)
      OBVIOUS
    <3> QED
      BY <2>3, <3>1
  <2>5. k \in 1 .. n /\ k - 1 \in 0 .. n /\ k - 1 < k
    BY <2>3, <2>4
  <2>6. PICK b \in Nat : \A i \in 1 .. k - 1 : f[i] <= b
    <3>1. ASSUME k - 1 \in T PROVE FALSE
      <4>1. k <= k - 1
        BY ONLY <2>3, <3>1
      <4> QED
        BY <2>5, <4>1
    <3>2. Above(k - 1)
      BY <2>5, <3>1
    <3> QED
      BY <3>2
  <2>7. f[k] \in Nat /\ \A i \in 1 .. k : f[i] \in Nat
    <3>1. \A i \in 1 .. k : i \in 1 .. n
      BY <2>5
    <3> HIDE DEF T, Above
    <3> QED
      BY <1>2, <2>5, <3>1
  <2>8. PICK m \in Nat : m >= b /\ m >= f[k]
    <3>1. PICK x \in Nat : x = f[k]
      BY <2>7
    <3>2. CASE b >= x
      BY ONLY <2>6, <3>1, <3>2
    <3>3. CASE ~ (b >= x)
      BY ONLY <2>6, <3>1, <3>3
    <3> QED
      BY <3>2, <3>3
  <2>9. \A i \in 1 .. k : f[i] <= m
    <3>1. \A i \in 1 .. k : i \in 1 .. k - 1 \/ i = k
      BY <2>5
    <3> QED
      BY <2>6, <2>7, <2>8, <3>1
  <2> QED
    BY <2>3, <2>9
<1>4. Above(n)
  <2>1. n \in 0 .. n
    BY <1>1
  <2> QED
    BY <1>3, <2>1
<1>5. PICK b \in Nat : \A i \in 1 .. n : f[i] <= b
    BY <1>4
<1>6. S \in SUBSET (0 .. b)
    BY <1>2, <1>5
<1> QED
    BY <1>6, HasGreatest

\* What Min takes of a set of numbers.
LEMMA MinIsLeast ==
    ASSUME NEW S \in SUBSET Nat, S # {}
    PROVE  Min(S) \in S /\ \A y \in S : Min(S) <= y
<1>1. PICK x : x = CHOOSE z \in S : \A y \in S : z <= y
    OBVIOUS
<1>2. x \in S /\ \A y \in S : x <= y
    BY <1>1, HasLeast
<1> QED
    BY <1>1, <1>2 DEF Min

\* What Max takes of a set of numbers that ends with i.
LEMMA MaxIs ==
    ASSUME NEW i \in Nat, NEW S \in SUBSET (1 .. i), i \in S
    PROVE  Max(S) = i
<1>1. i \in S /\ \A y \in S : i >= y
    OBVIOUS
<1>2. \A x \in S : (\A y \in S : x >= y) => x = i
    OBVIOUS
<1> QED
    BY <1>1, <1>2 DEF Max

-----------------------------------------------------------------------------
(* Loops.                                                                  *)

\* What a loop has computed after each of its turns.
Computes(f, V, base, op, m) ==
    /\ f \in [0 .. m -> V] /\ f[0] = base
    /\ \A i \in 1 .. m : f[i] = op[i][f[i - 1]]

\* A loop computes something.
LEMMA LoopIsThere ==
    ASSUME NEW V, NEW base \in V, NEW m \in Nat, NEW op \in [1 .. m -> [V -> V]]
    PROVE  \E f : Computes(f, V, base, op, m)
<1> DEFINE Missing == {n \in 0 .. m : ~ \E f : Computes(f, V, base, op, n)}
<1>1. Missing = {}
  <2>1. SUFFICES ASSUME Missing # {} PROVE FALSE
    OBVIOUS
  <2>2. PICK n \in Missing : \A k \in Missing : n <= k
    <3>1. Missing \in SUBSET Nat
      OBVIOUS
    <3> HIDE DEF Missing
    <3> QED
      BY <2>1, <3>1, HasLeast
  <2>3. n \in 0 .. m /\ ~ \E f : Computes(f, V, base, op, n)
    OBVIOUS
  <2>4. CASE n = 0
    <3>1. Computes([i \in 0 .. 0 |-> base], V, base, op, 0)
      BY DEF Computes
    <3> QED
      BY <2>3, <2>4, <3>1
  <2>5. CASE n # 0
    <3>1. n - 1 \in 0 .. m /\ ~ (n <= n - 1) /\ n \in 1 .. m
      BY <2>3, <2>5
    <3>2. n - 1 \notin Missing
      BY <2>2, <3>1
    <3>3. PICK f : Computes(f, V, base, op, n - 1)
      BY <3>1, <3>2
    <3>4. f[n - 1] \in V /\ op[n][f[n - 1]] \in V
      BY <3>1, <3>3 DEF Computes
    <3>5. PICK g : g = [i \in 0 .. n |-> IF i = n THEN op[n][f[n - 1]] ELSE f[i]]
      OBVIOUS
    <3>6. /\ g \in [0 .. n -> V] /\ g[n] = op[n][f[n - 1]]
          /\ \A i \in 0 .. n - 1 : g[i] = f[i]
      BY <3>1, <3>3, <3>4, <3>5 DEF Computes
    <3>7. ASSUME NEW i \in 1 .. n PROVE g[i] = op[i][g[i - 1]]
      <4>1. i - 1 \in 0 .. n - 1 /\ g[i - 1] = f[i - 1]
        BY <3>1, <3>6
      <4>2. CASE i = n
        BY <3>6, <4>1, <4>2
      <4>3. CASE i # n
        <5>1. i \in 1 .. n - 1 /\ i \in 0 .. n - 1
          BY <3>1, <4>3
        <5> QED
          BY <3>3, <3>6, <4>1, <5>1 DEF Computes
      <4> QED
        BY <4>2, <4>3
    <3>8. g[0] = base
      BY <3>1, <3>3, <3>6 DEF Computes
    <3>9. Computes(g, V, base, op, n)
      BY <3>6, <3>7, <3>8 DEF Computes
    <3> QED
      BY <2>3, <3>9
  <2> QED
    BY <2>4, <2>5
<1>2. m \in 0 .. m
    OBVIOUS
<1> QED
    BY <1>1, <1>2

\* What each turn of a loop leads to is so of the results of all of them.
LEMMA LoopReaches ==
    ASSUME NEW m \in Nat, NEW Good, NEW f, f[0] \in Good[0],
           \A i \in 1 .. m : f[i - 1] \in Good[i - 1] => f[i] \in Good[i]
    PROVE  \A i \in 0 .. m : f[i] \in Good[i]
<1> DEFINE Missed == {i \in 0 .. m : f[i] \notin Good[i]}
<1>1. SUFFICES ASSUME Missed # {} PROVE FALSE
    OBVIOUS
<1>2. PICK i \in Missed : \A k \in Missed : i <= k
  <2>1. Missed \in SUBSET Nat
    OBVIOUS
  <2> HIDE DEF Missed
  <2> QED
    BY <1>1, <2>1, HasLeast
<1>3. i \in 1 .. m /\ i - 1 \in 0 .. m /\ ~ (i <= i - 1) /\ f[i] \notin Good[i]
    OBVIOUS
<1>4. f[i - 1] \in Good[i - 1]
    BY <1>2, <1>3
<1> QED
    BY <1>3, <1>4

\* Each turn leads on from what the turns before it lead to, and what a loop has
\* then computed.
LeadsOn(op, Good, m) == \A i \in 1 .. m : \A h \in Good[i - 1] : op[i][h] \in Good[i]
LeadsFrom(f, base, op, Good, m) ==
    /\ f = [i \in 0 .. m |-> f[i]] /\ f[0] = base
    /\ \A i \in 0 .. m : f[i] \in Good[i]
    /\ \A i \in 1 .. m : f[i] = op[i][f[i - 1]]

\* A loop computes something also where a turn is defined only on what the turns
\* before it lead to.
LEMMA GuardedLoop ==
    ASSUME NEW m \in Nat, NEW Good, NEW base \in Good[0], NEW op, LeadsOn(op, Good, m)
    PROVE  \E f : LeadsFrom(f, base, op, Good, m)
<1>0. \A i \in 1 .. m : \A h \in Good[i - 1] : op[i][h] \in Good[i]
    BY DEF LeadsOn
<1>1. PICK V : V = UNION {Good[i] : i \in 0 .. m}
    OBVIOUS
<1>2. \A i \in 0 .. m : Good[i] \subseteq V
    BY <1>1
<1>3. base \in V /\ \A i \in 1 .. m : i - 1 \in 0 .. m /\ i \in 0 .. m
    BY <1>2
<1>4. PICK turn : turn = [i \in 1 .. m |-> [h \in V |-> IF h \in Good[i - 1] THEN op[i][h] ELSE base]]
    OBVIOUS
<1>5. turn \in [1 .. m -> [V -> V]]
  <2>1. ASSUME NEW i \in 1 .. m, NEW h \in V
        PROVE  (IF h \in Good[i - 1] THEN op[i][h] ELSE base) \in V
    BY <1>0, <1>2, <1>3
  <2> QED
    BY <1>4, <2>1
<1>6. PICK f : Computes(f, V, base, turn, m)
    BY <1>3, <1>5, LoopIsThere
<1>7. f \in [0 .. m -> V] /\ f[0] = base /\ \A i \in 1 .. m : f[i] = turn[i][f[i - 1]]
    BY <1>6 DEF Computes
<1>8. ASSUME NEW i \in 1 .. m, f[i - 1] \in Good[i - 1]
      PROVE  f[i] = op[i][f[i - 1]] /\ f[i] \in Good[i]
    BY <1>0, <1>3, <1>4, <1>7, <1>8
<1>9. \A i \in 0 .. m : f[i] \in Good[i]
    BY <1>7, <1>8, LoopReaches
<1>10. \A i \in 1 .. m : f[i] = op[i][f[i - 1]]
    BY <1>3, <1>8, <1>9
<1>11. f = [i \in 0 .. m |-> f[i]]
    BY <1>7
<1> QED
    BY <1>7, <1>9, <1>10, <1>11 DEF LeadsFrom

=============================================================================
