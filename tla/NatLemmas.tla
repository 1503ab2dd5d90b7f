------------------------------ MODULE NatLemmas ------------------------------
(***************************************************************************)
(* What the proofs of the other modules need of natural numbers: least     *)
(* elements, induction, and the existence of functions that are defined by *)
(* rounds, f[k] from f[k - 1], as the loops of the code are modelled.      *)
(***************************************************************************)
EXTENDS Naturals, FiniteSetsExt, WellFoundedInduction, TLAPS

\* A set of naturals has a least element.
LEMMA LeastNat ==
  ASSUME NEW T, T \subseteq Nat, T # {}
  PROVE  \E x \in T : \A y \in T : x <= y
<1> DEFINE R == {ss \in Nat \X Nat : ss[1] < ss[2]}
<1>1. IsWellFoundedOn(R, Nat)
  <2>1. R = OpToRel(<, Nat)
    BY Zenon DEF OpToRel
  <2>2. QED
    BY <2>1, NatLessThanWellFounded
<1>2. \E x \in T : \A y \in T : ~(<<y, x>> \in R)
  <2> HIDE DEF R
  <2>1. QED
    BY <1>1, WFMin, Zenon
<1>3. PICK x \in T : \A y \in T : ~(<<y, x>> \in R)
  BY <1>2
<1>4. \A y \in T : ~(y < x)
  <2> SUFFICES ASSUME NEW y \in T, y < x PROVE FALSE
    OBVIOUS
  <2>1. <<y, x>> \in Nat \X Nat
    OBVIOUS
  <2>2. <<y, x>>[1] < <<y, x>>[2]
    OBVIOUS
  <2>3. QED
    BY <1>3, <2>1, <2>2
<1>5. QED
  BY <1>4

\* Min of a set of naturals is its least element.
LEMMA MinLeast ==
  ASSUME NEW S, S \subseteq Nat, S # {}
  PROVE  Min(S) \in S /\ \A y \in S : Min(S) <= y
<1>1. \E x \in S : \A y \in S : x <= y
  BY LeastNat
<1>2. QED
  BY <1>1, Zenon DEF Min

\* Min and Max of a set of indices are in it.
LEMMA MinMaxIn ==
  ASSUME NEW n \in Nat, NEW S, S \subseteq 0 .. n - 1, S # {}
  PROVE  /\ Min(S) \in S /\ \A y \in S : Min(S) <= y
         /\ Max(S) \in S /\ \A y \in S : Max(S) >= y
<1>1. \E x \in S : \A y \in S : x >= y
  <2> DEFINE T == {n - x : x \in S}
  <2>0. \A x \in S : n - x \in Nat
    OBVIOUS
  <2>1. T \subseteq Nat /\ T # {}
    BY <2>0
  <2>2. PICK t \in T : \A y \in T : t <= y
    <3> HIDE DEF T
    <3>1. QED
      BY <2>1, LeastNat
  <2>3. PICK x \in S : t = n - x
    BY <2>2
  <2>4. \A y \in S : x >= y
    BY <2>2, <2>3
  <2>5. QED
    BY <2>4
<1>2. Max(S) \in S /\ \A y \in S : Max(S) >= y
  BY <1>1, Zenon DEF Max
<1>3. S \subseteq Nat
  OBVIOUS
<1>4. QED
  BY <1>2, <1>3, MinLeast

\* Induction up to n.
LEMMA UpTo ==
  ASSUME NEW n \in Nat, NEW T, 0 \in T, \A m \in 0 .. n - 1 : m \in T => m + 1 \in T
  PROVE  0 .. n \subseteq T
<1> DEFINE Bad == (0 .. n) \ T
<1> SUFFICES ASSUME Bad # {} PROVE FALSE
  OBVIOUS
<1>1. PICK x \in Bad : \A y \in Bad : x <= y
  <2>1. Bad \subseteq Nat
    OBVIOUS
  <2> HIDE DEF Bad
  <2>2. QED
    BY <2>1, LeastNat
<1>2. x - 1 \in 0 .. n - 1 /\ x - 1 \notin Bad
  BY <1>1
<1>3. QED
  BY <1>1, <1>2

\* f is computed in n rounds from x0, where round k does next[k].
IsRounds(f, X, x0, n, next) ==
  f \in [0 .. n -> X] /\ f[0] = x0 /\ \A k \in 1 .. n : f[k] = next[k][f[k - 1]]

\* A function that is defined by rounds exists.
LEMMA Rounds ==
  ASSUME NEW X, NEW x0 \in X, NEW n \in Nat, NEW next \in [1 .. n -> [X -> X]]
  PROVE  \E f : IsRounds(f, X, x0, n, next)
<1> DEFINE Good(m) == \E f \in [0 .. m -> X] :
                        f[0] = x0 /\ \A k \in 1 .. m : f[k] = next[k][f[k - 1]]
           T == {m \in 0 .. n : Good(m)}
<1>1. 0 \in T
  <2> DEFINE f == [k \in 0 .. 0 |-> x0]
  <2>1. f \in [0 .. 0 -> X] /\ f[0] = x0 /\ \A k \in 1 .. 0 : f[k] = next[k][f[k - 1]]
    OBVIOUS
  <2> HIDE DEF f
  <2>2. Good(0)
    BY <2>1
  <2>3. QED
    BY <2>2
<1>2. ASSUME NEW m \in 0 .. n - 1, m \in T
      PROVE  m + 1 \in T
  <2>1. PICK f \in [0 .. m -> X] : f[0] = x0 /\ \A k \in 1 .. m : f[k] = next[k][f[k - 1]]
    BY <1>2
  <2> DEFINE y == next[m + 1][f[m]]
             g == [k \in 0 .. m + 1 |-> IF k = m + 1 THEN y ELSE f[k]]
  <2>2. y \in X
    <3>1. m + 1 \in 1 .. n /\ m \in 0 .. m
      OBVIOUS
    <3>2. next[m + 1] \in [X -> X] /\ f[m] \in X
      BY <3>1
    <3>3. QED
      BY <3>2
  <2> HIDE DEF y
  <2>3. g \in [0 .. m + 1 -> X]
    BY <2>2
  <2>4. g[0] = x0
    BY <2>1
  <2>5. ASSUME NEW k \in 1 .. m + 1
        PROVE  g[k] = next[k][g[k - 1]]
    <3>1. CASE k = m + 1
      BY <3>1 DEF y
    <3>2. CASE k # m + 1
      <4>1. k \in 1 .. m /\ g[k] = f[k] /\ g[k - 1] = f[k - 1]
        BY <3>2
      <4>2. QED
        BY <4>1, <2>1
    <3>3. QED
      BY <3>1, <3>2
  <2> HIDE DEF g
  <2>6. Good(m + 1)
    BY <2>3, <2>4, <2>5
  <2>7. QED
    BY <2>6
<1> HIDE DEF T
<1>3. 0 .. n \subseteq T
  BY <1>1, <1>2, UpTo
<1>4. n \in T
  BY <1>3
<1>5. QED
  BY <1>4 DEF T, IsRounds

=============================================================================
