------------------------------ MODULE Induction ------------------------------
(***************************************************************************)
(* Induction over the natural numbers, and the functions it defines, in a  *)
(* form that takes sets and functions as parameters and no operators.      *)
(***************************************************************************)
EXTENDS Integers, WellFoundedInduction, TLAPS

(* A nonempty set of natural numbers has a least element.                   *)
THEOREM Least == ASSUME NEW S \in SUBSET Nat, S # {} PROVE \E n \in S : \A m \in S : n <= m
<1> DEFINE R == OpToRel(<, Nat)
<1>1. IsWellFoundedOn(R, Nat)
  BY NatLessThanWellFounded, Zenon
<1>2. \A m, n \in Nat : m < n => <<m, n>> \in R
  BY SMT DEF OpToRel
<1> HIDE DEF R
<1>3. PICK n \in S : \A m \in S : ~(<<m, n>> \in R)
  BY <1>1, WFMin, Zenon
<1>4. \A m \in S : ~(m < n)
  BY <1>2, <1>3
<1> QED
  BY <1>4, SMT

(* A set that contains each number whose predecessors it contains is Nat.   *)
THEOREM Inductive ==
    ASSUME NEW S \in SUBSET Nat, \A n \in Nat : (\A m \in 0 .. n - 1 : m \in S) => n \in S
    PROVE  S = Nat
<1> SUFFICES ASSUME S # Nat PROVE FALSE
  OBVIOUS
<1>1. PICK n \in Nat \ S : \A m \in Nat \ S : n <= m
  BY Least
<1>2. \A m \in 0 .. n - 1 : m \in S
  BY <1>1, SMT
<1> QED
  BY <1>1, <1>2

(* A step that computes the value for n from those for smaller numbers      *)
(* defines a function.                                                      *)
Local(Step, V) ==
    \A f, g \in [Nat -> V] : \A n \in Nat :
        (\A k \in 0 .. n - 1 : f[k] = g[k]) => Step[<<n, f>>] = Step[<<n, g>>]
Follows(Step, f, n) == \A k \in 0 .. n : f[k] = Step[<<k, f>>]

LEMMA Agree ==
    ASSUME NEW V, NEW Step, Local(Step, V)
    PROVE  \A f, g \in [Nat -> V] : \A n \in Nat :
               Follows(Step, f, n) /\ Follows(Step, g, n) => \A k \in 0 .. n : f[k] = g[k]
<1> SUFFICES ASSUME NEW f \in [Nat -> V], NEW g \in [Nat -> V], NEW n \in Nat,
                    Follows(Step, f, n), Follows(Step, g, n)
             PROVE  \A k \in 0 .. n : f[k] = g[k]
  OBVIOUS
<1> DEFINE S == {k \in Nat : k <= n => f[k] = g[k]}
<1>1. ASSUME NEW k \in Nat, \A m \in 0 .. k - 1 : m \in S PROVE k \in S
  <2> SUFFICES ASSUME k <= n PROVE f[k] = g[k]
    OBVIOUS
  <2>1. \A m \in 0 .. k - 1 : f[m] = g[m]
    BY <1>1, SMT
  <2>2. Step[<<k, f>>] = Step[<<k, g>>]
    BY <2>1, Zenon DEF Local
  <2>3. k \in 0 .. n
    OBVIOUS
  <2> QED
    BY <2>2, <2>3, Zenon DEF Follows
<1>2. S = Nat
  <2> HIDE DEF S
  <2>1. S \in SUBSET Nat
    BY DEF S
  <2> QED
    BY <1>1, <2>1, Inductive, Zenon
<1> QED
  BY <1>2, SMT

LEMMA Reach ==
    ASSUME NEW V, NEW v \in V, NEW Step \in [Nat \X [Nat -> V] -> V], Local(Step, V)
    PROVE  \A n \in Nat : \E f \in [Nat -> V] : Follows(Step, f, n)
<1> DEFINE S == {n \in Nat : \E f \in [Nat -> V] : Follows(Step, f, n)}
<1>1. ASSUME NEW n \in Nat, \A m \in 0 .. n - 1 : m \in S PROVE n \in S
  <2>1. PICK f \in [Nat -> V] : n > 0 => Follows(Step, f, n - 1)
    <3>1. CASE n = 0
      <4>1. [k \in Nat |-> v] \in [Nat -> V]
        OBVIOUS
      <4>2. ~(n > 0)
        BY <3>1
      <4> QED
        BY <4>1, <4>2, Zenon
    <3>2. CASE n > 0
      BY <1>1, <3>2
    <3> QED
      BY <3>1, <3>2
  <2> DEFINE s == Step[<<n, f>>]
             g == [f EXCEPT ![n] = s]
  <2>2. s \in V
    OBVIOUS
  <2> HIDE DEF s
  <2>3. g \in [Nat -> V] /\ g[n] = s /\ \A k \in 0 .. n - 1 : g[k] = f[k]
    BY <2>2
  <2> HIDE DEF g
  <2>4. \A k \in 0 .. n : Step[<<k, g>>] = Step[<<k, f>>]
    <3> SUFFICES ASSUME NEW k \in 0 .. n PROVE Step[<<k, g>>] = Step[<<k, f>>]
      OBVIOUS
    <3>1. k \in Nat /\ \A l \in 0 .. k - 1 : g[l] = f[l]
      BY <2>3
    <3> QED
      BY <2>3, <3>1, Zenon DEF Local
  <2>5. ASSUME NEW k \in 0 .. n PROVE g[k] = Step[<<k, g>>]
    <3>1. CASE k = n
      BY <2>3, <2>4, <2>5, <3>1 DEF s
    <3>2. CASE k # n
      <4>1. n > 0 /\ k \in 0 .. n - 1
        BY <2>5, <3>2
      <4>2. f[k] = Step[<<k, f>>]
        BY <2>1, <4>1, Zenon DEF Follows
      <4> QED
        BY <2>3, <2>4, <2>5, <4>1, <4>2
    <3> QED
      BY <3>1, <3>2
  <2>6. Follows(Step, g, n)
    BY <2>5 DEF Follows
  <2> QED
    BY <2>3, <2>6
<1>2. S = Nat
  <2> HIDE DEF S
  <2>1. S \in SUBSET Nat
    BY DEF S
  <2> QED
    BY <1>1, <2>1, Inductive, Zenon
<1> QED
  BY <1>2, Zenon

(* A step that is local has a function that follows it everywhere.          *)
THEOREM RecursiveFunction ==
    ASSUME NEW V, NEW v \in V, NEW Step \in [Nat \X [Nat -> V] -> V], Local(Step, V)
    PROVE  \E F \in [Nat -> V] : \A n \in Nat : F[n] = Step[<<n, F>>]
<1> DEFINE C(n) == CHOOSE f \in [Nat -> V] : Follows(Step, f, n)
           F == [n \in Nat |-> C(n)[n]]
<1>1. \A n \in Nat : C(n) \in [Nat -> V] /\ Follows(Step, C(n), n)
  BY Reach, Zenon
<1> HIDE DEF C
<1>2. F \in [Nat -> V]
  BY <1>1
<1>3. \A n \in Nat : \A k \in 0 .. n : F[k] = C(n)[k]
  <2> SUFFICES ASSUME NEW n \in Nat, NEW k \in 0 .. n PROVE F[k] = C(n)[k]
    OBVIOUS
  <2>1. k \in Nat /\ k \in 0 .. k /\ 0 .. k \subseteq 0 .. n
    OBVIOUS
  <2>2. Follows(Step, C(n), k)
    BY <1>1, <2>1, Zenon DEF Follows
  <2>3. C(k) \in [Nat -> V] /\ C(n) \in [Nat -> V] /\ Follows(Step, C(k), k)
    BY <1>1, <2>1
  <2>4. \A f, g \in [Nat -> V] : \A m \in Nat :
           Follows(Step, f, m) /\ Follows(Step, g, m) => \A l \in 0 .. m : f[l] = g[l]
    BY Agree
  <2>5. \A l \in 0 .. k : C(k)[l] = C(n)[l]
    BY <2>1, <2>2, <2>3, <2>4, Zenon
  <2> QED
    BY <2>1, <2>5
<1> HIDE DEF F
<1>4. ASSUME NEW n \in Nat PROVE F[n] = Step[<<n, F>>]
  <2>1. n \in 0 .. n /\ 0 .. n - 1 \subseteq 0 .. n
    OBVIOUS
  <2>2. \A k \in 0 .. n - 1 : F[k] = C(n)[k]
    BY <1>3, <2>1, Zenon
  <2>3. Step[<<n, F>>] = Step[<<n, C(n)>>]
    BY <1>1, <1>2, <2>2, Zenon DEF Local
  <2>4. F[n] = C(n)[n] /\ C(n)[n] = Step[<<n, C(n)>>]
    BY <1>1, <1>3, <2>1, Zenon DEF Follows
  <2> QED
    BY <2>3, <2>4
<1> QED
  BY <1>2, <1>4, Zenon
=============================================================================
