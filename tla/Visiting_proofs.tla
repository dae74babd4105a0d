-------------------------- MODULE Visiting_proofs --------------------------
(***************************************************************************)
(* Induction, in the forms that the proofs of this project cite.           *)
(***************************************************************************)
EXTENDS Visiting, FiniteSetTheorems, TLAPS

CONSTANT Good(_)
-----------------------------------------------------------------------------
(* Induction over a set of numbers *)

\* A number outside of S would have predecessors outside of S without an end:
\* they would be mapped one-to-one to all of them but the greatest.
LEMMA InductionOnSet ==
  ASSUME NEW S, 0 \in S, \A n \in Nat : n \in S => n + 1 \in S
  PROVE  Nat \subseteq S
<1>. SUFFICES ASSUME NEW m \in Nat, m \notin S  PROVE FALSE
  OBVIOUS
<1>. DEFINE T == (0..m) \ S
            f == [n \in T |-> n - 1]
<1>1. IsFiniteSet(T)
  <2>1. IsFiniteSet(0..m)
    BY FS_Interval
  <2>2. T \in SUBSET (0..m)
    OBVIOUS
  <2>. QED
    BY <2>1, <2>2, FS_Subset
<1>2. \A n \in T : n # 0 /\ n - 1 \in T
  <2>. SUFFICES ASSUME NEW n \in T  PROVE n # 0 /\ n - 1 \in T
    OBVIOUS
  <2>1. n # 0 /\ n - 1 \in 0..m
    OBVIOUS
  <2>2. (n - 1) + 1 = n
    OBVIOUS
  <2>3. n - 1 \notin S
    BY <2>1, <2>2
  <2>. QED
    BY <2>1, <2>3
<1>3. f \in Injection(T, T)
  <2>1. f \in [T -> T]
    BY <1>2
  <2>2. \A n1, n2 \in T : f[n1] = f[n2] => n1 = n2
    OBVIOUS
  <2>. HIDE DEF f, T
  <2>. QED
    BY <2>1, <2>2 DEF Injection, IsInjective
<1>4. f \in Surjection(T, T)
  BY <1>1, <1>3, FS_Injection
<1>5. m \in T
  OBVIOUS
<1>6. PICK n \in T : f[n] = m
  BY <1>4, <1>5 DEF Surjection
<1>. QED
  BY <1>6

\* A non-empty set of numbers has a least one.
LEMMA LeastNumber ==
  ASSUME NEW S \in SUBSET Nat, S # {}
  PROVE  \E n \in S : \A m \in S : n <= m
<1>. SUFFICES ASSUME \A n \in S : \E m \in S : m < n  PROVE FALSE
  OBVIOUS
<1>. DEFINE T == {n \in Nat : \A m \in S : n <= m}
<1>1. 0 \in T
  OBVIOUS
<1>2. ASSUME NEW n \in Nat, n \in T  PROVE n + 1 \in T
  <2>1. n \notin S
    BY <1>2
  <2>. QED
    BY <1>2, <2>1
<1>3. Nat \subseteq T
  <2>. HIDE DEF T
  <2>. QED
    BY <1>1, <1>2, InductionOnSet
<1>4. PICK s \in S : TRUE
  OBVIOUS
<1>5. s + 1 \in T
  BY <1>3
<1>. QED
  BY <1>5
-----------------------------------------------------------------------------
(* Loops *)

\* The states of a loop after each of its first items.
States(f, t, items, m) ==
  f = [n \in 0..m |-> IF n = 0 THEN t ELSE Step(f[n - 1], items[n])]

\* They exist: the recursive function is well-defined.
LEMMA StatesExist ==
  ASSUME NEW t, NEW items, Len(items) \in Nat
  PROVE  \E f : States(f, t, items, Len(items))
<1>. DEFINE S == {m \in Nat : \E f : States(f, t, items, m)}
<1>1. 0 \in S
  <2>1. States([n \in 0..0 |-> t], t, items, 0)
    BY DEF States
  <2>. QED
    BY <2>1
<1>2. ASSUME NEW m \in Nat, m \in S  PROVE m + 1 \in S
  <2>1. PICK f : States(f, t, items, m)
    BY <1>2
  <2>. DEFINE g == [n \in 0..(m + 1) |->
                      IF n = m + 1 THEN Step(f[m], items[m + 1]) ELSE f[n]]
  <2>2. ASSUME NEW n \in 0..(m + 1)
        PROVE  g[n] = IF n = 0 THEN t ELSE Step(g[n - 1], items[n])
    <3>1. CASE n = 0
      BY <2>1, <3>1 DEF States
    <3>2. CASE n = m + 1
      <4>1. g[n] = Step(f[m], items[m + 1])
        BY <3>2
      <4>2. n - 1 = m /\ m \in 0..(m + 1) /\ m # m + 1
        BY <3>2
      <4>3. g[m] = f[m]
        BY <4>2
      <4>. QED
        BY <3>2, <4>1, <4>2, <4>3
    <3>3. CASE n # 0 /\ n # m + 1
      <4>1. n \in 0..m /\ n - 1 \in 0..(m + 1) /\ n - 1 # m + 1
        BY <3>3
      <4>2. g[n] = f[n] /\ g[n - 1] = f[n - 1]
        BY <3>3, <4>1
      <4>3. f[n] = Step(f[n - 1], items[n])
        BY <2>1, <3>3, <4>1 DEF States
      <4>. QED
        BY <3>3, <4>2, <4>3
    <3>. QED
      BY <3>1, <3>2, <3>3
  <2>3. g = [n \in 0..(m + 1) |-> g[n]]
    OBVIOUS
  <2>4. States(g, t, items, m + 1)
    <3>. HIDE DEF g
    <3>. QED
      BY <2>2, <2>3 DEF States
  <2>. QED
    BY <2>4
<1>3. Nat \subseteq S
  <2>. HIDE DEF S
  <2>. QED
    BY <1>1, <1>2, InductionOnSet
<1>. QED
  BY <1>3

\* What holds before a loop and is kept by its body for every item holds
\* after the loop.
LEMMA VisitKeeps ==
  ASSUME NEW S, NEW items \in Seq(S), NEW t, Good(t),
         \A u : \A i \in DOMAIN items : Good(u) => Good(Step(u, items[i]))
  PROVE  Good(Visit(t, items))
<1>. DEFINE after == CHOOSE f : States(f, t, items, Len(items))
            T == {n \in Nat : n <= Len(items) => Good(after[n])}
<1>1. Len(items) \in Nat /\ DOMAIN items = 1..Len(items)
  OBVIOUS
<1>2. States(after, t, items, Len(items))
  BY <1>1, StatesExist
<1>. HIDE DEF after
<1>3. 0 \in T
  BY <1>1, <1>2 DEF States
<1>4. ASSUME NEW n \in Nat, n \in T  PROVE n + 1 \in T
  <2>. SUFFICES ASSUME n + 1 <= Len(items)  PROVE Good(after[n + 1])
    OBVIOUS
  <2>1. n \in 0..Len(items) /\ n + 1 \in 0..Len(items) /\ n + 1 \in DOMAIN items
    BY <1>1
  <2>2. Good(after[n])
    BY <1>1, <1>4
  <2>3. after[n + 1] = Step(after[n], items[n + 1])
    <3>1. n + 1 # 0 /\ (n + 1) - 1 = n
      OBVIOUS
    <3>. QED
      BY <1>2, <2>1, <3>1 DEF States
  <2>. QED
    BY <2>1, <2>2, <2>3
<1>5. Nat \subseteq T
  <2>. HIDE DEF T
  <2>. QED
    BY <1>3, <1>4, InductionOnSet
<1>6. Good(after[Len(items)])
  BY <1>1, <1>5
<1>. QED
  BY <1>6 DEF Visit, after, States

\* The states that a loop goes through.
LEMMA VisitRuns ==
  ASSUME NEW S, NEW items \in Seq(S), NEW t
  PROVE  \E after : /\ after[0] = t
                    /\ \A n \in 1..Len(items) : after[n] = Step(after[n - 1], items[n])
                    /\ Visit(t, items) = after[Len(items)]
<1>. DEFINE after == CHOOSE f : States(f, t, items, Len(items))
<1>1. Len(items) \in Nat
  OBVIOUS
<1>2. States(after, t, items, Len(items))
  BY <1>1, StatesExist
<1>3. Visit(t, items) = after[Len(items)]
  BY DEF Visit, States
<1>. HIDE DEF after
<1>4. after[0] = t
  BY <1>1, <1>2 DEF States
<1>5. ASSUME NEW n \in 1..Len(items)  PROVE after[n] = Step(after[n - 1], items[n])
  <2>1. n \in 0..Len(items) /\ n # 0
    BY <1>1
  <2>. QED
    BY <1>2, <2>1 DEF States
<1>. QED
  BY <1>3, <1>4, <1>5
=============================================================================
