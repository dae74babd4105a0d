-------------------------- MODULE ValueTree_proofs --------------------------
(***************************************************************************)
(* Lemmas about paths and trees, for the proofs of the modules that edit   *)
(* them.                                                                   *)
(***************************************************************************)
EXTENDS ValueTree, SequenceTheorems, TLAPS

LOCAL INSTANCE SequencesExt

\* Induction over numbers, which has no parameters.
LOCAL Numbers == INSTANCE Visiting_proofs WITH Step <- Join, Good <- IsTree
-----------------------------------------------------------------------------
(* Paths *)

LEMMA PrefixElements ==
  ASSUME NEW K, NEW s \in Seq(K), NEW t \in Seq(K)
  PROVE  IsPrefix(s, t) <=> Len(s) <= Len(t) /\ \A i \in 1..Len(s) : s[i] = t[i]
<1>1. SubSeq(s, 1, Len(s)) = s
  BY SubSeqFull
<1>2. ASSUME Len(s) <= Len(t)
      PROVE  SubSeq(t, 1, Len(s)) = s <=> \A i \in 1..Len(s) : s[i] = t[i]
  <2>1. /\ SubSeq(t, 1, Len(s)) \in Seq(K) /\ Len(SubSeq(t, 1, Len(s))) = Len(s)
        /\ \A i \in 1..Len(s) : SubSeq(t, 1, Len(s))[i] = t[i]
    BY <1>2
  <2>. QED
    BY <2>1, SeqEqual
<1>. QED
  BY <1>1, <1>2 DEF IsPrefix

LEMMA JoinType ==
  ASSUME NEW K, NEW s \in Seq(K), NEW t \in Seq(K)
  PROVE  /\ Join(s, t) \in Seq(K)
         /\ Len(Join(s, t)) = Len(s) + Len(t)
         /\ \A i \in 1..Len(s) : Join(s, t)[i] = s[i]
         /\ \A i \in 1..Len(t) : Join(s, t)[Len(s) + i] = t[i]
         /\ IsPrefix(s, Join(s, t))
         /\ Relative(s, Join(s, t)) = t
         /\ Join(s, <<>>) = s /\ Join(<<>>, s) = s
<1>1. /\ s \o t \in Seq(K) /\ Len(s \o t) = Len(s) + Len(t)
      /\ \A i \in 1..Len(s) : (s \o t)[i] = s[i]
  <2>1. s \o t \in Seq(K)
    OBVIOUS
  <2>2. Len(s \o t) = Len(s) + Len(t)
    BY ConcatProperties
  <2>3. \A i \in 1..Len(s) : (s \o t)[i] = s[i]
    OBVIOUS
  <2>. QED
    BY <2>1, <2>2, <2>3
<1>2. \A i \in 1..Len(t) : (s \o t)[Len(s) + i] = t[i]
  OBVIOUS
<1>3. IsPrefix(s, s \o t)
  <2>1. Len(s) <= Len(s \o t)
    BY <1>1
  <2>. QED
    BY <1>1, <2>1, PrefixElements
<1>4. Relative(s, s \o t) = t
  <2>. DEFINE r == SubSeq(s \o t, Len(s) + 1, Len(s) + Len(t))
  <2>1. /\ r \in Seq(K) /\ Len(r) = Len(t)
        /\ \A i \in 1..Len(t) : r[i] = (s \o t)[Len(s) + i]
    <3>1. \A i \in Len(s) + 1 .. Len(s) + Len(t) : (s \o t)[i] \in K
      BY <1>1
    <3>2. /\ Len(s) \in Nat /\ Len(t) \in Nat
          /\ r \in Seq(K)
          /\ Len(r) = IF Len(s) + 1 <= Len(s) + Len(t)
                      THEN (Len(s) + Len(t)) - (Len(s) + 1) + 1 ELSE 0
      BY <3>1, SubSeqProperties
    <3>3. \A i \in 1..((Len(s) + Len(t)) - (Len(s) + 1) + 1) :
            r[i] = (s \o t)[(Len(s) + 1) + i - 1]
      BY <3>1, SubSeqProperties
    <3>. QED
      BY <3>2, <3>3
  <2>2. r = t
    BY <1>2, <2>1, SeqEqual
  <2>. QED
    BY <1>1, <2>2 DEF Relative
<1>5. s \o <<>> = s /\ <<>> \o s = s
  OBVIOUS
<1>. QED
  BY <1>1, <1>2, <1>3, <1>4, <1>5 DEF Join

\* A path with this prefix is the prefix and the rest.
LEMMA PrefixSplits ==
  ASSUME NEW K, NEW s \in Seq(K), NEW t \in Seq(K), IsPrefix(s, t)
  PROVE  /\ Relative(s, t) \in Seq(K)
         /\ Join(s, Relative(s, t)) = t
         /\ Len(Relative(s, t)) = Len(t) - Len(s)
<1>. DEFINE r == Relative(s, t)
<1>1. /\ Len(s) <= Len(t) /\ \A i \in 1..Len(s) : s[i] = t[i]
      /\ Len(s) \in Nat /\ Len(t) \in Nat
  BY PrefixElements
<1>2. /\ r \in Seq(K) /\ Len(r) = Len(t) - Len(s)
      /\ \A i \in 1..Len(r) : r[i] = t[Len(s) + i]
  <2>1. \A i \in Len(s) + 1 .. Len(t) : t[i] \in K
    BY <1>1
  <2>2. /\ r \in Seq(K)
        /\ Len(r) = IF Len(s) + 1 <= Len(t) THEN Len(t) - (Len(s) + 1) + 1 ELSE 0
    BY <1>1, <2>1, SubSeqProperties DEF Relative
  <2>3. \A i \in 1..(Len(t) - (Len(s) + 1) + 1) : r[i] = t[(Len(s) + 1) + i - 1]
    BY <1>1, <2>1, SubSeqProperties DEF Relative
  <2>. QED
    BY <1>1, <2>2, <2>3
<1>. HIDE DEF r
<1>3. /\ Join(s, r) \in Seq(K) /\ Len(Join(s, r)) = Len(t)
      /\ \A i \in 1..Len(s) : Join(s, r)[i] = s[i]
      /\ \A i \in 1..Len(r) : Join(s, r)[Len(s) + i] = r[i]
  <2>1. Join(s, r) \in Seq(K) /\ Len(Join(s, r)) = Len(s) + Len(r)
    BY <1>2, JoinType
  <2>2. \A i \in 1..Len(s) : Join(s, r)[i] = s[i]
    BY <1>2, JoinType
  <2>3. \A i \in 1..Len(r) : Join(s, r)[Len(s) + i] = r[i]
    BY <1>2, JoinType
  <2>. QED
    BY <1>1, <1>2, <2>1, <2>2, <2>3
<1>4. ASSUME NEW i \in 1..Len(t)  PROVE Join(s, r)[i] = t[i]
  <2>1. CASE i \in 1..Len(s)
    BY <1>1, <1>3, <2>1
  <2>2. CASE i \notin 1..Len(s)
    <3>1. i - Len(s) \in 1..Len(r) /\ Len(s) + (i - Len(s)) = i
      BY <1>1, <1>2, <2>2
    <3>. QED
      BY <1>2, <1>3, <3>1
  <2>. QED
    BY <2>1, <2>2
<1>5. Join(s, r) = t
  BY <1>3, <1>4, SeqEqual
<1>. QED
  BY <1>2, <1>5 DEF r

LEMMA JoinInjective ==
  ASSUME NEW K, NEW s \in Seq(K), NEW t \in Seq(K), NEW u \in Seq(K),
         Join(s, t) = Join(s, u)
  PROVE  t = u
BY JoinType

LEMMA JoinAssociative ==
  ASSUME NEW K, NEW s \in Seq(K), NEW t \in Seq(K), NEW u \in Seq(K)
  PROVE  Join(Join(s, t), u) = Join(s, Join(t, u))
BY ConcatAssociative DEF Join

LEMMA PrefixReflexive ==
  ASSUME NEW K, NEW s \in Seq(K)
  PROVE  IsPrefix(s, s) /\ IsPrefix(<<>>, s)
<1>1. <<>> \in Seq(K) /\ Len(s) \in Nat /\ Len(<<>>) = 0
  OBVIOUS
<1>2. IsPrefix(s, s)
  BY <1>1, PrefixElements
<1>3. SubSeq(<<>>, 1, 0) = <<>> /\ SubSeq(s, 1, 0) = <<>>
  OBVIOUS
<1>4. IsPrefix(<<>>, s)
  BY <1>1, <1>3 DEF IsPrefix
<1>. QED
  BY <1>2, <1>4

LEMMA PrefixTransitive ==
  ASSUME NEW K, NEW s \in Seq(K), NEW t \in Seq(K), NEW u \in Seq(K),
         IsPrefix(s, t), IsPrefix(t, u)
  PROVE  IsPrefix(s, u)
<1>1. Len(s) \in Nat /\ Len(t) \in Nat /\ Len(u) \in Nat
  OBVIOUS
<1>. QED
  BY <1>1, PrefixElements

LEMMA PrefixAntisymmetric ==
  ASSUME NEW K, NEW s \in Seq(K), NEW t \in Seq(K), IsPrefix(s, t),
         IsPrefix(t, s) \/ Len(t) <= Len(s)
  PROVE  s = t
<1>1. /\ Len(s) \in Nat /\ Len(t) \in Nat /\ Len(s) <= Len(t) /\ Len(t) <= Len(s)
      /\ \A i \in 1..Len(s) : s[i] = t[i]
  BY PrefixElements
<1>. QED
  BY <1>1, SeqEqual

\* Two prefixes of one path are comparable.
LEMMA PrefixesComparable ==
  ASSUME NEW K, NEW s \in Seq(K), NEW t \in Seq(K), NEW u \in Seq(K),
         IsPrefix(s, u), IsPrefix(t, u)
  PROVE  IsPrefix(s, t) \/ IsPrefix(t, s)
<1>1. /\ Len(s) \in Nat /\ Len(t) \in Nat
      /\ \A i \in 1..Len(s) : s[i] = u[i]
      /\ \A i \in 1..Len(t) : t[i] = u[i]
  BY PrefixElements
<1>2. CASE Len(s) <= Len(t)
  BY <1>1, <1>2, PrefixElements
<1>3. CASE Len(t) <= Len(s)
  BY <1>1, <1>3, PrefixElements
<1>. QED
  BY <1>1, <1>2, <1>3
LEMMA ParentSplits ==
  ASSUME NEW K, NEW s \in Seq(K), s # <<>>
  PROVE  /\ Len(s) \in Nat \ {0}
         /\ ParentOf(s) \in Seq(K) /\ Len(ParentOf(s)) = Len(s) - 1
         /\ \A i \in 1..Len(s) - 1 : ParentOf(s)[i] = s[i]
         /\ LastKey(s) \in K
         /\ s = Append(ParentOf(s), LastKey(s))
         /\ IsPrefix(ParentOf(s), s) /\ ParentOf(s) # s
<1>. DEFINE r == ParentOf(s)
<1>1. Len(s) \in Nat \ {0} /\ LastKey(s) \in K /\ \A i \in 1..Len(s) - 1 : s[i] \in K
  BY DEF LastKey
<1>2. /\ r \in Seq(K) /\ Len(r) = Len(s) - 1
      /\ \A i \in 1..Len(s) - 1 : r[i] = s[i]
  <2>. DEFINE n == Len(s) - 1
  <2>1. n \in Nat /\ n <= Len(s) /\ r = SubSeq(s, 1, n) /\ \A i \in 1..n : s[i] \in K
    BY <1>1 DEF ParentOf
  <2>. HIDE DEF n, r
  <2>2. /\ r \in Seq(K)
        /\ Len(r) = IF 1 <= n THEN n - 1 + 1 ELSE 0
    BY <2>1, SubSeqProperties
  <2>3. \A i \in 1..(n - 1 + 1) : r[i] = s[1 + i - 1]
    BY <2>1, SubSeqProperties
  <2>4. Len(r) = n /\ \A i \in 1..n : r[i] = s[i]
    BY <2>1, <2>2, <2>3
  <2>. QED
    BY <2>2, <2>4 DEF n
<1>. HIDE DEF r
<1>3. s = Append(r, LastKey(s))
  <2>1. Append(r, LastKey(s)) \in Seq(K) /\ Len(Append(r, LastKey(s))) = Len(s)
    BY <1>1, <1>2
  <2>2. \A i \in 1..Len(s) : Append(r, LastKey(s))[i] = s[i]
    BY <1>1, <1>2 DEF LastKey
  <2>. QED
    BY <2>1, <2>2, SeqEqual
<1>4. IsPrefix(r, s)
  BY <1>1, <1>2, PrefixElements
<1>. QED
  BY <1>1, <1>2, <1>3, <1>4 DEF r

LEMMA StrictPrefixOfParent ==
  ASSUME NEW K, NEW s \in Seq(K), NEW t \in Seq(K), IsPrefix(s, t), s # t
  PROVE  t # <<>> /\ IsPrefix(s, ParentOf(t)) /\ Len(s) < Len(t)
<1>1. /\ Len(s) \in Nat /\ Len(t) \in Nat /\ Len(s) <= Len(t)
      /\ \A i \in 1..Len(s) : s[i] = t[i]
  BY PrefixElements
<1>2. Len(s) < Len(t)
  BY <1>1, SeqEqual
<1>3. t # <<>>
  BY <1>1, <1>2
<1>4. /\ ParentOf(t) \in Seq(K) /\ Len(ParentOf(t)) = Len(t) - 1
      /\ \A i \in 1..Len(t) - 1 : ParentOf(t)[i] = t[i]
  BY <1>3, ParentSplits
<1>5. \A i \in 1..Len(s) : s[i] = ParentOf(t)[i]
  BY <1>1, <1>2, <1>4
<1>. QED
  BY <1>1, <1>2, <1>3, <1>4, <1>5, PrefixElements

LEMMA ParentOfJoin ==
  ASSUME NEW K, NEW s \in Seq(K), NEW t \in Seq(K), t # <<>>
  PROVE  ParentOf(Join(s, t)) = Join(s, ParentOf(t)) /\ Join(s, t) # <<>>
<1>. DEFINE r == ParentOf(t)
            k == LastKey(t)
<1>1. r \in Seq(K) /\ k \in K /\ t = Append(r, k)
  BY ParentSplits
<1>. HIDE DEF r, k
<1>2. Join(s, t) = Append(Join(s, r), k)
  BY <1>1 DEF Join
<1>3. Join(s, r) \in Seq(K)
  BY <1>1 DEF Join
<1>. DEFINE u == Join(s, r)
<1>4. u \in Seq(K) /\ Append(u, k) # <<>> /\ ParentOf(Append(u, k)) = u
  <2>. HIDE DEF u
  <2>1. u \in Seq(K)
    BY <1>3 DEF u
  <2>2. Append(u, k) \in Seq(K) /\ Len(Append(u, k)) = Len(u) + 1 /\ Len(u) \in Nat
    BY <1>1, <2>1
  <2>3. Append(u, k) # <<>>
    BY <2>2
  <2>4. SubSeq(Append(u, k), 1, Len(u)) = u
    BY <1>1, <2>1
  <2>. QED
    BY <2>1, <2>2, <2>3, <2>4 DEF ParentOf
<1>. QED
  BY <1>2, <1>4 DEF r

\* Pointer::with_ancestors: the prefixes but the empty one.
LEMMA AncestorsArePrefixes ==
  ASSUME NEW K, NEW s \in Seq(K)
  PROVE  WithAncestors(s) = {p \in Seq(K) : p # <<>> /\ IsPrefix(p, s)}
<1>0. Len(s) \in Nat /\ \A i \in 1..Len(s) : s[i] \in K
  OBVIOUS
<1>1. ASSUME NEW n \in 1..Len(s)
      PROVE  /\ SubSeq(s, 1, n) \in Seq(K) /\ SubSeq(s, 1, n) # <<>>
             /\ IsPrefix(SubSeq(s, 1, n), s)
  <2>1. /\ SubSeq(s, 1, n) \in Seq(K) /\ Len(SubSeq(s, 1, n)) = n
        /\ \A i \in 1..n : SubSeq(s, 1, n)[i] = s[i]
    BY <1>0
  <2>2. n <= Len(s) /\ n # 0
    OBVIOUS
  <2>. QED
    BY <2>1, <2>2, PrefixElements
<1>2. ASSUME NEW p \in Seq(K), p # <<>>, IsPrefix(p, s)
      PROVE  \E n \in 1..Len(s) : p = SubSeq(s, 1, n)
  <2>1. Len(p) \in Nat /\ Len(p) # 0 /\ Len(p) <= Len(s) /\ p = SubSeq(s, 1, Len(p))
    <3>1. Len(p) \in Nat /\ Len(p) # 0
      BY <1>2
    <3>2. Len(p) <= Len(s) /\ SubSeq(p, 1, Len(p)) = SubSeq(s, 1, Len(p))
      BY <1>2 DEF IsPrefix
    <3>. QED
      BY <3>1, <3>2, SubSeqFull
  <2>2. Len(p) \in 1..Len(s)
    BY <1>0, <2>1
  <2>. QED
    BY <2>1, <2>2
<1>. QED
  BY <1>1, <1>2 DEF WithAncestors

LEMMA AppendIsPrefix ==
  ASSUME NEW K, NEW s \in Seq(K), NEW k \in K, NEW t \in Seq(K)
  PROVE  /\ Append(s, k) \in Seq(K) /\ Len(Append(s, k)) = Len(s) + 1
         /\ Append(s, k) # <<>> /\ ParentOf(Append(s, k)) = s
         /\ LastKey(Append(s, k)) = k
         /\ IsPrefix(Append(s, k), t) <=>
              IsPrefix(s, t) /\ s # t /\ t[Len(s) + 1] = k
<1>1. /\ Append(s, k) \in Seq(K) /\ Len(Append(s, k)) = Len(s) + 1
      /\ Len(s) \in Nat /\ Len(t) \in Nat
      /\ \A i \in 1..Len(s) : Append(s, k)[i] = s[i]
      /\ Append(s, k)[Len(s) + 1] = k
  OBVIOUS
<1>2. Append(s, k) # <<>> /\ LastKey(Append(s, k)) = k
  BY <1>1 DEF LastKey
<1>3. ParentOf(Append(s, k)) = s
  BY <1>1 DEF ParentOf
<1>. DEFINE a == Append(s, k)
<1>0. a \in Seq(K) /\ Len(a) = Len(s) + 1
  BY <1>1
<1>. HIDE DEF a
<1>6. IsPrefix(a, t) <=>
        Len(s) + 1 <= Len(t) /\ \A i \in 1..Len(s) + 1 : a[i] = t[i]
  BY <1>0, PrefixElements
<1>4. ASSUME IsPrefix(Append(s, k), t)
      PROVE  IsPrefix(s, t) /\ s # t /\ t[Len(s) + 1] = k
  <2>1. Len(s) + 1 <= Len(t) /\ \A i \in 1..Len(s) + 1 : Append(s, k)[i] = t[i]
    BY <1>4, <1>6 DEF a
  <2>2. \A i \in 1..Len(s) : s[i] = t[i]
    BY <1>1, <2>1
  <2>3. t[Len(s) + 1] = k
    BY <1>1, <2>1
  <2>. QED
    BY <1>1, <2>1, <2>2, <2>3, PrefixElements
<1>5. ASSUME IsPrefix(s, t), s # t, t[Len(s) + 1] = k
      PROVE  IsPrefix(Append(s, k), t)
  <2>1. Len(s) < Len(t) /\ \A i \in 1..Len(s) : s[i] = t[i]
    BY <1>5, StrictPrefixOfParent, PrefixElements
  <2>2. \A i \in 1..Len(s) + 1 : Append(s, k)[i] = t[i]
    BY <1>1, <1>5, <2>1
  <2>3. Len(s) + 1 <= Len(t)
    BY <1>1, <2>1
  <2>. QED
    BY <1>6, <2>2, <2>3 DEF a
<1>. QED
  BY <1>1, <1>2, <1>3, <1>4, <1>5
-----------------------------------------------------------------------------
(* Trees *)

\* In a tree, whatever is above a node is an object.
LEMMA TreeAncestors ==
  ASSUME NEW K, NEW t, TreeOver(K, t), NEW s \in Seq(K),
         NEW q \in DOMAIN t, IsPrefix(s, q)
  PROVE  s \in DOMAIN t /\ (s # q => t[s].kind = "object")
<1>. DEFINE S == {n \in Nat : \A p \in DOMAIN t :
                    IsPrefix(s, p) /\ Len(p) = Len(s) + n =>
                      s \in DOMAIN t /\ (s # p => t[s].kind = "object")}
<1>0. Len(s) \in Nat /\ \A p \in DOMAIN t : p \in Seq(K) /\ Len(p) \in Nat
  BY DEF TreeOver, Path
<1>1. 0 \in S
  <2>1. ASSUME NEW p \in DOMAIN t, IsPrefix(s, p), Len(p) = Len(s) + 0
        PROVE  s = p
    <3>1. p \in Seq(K) /\ Len(p) <= Len(s)
      BY <1>0, <2>1
    <3>. QED
      BY <2>1, <3>1, PrefixAntisymmetric
  <2>. QED
    BY <2>1
<1>2. ASSUME NEW n \in Nat, n \in S  PROVE n + 1 \in S
  <2>. SUFFICES ASSUME NEW p \in DOMAIN t, IsPrefix(s, p), Len(p) = Len(s) + (n + 1)
                PROVE  s \in DOMAIN t /\ t[s].kind = "object"
    OBVIOUS
  <2>1. p \in Seq(K) /\ s # p
    BY <1>0
  <2>2. p # <<>> /\ IsPrefix(s, ParentOf(p))
    BY <2>1, StrictPrefixOfParent
  <2>3. ParentOf(p) \in DOMAIN t /\ t[ParentOf(p)].kind = "object"
    BY <2>2 DEF TreeOver, IsTree, Path
  <2>4. Len(ParentOf(p)) = Len(s) + n
    <3>1. Len(ParentOf(p)) = Len(p) - 1
      BY <2>1, <2>2, ParentSplits
    <3>. QED
      BY <1>0, <3>1
  <2>. QED
    BY <1>2, <2>2, <2>3, <2>4
<1>. HIDE DEF S
<1>3. Nat \subseteq S
  BY <1>1, <1>2, Numbers!InductionOnSet
<1>4. Len(q) - Len(s) \in Nat /\ Len(q) = Len(s) + (Len(q) - Len(s))
  BY <1>0, PrefixElements
<1>. QED
  BY <1>3, <1>4 DEF S

LEMMA RootIsThere ==
  ASSUME NEW K, NEW t, TreeOver(K, t)
  PROVE  <<>> \in DOMAIN t /\ t # Panicked
BY DEF TreeOver, IsTree, Path, Panicked

LEMMA SingleIsTree ==
  ASSUME NEW K, NEW node
  PROVE  TreeOver(K, Single(node)) /\ Single(node)[<<>>] = node
<1>1. <<>> \in Seq(K)
  OBVIOUS
<1>. QED
  BY <1>1 DEF TreeOver, IsTree, Path, Single

\* WithOrigin::ensure_object makes a tree where there is an object at the
\* location; it only replaces nodes above.
LEMMA EnsureObjectIsTree ==
  ASSUME NEW K, NEW t, TreeOver(K, t), NEW at \in Seq(K), ~IsLeafAt(t, at),
         NEW r, r = EnsureObject(t, at)
  PROVE  /\ TreeOver(K, r) /\ IsObjectAt(r, at)
         /\ IsObjectAt(t, <<>>) => IsObjectAt(r, <<>>)
         /\ DOMAIN r = DOMAIN t \cup WithAncestors(at)
         /\ \A path \in DOMAIN t :
              \/ r[path] = t[path]
              \/ path # at /\ IsPrefix(path, at) /\ r[path] = Object
<1>. DEFINE W == WithAncestors(at)
<1>0. Object.kind = "object"
  BY DEF Object
<1>1. r = [path \in DOMAIN t \cup W |->
             IF path \notin DOMAIN t \/ (IsPrefix(path, at) /\ path # at)
             THEN Object ELSE t[path]]
  BY DEF EnsureObject, IsStrictPrefix
<1>2. W = {p \in Seq(K) : p # <<>> /\ IsPrefix(p, at)}
  BY AncestorsArePrefixes
<1>3. /\ <<>> \in DOMAIN t /\ DOMAIN t \subseteq Seq(K)
      /\ \A path \in DOMAIN t \ {<<>>} :
           ParentOf(path) \in DOMAIN t /\ t[ParentOf(path)].kind = "object"
  BY DEF TreeOver, IsTree, Path
<1>. HIDE DEF W
<1>4. DOMAIN r = DOMAIN t \cup W /\ DOMAIN r \subseteq Seq(K)
  BY <1>1, <1>2, <1>3
<1>5. \A path \in DOMAIN t : r[path] = Object \/ r[path] = t[path]
  BY <1>1
<1>6. ASSUME NEW path \in DOMAIN r \ {<<>>}
      PROVE  ParentOf(path) \in DOMAIN r /\ r[ParentOf(path)].kind = "object"
  <2>1. CASE path \in DOMAIN t
    BY <1>0, <1>3, <1>4, <1>5, <2>1
  <2>2. CASE path \in W
    <3>. DEFINE q == ParentOf(path)
    <3>1. path \in Seq(K) /\ path # <<>> /\ IsPrefix(path, at)
      BY <1>2, <2>2
    <3>2. q \in Seq(K) /\ IsPrefix(q, path) /\ q # path
      BY <3>1, ParentSplits
    <3>. HIDE DEF q
    <3>3. IsPrefix(q, at) /\ q # at
      BY <3>1, <3>2, PrefixTransitive, PrefixAntisymmetric
    <3>4. q \in DOMAIN r
      BY <1>2, <1>3, <1>4, <3>2, <3>3
    <3>5. r[q] = Object
      BY <1>1, <1>4, <3>3, <3>4
    <3>. QED
      BY <1>0, <3>4, <3>5 DEF q
  <2>. QED
    BY <1>4, <2>1, <2>2
<1>7. TreeOver(K, r)
  BY <1>3, <1>4, <1>6 DEF TreeOver, IsTree, Path
<1>8. IsPrefix(at, at)
  BY PrefixReflexive
<1>9. IsObjectAt(r, at)
  <2>1. at \in DOMAIN r
    BY <1>2, <1>3, <1>4, <1>8
  <2>2. r[at].kind = "object"
    BY <1>0, <1>1, <1>4, <2>1 DEF IsLeafAt
  <2>. QED
    BY <2>1, <2>2 DEF IsObjectAt
<1>10. IsObjectAt(t, <<>>) => IsObjectAt(r, <<>>)
  BY <1>0, <1>3, <1>4, <1>5 DEF IsObjectAt
<1>11. \A path \in DOMAIN t :
         \/ r[path] = t[path]
         \/ path # at /\ IsPrefix(path, at) /\ r[path] = Object
  BY <1>1
<1>. QED
  BY <1>4, <1>7, <1>9, <1>10, <1>11 DEF W

\* What a deep merge returns.
LEMMA MergeWins ==
  ASSUME NEW t, NEW o, NEW atoms, NEW path \in DOMAIN o
  PROVE  /\ path \in DOMAIN Merge(t, o, atoms)
         /\ Merge(t, o, atoms)[path] = o[path]
BY DEF Merge

LEMMA MergeRest ==
  ASSUME NEW t, NEW o, NEW atoms, NEW path \in DOMAIN Merge(t, o, atoms),
         path \notin DOMAIN o
  PROVE  path \in DOMAIN t /\ Merge(t, o, atoms)[path] = t[path]
BY DEF Merge

\* A deep merge of two trees is a tree.
LEMMA MergeIsTree ==
  ASSUME NEW K, NEW t, NEW o, NEW atoms, TreeOver(K, t), TreeOver(K, o)
  PROVE  TreeOver(K, Merge(t, o, atoms))
<1>. DEFINE r == Merge(t, o, atoms)
            replaced == {path \in DOMAIN t \cap DOMAIN o :
                           \/ path \in atoms
                           \/ IsLeafAt(t, path)
                           \/ IsLeafAt(o, path)}
            kept == {path \in DOMAIN t : \A p \in replaced : ~IsPrefix(p, path)}
<1>1. r = [path \in kept \cup DOMAIN o |->
             IF path \in DOMAIN o THEN o[path] ELSE t[path]]
  BY DEF Merge
<1>2. \A p \in replaced : p \in DOMAIN t
  OBVIOUS
<1>3. \A p \in DOMAIN t : p \in DOMAIN o /\ o[p].kind # "object" => p \in replaced
  BY DEF IsLeafAt
<1>. HIDE DEF r, replaced
<1>4. /\ <<>> \in DOMAIN t /\ DOMAIN t \subseteq Seq(K)
      /\ \A path \in DOMAIN t \ {<<>>} :
           ParentOf(path) \in DOMAIN t /\ t[ParentOf(path)].kind = "object"
  BY DEF TreeOver, IsTree, Path
<1>5. /\ <<>> \in DOMAIN o /\ DOMAIN o \subseteq Seq(K)
      /\ \A path \in DOMAIN o \ {<<>>} :
           ParentOf(path) \in DOMAIN o /\ o[ParentOf(path)].kind = "object"
  BY DEF TreeOver, IsTree, Path
<1>6. DOMAIN r = kept \cup DOMAIN o
  BY <1>1
<1>7. ASSUME NEW path \in DOMAIN r \ {<<>>}
      PROVE  ParentOf(path) \in DOMAIN r /\ r[ParentOf(path)].kind = "object"
  <2>. DEFINE q == ParentOf(path)
  <2>1. CASE path \in DOMAIN o
    BY <1>1, <1>5, <1>6, <2>1
  <2>2. CASE path \notin DOMAIN o
    <3>1. path \in kept /\ path \in DOMAIN t /\ path \in Seq(K)
      BY <1>4, <1>6, <2>2
    <3>2. q \in Seq(K) /\ IsPrefix(q, path)
      BY <3>1, ParentSplits
    <3>3. q \in DOMAIN t /\ t[q].kind = "object"
      BY <1>4, <3>1
    <3>. HIDE DEF q
    <3>4. \A p \in replaced : ~IsPrefix(p, q)
      BY <1>2, <1>4, <3>1, <3>2, PrefixTransitive
    <3>5. q \in kept
      BY <3>3, <3>4
    <3>6. q \notin replaced
      BY <3>2, <3>4, PrefixReflexive
    <3>7. r[q].kind = "object"
      BY <1>1, <1>3, <1>6, <3>3, <3>5, <3>6
    <3>. QED
      BY <1>6, <3>5, <3>7 DEF q
  <2>. QED
    BY <2>1, <2>2
<1>8. DOMAIN r \subseteq Seq(K) /\ <<>> \in DOMAIN r
  BY <1>4, <1>5, <1>6
<1>9. TreeOver(K, r)
  BY <1>7, <1>8 DEF TreeOver, IsTree, Path
<1>. QED
  BY <1>9 DEF r
\* A deep merge only drops what is at or below a node that it replaces by one
\* that is no object on one side.
LEMMA MergeKeeps ==
  ASSUME NEW K, NEW t, NEW o, NEW atoms, TreeOver(K, t), TreeOver(K, o),
         NEW path \in DOMAIN t, path \notin DOMAIN o,
         path \notin DOMAIN Merge(t, o, atoms)
  PROVE  \E p \in DOMAIN o :
           /\ IsPrefix(p, path)
           /\ IsLeafAt(o, p) \/ (p \in atoms /\ p \in DOMAIN t)
<1>. DEFINE replaced == {p \in DOMAIN t \cap DOMAIN o :
                           \/ p \in atoms
                           \/ IsLeafAt(t, p)
                           \/ IsLeafAt(o, p)}
<1>1. PICK p \in replaced : IsPrefix(p, path)
  BY DEF Merge
<1>2. p \in Seq(K) /\ p # path
  BY DEF TreeOver, Path
<1>3. ~IsLeafAt(t, p)
  BY <1>1, <1>2, TreeAncestors DEF IsLeafAt
<1>. QED
  BY <1>1, <1>3

\* Map::insert of one value at a key of an object.
LEMMA ExtendMapIsTree ==
  ASSUME NEW K, NEW t, TreeOver(K, t), NEW at \in Seq(K), IsObjectAt(t, at),
         NEW children, DOMAIN children \subseteq K,
         \A key \in DOMAIN children : TreeOver(K, children[key])
  PROVE  LET r == ExtendMap(t, at, children)
         IN  /\ TreeOver(K, r)
             /\ \A path \in DOMAIN t :
                  (\A key \in DOMAIN children : ~IsPrefix(Append(at, key), path))
                    => path \in DOMAIN r /\ r[path] = t[path]
             /\ \A key \in DOMAIN children : \A p \in DOMAIN children[key] :
                  LET path == Join(Append(at, key), p)
                  IN  path \in DOMAIN r /\ r[path] = children[key][p]
             /\ \A path \in DOMAIN r :
                  \/ path \in DOMAIN t /\ r[path] = t[path]
                  \/ \E key \in DOMAIN children : \E p \in DOMAIN children[key] :
                       path = Join(Append(at, key), p)
<1>. DEFINE r == ExtendMap(t, at, children)
            replaced == {path \in Below(t, at) \ {at} :
                           path[Len(at) + 1] \in DOMAIN children}
            new == UNION {{Join(Append(at, key), p) : p \in DOMAIN children[key]} :
                            key \in DOMAIN children}
<1>1. r = [path \in (DOMAIN t \ replaced) \cup new |->
             LET key == path[Len(at) + 1]
             IN  IF path \in new
                 THEN children[key][Relative(Append(at, key), path)]
                 ELSE t[path]]
  BY DEF ExtendMap
<1>2. /\ <<>> \in DOMAIN t /\ DOMAIN t \subseteq Seq(K)
      /\ \A path \in DOMAIN t \ {<<>>} :
           ParentOf(path) \in DOMAIN t /\ t[ParentOf(path)].kind = "object"
  BY DEF TreeOver, IsTree, Path
<1>3. \A key \in DOMAIN children :
        /\ key \in K
        /\ <<>> \in DOMAIN children[key] /\ DOMAIN children[key] \subseteq Seq(K)
        /\ \A path \in DOMAIN children[key] \ {<<>>} :
             /\ ParentOf(path) \in DOMAIN children[key]
             /\ children[key][ParentOf(path)].kind = "object"
  BY DEF TreeOver, IsTree, Path
<1>4. \A path \in DOMAIN t : path \in replaced <=>
        \E key \in DOMAIN children : IsPrefix(Append(at, key), path)
  <2>1. ASSUME NEW path \in DOMAIN t
        PROVE  path \in replaced <=> IsPrefix(at, path) /\ path # at
                                       /\ path[Len(at) + 1] \in DOMAIN children
    BY DEF Below
  <2>2. ASSUME NEW path \in DOMAIN t, NEW key \in DOMAIN children
        PROVE  IsPrefix(Append(at, key), path) <=>
                 IsPrefix(at, path) /\ path # at /\ path[Len(at) + 1] = key
    BY <1>2, <1>3, AppendIsPrefix
  <2>. HIDE DEF replaced
  <2>. QED
    BY <2>1, <2>2
<1>5. \A path \in new : \E key \in DOMAIN children : \E p \in DOMAIN children[key] :
        path = Join(Append(at, key), p)
  OBVIOUS
<1>6. \A key \in DOMAIN children : \A p \in DOMAIN children[key] :
        Join(Append(at, key), p) \in new
  OBVIOUS
<1>7. ASSUME NEW key \in DOMAIN children, NEW p \in DOMAIN children[key]
      PROVE  LET path == Join(Append(at, key), p)
             IN  /\ path \in Seq(K) /\ path # <<>> /\ path # at
                 /\ IsPrefix(Append(at, key), path)
                 /\ path[Len(at) + 1] = key
                 /\ path \in DOMAIN r /\ r[path] = children[key][p]
  <2>. DEFINE a == Append(at, key)
              path == Join(a, p)
  <2>1. key \in K /\ p \in Seq(K)
    BY <1>3
  <2>2. a \in Seq(K)
    BY <2>1, AppendIsPrefix
  <2>. HIDE DEF a
  <2>3. path \in Seq(K) /\ IsPrefix(a, path) /\ Relative(a, path) = p
    BY <2>1, <2>2, JoinType
  <2>. HIDE DEF path
  <2>4. IsPrefix(at, path) /\ at # path /\ path[Len(at) + 1] = key
    BY <2>1, <2>3, AppendIsPrefix DEF a
  <2>5. path # <<>>
    BY <2>3, <2>4, StrictPrefixOfParent
  <2>6. path \in new
    BY <1>6 DEF path, a
  <2>. HIDE DEF new, r, replaced
  <2>7. path \in DOMAIN r
    BY <1>1, <2>6
  <2>8. r[path] = children[key][Relative(Append(at, key), path)]
    BY <1>1, <2>4, <2>6
  <2>. QED
    BY <2>3, <2>4, <2>5, <2>7, <2>8 DEF path, a
<1>. HIDE DEF new, r, replaced
<1>8. DOMAIN r = (DOMAIN t \ replaced) \cup new /\ DOMAIN r \subseteq Seq(K)
  <2>1. DOMAIN r = (DOMAIN t \ replaced) \cup new
    BY <1>1
  <2>2. \A path \in new : path \in Seq(K)
    BY <1>5, <1>7
  <2>. QED
    BY <1>2, <2>1, <2>2
<1>9. \A path \in DOMAIN t : path \notin new /\ path \notin replaced =>
        path \in DOMAIN r /\ r[path] = t[path]
  BY <1>1
<1>10. \A path \in DOMAIN t : path \in new => path \in replaced
  BY <1>4, <1>5, <1>7
<1>11. ASSUME NEW path \in DOMAIN r \ {<<>>}
       PROVE  ParentOf(path) \in DOMAIN r /\ r[ParentOf(path)].kind = "object"
  <2>1. CASE path \in new
    <3>1. PICK key \in DOMAIN children :
            \E p \in DOMAIN children[key] : path = Join(Append(at, key), p)
      BY <1>5, <2>1
    <3>5. PICK p \in DOMAIN children[key] : path = Join(Append(at, key), p)
      BY <3>1
    <3>. DEFINE a == Append(at, key)
    <3>2. key \in K /\ p \in Seq(K) /\ a \in Seq(K) /\ a # <<>> /\ ParentOf(a) = at
      BY <1>3, AppendIsPrefix
    <3>3. CASE p = <<>>
      <4>1. path = a
        BY <3>2, <3>3, <3>5, JoinType
      <4>2. ParentOf(path) = at
        BY <3>2, <4>1
      <4>3. at \notin replaced
        <5>1. ~ \E k \in DOMAIN children : IsPrefix(Append(at, k), at)
          BY <1>3, AppendIsPrefix
        <5>. QED
          BY <1>4, <5>1 DEF IsObjectAt
      <4>4. at \notin new
        BY <1>5, <1>7
      <4>. QED
        BY <1>9, <4>2, <4>3, <4>4 DEF IsObjectAt
    <3>4. CASE p # <<>>
      <4>1. ParentOf(path) = Join(a, ParentOf(p))
        BY <3>2, <3>4, <3>5, ParentOfJoin
      <4>2. ParentOf(p) \in DOMAIN children[key]
              /\ children[key][ParentOf(p)].kind = "object"
        BY <1>3, <3>4
      <4>. QED
        BY <1>7, <4>1, <4>2
    <3>. QED
      BY <3>3, <3>4
  <2>2. CASE path \notin new
    <3>. DEFINE q == ParentOf(path)
    <3>1. path \in DOMAIN t /\ path \notin replaced /\ path \in Seq(K)
      BY <1>2, <1>8, <2>2
    <3>2. q \in DOMAIN t /\ t[q].kind = "object" /\ q \in Seq(K) /\ IsPrefix(q, path)
      BY <1>2, <3>1, ParentSplits
    <3>. HIDE DEF q
    <3>3. \A key \in DOMAIN children : Append(at, key) \in Seq(K)
      BY <1>3, AppendIsPrefix
    <3>4. q \notin replaced
      BY <1>4, <3>1, <3>2, <3>3, PrefixTransitive
    <3>5. q \notin new
      BY <1>10, <3>2, <3>4
    <3>. QED
      BY <1>9, <3>2, <3>4, <3>5 DEF q
  <2>. QED
    BY <2>1, <2>2
<1>12. <<>> \in DOMAIN r
  <2>1. ~ \E k \in DOMAIN children : IsPrefix(Append(at, k), <<>>)
    <3>1. ASSUME NEW k \in DOMAIN children, IsPrefix(Append(at, k), <<>>)
          PROVE  FALSE
      <4>1. k \in K /\ <<>> \in Seq(K)
        BY <1>3
      <4>2. IsPrefix(at, <<>>) /\ at # <<>>
        BY <3>1, <4>1, AppendIsPrefix
      <4>. QED
        BY <4>1, <4>2, StrictPrefixOfParent
    <3>. QED
      BY <3>1
  <2>. QED
    BY <1>2, <1>4, <1>9, <1>10, <2>1
<1>13. TreeOver(K, r)
  BY <1>8, <1>11, <1>12 DEF TreeOver, IsTree, Path
<1>14. \A path \in DOMAIN t :
         (\A key \in DOMAIN children : ~IsPrefix(Append(at, key), path))
           => path \in DOMAIN r /\ r[path] = t[path]
  BY <1>4, <1>9, <1>10
<1>15. \A path \in DOMAIN r :
         \/ path \in DOMAIN t /\ r[path] = t[path]
         \/ \E key \in DOMAIN children : \E p \in DOMAIN children[key] :
              path = Join(Append(at, key), p)
  BY <1>5, <1>8, <1>9
<1>. QED
  BY <1>7, <1>13, <1>14, <1>15 DEF r

\* WithOrigin::get clones a tree.
LEMMA SubIsTree ==
  ASSUME NEW K, NEW t, TreeOver(K, t), NEW at \in DOMAIN t
  PROVE  /\ TreeOver(K, Sub(t, at))
         /\ \A p \in DOMAIN Sub(t, at) :
              /\ Join(at, p) \in DOMAIN t
              /\ Sub(t, at)[p] = t[Join(at, p)]
         /\ \A p \in Seq(K) : Join(at, p) \in DOMAIN t => p \in DOMAIN Sub(t, at)
<1>. DEFINE r == Sub(t, at)
<1>1. at \in Seq(K) /\ DOMAIN t \subseteq Seq(K)
  BY DEF TreeOver, Path
<1>2. DOMAIN r = {Relative(at, p) : p \in Below(t, at)}
  BY DEF Sub
<1>3. ASSUME NEW p \in Seq(K), Join(at, p) \in DOMAIN t  PROVE p \in DOMAIN r
  <2>1. IsPrefix(at, Join(at, p)) /\ Relative(at, Join(at, p)) = p
    BY <1>1, JoinType
  <2>. QED
    BY <1>2, <1>3, <2>1 DEF Below
<1>4. ASSUME NEW p \in DOMAIN r
      PROVE  p \in Seq(K) /\ Join(at, p) \in DOMAIN t /\ r[p] = t[Join(at, p)]
  <2>1. PICK q \in Below(t, at) : p = Relative(at, q)
    BY <1>2
  <2>2. q \in DOMAIN t /\ IsPrefix(at, q)
    BY DEF Below
  <2>3. p \in Seq(K) /\ Join(at, p) = q
    BY <1>1, <2>1, <2>2, PrefixSplits
  <2>. QED
    BY <2>2, <2>3 DEF Sub
<1>5. <<>> \in DOMAIN r
  <2>1. Join(at, <<>>) = at /\ <<>> \in Seq(K)
    BY <1>1, JoinType
  <2>. QED
    BY <1>3, <2>1
<1>6. ASSUME NEW p \in DOMAIN r, p # <<>>
      PROVE  ParentOf(p) \in DOMAIN r /\ r[ParentOf(p)].kind = "object"
  <2>1. p \in Seq(K) /\ Join(at, p) \in DOMAIN t
    BY <1>4
  <2>2. ParentOf(p) \in Seq(K) /\ ParentOf(Join(at, p)) = Join(at, ParentOf(p))
          /\ Join(at, p) # <<>>
    <3>1. ParentOf(p) \in Seq(K)
      BY <1>6, <2>1, ParentSplits
    <3>. QED
      BY <1>1, <1>6, <2>1, <3>1, ParentOfJoin
  <2>3. Join(at, ParentOf(p)) \in DOMAIN t /\ t[Join(at, ParentOf(p))].kind = "object"
    BY <2>1, <2>2 DEF TreeOver, IsTree, Path
  <2>4. ParentOf(p) \in DOMAIN r
    BY <1>3, <2>2, <2>3
  <2>. QED
    BY <1>4, <2>3, <2>4
<1>. HIDE DEF r
<1>7. TreeOver(K, r)
  BY <1>4, <1>5, <1>6 DEF TreeOver, IsTree, Path
<1>. QED
  BY <1>3, <1>4, <1>7 DEF r
=============================================================================
