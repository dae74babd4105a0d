--------------------------- MODULE Sources_proofs ---------------------------
(***************************************************************************)
(* Proofs about the sources that a program prepares: every hierarchical    *)
(* source is a tree with an object at its root, and what Json::merge and   *)
(* Environment::coerce_json promise.                                       *)
(***************************************************************************)
EXTENDS Sources, ValueTree_proofs

LOCAL INSTANCE SequencesExt

\* The keys of paths.
Key == STRING

\* An object with these keys.
ObjectTree(t) == TreeOver(Key, t) /\ IsObjectAt(t, <<>>)
\* Above the location of the merged value are objects.
LEMMA PlacedAbove ==
  ASSUME NEW K, NEW at \in Seq(K), NEW value, NEW path \in Seq(K),
         IsPrefix(path, at), path # at
  PROVE  path \in DOMAIN Placed(at, value) /\ Placed(at, value)[path] = Object
<1>. DEFINE W == {<<>>} \cup WithAncestors(at)
<1>1. path \in W
  BY AncestorsArePrefixes
<1>2. ~IsPrefix(at, path)
  BY PrefixAntisymmetric
<1>. HIDE DEF W
<1>3. Placed(at, value) =
        [q \in W \cup {Join(at, p) : p \in DOMAIN value} |->
           IF IsPrefix(at, q) THEN value[Relative(at, q)] ELSE Object]
  BY DEF Placed, W
<1>. QED
  BY <1>1, <1>2, <1>3

\* The merged value with the objects around it is a tree, with this value at
\* its location.
LEMMA PlacedIsTree ==
  ASSUME NEW K, NEW at \in Seq(K), NEW value, TreeOver(K, value)
  PROVE  /\ TreeOver(K, Placed(at, value))
         /\ \A p \in DOMAIN value :
              /\ Join(at, p) \in DOMAIN Placed(at, value)
              /\ Placed(at, value)[Join(at, p)] = value[p]
         /\ at = <<>> => Placed(at, value)[<<>>] = value[<<>>]
<1>. DEFINE r == Placed(at, value)
            W == {<<>>} \cup WithAncestors(at)
            B == {Join(at, p) : p \in DOMAIN value}
<1>0. Object.kind = "object" /\ <<>> \in Seq(K)
  BY DEF Object
<1>1. r = [path \in W \cup B |->
             IF IsPrefix(at, path) THEN value[Relative(at, path)] ELSE Object]
  BY DEF Placed
<1>2. \A path \in Seq(K) : path \in W <=> IsPrefix(path, at)
  BY <1>0, AncestorsArePrefixes, PrefixReflexive
<1>3. W \subseteq Seq(K)
  BY <1>0, AncestorsArePrefixes
<1>4. /\ <<>> \in DOMAIN value /\ DOMAIN value \subseteq Seq(K)
      /\ \A path \in DOMAIN value \ {<<>>} :
           ParentOf(path) \in DOMAIN value /\ value[ParentOf(path)].kind = "object"
  BY DEF TreeOver, IsTree, Path
<1>5. \A p \in DOMAIN value : Join(at, p) \in B
  OBVIOUS
<1>6. \A path \in B : \E p \in DOMAIN value : path = Join(at, p)
  OBVIOUS
<1>. HIDE DEF r, W, B
<1>7. DOMAIN r = W \cup B
  BY <1>1
<1>8. ASSUME NEW p \in DOMAIN value
      PROVE  /\ Join(at, p) \in Seq(K)
             /\ Join(at, p) \in DOMAIN r /\ r[Join(at, p)] = value[p]
  <2>. DEFINE q == Join(at, p)
  <2>1. p \in Seq(K)
    BY <1>4
  <2>2. q \in Seq(K) /\ IsPrefix(at, q) /\ Relative(at, q) = p
    BY <2>1, JoinType
  <2>3. q \in B
    BY <1>5
  <2>. HIDE DEF q
  <2>4. q \in DOMAIN r /\ r[q] = value[p]
    BY <1>1, <1>7, <2>2, <2>3
  <2>. QED
    BY <2>2, <2>4 DEF q
<1>9. ASSUME NEW path \in Seq(K), IsPrefix(path, at), path # at
      PROVE  path \in DOMAIN r /\ r[path] = Object
  BY <1>9, PlacedAbove DEF r
<1>10. at = Join(at, <<>>)
  BY <1>0, JoinType
<1>11. ASSUME NEW path \in DOMAIN r \ {<<>>}
       PROVE  ParentOf(path) \in DOMAIN r /\ r[ParentOf(path)].kind = "object"
  <2>. DEFINE q == ParentOf(path)
  <2>1. CASE path \in W
    <3>1. path \in Seq(K) /\ path # <<>> /\ IsPrefix(path, at)
      BY <1>2, <1>3, <2>1
    <3>2. q \in Seq(K) /\ IsPrefix(q, path) /\ q # path
      BY <3>1, ParentSplits
    <3>. HIDE DEF q
    <3>3. IsPrefix(q, at) /\ q # at
      BY <3>1, <3>2, PrefixTransitive, PrefixAntisymmetric
    <3>. QED
      BY <1>0, <1>9, <3>2, <3>3 DEF q
  <2>2. CASE path \in B
    <3>1. PICK p \in DOMAIN value : path = Join(at, p)
      BY <1>6, <2>2
    <3>2. CASE p = <<>>
      <4>1. path = at
        BY <1>10, <3>1, <3>2
      <4>2. path \in W
        BY <1>2, <4>1, PrefixReflexive
      <4>. QED
        BY <2>1, <4>2
    <3>3. CASE p # <<>>
      <4>1. p \in Seq(K) /\ q = Join(at, ParentOf(p))
        BY <1>4, <3>1, <3>3, ParentOfJoin
      <4>2. ParentOf(p) \in DOMAIN value /\ value[ParentOf(p)].kind = "object"
        BY <1>4, <3>3
      <4>. QED
        BY <1>8, <4>1, <4>2
    <3>. QED
      BY <3>2, <3>3
  <2>. QED
    BY <1>7, <2>1, <2>2
<1>12. DOMAIN r \subseteq Seq(K) /\ <<>> \in DOMAIN r
  <2>1. <<>> \in W
    BY DEF W
  <2>. QED
    BY <1>3, <1>6, <1>7, <1>8, <2>1
<1>13. TreeOver(K, r)
  BY <1>11, <1>12 DEF TreeOver, IsTree, Path
<1>14. at = <<>> => r[<<>>] = value[<<>>]
  BY <1>4, <1>8, <1>10
<1>. QED
  BY <1>8, <1>9, <1>13, <1>14 DEF r

\* The document that merge() goes into.
Ensured(t, at) == IF at = <<>> THEN t ELSE EnsureObject(t, ParentOf(at))

\* ensure_object() only replaces nodes above the location of the merged value,
\* where it also has objects.
LEMMA EnsuredIsTree ==
  ASSUME NEW t, ObjectTree(t), NEW at \in Seq(Key), NEW value,
         TreeOver(Key, value), Ensured(t, at) # Panicked
  PROVE  /\ ObjectTree(Ensured(t, at))
         /\ \A path \in DOMAIN t :
              /\ path \in DOMAIN Ensured(t, at)
              /\ path \in DOMAIN Placed(at, value) \/ Ensured(t, at)[path] = t[path]
<1>. DEFINE up == ParentOf(at)
<1>1. CASE at = <<>>
  BY <1>1 DEF Ensured
<1>2. CASE at # <<>>
  <2>1. up \in Seq(Key) /\ IsPrefix(up, at) /\ up # at
    BY <1>2, ParentSplits
  <2>. HIDE DEF up
  <2>2. Ensured(t, at) = EnsureObject(t, up) /\ ~IsLeafAt(t, up)
    BY <1>2 DEF Ensured, EnsureObject, up
  <2>. DEFINE e == EnsureObject(t, up)
  <2>3. /\ TreeOver(Key, e)
        /\ IsObjectAt(t, <<>>) => IsObjectAt(e, <<>>)
        /\ DOMAIN e = DOMAIN t \cup WithAncestors(up)
        /\ \A path \in DOMAIN t :
             \/ e[path] = t[path]
             \/ path # up /\ IsPrefix(path, up) /\ e[path] = Object
    <3>1. TreeOver(Key, t)
      BY DEF ObjectTree
    <3>. HIDE DEF e
    <3>0. e = EnsureObject(t, up)
      BY DEF e
    <3>2. TreeOver(Key, e)
      BY <2>1, <2>2, <3>0, <3>1, EnsureObjectIsTree
    <3>3. IsObjectAt(t, <<>>) => IsObjectAt(e, <<>>)
      BY <2>1, <2>2, <3>0, <3>1, EnsureObjectIsTree
    <3>4. DOMAIN e = DOMAIN t \cup WithAncestors(up)
      BY <2>2, <3>0 DEF EnsureObject
    <3>5. \A path \in DOMAIN t :
            \/ e[path] = t[path]
            \/ path # up /\ IsPrefix(path, up) /\ e[path] = Object
      BY <2>2, <3>0 DEF EnsureObject, IsStrictPrefix
    <3>. QED
      BY <3>2, <3>3, <3>4, <3>5
  <2>. HIDE DEF e
  <2>4. ASSUME NEW path \in DOMAIN t, e[path] # t[path]
        PROVE  path \in DOMAIN Placed(at, value)
    <3>1. path \in Seq(Key) /\ IsPrefix(path, up) /\ path # up
      BY <2>3, <2>4 DEF ObjectTree, TreeOver, Path
    <3>2. IsPrefix(path, at) /\ path # at
      BY <2>1, <3>1, PrefixTransitive, PrefixAntisymmetric
    <3>. QED
      BY <3>1, <3>2, PlacedAbove
  <2>. QED
    BY <2>2, <2>3, <2>4 DEF ObjectTree, e
<1>. QED
  BY <1>1, <1>2

\* Json::merge
LEMMA MergedIsTree ==
  ASSUME NEW t, ObjectTree(t), NEW at \in Seq(Key), NEW value,
         TreeOver(Key, value), at = <<>> => IsObjectAt(value, <<>>),
         Ensured(t, at) # Panicked
  PROVE  LET r == DeepMerge(Ensured(t, at), Placed(at, value))
         IN  /\ ObjectTree(r)
             /\ \A path \in DOMAIN value :
                  Join(at, path) \in DOMAIN r /\ r[Join(at, path)] = value[path]
             /\ \A path \in DOMAIN t :
                  \/ path \in DOMAIN Placed(at, value)
                  \/ \E p \in DOMAIN Placed(at, value) :
                       IsLeafAt(Placed(at, value), p) /\ IsPrefix(p, path)
                  \/ path \in DOMAIN r /\ r[path] = t[path]
<1>. DEFINE e == Ensured(t, at)
            o == Placed(at, value)
            r == Merge(e, o, {})
<1>1. TreeOver(Key, e) /\ \A path \in DOMAIN t :
        path \in DOMAIN e /\ (path \in DOMAIN o \/ e[path] = t[path])
  BY EnsuredIsTree DEF ObjectTree
<1>2. /\ TreeOver(Key, o)
      /\ \A p \in DOMAIN value :
           Join(at, p) \in DOMAIN o /\ o[Join(at, p)] = value[p]
      /\ at = <<>> => o[<<>>] = value[<<>>]
      /\ at # <<>> => o[<<>>] = Object
  <2>1. <<>> \in Seq(Key) /\ IsPrefix(<<>>, at)
    BY PrefixReflexive
  <2>2. TreeOver(Key, o) /\ (at = <<>> => o[<<>>] = value[<<>>])
    BY PlacedIsTree
  <2>3. \A p \in DOMAIN value :
          Join(at, p) \in DOMAIN o /\ o[Join(at, p)] = value[p]
    BY PlacedIsTree
  <2>4. at # <<>> => o[<<>>] = Object
    BY <2>1, PlacedAbove
  <2>. QED
    BY <2>2, <2>3, <2>4
<1>. HIDE DEF e, o
<1>3. /\ TreeOver(Key, r)
      /\ \A path \in DOMAIN o : path \in DOMAIN r /\ r[path] = o[path]
      /\ \A path \in DOMAIN r \ DOMAIN o : path \in DOMAIN e /\ r[path] = e[path]
  <2>1. TreeOver(Key, r)
    BY <1>1, <1>2, MergeIsTree
  <2>. QED
    BY <2>1, MergeWins, MergeRest
<1>4. \A path \in DOMAIN e : path \notin DOMAIN o /\ path \notin DOMAIN r =>
        \E p \in DOMAIN o : IsPrefix(p, path) /\ IsLeafAt(o, p)
  BY <1>1, <1>2, MergeKeeps
<1>. HIDE DEF r
<1>5. ObjectTree(r)
  <2>1. <<>> \in DOMAIN o
    BY <1>2, RootIsThere
  <2>2. o[<<>>].kind = "object"
    BY <1>2 DEF IsObjectAt, Object
  <2>. QED
    BY <1>3, <2>1, <2>2 DEF ObjectTree, IsObjectAt
<1>6. \A path \in DOMAIN t :
        \/ path \in DOMAIN o
        \/ \E p \in DOMAIN o : IsLeafAt(o, p) /\ IsPrefix(p, path)
        \/ path \in DOMAIN r /\ r[path] = t[path]
  BY <1>1, <1>3, <1>4
<1>. QED
  BY <1>2, <1>3, <1>5, <1>6 DEF DeepMerge, r, e, o

\* Prefixed::into_contents
LEMMA PrefixedIsTree ==
  ASSUME NEW t, ObjectTree(t), NEW prefix \in Seq(Key)
  PROVE  ObjectTree(WithPrefix(prefix, t))
<1>1. CASE prefix = <<>>
  BY <1>1 DEF WithPrefix
<1>2. CASE prefix # <<>>
  <2>. DEFINE up == ParentOf(prefix)
              key == LastKey(prefix)
              e == EnsureObject(Single(Object), up)
              r == ExtendMap(e, up, Entry(key, t))
  <2>1. up \in Seq(Key) /\ key \in Key
    BY <1>2, ParentSplits
  <2>2. TreeOver(Key, Single(Object)) /\ IsObjectAt(Single(Object), <<>>)
    BY SingleIsTree DEF IsObjectAt, Object, Single
  <2>3. ~IsLeafAt(Single(Object), up)
    BY DEF IsLeafAt, Single, Object
  <2>. HIDE DEF up, key
  <2>4. TreeOver(Key, e) /\ IsObjectAt(e, up) /\ IsObjectAt(e, <<>>)
    BY <2>1, <2>2, <2>3, EnsureObjectIsTree
  <2>. HIDE DEF e
  <2>5. /\ DOMAIN Entry(key, t) \subseteq Key
        /\ \A k \in DOMAIN Entry(key, t) : TreeOver(Key, Entry(key, t)[k])
    BY <2>1 DEF Entry, ObjectTree
  <2>6. /\ TreeOver(Key, r)
        /\ \A path \in DOMAIN e :
             (\A k \in DOMAIN Entry(key, t) : ~IsPrefix(Append(up, k), path))
               => path \in DOMAIN r /\ r[path] = e[path]
    BY <2>1, <2>4, <2>5, ExtendMapIsTree
  <2>. HIDE DEF r
  <2>7. \A k \in DOMAIN Entry(key, t) : ~IsPrefix(Append(up, k), <<>>)
    <3>1. ASSUME NEW k \in Key  PROVE ~IsPrefix(Append(up, k), <<>>)
      <4>1. <<>> \in Seq(Key) /\ Append(up, k) \in Seq(Key) /\ Append(up, k) # <<>>
        BY <2>1, AppendIsPrefix
      <4>. QED
        BY <4>1, StrictPrefixOfParent
    <3>. QED
      BY <2>5, <3>1
  <2>8. IsObjectAt(r, <<>>)
    BY <2>4, <2>6, <2>7 DEF IsObjectAt
  <2>9. WithPrefix(prefix, t) = r
    BY <1>2 DEF WithPrefix, r, e, up, key
  <2>. QED
    BY <2>6, <2>8, <2>9 DEF ObjectTree
<1>. QED
  BY <1>1, <1>2
-----------------------------------------------------------------------------
(* The hierarchical sources *)

\* The sources that were pushed, in their order.
PushedTrees ==
  /\ \E S : pushed \in Seq(S)
  /\ \A i \in DOMAIN pushed : ~pushed[i][2] => ObjectTree(pushed[i][1])

JsonInv == ObjectTree(inner) /\ LastMergeWins

LEMMA KeysOfAssumptions ==
  /\ \A t \in Initial : ObjectTree(t)
  /\ \A t \in Inserted : TreeOver(Key, t)
  /\ Locations \subseteq Seq(Key)
  /\ PrefixesOfSources \subseteq Seq(Key)
BY JsonAssumption, SourcesAssumption DEF ObjectTree, Key, Path

\* One call of Json::merge that returns.
LEMMA MergeStep ==
  ASSUME JsonInv, NEW at \in Locations, NEW value \in Inserted, MergeAt(at, value)
  PROVE  JsonInv' /\ \A path \in DOMAIN inner :
           \/ path \in DOMAIN Placed(at, value)
           \/ \E p \in DOMAIN Placed(at, value) :
                IsLeafAt(Placed(at, value), p) /\ IsPrefix(p, path)
           \/ path \in DOMAIN inner' /\ inner'[path] = inner[path]
<1>1. /\ at \in Seq(Key) /\ TreeOver(Key, value) /\ ObjectTree(inner)
      /\ at = <<>> => IsObjectAt(value, <<>>)
  BY KeysOfAssumptions DEF JsonInv, MergeAt
<1>2. /\ Ensured(inner, at) # Panicked
      /\ inner' = DeepMerge(Ensured(inner, at), Placed(at, value))
      /\ last' = [at |-> at, value |-> value]
  BY DEF MergeAt, Ensured
<1>3. /\ ObjectTree(inner')
      /\ \A path \in DOMAIN value :
           Join(at, path) \in DOMAIN inner' /\ inner'[Join(at, path)] = value[path]
      /\ \A path \in DOMAIN inner :
           \/ path \in DOMAIN Placed(at, value)
           \/ \E p \in DOMAIN Placed(at, value) :
                IsLeafAt(Placed(at, value), p) /\ IsPrefix(p, path)
           \/ path \in DOMAIN inner' /\ inner'[path] = inner[path]
  BY <1>1, <1>2, MergedIsTree
<1>4. last'.at = at /\ last'.value = value
  BY <1>2
<1>. QED
  BY <1>3, <1>4 DEF JsonInv, LastMergeWins

LEMMA SourcesInit == Init => JsonInv /\ PushedTrees
<1>. SUFFICES ASSUME Init  PROVE JsonInv /\ PushedTrees
  OBVIOUS
<1>1. ObjectTree(inner) /\ last = NoMerge /\ pushed = <<>>
  BY KeysOfAssumptions DEF Init, JsonInit
<1>2. pushed \in Seq({}) /\ DOMAIN pushed = {}
  BY <1>1
<1>. QED
  BY <1>1, <1>2 DEF JsonInv, LastMergeWins, PushedTrees

LEMMA JsonInvUnchanged ==
  ASSUME JsonInv, UNCHANGED <<inner, last>>  PROVE JsonInv'
BY DEF JsonInv, LastMergeWins

LEMMA PushStep ==
  ASSUME PushedTrees, NEW contents, NEW flat, ~flat => ObjectTree(contents),
         pushed' = Append(pushed, <<contents, flat>>)
  PROVE  PushedTrees'
<1>. DEFINE x == <<contents, flat>>
<1>1. PICK S : pushed \in Seq(S)
  BY DEF PushedTrees
<1>. DEFINE T == S \cup {x}
<1>2. pushed \in Seq(T) /\ x \in T
  BY <1>1
<1>3. x[1] = contents /\ x[2] = flat
  OBVIOUS
<1>. HIDE DEF x, T
<1>4. /\ pushed' \in Seq(T) /\ Len(pushed) \in Nat
      /\ DOMAIN pushed = 1..Len(pushed) /\ DOMAIN pushed' = 1..Len(pushed) + 1
      /\ \A i \in 1..Len(pushed) : pushed'[i] = pushed[i]
      /\ pushed'[Len(pushed) + 1] = x
  <2>1. pushed' = Append(pushed, x)
    BY DEF x
  <2>2. /\ pushed' \in Seq(T) /\ Len(pushed') = Len(pushed) + 1
        /\ \A i \in 1..Len(pushed) : pushed'[i] = pushed[i]
        /\ pushed'[Len(pushed) + 1] = x
    BY <1>2, <2>1, AppendProperties
  <2>3. Len(pushed) \in Nat /\ DOMAIN pushed = 1..Len(pushed)
    BY <1>2
  <2>4. DOMAIN pushed' = 1..Len(pushed')
    BY <2>2
  <2>. QED
    BY <2>2, <2>3, <2>4
<1>5. \A i \in DOMAIN pushed : ~pushed[i][2] => ObjectTree(pushed[i][1])
  BY DEF PushedTrees
<1>6. ASSUME NEW i \in DOMAIN pushed', ~pushed'[i][2]
      PROVE  ObjectTree(pushed'[i][1])
  <2>1. CASE i \in 1..Len(pushed)
    BY <1>4, <1>5, <1>6, <2>1
  <2>2. CASE i = Len(pushed) + 1
    BY <1>3, <1>4, <1>6, <2>2
  <2>. QED
    BY <1>4, <2>1, <2>2
<1>. QED
  BY <1>4, <1>6 DEF PushedTrees

LEMMA SourcesStep ==
  ASSUME JsonInv /\ PushedTrees, [Next]_sourcesVars
  PROVE  (JsonInv /\ PushedTrees)'
<1>1. CASE EditJson
  <2>1. PushedTrees'
    BY <1>1 DEF EditJson, PushedTrees
  <2>2. ASSUME NEW at \in Locations, NEW value \in Inserted, RejectRoot(at, value)
        PROVE  JsonInv'
    BY <2>2, JsonInvUnchanged DEF RejectRoot
  <2>3. ASSUME NEW at \in Locations, NEW value \in Inserted, PanicInEnsure(at, value)
        PROVE  JsonInv'
    BY <2>3, JsonInvUnchanged DEF PanicInEnsure
  <2>4. ASSUME NEW at \in Locations, NEW value \in Inserted, MergeAt(at, value)
        PROVE  JsonInv'
    BY <2>4, MergeStep
  <2>. QED
    BY <1>1, <2>1, <2>2, <2>3, <2>4 DEF EditJson, JsonNext
<1>2. CASE EditEnv
  BY <1>2, JsonInvUnchanged DEF EditEnv, jsonVars, PushedTrees
<1>3. ASSUME NEW prefix \in PrefixesOfSources, PushJson(prefix)
      PROVE  (JsonInv /\ PushedTrees)'
  <2>1. ObjectTree(inner') /\ last' = NoMerge
    BY <1>3, KeysOfAssumptions DEF PushJson
  <2>2. JsonInv'
    BY <2>1 DEF JsonInv, LastMergeWins
  <2>3. ObjectTree(WithPrefix(prefix, inner))
    BY KeysOfAssumptions, PrefixedIsTree DEF JsonInv
  <2>4. pushed' = Append(pushed, <<WithPrefix(prefix, inner), FALSE>>)
    BY <1>3 DEF PushJson
  <2>. QED
    BY <2>2, <2>3, <2>4, PushStep
<1>4. CASE PushEnv
  <2>1. pushed' = Append(pushed, <<map, TRUE>>)
    BY <1>4 DEF PushEnv
  <2>. QED
    BY <1>4, <2>1, PushStep, JsonInvUnchanged DEF PushEnv, jsonVars
<1>5. CASE UNCHANGED sourcesVars
  BY <1>5, JsonInvUnchanged DEF sourcesVars, jsonVars, PushedTrees
<1>. QED
  BY <1>1, <1>2, <1>3, <1>4, <1>5 DEF Next

LEMMA SourcesInvariant == Spec => [](JsonInv /\ PushedTrees)
<1>1. Init => JsonInv /\ PushedTrees
  BY SourcesInit
<1>2. (JsonInv /\ PushedTrees) /\ [Next]_sourcesVars => (JsonInv /\ PushedTrees)'
  BY SourcesStep
<1>. QED
  BY <1>1, <1>2, PTL DEF Spec

\* Whatever is merged into a document and however it is prefixed, the source
\* that is pushed is a tree with an object at its root: ensure_object() makes
\* what Prefixed::into_contents relies on.
THEOREM PushedAreObjects == Spec => []PushedObjects
<1>1. PushedTrees => PushedObjects
  BY RootIsThere DEF PushedTrees, PushedObjects, ObjectTree, TreeOver
<1>. QED
  BY <1>1, SourcesInvariant, PTL

\* What Json::merge got last is in the document, over whatever was there.
THEOREM MergedLastIsThere == Spec => []LastMergeWins
<1>1. JsonInv => LastMergeWins
  BY DEF JsonInv
<1>. QED
  BY <1>1, SourcesInvariant, PTL

\* Json::merge keeps all of the document that the new value does not replace.
THEOREM MergeKeepsRest == Spec => RestIsKept
<1>. DEFINE Kept == last' # last /\ last' # NoMerge =>
              LET placed == Placed(last'.at, last'.value)
              IN  \A path \in DOMAIN inner :
                    \/ path \in DOMAIN placed
                    \/ \E p \in DOMAIN placed :
                         IsLeafAt(placed, p) /\ IsPrefix(p, path)
                    \/ path \in DOMAIN inner' /\ inner'[path] = inner[path]
<1>1. JsonInv /\ [Next]_sourcesVars => [Kept]_jsonVars
  <2>. SUFFICES ASSUME JsonInv, [Next]_sourcesVars, last' # last, last' # NoMerge
                PROVE  Kept
    OBVIOUS
  <2>1. CASE EditJson
    <3>1. PICK at \in Locations, value \in Inserted : MergeAt(at, value)
      BY <2>1 DEF EditJson, JsonNext, RejectRoot, PanicInEnsure
    <3>2. last'.at = at /\ last'.value = value
      BY <3>1 DEF MergeAt
    <3>. QED
      BY <3>1, <3>2, MergeStep
  <2>2. CASE ~EditJson
    BY <2>2 DEF Next, EditEnv, PushEnv, PushJson, sourcesVars, jsonVars
  <2>. QED
    BY <2>1, <2>2
<1>2. Spec => [][Kept]_jsonVars
  BY <1>1, SourcesInvariant, PTL DEF Spec
<1>. QED
  BY <1>2 DEF RestIsKept
-----------------------------------------------------------------------------
(* The environment *)

\* The entry that is inserted last among those that are coerced to this name.
LEMMA LastOfTarget ==
  ASSUME NEW names, NEW n, \E name \in names : WithoutSuffix(name) = n
  PROVE  LET target == {name \in names : WithoutSuffix(name) = n}
             marked(x) == CHOOSE name \in target :
                          "__json" \in {y.suffix : y \in target}
                            => name.suffix = "__json"
         IN  /\ marked(n) \in target
             /\ "__json" \in {y.suffix : y \in target} => marked(n).suffix = "__json"
<1>. DEFINE target == {name \in names : WithoutSuffix(name) = n}
<1>1. \E name \in target : "__json" \in {y.suffix : y \in target}
                             => name.suffix = "__json"
  <2>1. CASE "__json" \in {y.suffix : y \in target}
    <3>1. PICK name \in target : "__json" = name.suffix
      BY <2>1
    <3>. QED
      BY <3>1
  <2>2. CASE "__json" \notin {y.suffix : y \in target}
    BY <2>2
  <2>. QED
    BY <2>1, <2>2
<1>. HIDE DEF target
<1>. QED
  BY <1>1 DEF target

\* What coercing these entries returns.
LEMMA CoercedTarget ==
  ASSUME NEW m, NEW names, NEW n \in names
  PROVE  /\ WithoutSuffix(n) \in DOMAIN CoercedEntries(m, names)
         /\ \E name \in names :
              /\ WithoutSuffix(name) = WithoutSuffix(n)
              /\ CoercedEntries(m, names)[WithoutSuffix(n)] = Parsed(m[name].text)
<1>. DEFINE c == CoercedEntries(m, names)
            targets == {WithoutSuffix(name) : name \in names}
            target(x) == {name \in names : WithoutSuffix(name) = x}
            marked(x) == CHOOSE name \in target(x) :
                         "__json" \in {y.suffix : y \in target(x)}
                           => name.suffix = "__json"
            w == WithoutSuffix(n)
<1>1. c = Over([x \in targets |-> Parsed(m[marked(x)].text)], Without(m, names))
  BY DEF CoercedEntries
<1>2. marked(w) \in names /\ WithoutSuffix(marked(w)) = w
  BY LastOfTarget
<1>3. w \in targets
  OBVIOUS
<1>. HIDE DEF c, marked, targets, w
<1>4. w \in DOMAIN c /\ c[w] = Parsed(m[marked(w)].text)
  BY <1>1, <1>3 DEF Over, Without
<1>. QED
  BY <1>2, <1>4 DEF c, w

LEMMA CoercedOther ==
  ASSUME NEW m, NEW names, NEW n \in DOMAIN m, n \notin names,
         \A name \in names : WithoutSuffix(name) # n
  PROVE  n \in DOMAIN CoercedEntries(m, names) /\ CoercedEntries(m, names)[n] = m[n]
BY DEF CoercedEntries, Over, Without

LEMMA CoercedNames ==
  ASSUME NEW m, NEW names, NEW n \in DOMAIN CoercedEntries(m, names)
  PROVE  \/ n \in DOMAIN m \ names
         \/ \E name \in names : n = WithoutSuffix(name)
BY DEF CoercedEntries, Over, Without

\* After a coercion that succeeded.
EnvInv ==
  outcome = "ok" => Marked(map) = {} /\ map = [n \in DOMAIN map |-> map[n]]

LEMMA CoercedOnce ==
  ASSUME CoerceJson  PROVE EnvInv'
<1>. SUFFICES ASSUME outcome' = "ok"
              PROVE  /\ Marked(map') = {}
                     /\ map' = [n \in DOMAIN map' |-> map'[n]]
  BY DEF EnvInv
<1>1. map' = CoercedEntries(map, Marked(map))
  BY DEF CoerceJson, Coerced
<1>2. map' = [n \in DOMAIN map' |-> map'[n]]
  BY <1>1 DEF CoercedEntries, Over
<1>3. ASSUME NEW n \in Marked(map')  PROVE FALSE
  <2>1. /\ n \in DOMAIN map' /\ n.suffix \in JsonSuffixes
        /\ ~n.upper /\ ~map'[n].parsed
    BY DEF Marked
  <2>2. CASE \E name \in Marked(map) : n = WithoutSuffix(name)
    <3>1. \E text : map'[n] = Parsed(text)
      BY <1>1, <2>2, CoercedTarget
    <3>. QED
      BY <2>1, <3>1 DEF Parsed
  <2>3. CASE ~ \E name \in Marked(map) : n = WithoutSuffix(name)
    <3>1. n \in DOMAIN map \ Marked(map)
      BY <1>1, <2>1, <2>3, CoercedNames
    <3>2. map'[n] = map[n]
      BY <1>1, <2>3, <3>1, CoercedOther
    <3>. QED
      BY <2>1, <3>1, <3>2 DEF Marked
  <2>. QED
    BY <2>2, <2>3
<1>. QED
  BY <1>2, <1>3

LEMMA EnvInvUnchanged ==
  ASSUME EnvInv, map' = map, outcome' = outcome  PROVE EnvInv'
<1>1. Marked(map') = Marked(map)
  BY DEF Marked
<1>. QED
  BY <1>1 DEF EnvInv

LEMMA EnvInvariant == Spec => []EnvInv
<1>1. Init => EnvInv
  BY DEF Init, EnvInit, EnvInv
<1>2. ASSUME EnvInv, [Next]_sourcesVars  PROVE EnvInv'
  <2>1. CASE EditJson
    BY <1>2, <2>1, EnvInvUnchanged DEF EditJson, envVars
  <2>2. CASE EditEnv
    <3>1. CASE CoerceJson
      BY <3>1, CoercedOnce
    <3>2. CASE ~CoerceJson
      BY <2>2, <3>2 DEF EditEnv, EnvNext, Prefixed, FromDotenv, WithVars,
                        StripPrefix, EnvInv
    <3>. QED
      BY <3>1, <3>2
  <2>3. CASE \E prefix \in PrefixesOfSources : PushJson(prefix)
    BY <1>2, <2>3, EnvInvUnchanged DEF PushJson, envVars
  <2>4. CASE PushEnv
    BY <2>4 DEF PushEnv, EnvInv
  <2>5. CASE UNCHANGED sourcesVars
    BY <1>2, <2>5, EnvInvUnchanged DEF sourcesVars, envVars
  <2>. QED
    BY <1>2, <2>1, <2>2, <2>3, <2>4, <2>5 DEF Next
<1>. QED
  BY <1>1, <1>2, PTL DEF Spec

\* A second coerce_json() after one that succeeded finds nothing to coerce and
\* changes nothing.
THEOREM CoercionIsComplete == Spec => []CoercionComplete
<1>1. ASSUME EnvInv, outcome = "ok"  PROVE Coerced(map) = map /\ Marked(map) = {}
  <2>1. Marked(map) = {} /\ map = [n \in DOMAIN map |-> map[n]]
    BY <1>1 DEF EnvInv
  <2>2. Coerced(map) = CoercedEntries(map, {})
    BY <2>1 DEF Coerced, Failing
  <2>3. CoercedEntries(map, {}) = [n \in DOMAIN map |-> map[n]]
    BY DEF CoercedEntries, Over, Without
  <2>. QED
    BY <2>1, <2>2, <2>3
<1>2. EnvInv => CoercionComplete
  BY <1>1 DEF CoercionComplete
<1>. QED
  BY <1>2, EnvInvariant, PTL

\* A coercion that succeeds puts every marked variable under its name without
\* the suffix, over one that had that name, and touches nothing else.
THEOREM MarkedVariablesWin == Spec => JsonWins
<1>. DEFINE Wins == CoerceJson /\ outcome' = "ok" =>
       /\ \A name \in Marked(map) :
            LET target == WithoutSuffix(name)
            IN  /\ target \in DOMAIN map'
                /\ map'[target] \in {Parsed(map[n].text) :
                                       n \in {x \in Marked(map) :
                                                WithoutSuffix(x) = target}}
       /\ \A name \in DOMAIN map \ Marked(map) :
            name \notin {WithoutSuffix(n) : n \in Marked(map)} =>
              name \in DOMAIN map' /\ map'[name] = map[name]
<1>1. Wins
  <2>. SUFFICES ASSUME CoerceJson, outcome' = "ok"  PROVE Wins
    OBVIOUS
  <2>1. map' = CoercedEntries(map, Marked(map))
    BY DEF CoerceJson, Coerced
  <2>2. ASSUME NEW name \in Marked(map)
        PROVE  LET target == WithoutSuffix(name)
               IN  /\ target \in DOMAIN map'
                   /\ map'[target] \in {Parsed(map[n].text) :
                                          n \in {x \in Marked(map) :
                                                   WithoutSuffix(x) = target}}
    BY <2>1, CoercedTarget
  <2>3. ASSUME NEW name \in DOMAIN map \ Marked(map),
               name \notin {WithoutSuffix(n) : n \in Marked(map)}
        PROVE  name \in DOMAIN map' /\ map'[name] = map[name]
    BY <2>1, <2>3, CoercedOther
  <2>. HIDE DEF Wins
  <2>. QED
    BY <2>2, <2>3 DEF Wins
<1>2. Spec => [][Wins]_envVars
  BY <1>1, PTL
<1>. QED
  BY <1>2, PTL DEF JsonWins
-----------------------------------------------------------------------------
(* Stripping a prefix and coercing *)

LEMMA NameParts ==
  ASSUME NEW n \in Name
  PROVE  /\ n.words \in Seq(Word) /\ n.upper \in BOOLEAN
         /\ n.suffix \in {""} \cup JsonSuffixes
         /\ Canonical(n.words)
BY DEF Name

LEMMA NameRecord ==
  ASSUME NEW n \in Name
  PROVE  n = [words |-> n.words, upper |-> n.upper, suffix |-> n.suffix]
BY DEF Name

LEMMA PrefixParts ==
  ASSUME NEW prefix \in Prefix
  PROVE  prefix.words \in Seq(Word) /\ prefix.upper \in BOOLEAN
BY DEF Prefix

LEMMA Lengths ==
  ASSUME NEW words \in Seq(Word)
  PROVE  Len(words) \in Nat /\ (Len(words) = 0 <=> words = <<>>)
OBVIOUS

LEMMA SameName ==
  ASSUME NEW n1 \in Name, NEW n2 \in Name,
         n1.words = n2.words, n1.upper = n2.upper, n1.suffix = n2.suffix
  PROVE  n1 = n2
<1>1. /\ n1 = [words |-> n1.words, upper |-> n1.upper, suffix |-> n1.suffix]
      /\ n2 = [words |-> n2.words, upper |-> n2.upper, suffix |-> n2.suffix]
  BY NameRecord
<1>. QED
  BY <1>1, Zenon

LEMMA NameWith ==
  ASSUME NEW words \in Seq(Word), NEW upper \in BOOLEAN,
         NEW suffix \in {""} \cup JsonSuffixes,
         Canonical(words)
  PROVE  [words |-> words, upper |-> upper, suffix |-> suffix] \in Name
BY DEF Name

LEMMA LowerIsName ==
  ASSUME NEW n \in Name  PROVE  Lower(n) \in Name
BY DEF Name, Lower

LEMMA WithoutSuffixIsName ==
  ASSUME NEW n \in Name
  PROVE  /\ WithoutSuffix(n) \in Name
         /\ WithoutSuffix(n).words = n.words /\ WithoutSuffix(n).upper = n.upper
         /\ WithoutSuffix(n).suffix = ""
BY DEF Name, WithoutSuffix

\* What is left of a sequence of words.
Rest(prefix, words) == SubSeq(words, Len(prefix) + 1, Len(words))

LEMMA RestOfWords ==
  ASSUME NEW prefix \in Seq(Word), NEW words \in Seq(Word), IsPrefix(prefix, words)
  PROVE  /\ Rest(prefix, words) \in Seq(Word)
         /\ Len(Rest(prefix, words)) = Len(words) - Len(prefix)
         /\ \A i \in 1..Len(Rest(prefix, words)) :
              Rest(prefix, words)[i] = words[Len(prefix) + i]
         /\ \A i \in 1..Len(prefix) : words[i] = prefix[i]
<1>1. Len(prefix) <= Len(words) /\ SubSeq(prefix, 1, Len(prefix)) = SubSeq(words, 1, Len(prefix))
  BY DEF IsPrefix
<1>2. \A i \in 1..Len(prefix) : words[i] = prefix[i]
  <2>1. \A i \in 1..Len(prefix) : SubSeq(prefix, 1, Len(prefix))[i] = prefix[i]
    OBVIOUS
  <2>2. \A i \in 1..Len(prefix) : SubSeq(words, 1, Len(prefix))[i] = words[i]
    BY <1>1
  <2>. QED
    BY <1>1, <2>1, <2>2
<1>. QED
  BY <1>1, <1>2 DEF Rest

LEMMA SuffixWords ==
  /\ <<"", "json">> \in Seq(Word) /\ Len(<<"", "json">>) = 2
  /\ <<"", "json">>[1] = "" /\ <<"", "json">>[2] = "json"
<1>1. "" \in Word /\ "json" \in Word
  BY DEF Word
<1>2. ASSUME NEW a \in Word, NEW b \in Word
      PROVE  /\ <<a, b>> \in Seq(Word) /\ Len(<<a, b>>) = 2
             /\ <<a, b>>[1] = a /\ <<a, b>>[2] = b
  OBVIOUS
<1>. QED
  BY <1>1, <1>2

LEMMA RestIsCanonical ==
  ASSUME NEW prefix \in Seq(Word), NEW words \in Seq(Word),
         IsPrefix(prefix, words), Canonical(words)
  PROVE  Canonical(Rest(prefix, words))
<1>. DEFINE rest == Rest(prefix, words)
            n == Len(rest)
            m == Len(words)
            k == Len(prefix)
<1>1. /\ n = m - k /\ k \in Nat /\ m \in Nat /\ n \in Nat
      /\ \A i \in 1..n : rest[i] = words[k + i]
  BY RestOfWords, Lengths
<1>. HIDE DEF n, m, k, rest
<1>2. SUFFICES ASSUME n > 2  PROVE ~(rest[n - 1] = "" /\ rest[n] = "json")
  BY DEF Canonical, n, rest
<1>3. /\ n \in 1..n /\ n - 1 \in 1..n
      /\ k + n = m /\ k + (n - 1) = m - 1 /\ m > 2
  <2>1. n = m - k /\ k \in Nat /\ m \in Nat /\ n \in Nat /\ n > 2
    BY <1>1, <1>2
  <2>. QED
    BY <2>1
<1>4. rest[n] = words[m] /\ rest[n - 1] = words[m - 1]
  BY <1>1, <1>3
<1>5. ~(words[m - 1] = "" /\ words[m] = "json")
  BY <1>3 DEF Canonical, m
<1>. QED
  BY <1>4, <1>5

LEMMA RestIsNotSuffix ==
  ASSUME NEW prefix \in Seq(Word), NEW words \in Seq(Word), prefix # <<>>,
         IsPrefix(prefix, words), Canonical(words), NEW rest, rest = Rest(prefix, words)
  PROVE  ~(Len(rest) = 2 /\ rest[1] = "" /\ rest[2] = "json")
<1>. DEFINE m == Len(words)
            k == Len(prefix)
<1>1. SUFFICES ASSUME Len(rest) = 2, rest[1] = "", rest[2] = "json"  PROVE FALSE
  OBVIOUS
<1>2. k \in Nat /\ m \in Nat /\ k # 0
  BY Lengths
<1>3. Len(rest) = m - k
  BY RestOfWords
<1>4. \A i \in 1..Len(rest) : rest[i] = words[k + i]
  BY RestOfWords
<1>5. Len(rest) = 2
  BY <1>1, Zenon
<1>6. 2 = m - k
  BY <1>3, <1>5
<1>. HIDE DEF m, k
<1>7. m = k + 2 /\ k + 1 = m - 1 /\ m > 2
  BY <1>2, <1>6
<1>8. 1 \in 1..Len(rest) /\ 2 \in 1..Len(rest)
  BY <1>5
<1>9. rest[1] = words[k + 1] /\ rest[2] = words[k + 2]
  BY <1>4, <1>8, Zenon
<1>10. words[m - 1] = "" /\ words[m] = "json"
  BY <1>1, <1>7, <1>9, Zenon
<1>. QED
  BY <1>7, <1>10 DEF Canonical, m

LEMMA RestInjective ==
  ASSUME NEW prefix \in Seq(Word), NEW w1 \in Seq(Word), NEW w2 \in Seq(Word),
         IsPrefix(prefix, w1), IsPrefix(prefix, w2),
         Rest(prefix, w1) = Rest(prefix, w2)
  PROVE  w1 = w2
<1>. DEFINE k == Len(prefix)
<1>1. /\ Len(w1) = Len(w2) /\ Len(w1) \in Nat /\ k \in Nat
      /\ \A i \in 1..k : w1[i] = w2[i]
      /\ \A j \in 1..(Len(w1) - k) : w1[k + j] = w2[k + j]
  <2>1. Len(w1) \in Nat /\ Len(w2) \in Nat /\ k \in Nat
    BY Lengths
  <2>2. /\ Len(Rest(prefix, w1)) = Len(w1) - k
        /\ \A i \in 1..Len(Rest(prefix, w1)) : Rest(prefix, w1)[i] = w1[k + i]
        /\ \A i \in 1..k : w1[i] = prefix[i]
    BY RestOfWords
  <2>3. /\ Len(Rest(prefix, w2)) = Len(w2) - k
        /\ \A i \in 1..Len(Rest(prefix, w2)) : Rest(prefix, w2)[i] = w2[k + i]
        /\ \A i \in 1..k : w2[i] = prefix[i]
    BY RestOfWords
  <2>. HIDE DEF k
  <2>4. Len(w1) = Len(w2)
    BY <2>1, <2>2, <2>3
  <2>5. ASSUME NEW j \in 1..(Len(w1) - k)  PROVE w1[k + j] = w2[k + j]
    BY <2>2, <2>3, <2>4
  <2>6. ASSUME NEW i \in 1..k  PROVE w1[i] = w2[i]
    BY <2>2, <2>3
  <2>. QED
    BY <2>1, <2>4, <2>5, <2>6
<1>. HIDE DEF k
<1>2. ASSUME NEW i \in 1..Len(w1)  PROVE w1[i] = w2[i]
  <2>1. CASE i <= k
    BY <1>1, <2>1
  <2>2. CASE i > k
    <3>1. i - k \in 1..(Len(w1) - k) /\ k + (i - k) = i
      BY <1>1, <2>2
    <3>. QED
      BY <1>1, <3>1
  <2>. QED
    BY <1>1, <2>1, <2>2
<1>. QED
  BY <1>1, <1>2

\* What a prefix is cut off from.
LEMMA WithPrefixOr ==
  ASSUME NEW prefix \in Prefix, NEW n \in Name, HasPrefix(n, prefix), ~CutsSuffix(prefix, n)
  PROVE  /\ IsPrefix(prefix.words, n.words)
         /\ prefix.words # <<>> => n.upper = prefix.upper /\ prefix.words # n.words
<1>0. n.words \in Seq(Word) /\ prefix.words \in Seq(Word)
  BY NameParts, PrefixParts
<1>1. CASE prefix.words = <<>>
  BY <1>0, <1>1 DEF IsPrefix
<1>2. CASE prefix.words # <<>>
  BY <1>2 DEF HasPrefix, IsStrictPrefix
<1>. QED
  BY <1>1, <1>2

LEMMA Uncut ==
  ASSUME NEW prefix \in Prefix, NEW n \in Name,
         IsPrefix(prefix.words, n.words), ~CutsSuffix(prefix, n)
  PROVE  /\ WithoutPrefix(n, prefix) =
              [words |-> Rest(prefix.words, n.words), upper |-> n.upper,
               suffix |-> n.suffix]
         /\ WithoutPrefix(n, prefix) \in Name
<1>. DEFINE words == Rest(prefix.words, n.words)
<1>0. /\ n.words \in Seq(Word) /\ n.upper \in BOOLEAN
      /\ n.suffix \in {""} \cup JsonSuffixes
      /\ prefix.words \in Seq(Word) /\ Canonical(n.words)
  BY NameParts, PrefixParts
<1>1. words \in Seq(Word) /\ Canonical(words)
  BY <1>0, RestOfWords, RestIsCanonical
<1>2. WithoutPrefix(n, prefix) = [n EXCEPT !.words = words]
  BY DEF WithoutPrefix, Rest
<1>3. n = [words |-> n.words, upper |-> n.upper, suffix |-> n.suffix]
  BY NameRecord
<1>. HIDE DEF words
<1>4. [n EXCEPT !.words = words] = [words |-> words, upper |-> n.upper, suffix |-> n.suffix]
  BY <1>3
<1>5. [words |-> words, upper |-> n.upper, suffix |-> n.suffix] \in Name
  BY <1>0, <1>1, NameWith
<1>. QED
  BY <1>2, <1>4, <1>5 DEF words

LEMMA Cut ==
  ASSUME NEW prefix \in Prefix, NEW n \in Name, CutsSuffix(prefix, n)
  PROVE  /\ WithoutPrefix(n, prefix) =
              [words |-> <<"", "json">>, upper |-> n.upper, suffix |-> ""]
         /\ WithoutPrefix(n, prefix) \in Name
<1>1. n = [words |-> n.words, upper |-> n.upper, suffix |-> n.suffix]
  BY NameRecord
<1>2. WithoutPrefix(n, prefix) =
        [words |-> <<"", "json">>, upper |-> n.upper, suffix |-> ""]
  BY <1>1 DEF WithoutPrefix
<1>3. n.upper \in BOOLEAN
  BY NameParts
<1>4. ASSUME NEW words \in Seq(Word), Len(words) = 2
      PROVE  [words |-> words, upper |-> n.upper, suffix |-> ""] \in Name
  <2>1. Canonical(words)
    BY <1>4 DEF Canonical
  <2>. QED
    BY <1>3, <1>4, <2>1, NameWith
<1>5. [words |-> <<"", "json">>, upper |-> n.upper, suffix |-> ""] \in Name
  BY <1>4, SuffixWords
<1>. QED
  BY <1>2, <1>5

\* Its words.
LEMMA CutParts ==
  ASSUME NEW prefix \in Prefix, NEW n \in Name, CutsSuffix(prefix, n)
  PROVE  /\ WithoutPrefix(n, prefix).words = <<"", "json">>
         /\ WithoutPrefix(n, prefix).upper = n.upper
         /\ WithoutPrefix(n, prefix).suffix = ""
<1>1. ASSUME NEW words, NEW r, r = [words |-> words, upper |-> n.upper, suffix |-> ""]
      PROVE  r.words = words /\ r.upper = n.upper /\ r.suffix = ""
  BY <1>1
<1>2. WithoutPrefix(n, prefix) =
        [words |-> <<"", "json">>, upper |-> n.upper, suffix |-> ""]
  BY Cut
<1>. QED
  BY <1>1, <1>2

LEMMA WithoutPrefixIsName ==
  ASSUME NEW prefix \in Prefix, NEW n \in Name,
         prefix.words = <<>> \/ IsStrictPrefix(prefix.words, n.words) \/ CutsSuffix(prefix, n)
  PROVE  WithoutPrefix(n, prefix) \in Name
<1>1. CASE CutsSuffix(prefix, n)
  BY <1>1, Cut
<1>2. CASE ~CutsSuffix(prefix, n)
  <2>0. n.words \in Seq(Word)
    BY NameParts
  <2>1. IsPrefix(prefix.words, n.words)
    <3>1. CASE prefix.words = <<>>
      BY <2>0, <3>1 DEF IsPrefix
    <3>. QED
      BY <1>2, <3>1 DEF IsStrictPrefix
  <2>. QED
    BY <1>2, <2>1, Uncut
<1>. QED
  BY <1>1, <1>2

\* "No two names become the same."
LEMMA WithoutPrefixInjective ==
  ASSUME NEW prefix \in Prefix, NEW n1 \in Name, NEW n2 \in Name,
         HasPrefix(n1, prefix), HasPrefix(n2, prefix),
         WithoutPrefix(n1, prefix) = WithoutPrefix(n2, prefix)
  PROVE  n1 = n2
<1>0. /\ prefix.words \in Seq(Word)
      /\ n1.words \in Seq(Word) /\ n2.words \in Seq(Word)
      /\ Canonical(n1.words) /\ Canonical(n2.words)
  BY NameParts, PrefixParts
<1>1. ASSUME NEW a \in Name, NEW b \in Name, HasPrefix(b, prefix),
             WithoutPrefix(a, prefix) = WithoutPrefix(b, prefix),
             b.words \in Seq(Word), Canonical(b.words),
             CutsSuffix(prefix, a), ~CutsSuffix(prefix, b)
      PROVE  FALSE
  <2>1. IsPrefix(prefix.words, b.words) /\ prefix.words # <<>>
    BY <1>1, WithPrefixOr DEF CutsSuffix
  <2>2. WithoutPrefix(a, prefix).words = <<"", "json">>
    BY <1>1, CutParts
  <2>3. WithoutPrefix(b, prefix).words = Rest(prefix.words, b.words)
    BY <1>1, <2>1, Uncut
  <2>4. ~(Len(Rest(prefix.words, b.words)) = 2 /\ Rest(prefix.words, b.words)[1] = ""
          /\ Rest(prefix.words, b.words)[2] = "json")
    BY <1>0, <1>1, <2>1, RestIsNotSuffix
  <2>. QED
    BY <1>1, <2>2, <2>3, <2>4, SuffixWords
<1>2. CASE CutsSuffix(prefix, n1) /\ CutsSuffix(prefix, n2)
  <2>1. WithoutPrefix(n1, prefix).upper = n1.upper /\ WithoutPrefix(n2, prefix).upper = n2.upper
    BY <1>2, CutParts
  <2>2. n1.upper = n2.upper
    BY <2>1
  <2>. QED
    BY <1>2, <2>2, SameName DEF CutsSuffix
<1>3. CASE ~CutsSuffix(prefix, n1) /\ ~CutsSuffix(prefix, n2)
  <2>1. IsPrefix(prefix.words, n1.words) /\ IsPrefix(prefix.words, n2.words)
    BY <1>3, WithPrefixOr
  <2>2. /\ WithoutPrefix(n1, prefix).words = Rest(prefix.words, n1.words)
        /\ WithoutPrefix(n1, prefix).upper = n1.upper
        /\ WithoutPrefix(n1, prefix).suffix = n1.suffix
    BY <1>3, <2>1, Uncut
  <2>3. /\ WithoutPrefix(n2, prefix).words = Rest(prefix.words, n2.words)
        /\ WithoutPrefix(n2, prefix).upper = n2.upper
        /\ WithoutPrefix(n2, prefix).suffix = n2.suffix
    BY <1>3, <2>1, Uncut
  <2>4. n1.words = n2.words
    BY <1>0, <2>1, <2>2, <2>3, RestInjective
  <2>. QED
    BY <2>2, <2>3, <2>4, SameName
<1>. QED
  BY <1>0, <1>1, <1>2, <1>3

LEMMA LowerPrefix ==
  ASSUME NEW prefix \in Prefix
  PROVE  LET lower == [prefix EXCEPT !.upper = FALSE]
         IN  lower \in Prefix /\ lower.words = prefix.words /\ lower.upper = FALSE
BY DEF Prefix

LEMMA WithoutSuffixParts ==
  ASSUME NEW n \in Name
  PROVE  WithoutSuffix(n) = [words |-> n.words, upper |-> n.upper, suffix |-> ""]
<1>1. n = [words |-> n.words, upper |-> n.upper, suffix |-> n.suffix]
  BY NameRecord
<1>2. ASSUME NEW x
      PROVE  [n EXCEPT !.suffix = x] = [words |-> n.words, upper |-> n.upper, suffix |-> x]
  BY <1>1
<1>. QED
  BY <1>2 DEF WithoutSuffix

\* A name is what is left without the suffix, and the suffix.
LEMMA NameOfTarget ==
  ASSUME NEW n1 \in Name, NEW n2 \in Name,
         WithoutSuffix(n1) = WithoutSuffix(n2), n1.suffix = n2.suffix
  PROVE  n1 = n2
<1>1. /\ WithoutSuffix(n1).words = n1.words /\ WithoutSuffix(n1).upper = n1.upper
      /\ WithoutSuffix(n2).words = n2.words /\ WithoutSuffix(n2).upper = n2.upper
  BY WithoutSuffixIsName, Zenon
<1>2. n1.words = n2.words /\ n1.upper = n2.upper
  BY <1>1, Zenon
<1>. QED
  BY <1>2, SameName

\* A suffix that is not cut is retained; it can be removed before or after the
\* prefix, and the name has the prefix with or without it.
LEMMA SuffixKept ==
  ASSUME NEW lower \in Prefix, NEW n \in Name, ~CutsSuffix(lower, n)
  PROVE  /\ HasPrefix(WithoutSuffix(n), lower) <=> HasPrefix(n, lower)
         /\ HasPrefix(n, lower) =>
              /\ WithoutPrefix(n, lower).suffix = n.suffix
              /\ WithoutPrefix(n, lower).upper = n.upper
              /\ WithoutSuffix(WithoutPrefix(n, lower)) = WithoutPrefix(WithoutSuffix(n), lower)
<1>. DEFINE s == WithoutSuffix(n)
<1>1. /\ s \in Name /\ s.words = n.words /\ s.upper = n.upper /\ s.suffix = ""
  BY WithoutSuffixIsName
<1>2. ~CutsSuffix(lower, s)
  BY <1>1 DEF CutsSuffix
<1>. HIDE DEF s
<1>3. HasPrefix(s, lower) <=> HasPrefix(n, lower)
  BY <1>1, <1>2 DEF HasPrefix
<1>4. ASSUME HasPrefix(n, lower)
      PROVE  /\ WithoutPrefix(n, lower).suffix = n.suffix
             /\ WithoutPrefix(n, lower).upper = n.upper
             /\ WithoutSuffix(WithoutPrefix(n, lower)) = WithoutPrefix(s, lower)
  <2>. DEFINE r == WithoutPrefix(n, lower)
              words == Rest(lower.words, n.words)
  <2>1. IsPrefix(lower.words, n.words)
    BY <1>4, WithPrefixOr
  <2>2. r \in Name /\ r = [words |-> words, upper |-> n.upper, suffix |-> n.suffix]
    BY <2>1, Uncut
  <2>3. WithoutPrefix(s, lower) = [words |-> words, upper |-> n.upper, suffix |-> ""]
    BY <1>1, <1>2, <2>1, Uncut
  <2>. HIDE DEF r, words
  <2>4. r.words = words /\ r.upper = n.upper /\ r.suffix = n.suffix
    BY <2>2
  <2>5. WithoutSuffix(r) = [words |-> words, upper |-> n.upper, suffix |-> ""]
    BY <2>2, <2>4, WithoutSuffixParts
  <2>. QED
    BY <2>3, <2>4, <2>5 DEF r
<1>. QED
  BY <1>3, <1>4 DEF s

\* The value of a coerced name is that of the last entry for it.
LEMMA CoercedValue ==
  ASSUME NEW m, NEW names, names \subseteq Name, NEW n \in names,
         \A x \in names : x.suffix \in JsonSuffixes,
         \A x \in names : WithoutSuffix(x) = WithoutSuffix(n) /\ x.suffix = "__json"
                            => n.suffix = "__json"
  PROVE  /\ WithoutSuffix(n) \in DOMAIN CoercedEntries(m, names)
         /\ CoercedEntries(m, names)[WithoutSuffix(n)] = Parsed(m[n].text)
<1>. DEFINE c == CoercedEntries(m, names)
            targets == {WithoutSuffix(name) : name \in names}
            target(x) == {name \in names : WithoutSuffix(name) = x}
            marked(x) == CHOOSE name \in target(x) :
                         "__json" \in {y.suffix : y \in target(x)}
                           => name.suffix = "__json"
            w == WithoutSuffix(n)
<1>1. c = Over([x \in targets |-> Parsed(m[marked(x)].text)], Without(m, names))
  BY DEF CoercedEntries
<1>2. /\ marked(w) \in names /\ WithoutSuffix(marked(w)) = w
      /\ "__json" \in {y.suffix : y \in target(w)} => marked(w).suffix = "__json"
  BY LastOfTarget
<1>3. w \in targets
  OBVIOUS
<1>4. n \in target(w) /\ marked(w) \in target(w)
  BY <1>2
<1>5. marked(w).suffix = n.suffix
  <2>1. CASE "__json" \in {y.suffix : y \in target(w)}
    <3>1. n.suffix = "__json"
      BY <2>1
    <3>. QED
      BY <1>2, <2>1, <3>1
  <2>2. CASE "__json" \notin {y.suffix : y \in target(w)}
    <3>1. n.suffix # "__json" /\ marked(w).suffix # "__json"
      BY <1>4, <2>2
    <3>. QED
      BY <1>2, <3>1 DEF JsonSuffixes
  <2>. QED
    BY <2>1, <2>2
<1>6. marked(w) = n
  BY <1>2, <1>5, NameOfTarget
<1>. HIDE DEF c, marked, targets, w
<1>7. w \in DOMAIN c /\ c[w] = Parsed(m[marked(w)].text)
  BY <1>1, <1>3 DEF Over, Without
<1>. QED
  BY <1>6, <1>7 DEF c, w

\* One of the entries for a name is the winner.
LEMMA LastEntry ==
  ASSUME NEW names, NEW n \in names
  PROVE  \E winner \in names :
           /\ WithoutSuffix(winner) = WithoutSuffix(n)
           /\ \A x \in names : WithoutSuffix(x) = WithoutSuffix(n) /\ x.suffix = "__json"
                                 => winner.suffix = "__json"
<1>1. CASE \E x \in names : WithoutSuffix(x) = WithoutSuffix(n) /\ x.suffix = "__json"
  BY <1>1
<1>2. CASE ~ \E x \in names : WithoutSuffix(x) = WithoutSuffix(n) /\ x.suffix = "__json"
  BY <1>2
<1>. QED
  BY <1>1, <1>2

\* What is stripped of a prefix: these names are retained, with their values.
LEMMA StrippedNames ==
  ASSUME NEW prefix \in Prefix, NEW m, DOMAIN m \subseteq Name
  PROVE  LET lower == [prefix EXCEPT !.upper = FALSE]
         IN  /\ Stripped(m, prefix) =
                  [x \in DOMAIN Stripped(m, prefix) |-> Stripped(m, prefix)[x]]
             /\ \A n \in DOMAIN m :
                  HasPrefix(n, lower) =>
                    /\ WithoutPrefix(n, lower) \in DOMAIN Stripped(m, prefix)
                    /\ Stripped(m, prefix)[WithoutPrefix(n, lower)] = m[n]
             /\ \A x \in DOMAIN Stripped(m, prefix) :
                  \E n \in DOMAIN m : HasPrefix(n, lower) /\ x = WithoutPrefix(n, lower)
<1>. DEFINE lower == [prefix EXCEPT !.upper = FALSE]
            retained == {name \in DOMAIN m : HasPrefix(name, lower)}
            origin(x) == CHOOSE name \in retained : WithoutPrefix(name, lower) = x
            names == {WithoutPrefix(name, lower) : name \in retained}
<1>1. Stripped(m, prefix) = [x \in names |-> m[origin(x)]]
  BY DEF Stripped
<1>2. ASSUME NEW n \in DOMAIN m, HasPrefix(n, lower)
      PROVE  WithoutPrefix(n, lower) \in names /\ origin(WithoutPrefix(n, lower)) = n
  <2>1. n \in retained
    BY <1>2
  <2>2. /\ origin(WithoutPrefix(n, lower)) \in retained
        /\ WithoutPrefix(origin(WithoutPrefix(n, lower)), lower) = WithoutPrefix(n, lower)
    BY <2>1
  <2>3. lower \in Prefix
    BY LowerPrefix
  <2>. HIDE DEF lower, origin
  <2>4. origin(WithoutPrefix(n, lower)) = n
    BY <1>2, <2>2, <2>3, WithoutPrefixInjective
  <2>. QED
    BY <2>1, <2>4
<1>3. ASSUME NEW x \in names
      PROVE  \E n \in DOMAIN m : HasPrefix(n, lower) /\ x = WithoutPrefix(n, lower)
  OBVIOUS
<1>. HIDE DEF lower, names, origin
<1>. QED
  BY <1>1, <1>2, <1>3 DEF lower

\* The marked names of what is stripped are those that were marked, unless a
\* suffix was cut.
LEMMA StrippedMarked ==
  ASSUME NEW prefix \in Prefix, NEW m, DOMAIN m \subseteq Name,
         \A name \in Marked(m) : ~CutsSuffix(prefix, name)
  PROVE  LET lower == [prefix EXCEPT !.upper = FALSE]
         IN  \A n \in DOMAIN m :
               HasPrefix(n, lower) =>
                 (WithoutPrefix(n, lower) \in Marked(Stripped(m, prefix)) <=> n \in Marked(m))
<1>. DEFINE lower == [prefix EXCEPT !.upper = FALSE]
            st == Stripped(m, prefix)
<1>0. lower \in Prefix /\ lower.words = prefix.words
  BY LowerPrefix
<1>1. \A n \in DOMAIN m : CutsSuffix(lower, n) <=> CutsSuffix(prefix, n)
  BY <1>0 DEF CutsSuffix
<1>2. \A n \in DOMAIN m :
        HasPrefix(n, lower) =>
          WithoutPrefix(n, lower) \in DOMAIN st /\ st[WithoutPrefix(n, lower)] = m[n]
  BY StrippedNames
<1>. HIDE DEF lower, st
<1>3. ASSUME NEW n \in DOMAIN m, HasPrefix(n, lower)
      PROVE  WithoutPrefix(n, lower) \in Marked(st) <=> n \in Marked(m)
  <2>1. CASE CutsSuffix(lower, n)
    <3>1. n \notin Marked(m)
      BY <1>1, <2>1
    <3>2. WithoutPrefix(n, lower).suffix = ""
      BY <1>0, <2>1, CutParts
    <3>3. "" \notin JsonSuffixes
      BY DEF JsonSuffixes
    <3>. QED
      BY <3>1, <3>2, <3>3 DEF Marked
  <2>2. CASE ~CutsSuffix(lower, n)
    <3>1. /\ WithoutPrefix(n, lower).suffix = n.suffix
          /\ WithoutPrefix(n, lower).upper = n.upper
      BY <1>0, <1>3, <2>2, SuffixKept
    <3>2. WithoutPrefix(n, lower) \in DOMAIN st /\ st[WithoutPrefix(n, lower)] = m[n]
      BY <1>2, <1>3
    <3>. QED
      BY <3>1, <3>2 DEF Marked
  <2>. QED
    BY <2>1, <2>2
<1>. QED
  BY <1>3 DEF lower, st

LEMMA CoercedAreNames ==
  ASSUME NEW m, DOMAIN m \subseteq Name, NEW names, names \subseteq Name
  PROVE  DOMAIN CoercedEntries(m, names) \subseteq Name
<1>1. ASSUME NEW x \in DOMAIN CoercedEntries(m, names)  PROVE x \in Name
  <2>1. CASE x \in DOMAIN m \ names
    BY <2>1
  <2>2. CASE \E name \in names : x = WithoutSuffix(name)
    BY <2>2, WithoutSuffixIsName
  <2>. QED
    BY <2>1, <2>2, CoercedNames
<1>. QED
  BY <1>1

\* A prefix may be stripped before or after the coercion, unless a suffix is cut.
LEMMA StrippedCoerced ==
  ASSUME NEW prefix \in Prefix, NEW m, DOMAIN m \subseteq Name, Failing(m) = {},
         \A name \in Marked(m) : ~CutsSuffix(prefix, name)
  PROVE  Stripped(Coerced(m), prefix) = Coerced(Stripped(m, prefix))
<1>. DEFINE lower == [prefix EXCEPT !.upper = FALSE]
            W(n) == WithoutPrefix(n, lower)
            S(n) == WithoutSuffix(n)
            P(n) == HasPrefix(n, lower)
            M == Marked(m)
            c == Coerced(m)
            st == Stripped(m, prefix)
            sc == Stripped(c, prefix)
            cs == Coerced(st)
<1>1. lower \in Prefix /\ lower.words = prefix.words
  BY LowerPrefix
<1>2. \A n \in M : n \in DOMAIN m /\ n \in Name /\ n.suffix \in JsonSuffixes
  BY DEF Marked
<1>3. c = CoercedEntries(m, M)
  BY DEF Coerced
<1>4. DOMAIN c \subseteq Name
  BY <1>2, <1>3, CoercedAreNames
<1>5. /\ \A n \in DOMAIN m : P(n) => W(n) \in DOMAIN st /\ st[W(n)] = m[n]
      /\ \A x \in DOMAIN st : \E n \in DOMAIN m : P(n) /\ x = W(n)
  BY StrippedNames
<1>6. /\ sc = [x \in DOMAIN sc |-> sc[x]]
      /\ \A n \in DOMAIN c : P(n) => W(n) \in DOMAIN sc /\ sc[W(n)] = c[n]
      /\ \A x \in DOMAIN sc : \E n \in DOMAIN c : P(n) /\ x = W(n)
  BY <1>4, StrippedNames
<1>7. \A n \in DOMAIN m : P(n) => (W(n) \in Marked(st) <=> n \in M)
  BY StrippedMarked
<1>8. Marked(st) \subseteq DOMAIN st
  BY DEF Marked
<1>9. \A n1, n2 \in Name : P(n1) /\ P(n2) /\ W(n1) = W(n2) => n1 = n2
  BY <1>1, WithoutPrefixInjective
<1>10. ASSUME NEW n \in M
       PROVE  /\ S(n) \in Name /\ (P(S(n)) <=> P(n))
              /\ P(n) => W(n).suffix = n.suffix /\ S(W(n)) = W(S(n))
  <2>1. ~CutsSuffix(lower, n)
    BY <1>1 DEF CutsSuffix
  <2>. QED
    BY <1>1, <1>2, <2>1, SuffixKept, WithoutSuffixIsName
<1>11. ASSUME NEW y \in Marked(st)
       PROVE  \E n \in M : P(n) /\ y = W(n)
  BY <1>5, <1>7, <1>8
<1>12. Failing(st) = {}
  <2>1. ASSUME NEW y \in Marked(st)  PROVE st[y].text \in DOMAIN Json
    <3>1. PICK n \in M : P(n) /\ y = W(n)
      BY <1>11
    <3>2. st[y] = m[n]
      BY <1>2, <1>5, <3>1
    <3>. QED
      BY <3>2 DEF Failing
  <2>. QED
    BY <2>1 DEF Failing
<1>13. cs = CoercedEntries(st, Marked(st))
  BY <1>12 DEF Coerced
<1>14. cs = [x \in DOMAIN cs |-> cs[x]]
  BY <1>13 DEF CoercedEntries, Over
<1>15. Marked(st) \subseteq Name /\ \A y \in Marked(st) : y.suffix \in JsonSuffixes
  <2>1. ASSUME NEW y \in Marked(st)  PROVE y \in Name
    <3>1. PICK n \in M : P(n) /\ y = W(n)
      BY <1>11
    <3>2. n \in Name /\ P(n)
      BY <1>2, <3>1
    <3>3. lower.words = <<>> \/ IsStrictPrefix(lower.words, n.words) \/ CutsSuffix(lower, n)
      BY <3>2 DEF HasPrefix
    <3>. QED
      BY <1>1, <3>1, <3>2, <3>3, WithoutPrefixIsName
  <2>. QED
    BY <2>1 DEF Marked
<1>. HIDE DEF lower, W, S, P, M, c, st, sc, cs
\* Under the name of a marked variable is its value.
<1>16. ASSUME NEW k \in M, P(k)
       PROVE  /\ W(S(k)) \in DOMAIN sc /\ W(S(k)) \in DOMAIN cs
              /\ sc[W(S(k))] = cs[W(S(k))]
  <2>1. PICK n \in M : /\ S(n) = S(k)
                       /\ \A x \in M : S(x) = S(k) /\ x.suffix = "__json"
                                         => n.suffix = "__json"
    BY LastEntry DEF S
  <2>2. P(n) /\ P(S(n)) /\ S(n) \in Name
    BY <1>10, <1>16, <2>1
  <2>3. S(n) \in DOMAIN c /\ c[S(n)] = Parsed(m[n].text)
    BY <1>2, <1>3, <2>1, CoercedValue DEF S
  <2>4. W(S(n)) \in DOMAIN sc /\ sc[W(S(n))] = Parsed(m[n].text)
    BY <1>6, <2>2, <2>3
  <2>5. W(n) \in Marked(st) /\ st[W(n)] = m[n] /\ S(W(n)) = W(S(n))
    BY <1>2, <1>5, <1>7, <1>10, <2>2
  <2>6. ASSUME NEW y \in Marked(st), S(y) = S(W(n)), y.suffix = "__json"
        PROVE  W(n).suffix = "__json"
    <3>1. PICK x \in M : P(x) /\ y = W(x)
      BY <1>11
    <3>2. S(x) \in Name /\ P(S(x)) /\ S(y) = W(S(x)) /\ x.suffix = "__json"
      BY <1>10, <2>6, <3>1
    <3>3. S(x) = S(n)
      BY <1>9, <2>2, <2>5, <2>6, <3>2
    <3>4. n.suffix = "__json"
      BY <2>1, <3>2, <3>3
    <3>. QED
      BY <1>10, <2>2, <3>4
  <2>7. S(W(n)) \in DOMAIN cs /\ cs[S(W(n))] = Parsed(st[W(n)].text)
    BY <1>13, <1>15, <2>5, <2>6, CoercedValue DEF S
  <2>. QED
    BY <2>1, <2>4, <2>5, <2>7
\* Other variables are as they were.
<1>17. ASSUME NEW n \in DOMAIN m \ M, P(n), \A k \in M : S(k) # n
       PROVE  /\ W(n) \in DOMAIN sc /\ W(n) \in DOMAIN cs
              /\ sc[W(n)] = cs[W(n)]
  <2>1. n \in DOMAIN c /\ c[n] = m[n]
    BY <1>3, <1>17, CoercedOther DEF S
  <2>2. W(n) \in DOMAIN sc /\ sc[W(n)] = m[n]
    BY <1>6, <1>17, <2>1
  <2>3. W(n) \in DOMAIN st /\ W(n) \notin Marked(st) /\ st[W(n)] = m[n]
    BY <1>5, <1>7, <1>17
  <2>4. ASSUME NEW y \in Marked(st), S(y) = W(n)  PROVE FALSE
    <3>1. PICK k \in M : P(k) /\ y = W(k)
      BY <1>11
    <3>2. S(k) \in Name /\ P(S(k)) /\ W(S(k)) = W(n) /\ n \in Name
      BY <1>10, <2>4, <3>1
    <3>3. S(k) = n
      BY <1>9, <1>17, <3>2
    <3>. QED
      BY <1>17, <3>3
  <2>5. W(n) \in DOMAIN cs /\ cs[W(n)] = m[n]
    BY <1>13, <2>3, <2>4, CoercedOther DEF S
  <2>. QED
    BY <2>2, <2>5
\* There are no more names in either.
<1>18. ASSUME NEW n \in DOMAIN m \ M, P(n)
       PROVE  W(n) \in DOMAIN sc /\ W(n) \in DOMAIN cs /\ sc[W(n)] = cs[W(n)]
  <2>1. CASE \E k \in M : S(k) = n
    <3>1. PICK k \in M : S(k) = n
      BY <2>1
    <3>2. P(k)
      BY <1>10, <1>18, <3>1
    <3>. QED
      BY <1>16, <3>1, <3>2
  <2>2. CASE \A k \in M : S(k) # n
    BY <1>17, <1>18, <2>2
  <2>. QED
    BY <2>1, <2>2
<1>19. ASSUME NEW x \in DOMAIN sc  PROVE x \in DOMAIN cs /\ sc[x] = cs[x]
  <2>1. PICK n \in DOMAIN c : P(n) /\ x = W(n)
    BY <1>6
  <2>2. CASE n \in DOMAIN m \ M
    BY <1>18, <2>1, <2>2
  <2>3. CASE \E k \in M : n = S(k)
    <3>1. PICK k \in M : n = S(k)
      BY <2>3
    <3>2. P(k)
      BY <1>10, <2>1, <3>1
    <3>. QED
      BY <1>16, <2>1, <3>1, <3>2
  <2>. QED
    BY <1>3, <2>1, <2>2, <2>3, CoercedNames DEF S
<1>20. ASSUME NEW x \in DOMAIN cs  PROVE x \in DOMAIN sc
  <2>1. CASE x \in DOMAIN st \ Marked(st)
    <3>1. PICK n \in DOMAIN m : P(n) /\ x = W(n)
      BY <1>5, <2>1
    <3>2. n \notin M
      BY <1>7, <2>1, <3>1
    <3>. QED
      BY <1>18, <3>1, <3>2
  <2>2. CASE \E y \in Marked(st) : x = S(y)
    <3>1. PICK y \in Marked(st) : x = S(y)
      BY <2>2
    <3>2. PICK k \in M : P(k) /\ y = W(k)
      BY <1>11
    <3>3. x = W(S(k))
      BY <1>10, <3>1, <3>2
    <3>. QED
      BY <1>16, <3>2, <3>3
  <2>. QED
    BY <1>13, <2>1, <2>2, CoercedNames DEF S
<1>21. DOMAIN sc = DOMAIN cs /\ \A x \in DOMAIN sc : sc[x] = cs[x]
  BY <1>19, <1>20
<1>22. sc = cs
  BY <1>6, <1>14, <1>21
<1>. QED
  BY <1>22 DEF sc, cs, c, st
-----------------------------------------------------------------------------
\* The names in the map.
NamesInv == DOMAIN map \subseteq Name

LEMMA CollectedNames ==
  ASSUME NEW prefix \in Prefix, NEW vs, \A i \in DOMAIN vs : vs[i][1] \in Name
  PROVE  DOMAIN Collect(vs, prefix) \subseteq Name
<1>1. ASSUME NEW i \in DOMAIN vs, HasPrefix(vs[i][1], prefix)
      PROVE  WithoutPrefix(Lower(vs[i][1]), prefix) \in Name
  <2>. DEFINE n == vs[i][1]
              l == Lower(n)
  <2>1. n \in Name
    OBVIOUS
  <2>. HIDE DEF n
  <2>2. l \in Name /\ l.words = n.words /\ l.suffix = n.suffix
    BY <2>1, LowerIsName DEF Lower, Name
  <2>3. prefix.words = <<>> \/ IsStrictPrefix(prefix.words, l.words) \/ CutsSuffix(prefix, l)
    BY <1>1, <2>2 DEF HasPrefix, CutsSuffix, n
  <2>. HIDE DEF l
  <2>4. WithoutPrefix(l, prefix) \in Name
    BY <2>2, <2>3, WithoutPrefixIsName
  <2>. QED
    BY <2>4 DEF l, n
<1>2. DOMAIN Collect(vs, prefix) =
        {WithoutPrefix(Lower(vs[i][1]), prefix) : i \in {j \in DOMAIN vs : HasPrefix(vs[j][1], prefix)}}
  BY DEF Collect
<1>. QED
  BY <1>1, <1>2

LEMMA StrippedAreNames ==
  ASSUME NEW prefix \in Prefix, NEW m, DOMAIN m \subseteq Name
  PROVE  DOMAIN Stripped(m, prefix) \subseteq Name
<1>. DEFINE lower == [prefix EXCEPT !.upper = FALSE]
<1>1. lower \in Prefix
  BY LowerPrefix
<1>2. ASSUME NEW x \in DOMAIN Stripped(m, prefix)  PROVE x \in Name
  <2>1. PICK n \in DOMAIN m : HasPrefix(n, lower) /\ x = WithoutPrefix(n, lower)
    BY StrippedNames
  <2>. HIDE DEF lower
  <2>2. lower.words = <<>> \/ IsStrictPrefix(lower.words, n.words) \/ CutsSuffix(lower, n)
    BY <2>1 DEF HasPrefix
  <2>. QED
    BY <1>1, <2>1, <2>2, WithoutPrefixIsName
<1>. QED
  BY <1>2

LEMMA NamesStep ==
  ASSUME NamesInv, EnvNext  PROVE NamesInv'
<1>0. /\ \A name \in DOMAIN ProcessEnv : name \in Name
      /\ \A names \in Extra : names \subseteq Name
      /\ \A lines \in DotEnvs : \A i \in DOMAIN lines : lines[i][1] \in Name
      /\ \A prefix \in EnvPrefixes : prefix \in Prefix
  BY EnvironmentAssumption
<1>1. CASE \E prefix \in EnvPrefixes : Prefixed(prefix)
  <2>1. PICK prefix \in EnvPrefixes : Prefixed(prefix)
    BY <1>1
  <2>2. PICK order \in SetToSeqs(DOMAIN ProcessEnv) :
          map' = Collect([i \in DOMAIN order |-> <<order[i], ProcessEnv[order[i]]>>], prefix)
    BY <2>1 DEF Prefixed
  <2>3. \A i \in DOMAIN order : order[i] \in DOMAIN ProcessEnv
    BY DEF SetToSeqs
  <2>4. \A i \in DOMAIN order :
          [j \in DOMAIN order |-> <<order[j], ProcessEnv[order[j]]>>][i][1] \in Name
    BY <1>0, <2>3
  <2>. QED
    BY <1>0, <2>2, <2>4, CollectedNames DEF NamesInv
<1>2. CASE \E lines \in DotEnvs : FromDotenv(lines)
  <2>1. PICK lines \in DotEnvs : FromDotenv(lines)
    BY <1>2
  <2>2. [words |-> <<>>, upper |-> FALSE] \in Prefix
    <3>1. ASSUME NEW words \in Seq(Word), words = <<>>
          PROVE  [words |-> words, upper |-> FALSE] \in Prefix
      BY <3>1 DEF Prefix
    <3>2. <<>> \in Seq(Word)
      OBVIOUS
    <3>. QED
      BY <3>1, <3>2
  <2>. QED
    BY <1>0, <2>1, <2>2, CollectedNames DEF FromDotenv, NamesInv
<1>3. CASE \E names \in Extra : WithVars(names)
  BY <1>0, <1>3 DEF WithVars, Over, NamesInv
<1>4. CASE \E prefix \in EnvPrefixes : StripPrefix(prefix)
  BY <1>0, <1>4, StrippedAreNames DEF StripPrefix, NamesInv
<1>5. CASE CoerceJson
  <2>1. CASE Failing(map) = {}
    <3>1. map' = CoercedEntries(map, Marked(map))
      BY <1>5, <2>1 DEF CoerceJson, Coerced
    <3>2. Marked(map) \subseteq Name
      BY DEF Marked, NamesInv
    <3>. QED
      BY <3>1, <3>2, CoercedAreNames DEF NamesInv
  <2>2. CASE Failing(map) # {}
    BY <1>5, <2>2 DEF CoerceJson, Coerced, NamesInv
  <2>. QED
    BY <2>1, <2>2
<1>. QED
  BY <1>1, <1>2, <1>3, <1>4, <1>5 DEF EnvNext

LEMMA NamesInvariant == Spec => []NamesInv
<1>1. Init => NamesInv
  BY DEF Init, EnvInit, NamesInv
<1>2. ASSUME NamesInv, [Next]_sourcesVars  PROVE NamesInv'
  <2>1. CASE EditJson
    BY <1>2, <2>1 DEF EditJson, envVars, NamesInv
  <2>2. CASE EditEnv
    BY <1>2, <2>2, NamesStep DEF EditEnv
  <2>3. CASE \E prefix \in PrefixesOfSources : PushJson(prefix)
    BY <1>2, <2>3 DEF PushJson, envVars, NamesInv
  <2>4. CASE PushEnv
    BY <2>4 DEF PushEnv, NamesInv
  <2>5. CASE UNCHANGED sourcesVars
    BY <1>2, <2>5 DEF sourcesVars, envVars, NamesInv
  <2>. QED
    BY <1>2, <2>1, <2>2, <2>3, <2>4, <2>5 DEF Next
<1>. QED
  BY <1>1, <1>2, PTL DEF Spec

\* It does not matter whether a program strips a prefix before or after
\* coerce_json(), unless a variable's suffix is cut by the prefix.
THEOREM StripsCommute == Spec => []StripCommutes
<1>1. NamesInv => StripCommutes
  BY EnvironmentAssumption, StrippedCoerced DEF NamesInv, StripCommutes
<1>. QED
  BY <1>1, NamesInvariant, PTL
=============================================================================
