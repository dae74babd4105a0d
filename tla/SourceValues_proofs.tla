------------------------ MODULE SourceValues_proofs ------------------------
(***************************************************************************)
(* Proofs about what becomes of the values of a source: the passes of the  *)
(* preprocessing add values and change none, except at configs and above,  *)
(* so that what the newest source says of a param is read back.            *)
(***************************************************************************)
EXTENDS ConfigRepository_proofs

LOCAL INSTANCE SequencesExt
LOCAL INSTANCE FiniteSetTheorems
-----------------------------------------------------------------------------
(* What a pass keeps *)

\* Everything that is not at a config or above is as before, but for the
\* secrecy of a string.
Keeps(t, u) ==
  \A path \in DOMAIN t \ ConfigAncestors :
    /\ path \in DOMAIN u
    /\ u[path].kind = t[path].kind /\ u[path].data = t[path].data

\* What a pass makes of a tree.
Grown(t, u) == u = Panicked \/ (SourceTree(u) /\ Keeps(t, u))

LEMMA GrownTransitive ==
  ASSUME NEW t, NEW u, NEW v, Grown(t, u), Grown(u, v), u = Panicked => v = Panicked
  PROVE  Grown(t, v)
BY DEF Grown, Keeps

\* ... and a loop of such passes.
LEMMA RunGrows ==
  ASSUME NEW after, NEW m \in Nat, NEW k \in 0..m, NEW t, Grown(t, after[k]),
         \A n \in 1..m : k < n /\ Grown(t, after[n - 1]) => Grown(t, after[n])
  PROVE  Grown(t, after[m])
<1>. DEFINE S == {n \in Nat : n >= k /\ n <= m => Grown(t, after[n])}
<1>1. 0 \in S
  OBVIOUS
<1>2. ASSUME NEW n \in Nat, n \in S  PROVE n + 1 \in S
  <2>. SUFFICES ASSUME n + 1 >= k, n + 1 <= m  PROVE Grown(t, after[n + 1])
    OBVIOUS
  <2>1. CASE n + 1 = k
    BY <2>1
  <2>2. CASE n >= k
    <3>1. Grown(t, after[n])
      BY <1>2, <2>2
    <3>2. n + 1 \in 1..m /\ k < n + 1 /\ (n + 1) - 1 = n
      BY <2>2
    <3>. QED
      BY <3>1, <3>2
  <2>. QED
    BY <2>1, <2>2
<1>3. Nat \subseteq S
  <2>. HIDE DEF S
  <2>. QED
    BY <1>1, <1>2, Copied!InductionOnSet
<1>. QED
  BY <1>3

\* Whatever is above a config, or above something above it, is so itself.
LEMMA AncestorsClosed ==
  ASSUME IndInv, NEW at \in ConfigAncestors, NEW path \in Seq(Seq(Word)),
         IsPrefix(path, at)
  PROVE  path \in ConfigAncestors
<1>1. CASE at = <<>>
  <2>1. path = <<>>
    BY <1>1 DEF IsPrefix
  <2>. QED
    BY <2>1 DEF ConfigAncestors
<1>2. ASSUME NEW key \in DOMAIN configs, at \in WithAncestors(key[1])
      PROVE  path \in ConfigAncestors
  <2>1. key[1] \in Seq(Seq(Word))
    BY KeysAreNames DEF IndInv, TypeOK, IsConfigs
  <2>2. at \in Seq(Seq(Word)) /\ IsPrefix(at, key[1])
    BY <1>2, <2>1, AncestorsArePrefixes
  <2>3. IsPrefix(path, key[1])
    BY <2>1, <2>2, PrefixTransitive
  <2>4. path # <<>> => path \in WithAncestors(key[1])
    BY <2>1, <2>3, AncestorsArePrefixes
  <2>. QED
    BY <2>4 DEF ConfigAncestors
<1>. QED
  BY <1>1, <1>2 DEF ConfigAncestors

LEMMA PrefixIsAncestor ==
  ASSUME IndInv, NEW key \in DOMAIN configs, NEW path \in Seq(Seq(Word)),
         IsPrefix(path, key[1])
  PROVE  key[1] \in Seq(Seq(Word)) /\ path \in ConfigAncestors
<1>1. key[1] \in Seq(Seq(Word))
  BY KeysAreNames DEF IndInv, TypeOK, IsConfigs
<1>2. path # <<>> => path \in WithAncestors(key[1])
  BY <1>1, AncestorsArePrefixes
<1>. QED
  BY <1>1, <1>2 DEF ConfigAncestors

\* An object that is made at a config.
LEMMA EnsureKeeps ==
  ASSUME IndInv, NEW key \in DOMAIN configs, NEW t, SourceTree(t),
         ~IsLeafAt(t, key[1]), NEW r, r = EnsureObject(t, key[1])
  PROVE  /\ SourceTree(r) /\ IsObjectAt(r, key[1]) /\ Keeps(t, r)
         /\ DOMAIN t \subseteq DOMAIN r
         /\ ChildKeys(r, key[1]) = ChildKeys(t, key[1])
<1>. DEFINE at == key[1]
<1>1. at \in Seq(Seq(Word))
  BY KeysAreNames DEF IndInv, TypeOK, IsConfigs
<1>0. r = EnsureObject(t, at) /\ ~IsLeafAt(t, at)
  OBVIOUS
<1>. HIDE DEF at
<1>2. SourceTree(r) /\ IsObjectAt(r, at)
  BY <1>0, <1>1, EnsureSource
<1>3. /\ DOMAIN r = DOMAIN t \cup WithAncestors(at)
      /\ \A path \in DOMAIN t :
           \/ r[path] = t[path]
           \/ path # at /\ IsPrefix(path, at) /\ r[path] = Object
  <2>2. DOMAIN r = DOMAIN t \cup WithAncestors(at)
    BY <1>0 DEF EnsureObject
  <2>3. \A path \in DOMAIN t :
          r[path] = t[path] \/ (IsStrictPrefix(path, at) /\ r[path] = Object)
    BY <1>0 DEF EnsureObject
  <2>. QED
    BY <2>2, <2>3 DEF IsStrictPrefix
<1>4. DOMAIN t \subseteq Seq(Seq(Word))
  BY SourceFacts
<1>5. \A path \in DOMAIN t : r[path] = t[path] \/ path \in ConfigAncestors
  BY <1>3, <1>4, PrefixIsAncestor DEF at
<1>6. \A path \in WithAncestors(at) : IsPrefix(at, path) => path = at
  BY <1>1, AncestorsArePrefixes, PrefixAntisymmetric
<1>7. Below(r, at) \ {at} = Below(t, at) \ {at}
  BY <1>3, <1>6 DEF Below
<1>. QED
  BY <1>2, <1>3, <1>5, <1>7 DEF Keeps, ChildKeys, at

\* Fields are inserted where there are none.
LEMMA ExtendMissingKeeps ==
  ASSUME NEW t, SourceTree(t), NEW at \in Seq(Seq(Word)), IsObjectAt(t, at),
         NEW children, DOMAIN children \subseteq Seq(Word),
         \A key \in DOMAIN children : TreeOver(Seq(Word), children[key]),
         DOMAIN children \cap ChildKeys(t, at) = {},
         NEW r, r = ExtendMap(t, at, children)
  PROVE  /\ SourceTree(r)
         /\ \A path \in DOMAIN t : path \in DOMAIN r /\ r[path] = t[path]
<1>1. SourceTree(r)
  BY ExtendSource
<1>2. ASSUME NEW path \in DOMAIN t  PROVE path \in DOMAIN r /\ r[path] = t[path]
  <2>1. path \in Seq(Seq(Word)) /\ TreeOver(Seq(Word), t)
    BY SourceFacts
  <2>2. ASSUME NEW key \in DOMAIN children, IsPrefix(Append(at, key), path)
        PROVE  FALSE
    <3>1. key \in Seq(Word)
      OBVIOUS
    <3>2. IsPrefix(at, path) /\ at # path /\ path[Len(at) + 1] = key
      BY <2>1, <2>2, <3>1, AppendIsPrefix
    <3>3. path \in Below(t, at) \ {at}
      BY <3>2 DEF Below
    <3>4. key \in ChildKeys(t, at)
      BY <3>2, <3>3 DEF ChildKeys
    <3>. QED
      BY <3>4
  <2>3. \A key \in DOMAIN children : ~IsPrefix(Append(at, key), path)
    BY <2>2
  <2>4. ASSUME NEW K, TreeOver(K, t), at \in Seq(K), DOMAIN children \subseteq K,
               \A key \in DOMAIN children : TreeOver(K, children[key])
        PROVE  path \in DOMAIN r /\ r[path] = t[path]
    BY <2>3, <2>4, ExtendMapIsTree
  <2>. QED
    BY <2>1, <2>4
<1>. QED
  BY <1>1, <1>2

LEMMA SameKeeps ==
  ASSUME NEW t, NEW u, \A path \in DOMAIN t : path \in DOMAIN u /\ u[path] = t[path]
  PROVE  Keeps(t, u)
BY DEF Keeps

\* copy_aliased_values for one config
LEMMA CopyAliasesKeeps ==
  ASSUME IndInv, NEW key \in DOMAIN configs, NEW t, SourceTree(t),
         NEW r, r = CopyAliasesFor(t, key)
  PROVE  Grown(t, r)
<1>. DEFINE s == AliasSources(key)
            values == AliasedValues(t, s)
            missing == {v.key : v \in values} \ ChildKeys(t, key[1])
            children == [k \in missing |-> Sub(t, FirstFor(values, k).at)]
            ensured == EnsureObject(t, key[1])
<1>1. GoodTree(r)
  BY CopyAliasesGood DEF GoodTree
<1>2. Keeps(t, t)
  BY DEF Keeps
<1>3. SUFFICES ASSUME ~IsLeafAt(t, key[1]), r = ExtendMap(ensured, key[1], children)
               PROVE  Keeps(t, r)
  <2>1. r = t \/ r = Panicked
          \/ (~IsLeafAt(t, key[1]) /\ r = ExtendMap(ensured, key[1], children))
    BY DEF CopyAliasesFor, CopyMissing
  <2>. HIDE DEF ensured, children
  <2>. QED
    BY <1>1, <1>2, <1>3, <2>1 DEF GoodTree, Grown
<1>4. /\ SourceTree(ensured) /\ IsObjectAt(ensured, key[1]) /\ Keeps(t, ensured)
      /\ DOMAIN t \subseteq DOMAIN ensured
      /\ ChildKeys(ensured, key[1]) = ChildKeys(t, key[1])
  BY <1>3, EnsureKeeps
<1>5. key[1] \in Seq(Seq(Word))
  BY KeysAreNames DEF IndInv, TypeOK, IsConfigs
<1>6. s \in Seq(ParamSource)
  BY AliasSourcesType
<1>7. ASSUME NEW k \in missing
      PROVE  k \in Seq(Word) /\ TreeOver(Seq(Word), children[k])
  <2>1. PICK v \in values : k = v.key
    OBVIOUS
  <2>2. FirstFor(values, k) \in values
    BY <1>6, <2>1, FirstForType
  <2>3. FirstFor(values, k).at \in DOMAIN t /\ k \in Seq(Word)
    BY <1>6, <2>1, <2>2, AliasedValuesType
  <2>. HIDE DEF values
  <2>4. TreeOver(Seq(Word), Sub(t, FirstFor(values, k).at))
    BY <2>3, SubSource
  <2>. QED
    BY <2>3, <2>4
<1>8. DOMAIN children = missing /\ missing \cap ChildKeys(t, key[1]) = {}
  OBVIOUS
<1>. HIDE DEF children, ensured, missing, values, s
<1>9. \A path \in DOMAIN ensured : path \in DOMAIN r /\ r[path] = ensured[path]
  BY <1>3, <1>4, <1>5, <1>7, <1>8, ExtendMissingKeeps
<1>. QED
  BY <1>4, <1>9 DEF Keeps

LEMMA MarkSecretsKeeps ==
  ASSUME NEW t, SourceTree(t)
  PROVE  Grown(t, MarkSecrets(t))
<1>. DEFINE r == MarkSecrets(t)
<1>1. GoodTree(r)
  BY MarkSecretsGood DEF GoodTree
<1>2. DOMAIN r = DOMAIN t
  BY DEF MarkSecrets
<1>3. \A path \in DOMAIN t : r[path].kind = t[path].kind /\ r[path].data = t[path].data
  BY DEF MarkSecrets
<1>. HIDE DEF r
<1>4. Keeps(t, r)
  BY <1>2, <1>3 DEF Keeps
<1>. QED
  BY <1>1, <1>4 DEF GoodTree, Grown, r

\* convert_serde_enums for one config
LEMMA ConvertKeeps ==
  ASSUME IndInv, NEW key \in DOMAIN configs, NEW t, SourceTree(t),
         NEW r, r = ConvertSerdeEnum(t, key)
  PROVE  Grown(t, r)
<1>. DEFINE tag == Meta[key[2]].tag
            ensured == EnsureObject(t, key[1])
<1>0. key \in Path(Key) \X Types
  BY DEF IndInv, TypeOK, IsConfigs
<1>1. GoodTree(r)
  BY <1>0, ConvertGood DEF GoodTree
<1>2. Keeps(t, t)
  BY DEF Keeps
<1>3. SUFFICES ASSUME tag # NoTag, tag.param \notin ChildKeys(t, key[1]),
                      ensured # Panicked, NEW name,
                      r = ExtendMap(ensured, key[1], Entry(tag.param, Single(Str(name))))
               PROVE  Keeps(t, r)
  <2>1. \/ r = t \/ r = Panicked
        \/ /\ tag # NoTag /\ tag.param \notin ChildKeys(t, key[1]) /\ ensured # Panicked
           /\ \E name : r = ExtendMap(ensured, key[1], Entry(tag.param, Single(Str(name))))
    BY DEF ConvertSerdeEnum
  <2>. HIDE DEF ensured, tag
  <2>. QED
    BY <1>1, <1>2, <1>3, <2>1 DEF GoodTree, Grown
<1>4. ~IsLeafAt(t, key[1])
  BY <1>3 DEF EnsureObject
<1>5. /\ SourceTree(ensured) /\ IsObjectAt(ensured, key[1]) /\ Keeps(t, ensured)
      /\ ChildKeys(ensured, key[1]) = ChildKeys(t, key[1])
  BY <1>4, EnsureKeeps
<1>6. key[1] \in Seq(Seq(Word))
  BY <1>0, KeysAreNames
<1>7. tag.param \in Seq(Word)
  <2>1. Meta[key[2]] \in ConfigMetadata
    BY <1>0, ConstantsAssumption
  <2>2. tag \in TagMeta
    BY <1>3, <2>1 DEF ConfigMetadata
  <2>. HIDE DEF tag
  <2>3. tag.param \in Key
    BY <2>2 DEF TagMeta
  <2>. QED
    BY <2>3, KeysAreNames
<1>. DEFINE children == Entry(tag.param, Single(Str(name)))
<1>8. /\ DOMAIN children \subseteq Seq(Word)
      /\ \A k \in DOMAIN children : TreeOver(Seq(Word), children[k])
  <2>1. TreeOver(Seq(Word), Single(Str(name)))
    BY SingleIsTree
  <2>. HIDE DEF tag
  <2>. QED
    BY <1>7, <2>1, EntryType
<1>9. DOMAIN children = {tag.param}
  BY DEF Entry
<1>10. r = ExtendMap(ensured, key[1], children)
  BY <1>3
<1>. HIDE DEF children, ensured, tag
<1>11. DOMAIN children \cap ChildKeys(ensured, key[1]) = {}
  BY <1>3, <1>5, <1>9
<1>12. \A path \in DOMAIN ensured : path \in DOMAIN r /\ r[path] = ensured[path]
  BY <1>5, <1>6, <1>8, <1>10, <1>11, ExtendMissingKeeps
<1>. QED
  BY <1>5, <1>12 DEF Keeps

\* Every value at `at` is in `r`.
Has(t, at, r) ==
  \A p \in Seq(Seq(Word)) :
    Join(at, p) \in DOMAIN t => p \in DOMAIN r /\ r[p] = t[Join(at, p)]

ExtendedSub(t, at, children) == ExtendMap(Sub(t, at), <<>>, children)

\* A value is extended by fields that it does not have.
LEMMA ExtendSubKeeps ==
  ASSUME NEW t, SourceTree(t), NEW at \in DOMAIN t, at \in Seq(Seq(Word)),
         t[at].kind = "object", NEW children, DOMAIN children \subseteq Seq(Word),
         \A key \in DOMAIN children : TreeOver(Seq(Word), children[key]),
         DOMAIN children \cap ChildKeys(t, at) = {}
  PROVE  Has(t, at, ExtendedSub(t, at, children))
<1>. DEFINE r == ExtendedSub(t, at, children)
<1>r. r = ExtendMap(Sub(t, at), <<>>, children)
  BY DEF ExtendedSub
<1>. HIDE DEF r
<1>. DEFINE sub == Sub(t, at)
<1>0. PICK root \in Seq(Seq(Word)) : root = <<>>
  <2>1. <<>> \in Seq(Seq(Word))
    OBVIOUS
  <2>. QED
    BY <2>1
<1>1. TreeOver(Seq(Word), t)
  BY SourceFacts
<1>2. /\ TreeOver(Seq(Word), sub)
      /\ \A p \in DOMAIN sub : sub[p] = t[Join(at, p)]
      /\ \A p \in Seq(Seq(Word)) : Join(at, p) \in DOMAIN t => p \in DOMAIN sub
  BY <1>1, SubIsTree
<1>3. IsObjectAt(sub, <<>>) /\ <<>> \in Seq(Seq(Word))
  <2>1. sub[<<>>] = t[at]
    BY SubSource
  <2>2. <<>> \in DOMAIN sub
    BY <1>2, RootIsThere
  <2>. HIDE DEF sub
  <2>. QED
    BY <2>1, <2>2 DEF IsObjectAt
<1>4. ASSUME NEW p \in DOMAIN sub, NEW key \in DOMAIN children,
             IsPrefix(Append(root, key), p)
      PROVE  FALSE
  <2>1. p \in Seq(Seq(Word)) /\ key \in Seq(Word) /\ at \in Seq(Seq(Word))
    BY <1>2 DEF TreeOver, Path
  <2>2. <<>> # p /\ p[1] = key
    <3>1. Len(root) + 1 = 1
      BY <1>0
    <3>2. root # p /\ p[Len(root) + 1] = key
      BY <1>4, <2>1, AppendIsPrefix
    <3>. QED
      BY <1>0, <3>1, <3>2
  <2>3. Join(at, p) \in DOMAIN t
    BY <1>1, <2>1, SubIsTree
  <2>4. Len(p) \in Nat /\ Len(p) >= 1
    BY <2>1, <2>2
  <2>5. /\ IsPrefix(at, Join(at, p)) /\ Len(Join(at, p)) = Len(at) + Len(p)
        /\ \A i \in 1..Len(p) : Join(at, p)[Len(at) + i] = p[i]
    BY <2>1, JoinType
  <2>6. Join(at, p)[Len(at) + 1] = key
    BY <2>2, <2>4, <2>5
  <2>7. Join(at, p) # at
    <3>1. Len(at) \in Nat
      BY <2>1
    <3>. QED
      BY <2>4, <2>5, <3>1
  <2>8. Join(at, p) \in Below(t, at) \ {at}
    BY <2>3, <2>5, <2>7 DEF Below
  <2>9. key \in ChildKeys(t, at)
    BY <2>6, <2>8 DEF ChildKeys
  <2>. QED
    BY <2>9
<1>. HIDE DEF sub
<1>5. \A p \in DOMAIN sub : p \in DOMAIN r /\ r[p] = sub[p]
  <2>1. r = ExtendMap(sub, root, children)
    BY <1>0, <1>r DEF sub
  <2>2. IsObjectAt(sub, root)
    BY <1>0, <1>3
  <2>3. \A p \in DOMAIN sub :
          (\A key \in DOMAIN children : ~IsPrefix(Append(root, key), p))
            => p \in DOMAIN r /\ r[p] = sub[p]
    BY <1>2, <2>1, <2>2, ExtendMapIsTree
  <2>. QED
    BY <1>4, <2>3
<1>. QED
  BY <1>2, <1>5 DEF Has, r

\* nest_object_params_and_sub_configs for one config: a child that collects
\* fields keeps those it has.
LEMMA NestObjectsKeeps ==
  ASSUME NEW key \in Path(Key) \X Types, NEW t, SourceTree(t),
         NEW r, r = NestObjectsFor(t, key)
  PROVE  Grown(t, r)
<1>. DEFINE prefix == key[1]
            target(child) == Append(prefix, child.key)
            matching(child) == (SuffixesAt(t, prefix, child.key) \cap child.suffixes)
                                 \ ChildKeys(t, target(child))
            filled == {child \in NestingChildren(key) :
                         ~IsLeafAt(t, target(child)) /\ matching(child) # {}}
            field(child, s) == Sub(t, Append(prefix, child.key \o s))
            inner(child) == IF target(child) \in DOMAIN t
                            THEN Sub(t, target(child)) ELSE Single(Object)
            fields(child) == [s \in matching(child) |-> field(child, s)]
            value(child) == ExtendMap(inner(child), <<>>, fields(child))
            children == [k \in {child.key : child \in filled} |->
                           value(CHOOSE child \in filled : child.key = k)]
<1>0. r = IF t = Panicked \/ filled = {} THEN t ELSE ExtendMap(t, prefix, children)
  BY DEF NestObjectsFor
<1>1. GoodTree(r)
  BY NestObjectsGood DEF GoodTree
<1>2. SUFFICES ASSUME filled # {}, r = ExtendMap(t, prefix, children),
                      NEW path \in DOMAIN t
               PROVE  path \in DOMAIN r /\ r[path] = t[path]
  <2>1. Keeps(t, t)
    BY DEF Keeps
  <2>2. CASE r = t
    BY <1>1, <2>1, <2>2 DEF Grown, GoodTree
  <2>3. CASE \A path \in DOMAIN t : path \in DOMAIN r /\ r[path] = t[path]
    BY <1>1, <2>3, SameKeeps DEF Grown, GoodTree
  <2>. HIDE DEF filled, children
  <2>. QED
    BY <1>0, <1>2, <2>2, <2>3
<1>3. prefix \in Seq(Seq(Word)) /\ path \in Seq(Seq(Word)) /\ TreeOver(Seq(Word), t)
  BY SourceFacts, KeysAreNames
<1>4. ASSUME NEW child \in filled
      PROVE  /\ child.key \in Seq(Word) /\ IsObjectAt(t, prefix)
             /\ DOMAIN fields(child) \subseteq Seq(Word)
             /\ DOMAIN fields(child) = matching(child)
             /\ \A s \in DOMAIN fields(child) : TreeOver(Seq(Word), fields(child)[s])
             /\ DOMAIN fields(child) \cap ChildKeys(t, target(child)) = {}
  <2>1. child.key \in Seq(Word)
    BY NestingChildrenType
  <2>2. ASSUME NEW s \in matching(child)
        PROVE  /\ s \in Seq(Word) /\ IsObjectAt(t, prefix)
               /\ TreeOver(Seq(Word), field(child, s))
    <3>. HIDE DEF prefix
    <3>1. s \in Seq(Word) /\ IsObjectAt(t, prefix)
          /\ Append(prefix, child.key \o s) \in DOMAIN t
      BY <1>3, <2>1, <2>2, SuffixIsThere
    <3>. QED
      BY <3>1, SubSource
  <2>3. matching(child) # {} /\ matching(child) \cap ChildKeys(t, target(child)) = {}
    OBVIOUS
  <2>4. DOMAIN fields(child) = matching(child)
        /\ \A s \in matching(child) : fields(child)[s] = field(child, s)
    OBVIOUS
  <2>. HIDE DEF prefix, matching, field, fields, filled
  <2>. QED
    BY <2>1, <2>2, <2>3, <2>4
<1>5. DOMAIN children = {child.key : child \in filled}
      /\ \A k \in DOMAIN children :
           children[k] = value(CHOOSE child \in filled : child.key = k)
  OBVIOUS
<1>6. \A child \in filled : ~IsLeafAt(t, target(child))
  OBVIOUS
<1>. HIDE DEF filled, matching, fields, children, field
<1>7. IsObjectAt(t, prefix)
  BY <1>2, <1>4
<1>8. ASSUME NEW k \in DOMAIN children
      PROVE  /\ k \in Seq(Word) /\ TreeOver(Seq(Word), children[k])
             /\ \A p \in Seq(Seq(Word)) : Join(Append(prefix, k), p) \in DOMAIN t =>
                  p \in DOMAIN children[k] /\ children[k][p] = t[Join(Append(prefix, k), p)]
  <2>. DEFINE child == CHOOSE child \in filled : child.key = k
  <2>1. child \in filled /\ child.key = k
    BY <1>5
  <2>2. children[k] = value(child)
    BY <1>5
  <2>. HIDE DEF child
  <2>3. k \in Seq(Word) /\ target(child) = Append(prefix, k)
    BY <1>4, <2>1
  <2>4. target(child) \in Seq(Seq(Word))
    <3>. HIDE DEF prefix
    <3>. QED
      BY <1>3, <2>3
  <2>5. <<>> \in Seq(Seq(Word))
    OBVIOUS
  <2>6. CASE target(child) \in DOMAIN t
    <3>1. t[target(child)].kind = "object"
      BY <1>6, <2>1, <2>6 DEF IsLeafAt
    <3>2. inner(child) = Sub(t, target(child)) /\ TreeOver(Seq(Word), inner(child))
          /\ IsObjectAt(inner(child), <<>>)
      <4>1. inner(child) = Sub(t, target(child))
        BY <2>6
      <4>2. TreeOver(Seq(Word), Sub(t, target(child)))
            /\ Sub(t, target(child))[<<>>] = t[target(child)]
        BY <2>6, SubSource
      <4>. HIDE DEF inner, target
      <4>. QED
        BY <3>1, <4>1, <4>2, RootIsThere DEF IsObjectAt
    <3>. HIDE DEF target, inner
    <3>3. TreeOver(Seq(Word), value(child))
      BY <1>4, <2>1, <2>5, <3>2, ExtendMapIsTree
    <3>4. value(child) = ExtendedSub(t, target(child), fields(child))
      BY <3>2 DEF ExtendedSub
    <3>5. Has(t, target(child), value(child))
      <4>1. target(child) \in DOMAIN t /\ target(child) \in Seq(Seq(Word))
            /\ t[target(child)].kind = "object"
        BY <2>4, <2>6, <3>1
      <4>2. /\ DOMAIN fields(child) \subseteq Seq(Word)
            /\ \A s \in DOMAIN fields(child) : TreeOver(Seq(Word), fields(child)[s])
            /\ DOMAIN fields(child) \cap ChildKeys(t, target(child)) = {}
        BY <1>4, <2>1
      <4>. HIDE DEF value
      <4>. QED
        BY <3>4, <4>1, <4>2, ExtendSubKeeps
    <3>. HIDE DEF value
    <3>. QED
      BY <2>2, <2>3, <3>3, <3>5 DEF Has
  <2>7. CASE target(child) \notin DOMAIN t
    <3>1. inner(child) = Single(Object)
      BY <2>7
    <3>2. TreeOver(Seq(Word), inner(child)) /\ IsObjectAt(inner(child), <<>>)
      <4>. HIDE DEF inner
      <4>. QED
        BY <3>1, SingleIsSource, SourceFacts
    <3>. HIDE DEF target, inner
    <3>3. TreeOver(Seq(Word), value(child))
      BY <1>4, <2>1, <2>5, <3>2, ExtendMapIsTree
    <3>4. ASSUME NEW p \in Seq(Seq(Word)), Join(target(child), p) \in DOMAIN t
          PROVE  FALSE
      <4>1. IsPrefix(target(child), Join(target(child), p))
        BY <2>4, JoinType
      <4>. QED
        BY <1>3, <2>4, <2>7, <3>4, <4>1, TreeAncestors
    <3>. HIDE DEF value
    <3>. QED
      BY <2>2, <2>3, <3>3, <3>4
  <2>. QED
    BY <2>6, <2>7
<1>. HIDE DEF prefix, value, target, inner
<1>9. CASE \E k \in DOMAIN children : IsPrefix(Append(prefix, k), path)
  <2>1. PICK k \in DOMAIN children : IsPrefix(Append(prefix, k), path)
    BY <1>9
  <2>2. k \in Seq(Word) /\ Append(prefix, k) \in Seq(Seq(Word))
    BY <1>3, <1>8
  <2>. DEFINE p == Relative(Append(prefix, k), path)
  <2>3. p \in Seq(Seq(Word)) /\ Join(Append(prefix, k), p) = path
    BY <1>3, <2>1, <2>2, PrefixSplits
  <2>. HIDE DEF p
  <2>4. p \in DOMAIN children[k] /\ children[k][p] = t[path]
    BY <1>8, <2>3
  <2>5. Join(Append(prefix, k), p) \in DOMAIN r
        /\ r[Join(Append(prefix, k), p)] = children[k][p]
    BY <1>2, <1>3, <1>7, <1>8, <2>4, ExtendMapIsTree
  <2>. QED
    BY <2>3, <2>4, <2>5
<1>10. CASE \A k \in DOMAIN children : ~IsPrefix(Append(prefix, k), path)
  BY <1>2, <1>3, <1>7, <1>8, <1>10, ExtendMapIsTree
<1>. QED
  BY <1>9, <1>10

\* nest_array_params for one param
LEMMA NestArrayKeeps ==
  ASSUME NEW site \in ArraySite, NEW t, SourceTree(t),
         NEW r, r = NestArrayParam(t, site)
  PROVE  Grown(t, r)
<1>. DEFINE name == ParamKey(site.param)
<1>1. GoodTree(r)
  BY NestArrayGood DEF GoodTree
<1>2. Keeps(t, t)
  BY DEF Keeps
<1>3. SUFFICES ASSUME IsObjectAt(t, site.prefix), name \notin ChildKeys(t, site.prefix),
                      NEW data, r = ExtendMap(t, site.prefix, Entry(name, Single(Array(data))))
               PROVE  Keeps(t, r)
  <2>1. \/ r = t
        \/ /\ IsObjectAt(t, site.prefix) /\ name \notin ChildKeys(t, site.prefix)
           /\ \E data : r = ExtendMap(t, site.prefix, Entry(name, Single(Array(data))))
    BY DEF NestArrayParam, TakesItems, WithItems
  <2>. HIDE DEF name
  <2>. QED
    BY <1>1, <1>2, <1>3, <2>1 DEF GoodTree, Grown
<1>4. site.prefix \in Seq(Seq(Word)) /\ site.param \in ParamMeta
  BY KeysAreNames DEF ArraySite
<1>5. name \in Seq(Word)
  <2>1. PICK key \in Key : site.param.name = <<key>>
    BY <1>4 DEF ParamMeta
  <2>. QED
    BY <2>1, KeysAreNames DEF ParamKey
<1>6. TreeOver(Seq(Word), Single(Array(data)))
  BY SingleIsTree
<1>. DEFINE children == Entry(name, Single(Array(data)))
<1>7. /\ DOMAIN children \subseteq Seq(Word) /\ DOMAIN children = {name}
      /\ \A k \in DOMAIN children : TreeOver(Seq(Word), children[k])
  <2>. HIDE DEF name
  <2>. QED
    BY <1>5, <1>6, EntryType DEF Entry
<1>8. r = ExtendMap(t, site.prefix, children)
  BY <1>3
<1>. HIDE DEF name, children
<1>9. DOMAIN children \cap ChildKeys(t, site.prefix) = {}
  BY <1>3, <1>7
<1>10. \A path \in DOMAIN t : path \in DOMAIN r /\ r[path] = t[path]
  BY <1>3, <1>4, <1>7, <1>8, <1>9, ExtendMissingKeeps
<1>. QED
  BY <1>10, SameKeeps
-----------------------------------------------------------------------------
(* Whole passes *)

LEMMA StepGrows ==
  ASSUME NEW t, NEW u, NEW v, Grown(t, u), u = Panicked => v = Panicked,
         SourceTree(u) => Grown(u, v)
  PROVE  Grown(t, v)
BY GrownTransitive DEF Grown

LEMMA CopyStepGrows ==
  ASSUME IndInv, NEW key \in DOMAIN configs, NEW t, NEW u, Grown(t, u)
  PROVE  Grown(t, CopyAliasesFor(u, key))
<1>1. u = Panicked => CopyAliasesFor(u, key) = Panicked
  BY DEF CopyAliasesFor
<1>2. SourceTree(u) => Grown(u, CopyAliasesFor(u, key))
  BY CopyAliasesKeeps
<1>. QED
  BY <1>1, <1>2, StepGrows

LEMMA ConvertAllGrows ==
  ASSUME IndInv, NEW o \in Seq(DOMAIN configs), NEW t, NEW u, Grown(t, u)
  PROVE  Grown(t, ConvertSerdeEnums(u, o))
<1>1. PICK after : /\ after[0] = u
                   /\ \A n \in 1..Len(o) : after[n] = ConvertSerdeEnum(after[n - 1], o[n])
                   /\ Converted!Visit(u, o) = after[Len(o)]
  BY Converted!VisitRuns
<1>2. ASSUME NEW n \in 1..Len(o), Grown(t, after[n - 1])  PROVE Grown(t, after[n])
  <2>1. o[n] \in DOMAIN configs
    OBVIOUS
  <2>2. after[n - 1] = Panicked => ConvertSerdeEnum(after[n - 1], o[n]) = Panicked
    BY DEF ConvertSerdeEnum
  <2>3. SourceTree(after[n - 1]) => Grown(after[n - 1], ConvertSerdeEnum(after[n - 1], o[n]))
    BY <2>1, ConvertKeeps
  <2>. QED
    BY <1>1, <1>2, <2>2, <2>3, StepGrows
<1>3. Len(o) \in Nat /\ 0 \in 0..Len(o)
  OBVIOUS
<1>4. Grown(t, after[Len(o)])
  BY <1>1, <1>2, <1>3, RunGrows
<1>. QED
  BY <1>1, <1>4 DEF ConvertSerdeEnums, Converting!Visit, Converted!Visit

LEMMA NestAllObjectsGrows ==
  ASSUME NEW o \in Seq(Path(Key) \X Types), NEW t, NEW u, Grown(t, u)
  PROVE  Grown(t, NestObjects(u, o))
<1>1. PICK after : /\ after[0] = u
                   /\ \A n \in 1..Len(o) : after[n] = NestObjectsFor(after[n - 1], o[n])
                   /\ NestedObjects!Visit(u, o) = after[Len(o)]
  BY NestedObjects!VisitRuns
<1>2. ASSUME NEW n \in 1..Len(o), Grown(t, after[n - 1])  PROVE Grown(t, after[n])
  <2>1. o[n] \in Path(Key) \X Types
    OBVIOUS
  <2>2. after[n - 1] = Panicked => NestObjectsFor(after[n - 1], o[n]) = Panicked
    BY DEF NestObjectsFor
  <2>3. SourceTree(after[n - 1]) => Grown(after[n - 1], NestObjectsFor(after[n - 1], o[n]))
    BY <2>1, NestObjectsKeeps
  <2>. QED
    BY <1>1, <1>2, <2>2, <2>3, StepGrows
<1>3. Len(o) \in Nat /\ 0 \in 0..Len(o)
  OBVIOUS
<1>4. Grown(t, after[Len(o)])
  BY <1>1, <1>2, <1>3, RunGrows
<1>. QED
  BY <1>1, <1>4 DEF NestObjects, NestingObjects!Visit, NestedObjects!Visit

LEMMA NestAllArraysGrows ==
  ASSUME NEW o \in Seq(Path(Key) \X Types), NEW t, NEW u, Grown(t, u)
  PROVE  Grown(t, NestArrays(u, o))
<1>. DEFINE f == [i \in DOMAIN o |-> ParamSites(o[i])]
            sites == FlattenSeq(f)
<1>1. ASSUME NEW i \in DOMAIN o  PROVE ParamSites(o[i]) \in Seq(ArraySite)
  <2>. DEFINE params == Meta[o[i][2]].params
  <2>1. o[i] \in Path(Key) \X Types
    OBVIOUS
  <2>2. params \in Seq(ParamMeta)
    BY <2>1, MetaTypes
  <2>3. ParamSites(o[i]) = [k \in DOMAIN params |-> [prefix |-> o[i][1], param |-> params[k]]]
    BY DEF ParamSites
  <2>. HIDE DEF params
  <2>4. \A k \in DOMAIN params : [prefix |-> o[i][1], param |-> params[k]] \in ArraySite
    BY <2>1, <2>2 DEF ArraySite
  <2>5. DOMAIN params = 1..Len(params) /\ Len(params) \in Nat
    BY <2>2
  <2>. QED
    BY <2>3, <2>4, <2>5
<1>2. DOMAIN o = 1..Len(o) /\ Len(o) \in Nat
  OBVIOUS
<1>3. f \in Seq(Seq(ArraySite))
  BY <1>1, <1>2
<1>. HIDE DEF f
<1>4. sites \in Seq(ArraySite)
  BY <1>3, FlattenType
<1>. HIDE DEF sites
<1>5. PICK after :
        /\ after[0] = u
        /\ \A n \in 1..Len(sites) : after[n] = NestArrayParam(after[n - 1], sites[n])
        /\ NestedArrays!Visit(u, sites) = after[Len(sites)]
  BY <1>4, NestedArrays!VisitRuns
<1>6. ASSUME NEW n \in 1..Len(sites), Grown(t, after[n - 1])  PROVE Grown(t, after[n])
  <2>1. sites[n] \in ArraySite
    BY <1>4
  <2>2. after[n - 1] = Panicked => NestArrayParam(after[n - 1], sites[n]) = Panicked
    BY DEF NestArrayParam, TakesItems
  <2>3. SourceTree(after[n - 1]) => Grown(after[n - 1], NestArrayParam(after[n - 1], sites[n]))
    BY <2>1, NestArrayKeeps
  <2>. QED
    BY <1>5, <1>6, <2>2, <2>3, StepGrows
<1>7. Len(sites) \in Nat /\ 0 \in 0..Len(sites)
  BY <1>4
<1>8. Grown(t, after[Len(sites)])
  BY <1>5, <1>6, <1>7, RunGrows
<1>. QED
  BY <1>5, <1>8 DEF NestArrays, NestingArrays!Visit, NestedArrays!Visit, sites, f

\* mark_secrets and what comes after it, but for the garbage collection.
LaterPasses(t, o, d) ==
  NestArrays(NestObjects(ConvertSerdeEnums(MarkSecrets(t), d), o), o)

LEMMA LaterPassesGrow ==
  ASSUME IndInv, NEW o \in Seq(DOMAIN configs), NEW d \in Seq(DOMAIN configs),
         NEW t, NEW u, Grown(t, u)
  PROVE  Grown(t, LaterPasses(u, o, d))
<1>1. o \in Seq(Path(Key) \X Types)
  <2>1. DOMAIN configs \subseteq Path(Key) \X Types
    BY DEF IndInv, TypeOK, IsConfigs
  <2>. QED
    BY <2>1, SeqMonotonic
<1>2. Grown(t, MarkSecrets(u))
  <2>1. u = Panicked => MarkSecrets(u) = Panicked
    BY DEF MarkSecrets, Panicked
  <2>2. SourceTree(u) => Grown(u, MarkSecrets(u))
    BY MarkSecretsKeeps
  <2>. QED
    BY <2>1, <2>2, StepGrows
<1>3. Grown(t, ConvertSerdeEnums(MarkSecrets(u), d))
  BY <1>2, ConvertAllGrows
<1>4. Grown(t, NestObjects(ConvertSerdeEnums(MarkSecrets(u), d), o))
  BY <1>1, <1>3, NestAllObjectsGrows
<1>. QED
  BY <1>1, <1>4, NestAllArraysGrows DEF LaterPasses
-----------------------------------------------------------------------------
(* A value that is there, up to the merge *)

\* The tree has at least this value at `x`.
Holds(t, x, v) ==
  \A r \in DOMAIN v :
    /\ Join(x, r) \in DOMAIN t
    /\ t[Join(x, r)].kind = v[r].kind /\ t[Join(x, r)].data = v[r].data

\* The passes keep it, unless it is at a config or above.
LEMMA HoldsGrows ==
  ASSUME IndInv, NEW x \in Seq(Seq(Word)), x \notin ConfigAncestors,
         NEW v, DOMAIN v \subseteq Seq(Seq(Word)),
         NEW t, NEW u, Holds(t, x, v), Grown(t, u), u # Panicked
  PROVE  SourceTree(u) /\ Holds(u, x, v)
<1>1. SourceTree(u) /\ Keeps(t, u)
  BY DEF Grown
<1>2. ASSUME NEW r \in DOMAIN v  PROVE Join(x, r) \notin ConfigAncestors
  <2>1. IsPrefix(x, Join(x, r))
    BY JoinType
  <2>. QED
    BY <2>1, AncestorsClosed
<1>. QED
  BY <1>1, <1>2 DEF Holds, Keeps

\* The params of the schema.
LEMMA ParamFacts ==
  ASSUME IndInv, NEW p \in Params
  PROVE  /\ p.key \in DOMAIN configs /\ p.key \in Path(Key) \X Types
         /\ p.param \in ParamMeta
         /\ \E i \in DOMAIN Meta[p.key[2]].params : p.param = Meta[p.key[2]].params[i]
         /\ p.param.name = <<ParamKey(p.param)>> /\ ParamKey(p.param) \in Key
         /\ ParamKey(p.param) \in Seq(Word) /\ p.key[1] \in Seq(Seq(Word))
         /\ p.path = Append(p.key[1], ParamKey(p.param))
         /\ p.path \in Seq(Seq(Word)) /\ p.path # <<>>
         /\ p.path = Join(p.key[1], p.param.name)
<1>0. PICK key \in DOMAIN configs :
        p \in {[key |-> key, param |-> Meta[key[2]].params[i],
               path |-> Join(key[1], Meta[key[2]].params[i].name)] :
                i \in DOMAIN Meta[key[2]].params}
  BY DEF Params
<1>1. PICK i \in DOMAIN Meta[key[2]].params :
        p = [key |-> key, param |-> Meta[key[2]].params[i],
             path |-> Join(key[1], Meta[key[2]].params[i].name)]
  BY <1>0
<1>2. /\ p.key = key /\ p.param = Meta[key[2]].params[i]
      /\ p.path = Join(key[1], Meta[key[2]].params[i].name)
  BY <1>1
<1>3. key \in Path(Key) \X Types
  BY DEF IndInv, TypeOK, IsConfigs
<1>4. p.param \in ParamMeta
  <2>1. Meta[key[2]].params \in Seq(ParamMeta)
    BY <1>3, MetaTypes
  <2>. QED
    BY <1>2, <2>1
<1>5. PICK k \in Key : p.param.name = <<k>>
  BY <1>4 DEF ParamMeta
<1>6. ParamKey(p.param) = k
  BY <1>5 DEF ParamKey
<1>7. key[1] \in Seq(Seq(Word)) /\ k \in Seq(Word)
  BY <1>3, KeysAreNames
<1>8. p.path = Append(key[1], k)
  BY <1>2, <1>5, <1>7 DEF Join
<1>9. Append(key[1], k) \in Seq(Seq(Word)) /\ Append(key[1], k) # <<>>
  BY <1>7, AppendIsPrefix
<1>. QED
  BY <1>2, <1>3, <1>4, <1>5, <1>6, <1>7, <1>8, <1>9

\* What is above a param is above its config, or that config.
LEMMA AboveParam ==
  ASSUME IndInv, NEW p \in Params, NEW path \in Seq(Seq(Word)),
         IsPrefix(path, p.path), path # p.path
  PROVE  IsPrefix(path, p.key[1]) /\ path \in ConfigAncestors
<1>1. /\ p.key \in DOMAIN configs /\ p.key[1] \in Seq(Seq(Word))
      /\ ParamKey(p.param) \in Seq(Word)
      /\ p.path = Append(p.key[1], ParamKey(p.param)) /\ p.path \in Seq(Seq(Word))
  BY ParamFacts
<1>2. ParentOf(p.path) = p.key[1]
  BY <1>1, AppendIsPrefix
<1>3. IsPrefix(path, p.key[1])
  BY <1>1, <1>2, StrictPrefixOfParent
<1>. QED
  BY <1>1, <1>3, PrefixIsAncestor

LEMMA ParamIsCanonical ==
  ASSUME IndInv, StructureInv, NEW p \in Params
  PROVE  p.path \in CanonicalPaths
<1>1. PICK i \in DOMAIN Meta[p.key[2]].params : p.param = Meta[p.key[2]].params[i]
  BY ParamFacts
<1>2. p.key \in DOMAIN configs /\ p.path = Join(p.key[1], p.param.name)
  BY ParamFacts
<1>3. p.path \in DOMAIN mounts /\ mounts[p.path].canonical
  BY <1>1, <1>2 DEF StructureInv, MarkedInv, CanonicalParamsMarked, ParamsMarked
<1>4. mounts[p.path] \in {ConfigMount} \cup ParamMount
  BY <1>3 DEF IndInv, TypeOK, IsMounts
<1>5. mounts[p.path].kind = "param"
  BY <1>3, <1>4 DEF ConfigMount, ParamMount
<1>. QED
  BY <1>3, <1>5 DEF CanonicalPaths

\* The value of a param is not garbage.
LEMMA HoldsCollected ==
  ASSUME IndInv, StructureInv, TablesInv, NEW p \in Params,
         NEW t, SourceTree(t), NEW v, <<>> \in DOMAIN v,
         DOMAIN v \subseteq Seq(Seq(Word)), Holds(t, p.path, v)
  PROVE  Holds(CollectGarbage(t), p.path, v)
<1>. DEFINE x == p.path
<1>1. x \in Seq(Seq(Word)) /\ TreeOver(Seq(Word), t) /\ t # Panicked
  BY ParamFacts, SourceFacts
<1>2. x \in DOMAIN t
  <2>1. Join(x, <<>>) \in DOMAIN t
    BY DEF Holds
  <2>2. Join(x, <<>>) = x
    BY <1>1, JoinType
  <2>. HIDE DEF x
  <2>. QED
    BY <2>1, <2>2
<1>3. x \in CanonicalPaths
  BY ParamIsCanonical
<1>4. PICK end \in Terminals(t) : IsPrefix(end, x) /\ end \in Seq(Seq(Word))
  <2>. DEFINE C == {path \in CanonicalPaths : path \in Seq(Seq(Word)) /\ IsPrefix(path, x)}
              L == {Len(path) : path \in C}
  <2>1. x \in C
    BY <1>1, <1>3, PrefixReflexive
  <2>2. L \in SUBSET Nat /\ L # {}
    <3>1. \A path \in C : Len(path) \in Nat
      OBVIOUS
    <3>. HIDE DEF C
    <3>. QED
      BY <2>1, <3>1
  <2>3. PICK n \in L : \A m \in L : n <= m
    BY <2>2, Copied!LeastNumber
  <2>4. PICK end \in C : Len(end) = n
    BY <2>3
  <2>5. \A path \in C : Len(end) <= Len(path)
    BY <2>3, <2>4
  <2>6. end \in DOMAIN t
    BY <1>1, <1>2, <2>4, TreeAncestors
  <2>7. ASSUME NEW q \in ({<<>>} \cup WithAncestors(end)) \ {end}
        PROVE  q \in ConfigAncestors \ CanonicalPaths
    <3>1. q \in Seq(Seq(Word)) /\ IsPrefix(q, end) /\ q # end
      <4>1. CASE q = <<>>
        <5>1. <<>> \in Seq(Seq(Word)) /\ IsPrefix(<<>>, end)
          BY <2>4, PrefixReflexive
        <5>. QED
          BY <2>7, <4>1, <5>1
      <4>2. CASE q \in WithAncestors(end)
        BY <2>4, <2>7, <4>2, AncestorsArePrefixes
      <4>. QED
        BY <2>7, <4>1, <4>2
    <3>2. IsPrefix(q, x)
      BY <1>1, <2>4, <3>1, PrefixTransitive
    <3>3. Len(q) < Len(end)
      BY <2>4, <3>1, StrictPrefixOfParent
    <3>4. Len(q) \in Nat /\ Len(end) \in Nat
      BY <2>4, <3>1
    <3>5. q \notin C
      BY <2>5, <3>3, <3>4
    <3>6. q # x
      <4>1. Len(end) <= Len(x)
        BY <2>1, <2>5
      <4>. QED
        BY <1>1, <3>3, <3>4, <4>1
    <3>7. q \in ConfigAncestors
      BY <3>1, <3>2, <3>6, AboveParam
    <3>. QED
      BY <3>1, <3>2, <3>5, <3>7
  <2>8. end \in Terminals(t)
    BY <2>4, <2>6, <2>7 DEF Terminals
  <2>. QED
    BY <2>4, <2>8
<1>5. ASSUME NEW r \in DOMAIN v
      PROVE  /\ Join(x, r) \in DOMAIN CollectGarbage(t)
             /\ CollectGarbage(t)[Join(x, r)] = t[Join(x, r)]
  <2>1. Join(x, r) \in DOMAIN t
    BY DEF Holds
  <2>2. IsPrefix(x, Join(x, r)) /\ Join(x, r) \in Seq(Seq(Word))
    BY <1>1, JoinType
  <2>3. IsPrefix(end, Join(x, r))
    BY <1>1, <1>4, <2>2, PrefixTransitive
  <2>4. Join(x, r) \in Retained(t, Terminals(t))
    BY <1>4, <2>1, <2>3 DEF Retained
  <2>. QED
    BY <1>1, <2>4 DEF CollectGarbage
<1>. QED
  BY <1>5 DEF Holds

\* What is merged over the other sources is what is read.
LEMMA HoldsRead ==
  ASSUME NEW x \in Seq(Seq(Word)), NEW v, <<>> \in DOMAIN v,
         DOMAIN v \subseteq Seq(Seq(Word)), NEW m, NEW o, Holds(o, x, v),
         NEW atoms, NEW r, r = Merge(m, o, atoms), SourceTree(r)
  PROVE  Carries(Sub(r, x), v)
<1>1. Holds(r, x, v)
  BY MergeWins DEF Holds
<1>2. x \in DOMAIN r
  <2>1. Join(x, <<>>) \in DOMAIN r
    BY <1>1 DEF Holds
  <2>2. Join(x, <<>>) = x
    BY JoinType
  <2>. QED
    BY <2>1, <2>2
<1>3. TreeOver(Seq(Word), r)
  BY SourceFacts
<1>4. ASSUME NEW q \in DOMAIN v
      PROVE  q \in DOMAIN Sub(r, x) /\ Sub(r, x)[q] = r[Join(x, q)]
  <2>1. q \in Seq(Seq(Word)) /\ Join(x, q) \in DOMAIN r
    BY <1>1 DEF Holds
  <2>. QED
    BY <1>2, <1>3, <2>1, SubIsTree
<1>. QED
  BY <1>1, <1>4 DEF Carries, Holds
-----------------------------------------------------------------------------
(* The first path *)

\* So the first path of a param is where it is.
LEMMA FirstPathOfParam ==
  ASSUME IndInv, CanonicalFirst, NEW p \in Params
  PROVE  LET paths == AllPathsForChild(configs[p.key], p.param)
         IN  /\ paths \in Seq(PathEntry) /\ 1 \in DOMAIN paths
             /\ paths[1].path = p.path /\ p.path # NoPath
<1>1. /\ p.key \in DOMAIN configs /\ p.param \in ParamMeta
      /\ p.path = Join(p.key[1], p.param.name) /\ p.key \in Path(Key) \X Types
  BY ParamFacts
<1>2. configs[p.key] \in ConfigData /\ StartsAt(configs[p.key], p.key[1])
  BY <1>1 DEF CanonicalFirst, IndInv, TypeOK, IsConfigs
<1>3. p.param \in ChildMeta
  BY <1>1 DEF ChildMeta
<1>4. AllPathsForChild(configs[p.key], p.param) \in Seq(PathEntry)
  BY <1>2, <1>3, AllPathsType
<1>5. Len(configs[p.key].paths) > 0 /\ configs[p.key].paths[1].path = p.key[1]
      /\ p.key[1] \in Path(Key)
  BY <1>1, <1>2 DEF StartsAt
<1>6. /\ Len(AllPathsForChild(configs[p.key], p.param)) > 0
      /\ AllPathsForChild(configs[p.key], p.param)[1].path = p.path
  BY <1>1, <1>2, <1>3, <1>5, FirstPathOfChild
<1>7. p.path \in Seq(Key)
  <2>1. p.param.name \in Seq(Key)
    BY <1>3, ChildNameType
  <2>2. p.key[1] \in Seq(Key)
    BY <1>1 DEF Path
  <2>. QED
    BY <1>1, <2>1, <2>2, JoinType
<1>8. p.path # NoPath
  BY <1>7, IsNoNoPath
<1>. QED
  BY <1>4, <1>6, <1>8
-----------------------------------------------------------------------------
(* Where the items of a flattened sequence are *)

\* FlattenSeq has the sequence `s` from this offset on.
PartAt(s, offset, whole) ==
  \A j \in DOMAIN s : offset + j \in DOMAIN whole /\ whole[offset + j] = s[j]

\* FlattenSeq goes through the sequences one after another: `m` is the number
\* of those it has gone through.
LEMMA FlattenUpTo ==
  ASSUME NEW S, NEW seqs \in Seq(Seq(S)), NEW f, Flattens(f, seqs, Len(seqs)),
         NEW m \in 1..Len(seqs)
  PROVE  /\ f[m] \in Seq(S)
         /\ \A i \in 1..m : \E offset \in Nat : PartAt(seqs[i], offset, f[m])
         /\ \A r \in DOMAIN f[m] : \E i \in 1..m : \E offset \in Nat :
              r - offset \in DOMAIN seqs[i] /\ PartAt(seqs[i], offset, f[m])
<1>. DEFINE n == Len(seqs)
            Done(k) == /\ f[k] \in Seq(S)
                       /\ \A i \in 1..k : \E offset \in Nat : PartAt(seqs[i], offset, f[k])
                       /\ \A r \in DOMAIN f[k] : \E i \in 1..k : \E offset \in Nat :
                            r - offset \in DOMAIN seqs[i] /\ PartAt(seqs[i], offset, f[k])
            T == {k \in Nat : k + 1 <= n => Done(k + 1)}
<1>1. n \in Nat /\ \A i \in 1..n : seqs[i] \in Seq(S)
  OBVIOUS
<1>. HIDE DEF n
<1>2. ASSUME NEW i \in 1..n
      PROVE  f[i] = IF i = 1 THEN seqs[i] ELSE f[i - 1] \o seqs[i]
  BY DEF Flattens, n
<1>3. 0 \in T
  <2>. SUFFICES ASSUME 1 <= n  PROVE Done(1)
    OBVIOUS
  <2>1. f[1] = seqs[1] /\ seqs[1] \in Seq(S)
    BY <1>1, <1>2
  <2>2. PartAt(seqs[1], 0, f[1])
    BY <2>1 DEF PartAt
  <2>3. \A r \in DOMAIN f[1] : r - 0 \in DOMAIN seqs[1]
    BY <2>1
  <2>4. 1 \in 1..1 /\ 0 \in Nat /\ \A i \in 1..1 : i = 1
    OBVIOUS
  <2>5. \A i \in 1..1 : \E offset \in Nat : PartAt(seqs[i], offset, f[1])
    BY <2>2, <2>4
  <2>6. ASSUME NEW r \in DOMAIN f[1]
        PROVE  \E i \in 1..1 : \E offset \in Nat :
                 r - offset \in DOMAIN seqs[i] /\ PartAt(seqs[i], offset, f[1])
    <3>1. \E offset \in Nat : r - offset \in DOMAIN seqs[1] /\ PartAt(seqs[1], offset, f[1])
      <4>1. r - 0 \in DOMAIN seqs[1]
        BY <2>3
      <4>. QED
        BY ONLY <2>2, <2>4, <4>1
    <3>. QED
      BY <2>4, <3>1
  <2>7. f[1] \in Seq(S)
    BY <2>1
  <2>. QED
    BY <2>5, <2>6, <2>7
<1>4. ASSUME NEW k \in Nat, k \in T  PROVE k + 1 \in T
  <2>. SUFFICES ASSUME k + 2 <= n  PROVE Done(k + 2)
    BY <1>1
  <2>. DEFINE g == f[k + 1]
              s == seqs[k + 2]
              h == f[k + 2]
  <2>1. Done(k + 1)
    BY <1>1, <1>4
  <2>2. h = g \o s
    <3>1. k + 2 \in 1..n /\ k + 2 # 1 /\ (k + 2) - 1 = k + 1
      BY <1>1
    <3>. QED
      BY <1>2, <3>1
  <2>3. g \in Seq(S) /\ s \in Seq(S)
    BY <1>1, <2>1
  <2>. HIDE DEF g, s, h
  <2>4. /\ h \in Seq(S) /\ Len(g) \in Nat /\ Len(s) \in Nat /\ Len(h) = Len(g) + Len(s)
        /\ \A j \in 1..Len(g) : h[j] = g[j]
        /\ \A j \in 1..Len(s) : h[Len(g) + j] = s[j]
    BY <2>2, <2>3, ConcatProperties
  <2>5. DOMAIN g = 1..Len(g) /\ DOMAIN s = 1..Len(s) /\ DOMAIN h = 1..Len(h)
    BY <2>3, <2>4
  <2>6. PartAt(s, Len(g), h)
    BY <2>4, <2>5 DEF PartAt
  <2>7. \A part, offset : PartAt(part, offset, g) => PartAt(part, offset, h)
    BY <2>4, <2>5 DEF PartAt
  <2>8. ASSUME NEW i \in 1..(k + 2)
        PROVE  \E offset \in Nat : PartAt(seqs[i], offset, h)
    <3>1. CASE i = k + 2
      BY <2>4, <2>6, <3>1 DEF s
    <3>2. CASE i # k + 2
      <4>1. i \in 1..(k + 1)
        BY <3>2
      <4>2. \E offset \in Nat : PartAt(seqs[i], offset, g)
        BY <2>1, <4>1 DEF g
      <4>. QED
        BY <2>7, <4>2
    <3>. QED
      BY <3>1, <3>2
  <2>9. ASSUME NEW r \in DOMAIN h
        PROVE  \E i \in 1..(k + 2) : \E offset \in Nat :
                 r - offset \in DOMAIN seqs[i] /\ PartAt(seqs[i], offset, h)
    <3>1. CASE r \in DOMAIN g
      <4>1. PICK i \in 1..(k + 1) : \E offset \in Nat :
                   r - offset \in DOMAIN seqs[i] /\ PartAt(seqs[i], offset, g)
        BY <2>1, <3>1 DEF g
      <4>2. i \in 1..(k + 2)
        OBVIOUS
      <4>. QED
        BY <2>7, <4>1, <4>2
    <3>2. CASE r \notin DOMAIN g
      <4>1. r - Len(g) \in DOMAIN s
        BY <2>4, <2>5, <3>2
      <4>2. k + 2 \in 1..(k + 2)
        OBVIOUS
      <4>3. Len(g) \in Nat
        BY <2>4
      <4>4. \E offset \in Nat : r - offset \in DOMAIN s /\ PartAt(s, offset, h)
        BY <2>6, <4>1, <4>3
      <4>. QED
        BY <4>2, <4>4 DEF s
    <3>. QED
      BY <3>1, <3>2
  <2>. QED
    BY <2>4, <2>8, <2>9 DEF h
<1>5. Nat \subseteq T
  <2>. HIDE DEF T
  <2>. QED
    BY <1>3, <1>4, Copied!InductionOnSet
<1>6. Done(m)
  <2>. DEFINE k == m - 1
  <2>1. k \in Nat /\ k + 1 = m /\ m <= n
    BY <1>1 DEF n
  <2>. HIDE DEF k, Done
  <2>. QED
    BY <1>5, <2>1
<1>. QED
  BY <1>6

LEMMA FlattenParts ==
  ASSUME NEW S, NEW seqs \in Seq(Seq(S))
  PROVE  /\ \A i \in DOMAIN seqs :
              \E offset \in Nat : PartAt(seqs[i], offset, FlattenSeq(seqs))
         /\ \A r \in DOMAIN FlattenSeq(seqs) : \E i \in DOMAIN seqs : \E offset \in Nat :
              r - offset \in DOMAIN seqs[i] /\ PartAt(seqs[i], offset, FlattenSeq(seqs))
<1>1. CASE Len(seqs) = 0
  <2>1. seqs = <<>>
    BY <1>1
  <2>2. FlattenSeq(seqs) = <<>>
    BY <1>1, <2>1 DEF FlattenSeq
  <2>. QED
    BY <2>1, <2>2
<1>2. CASE Len(seqs) # 0
  <2>. DEFINE n == Len(seqs)
              f == CHOOSE g : Flattens(g, seqs, n)
  <2>1. n \in Nat /\ n \in 1..n /\ DOMAIN seqs = 1..n
    BY <1>2
  <2>2. Flattens(f, seqs, n)
    BY <2>1, FlatteningExists
  <2>3. FlattenSeq(seqs) = f[n]
    BY <1>2 DEF FlattenSeq, Flattens
  <2>. HIDE DEF f
  <2>4. /\ \A i \in 1..n : \E offset \in Nat : PartAt(seqs[i], offset, f[n])
        /\ \A r \in DOMAIN f[n] : \E i \in 1..n : \E offset \in Nat :
             r - offset \in DOMAIN seqs[i] /\ PartAt(seqs[i], offset, f[n])
    BY <2>1, <2>2, FlattenUpTo
  <2>. QED
    BY <2>1, <2>3, <2>4
<1>. QED
  BY <1>1, <1>2

\* A listing has all elements.
LEMMA ListingHas ==
  ASSUME NEW S, IsFiniteSet(S), NEW s \in SetToSeqs(S), NEW x \in S
  PROVE  \E i \in DOMAIN s : s[i] = x
<1>. DEFINE D == 1..Cardinality(S)
<1>1. Cardinality(S) \in Nat
  BY FS_CardinalityType
<1>2. s \in [D -> S] /\ \A i, j \in D : i # j => s[i] # s[j]
  BY DEF SetToSeqs
<1>3. Cardinality(D) = Cardinality(S) /\ IsFiniteSet(D)
  <2>1. Cardinality(1..Cardinality(S)) =
          IF 1 > Cardinality(S) THEN 0 ELSE Cardinality(S) - 1 + 1
    BY <1>1, FS_Interval
  <2>2. IsFiniteSet(1..Cardinality(S))
    BY <1>1, FS_Interval
  <2>. QED
    BY <1>1, <2>1, <2>2
<1>. HIDE DEF D
<1>4. SUFFICES ASSUME \A i \in D : s[i] # x  PROVE FALSE
  BY <1>2
<1>. DEFINE R == S \ {x}
<1>5. IsFiniteSet(R) /\ Cardinality(R) = Cardinality(S) - 1
  <2>1. /\ IsFiniteSet(S \ {x})
        /\ Cardinality(S \ {x}) = IF x \in S THEN Cardinality(S) - 1 ELSE Cardinality(S)
    BY FS_RemoveElement
  <2>. QED
    BY <2>1
<1>6. Cardinality(R) < Cardinality(D)
  BY <1>1, <1>3, <1>5
<1>7. s \in [D -> R]
  BY <1>2, <1>4
<1>. HIDE DEF R
<1>8. \E i, j \in D : i # j /\ s[i] = s[j]
  BY <1>3, <1>5, <1>6, <1>7, FS_PigeonHole
<1>. QED
  BY <1>2, <1>8
-----------------------------------------------------------------------------
(* The orders have all configs *)

LEMMA OrderIsComplete ==
  ASSUME TablesInv, PrefixesListed, NEW o \in Orders, NEW key \in DOMAIN configs
  PROVE  \E n \in DOMAIN o : o[n] = key
<1>. DEFINE n == Len(PrefixOrder)
            at(i) == {k \in DOMAIN configs : k[1] = PrefixOrder[i]}
            choices == [i \in DOMAIN PrefixOrder |-> SetToSeqs(at(i))]
<1>1. n \in Nat /\ DOMAIN PrefixOrder = 1..n
  BY RepositoryAssumption
<1>2. ASSUME NEW i \in 1..n
      PROVE  /\ IsFiniteSet(at(i)) /\ choices[i] = SetToSeqs(at(i))
             /\ choices[i] \subseteq Seq(DOMAIN configs)
  <2>1. IsFiniteSet(at(i)) /\ at(i) \subseteq DOMAIN configs
    BY SubsetIsFinite DEF TablesInv
  <2>2. choices[i] = SetToSeqs(at(i))
    BY <1>1
  <2>. HIDE DEF at, choices
  <2>3. \A s \in SetToSeqs(at(i)) : s \in Seq(at(i))
    BY <2>1, ListingType
  <2>4. Seq(at(i)) \subseteq Seq(DOMAIN configs)
    BY <2>1, SeqMonotonic
  <2>. QED
    BY <2>1, <2>2, <2>3, <2>4
<1>3. o \in Chained(choices)
  BY DEF Orders
<1>4. DOMAIN choices = 1..n
  BY <1>1
<1>5. PICK k \in 1..n : key \in at(k)
  BY <1>1 DEF PrefixesListed
<1>. HIDE DEF choices, n, at
<1>6. PICK f \in [DOMAIN choices -> UNION {choices[i] : i \in DOMAIN choices}] :
        o = FlattenSeq(f) /\ \A i \in DOMAIN choices : f[i] \in choices[i]
  BY <1>3 DEF Chained
<1>7. f \in Seq(Seq(DOMAIN configs)) /\ DOMAIN f = 1..n
  <2>1. f \in [1..n -> Seq(DOMAIN configs)]
    BY <1>2, <1>4, <1>6
  <2>. QED
    BY <1>1, <2>1
<1>8. f[k] \in SetToSeqs(at(k))
  BY <1>2, <1>4, <1>6
<1>9. PICK j \in DOMAIN f[k] : f[k][j] = key
  BY <1>2, <1>5, <1>8, ListingHas
<1>10. PICK offset \in Nat : PartAt(f[k], offset, FlattenSeq(f))
  BY <1>7, FlattenParts
<1>. QED
  BY <1>6, <1>9, <1>10 DEF PartAt

LEMMA ByDepthOrderKeys ==
  ASSUME TablesInv, KeysByDepth(byDepth) = DOMAIN configs, NEW o \in ByDepthOrders
  PROVE  o \in Seq(DOMAIN configs)
<1>. DEFINE n == Len(PrefixOrder)
            at(i) == {e \in byDepth : e[1] = PrefixOrder[i]}
            choices == [k \in DOMAIN PrefixOrder |->
                {s \in SetToSeqs(at(k)) :
                   \A i, j \in DOMAIN s : i <= j => s[i][2] <= s[j][2]}]
<1>1. n \in Nat /\ DOMAIN PrefixOrder = 1..n
  BY RepositoryAssumption
<1>2. ASSUME NEW i \in 1..n  PROVE choices[i] \subseteq Seq(byDepth)
  <2>1. IsFiniteSet(at(i)) /\ at(i) \subseteq byDepth
    BY SubsetIsFinite DEF TablesInv
  <2>2. choices[i] \subseteq SetToSeqs(at(i))
    BY <1>1
  <2>. HIDE DEF at, choices
  <2>3. \A s \in SetToSeqs(at(i)) : s \in Seq(at(i))
    BY <2>1, ListingType
  <2>4. Seq(at(i)) \subseteq Seq(byDepth)
    BY <2>1, SeqMonotonic
  <2>. QED
    BY <2>2, <2>3, <2>4
<1>3. PICK s \in Chained(choices) : o = [i \in DOMAIN s |-> <<s[i][1], s[i][3]>>]
  BY DEF ByDepthOrders
<1>4. DOMAIN choices = 1..n
  BY <1>1
<1>. HIDE DEF choices, n
<1>5. s \in Seq(byDepth)
  BY <1>1, <1>2, <1>3, <1>4, ChainedType
<1>6. \A i \in DOMAIN s : <<s[i][1], s[i][3]>> \in DOMAIN configs
  BY <1>5 DEF KeysByDepth
<1>7. DOMAIN s = 1..Len(s) /\ Len(s) \in Nat
  BY <1>5
<1>. QED
  BY <1>3, <1>6, <1>7
-----------------------------------------------------------------------------
(* The values at the paths of a param *)

LEMMA AliasParts ==
  ASSUME IndInv, NEW key \in DOMAIN configs
  PROVE  LET params   == Meta[key[2]].params
             own(i)   == SourcesOfParam(AllPathsForChild(configs[key], params[i]), params[i])
             all      == AliasSources(key)
         IN  /\ \A i \in DOMAIN params : \E offset \in Nat : PartAt(own(i), offset, all)
             /\ \A r \in DOMAIN all : \E i \in DOMAIN params : \E offset \in Nat :
                  r - offset \in DOMAIN own(i) /\ PartAt(own(i), offset, all)
<1>. DEFINE params == Meta[key[2]].params
            own(i) == SourcesOfParam(AllPathsForChild(configs[key], params[i]), params[i])
            seqs   == [i \in DOMAIN params |-> own(i)]
<1>1. configs[key] \in ConfigData /\ params \in Seq(ParamMeta)
  <2>1. key \in Path(Key) \X Types /\ configs[key] \in ConfigData
    BY DEF IndInv, TypeOK, IsConfigs
  <2>. QED
    BY <2>1, MetaTypes
<1>2. AliasSources(key) = FlattenSeq(seqs)
  BY DEF AliasSources
<1>. HIDE DEF params
<1>3. ASSUME NEW i \in DOMAIN params  PROVE own(i) \in Seq(ParamSource)
  <2>1. params[i] \in ParamMeta
    BY <1>1
  <2>. DEFINE paths == AllPathsForChild(configs[key], params[i])
  <2>2. paths \in Seq(PathEntry)
    BY <1>1, <2>1, AllPathsType DEF ChildMeta
  <2>. HIDE DEF paths
  <2>3. ASSUME NEW j \in DOMAIN paths
        PROVE  [param |-> params[i], path |-> paths[j].path] \in ParamSource
    <3>1. paths[j] \in PathEntry
      BY <2>2
    <3>2. paths[j].path \in Path(Key) \cup {NoPath}
      BY <3>1 DEF PathEntry
    <3>. QED
      BY <2>1, <3>2 DEF ParamSource
  <2>4. SourcesOfParam(paths, params[i]) \in Seq(ParamSource)
    BY <2>2, <2>3 DEF SourcesOfParam
  <2>. QED
    BY <2>4 DEF paths
<1>4. DOMAIN seqs = DOMAIN params /\ \A i \in DOMAIN params : seqs[i] = own(i)
  OBVIOUS
<1>5. seqs \in Seq(Seq(ParamSource))
  BY <1>1, <1>3
<1>. HIDE DEF seqs, own
<1>6. /\ \A i \in DOMAIN seqs :
            \E offset \in Nat : PartAt(seqs[i], offset, FlattenSeq(seqs))
      /\ \A r \in DOMAIN FlattenSeq(seqs) : \E i \in DOMAIN seqs : \E offset \in Nat :
            r - offset \in DOMAIN seqs[i] /\ PartAt(seqs[i], offset, FlattenSeq(seqs))
  BY <1>5, FlattenParts
<1>7. /\ \A i \in DOMAIN params : \E offset \in Nat : PartAt(own(i), offset, AliasSources(key))
      /\ \A r \in DOMAIN AliasSources(key) : \E i \in DOMAIN params : \E offset \in Nat :
           r - offset \in DOMAIN own(i) /\ PartAt(own(i), offset, AliasSources(key))
  BY <1>2, <1>4, <1>6
<1>. QED
  BY <1>7 DEF own, params

LEMMA AliasedValueIs ==
  ASSUME NEW t, NEW s, NEW v
  PROVE  v \in AliasedValues(t, s) <=>
           \E k \in DOMAIN s :
             /\ s[k].path # NoPath
             /\ \E x \in {<<>>} \cup s[k].param.suffixes :
                  /\ Suffixed(s[k].path, x) \in DOMAIN t
                  /\ v = [rank |-> k, key |-> ParamKey(s[k].param) \o x,
                          at |-> Suffixed(s[k].path, x)]
<1>. DEFINE fits(k) == {x \in {<<>>} \cup s[k].param.suffixes :
                          Suffixed(s[k].path, x) \in DOMAIN t}
            value(k, x) == [rank |-> k, key |-> ParamKey(s[k].param) \o x,
                            at |-> Suffixed(s[k].path, x)]
            ranks == {k \in DOMAIN s : s[k].path # NoPath}
<1>1. AliasedValues(t, s) = UNION {{value(k, x) : x \in fits(k)} : k \in ranks}
  BY DEF AliasedValues
<1>. HIDE DEF value
<1>2. v \in AliasedValues(t, s) <=> \E k \in ranks : \E x \in fits(k) : v = value(k, x)
  BY <1>1
<1>. QED
  BY <1>2 DEF value

LEMMA FirstForLeast ==
  ASSUME NEW t, NEW s \in Seq(ParamSource), NEW v \in AliasedValues(t, s)
  PROVE  LET first == FirstFor(AliasedValues(t, s), v.key)
         IN  first.key = v.key /\ first.rank <= v.rank
<1>. DEFINE values == AliasedValues(t, s)
            same == {w \in values : w.key = v.key}
            R == {w.rank : w \in same}
<1>1. \A w \in values : w.rank \in Nat
  BY AliasedValuesType
<1>. HIDE DEF values
<1>2. R \in SUBSET Nat /\ R # {} /\ v \in same
  BY <1>1 DEF values
<1>3. PICK n \in R : \A m \in R : n <= m
  BY <1>2, Copied!LeastNumber
<1>4. PICK w \in same : w.rank = n
  BY <1>3
<1>5. w \in values /\ w.key = v.key /\ \A u \in values : u.key = v.key => w.rank <= u.rank
  BY <1>3, <1>4
<1>6. LET first == CHOOSE u \in values : u.key = v.key
                     /\ \A y \in values : y.key = v.key => u.rank <= y.rank
      IN  first.key = v.key /\ \A y \in values : y.key = v.key => first.rank <= y.rank
  BY <1>5
<1>. QED
  BY <1>2, <1>6 DEF FirstFor, values
-----------------------------------------------------------------------------
(* What copy_aliased_values does for one config *)

LEMMA SiteOfValue ==
  ASSUME IndInv, NEW key \in DOMAIN configs, NEW t,
         NEW v \in AliasedValues(t, AliasSources(key))
  PROVE  \E q \in Params : \E x \in {<<>>} \cup q.param.suffixes :
           /\ q.key = key /\ v.rank \in DOMAIN AliasSources(key)
           /\ AliasSources(key)[v.rank].param = q.param
           /\ AliasSources(key)[v.rank].path # NoPath
           /\ v.key = ParamKey(q.param) \o x
           /\ v.at = Suffixed(AliasSources(key)[v.rank].path, x) /\ v.at \in DOMAIN t
           /\ Append(key[1], v.key) \in ValueSites(q)
<1>. DEFINE all == AliasSources(key)
            params == Meta[key[2]].params
            own(i) == SourcesOfParam(AllPathsForChild(configs[key], params[i]), params[i])
<1>1. PICK k \in DOMAIN all :
        /\ all[k].path # NoPath
        /\ \E x \in {<<>>} \cup all[k].param.suffixes :
             /\ Suffixed(all[k].path, x) \in DOMAIN t
             /\ v = [rank |-> k, key |-> ParamKey(all[k].param) \o x,
                     at |-> Suffixed(all[k].path, x)]
  BY AliasedValueIs
<1>2. PICK x \in {<<>>} \cup all[k].param.suffixes :
        /\ Suffixed(all[k].path, x) \in DOMAIN t
        /\ v = [rank |-> k, key |-> ParamKey(all[k].param) \o x,
                at |-> Suffixed(all[k].path, x)]
  BY <1>1
<1>3. /\ v.rank = k /\ v.key = ParamKey(all[k].param) \o x
      /\ v.at = Suffixed(all[k].path, x)
  BY <1>2
<1>4. PICK i \in DOMAIN params : \E offset \in Nat :
        k - offset \in DOMAIN own(i) /\ PartAt(own(i), offset, all)
  BY AliasParts
<1>5. all[k].param = params[i]
  <2>1. PICK offset \in Nat : k - offset \in DOMAIN own(i) /\ PartAt(own(i), offset, all)
    BY <1>4
  <2>2. offset + (k - offset) = k
    <3>1. k \in Nat
      BY AliasSourcesType
    <3>. QED
      BY <3>1
  <2>3. all[k] = own(i)[k - offset]
    BY <2>1, <2>2 DEF PartAt
  <2>4. \A j \in DOMAIN own(i) : own(i)[j].param = params[i]
    BY DEF SourcesOfParam
  <2>. HIDE DEF own
  <2>. QED
    BY <2>1, <2>3, <2>4
<1>. DEFINE q == [key |-> key, param |-> params[i], path |-> Join(key[1], params[i].name)]
<1>6. q \in Params
  <2>. DEFINE of(k2) == {[key |-> k2, param |-> Meta[k2[2]].params[j],
                          path |-> Join(k2[1], Meta[k2[2]].params[j].name)] :
                            j \in DOMAIN Meta[k2[2]].params}
  <2>1. q \in of(key)
    OBVIOUS
  <2>2. Params = UNION {of(k2) : k2 \in DOMAIN configs}
    BY DEF Params
  <2>. HIDE DEF of, q
  <2>. QED
    BY <2>1, <2>2
<1>7. q.key = key /\ q.param = params[i]
  OBVIOUS
<1>. HIDE DEF q, params, own, all
<1>8. Append(key[1], v.key) \in ValueSites(q)
  <2>1. /\ ParamKey(q.param) \in Seq(Word) /\ key[1] \in Seq(Seq(Word))
        /\ q.path = Append(key[1], ParamKey(q.param)) /\ q.param \in ParamMeta
    BY <1>6, <1>7, ParamFacts
  <2>2. v.key = ParamKey(q.param) \o x
    BY <1>3, <1>5, <1>7
  <2>3. ParentOf(q.path) = key[1] /\ LastKey(q.path) = ParamKey(q.param)
    BY <2>1, AppendIsPrefix
  <2>4. CASE x = <<>>
    <3>1. v.key = ParamKey(q.param)
      BY <2>1, <2>2, <2>4
    <3>. QED
      BY <2>1, <3>1 DEF ValueSites
  <2>5. CASE x \in q.param.suffixes
    <3>1. Append(key[1], v.key) = Suffixed(q.path, x)
      BY <2>2, <2>3 DEF Suffixed
    <3>. QED
      BY <2>5, <3>1 DEF ValueSites
  <2>. QED
    BY <1>2, <1>5, <1>7, <2>4, <2>5
<1>. QED
  BY <1>1, <1>2, <1>3, <1>5, <1>6, <1>7, <1>8 DEF all

\* The cases of CopyAliasesFor.
LEMMA CopyCases ==
  ASSUME NEW t, NEW key, NEW r, r = CopyAliasesFor(t, key), r # Panicked, r # t
  PROVE  LET values   == AliasedValues(t, AliasSources(key))
             missing  == {v.key : v \in values} \ ChildKeys(t, key[1])
             children == [k \in missing |-> Sub(t, FirstFor(values, k).at)]
         IN  /\ ~IsLeafAt(t, key[1]) /\ ~LeadsToRoot(AliasSources(key))
             /\ missing # {}
             /\ r = ExtendMap(EnsureObject(t, key[1]), key[1], children)
BY DEF CopyAliasesFor, CopyMissing

\* The values that are copied.
LEMMA CopiedChildren ==
  ASSUME IndInv, NEW key \in DOMAIN configs, NEW t, SourceTree(t)
  PROVE  LET values   == AliasedValues(t, AliasSources(key))
             missing  == {v.key : v \in values} \ ChildKeys(t, key[1])
             children == [k \in missing |-> Sub(t, FirstFor(values, k).at)]
         IN  /\ DOMAIN children = missing /\ DOMAIN children \subseteq Seq(Word)
             /\ \A k \in DOMAIN children :
                  children[k] = Sub(t, FirstFor(values, k).at) /\ TreeOver(Seq(Word), children[k])
<1>. DEFINE s == AliasSources(key)
            values == AliasedValues(t, s)
            missing == {v.key : v \in values} \ ChildKeys(t, key[1])
            children == [k \in missing |-> Sub(t, FirstFor(values, k).at)]
<1>1. s \in Seq(ParamSource)
  BY AliasSourcesType
<1>2. ASSUME NEW k \in missing
      PROVE  k \in Seq(Word) /\ TreeOver(Seq(Word), Sub(t, FirstFor(values, k).at))
  <2>1. PICK v \in values : k = v.key
    OBVIOUS
  <2>2. FirstFor(values, k) \in values
    BY <1>1, <2>1, FirstForType
  <2>3. FirstFor(values, k).at \in DOMAIN t /\ k \in Seq(Word)
    BY <1>1, <2>1, <2>2, AliasedValuesType
  <2>. HIDE DEF values
  <2>. QED
    BY <2>3, SubSource
<1>3. /\ DOMAIN children = missing
      /\ \A k \in missing : children[k] = Sub(t, FirstFor(values, k).at)
  OBVIOUS
<1>4. /\ DOMAIN children = missing /\ DOMAIN children \subseteq Seq(Word)
      /\ \A k \in DOMAIN children :
           children[k] = Sub(t, FirstFor(values, k).at) /\ TreeOver(Seq(Word), children[k])
  <2>. HIDE DEF children, missing
  <2>. QED
    BY <1>2, <1>3
<1>. QED
  BY <1>4

\* What is new in an object is in the values that it is extended by.
LEMMA ExtendedFrom ==
  ASSUME NEW t, SourceTree(t), NEW at \in Seq(Seq(Word)), IsObjectAt(t, at),
         NEW children, DOMAIN children \subseteq Seq(Word),
         \A k \in DOMAIN children : TreeOver(Seq(Word), children[k]),
         NEW r, r = ExtendMap(t, at, children), NEW path \in DOMAIN r, path \notin DOMAIN t
  PROVE  \E k \in DOMAIN children :
           Append(at, k) \in Seq(Seq(Word)) /\ IsPrefix(Append(at, k), path)
<1>1. TreeOver(Seq(Word), t)
  BY SourceFacts
<1>2. \A q \in DOMAIN r :
         \/ q \in DOMAIN t /\ r[q] = t[q]
         \/ \E k \in DOMAIN children : \E p \in DOMAIN children[k] :
              q = Join(Append(at, k), p)
  BY <1>1, ExtendMapIsTree
<1>3. PICK k \in DOMAIN children : \E p \in DOMAIN children[k] :
             path = Join(Append(at, k), p)
  BY <1>2
<1>4. PICK p \in DOMAIN children[k] : path = Join(Append(at, k), p)
  BY <1>3
<1>5. k \in Seq(Word) /\ p \in Seq(Seq(Word))
  BY <1>4 DEF TreeOver, Path
<1>6. Append(at, k) \in Seq(Seq(Word))
  BY <1>5, AppendIsPrefix
<1>7. IsPrefix(Append(at, k), path)
  BY <1>4, <1>5, <1>6, JoinType
<1>. QED
  BY <1>6, <1>7

\* It makes objects up to the config, and puts values at the sites of its
\* params.
LEMMA CopyEffect ==
  ASSUME IndInv, NEW key \in DOMAIN configs, NEW t, SourceTree(t),
         NEW r, r = CopyAliasesFor(t, key), r # Panicked, r # t
  PROVE  /\ \E q \in Params : q.key = key
         /\ \A path \in DOMAIN t :
              /\ path \in DOMAIN r
              /\ r[path] = t[path] \/ (IsPrefix(path, key[1]) /\ r[path] = Object)
         /\ \A path \in DOMAIN r \ DOMAIN t :
              \/ IsPrefix(path, key[1]) /\ r[path] = Object
              \/ \E q \in Params : \E site \in ValueSites(q) :
                   q.key = key /\ IsPrefix(site, path) /\ site \in Seq(Seq(Word))
<1>. DEFINE values == AliasedValues(t, AliasSources(key))
            missing == {v.key : v \in values} \ ChildKeys(t, key[1])
            children == [k \in missing |-> Sub(t, FirstFor(values, k).at)]
            ensured == EnsureObject(t, key[1])
<1>1. ~IsLeafAt(t, key[1]) /\ missing # {} /\ r = ExtendMap(ensured, key[1], children)
  BY CopyCases
<1>2. /\ DOMAIN children = missing /\ DOMAIN children \subseteq Seq(Word)
      /\ \A k \in DOMAIN children : TreeOver(Seq(Word), children[k])
  BY CopiedChildren
<1>3. key[1] \in Seq(Seq(Word)) /\ TreeOver(Seq(Word), t)
  BY KeysAreNames, SourceFacts DEF IndInv, TypeOK, IsConfigs
<1>4. /\ SourceTree(ensured) /\ IsObjectAt(ensured, key[1])
      /\ ChildKeys(ensured, key[1]) = ChildKeys(t, key[1])
  BY <1>1, EnsureKeeps
<1>5. /\ DOMAIN ensured = DOMAIN t \cup WithAncestors(key[1])
      /\ \A path \in DOMAIN t :
           ensured[path] = t[path] \/ (IsPrefix(path, key[1]) /\ ensured[path] = Object)
      /\ \A path \in DOMAIN ensured \ DOMAIN t :
           IsPrefix(path, key[1]) /\ ensured[path] = Object
  <2>1. DOMAIN ensured = DOMAIN t \cup WithAncestors(key[1])
    BY <1>1 DEF EnsureObject
  <2>2. \A path \in DOMAIN t :
          ensured[path] = t[path] \/ (IsStrictPrefix(path, key[1]) /\ ensured[path] = Object)
    BY <1>1 DEF EnsureObject
  <2>3. \A path \in DOMAIN ensured \ DOMAIN t : ensured[path] = Object
    BY <1>1 DEF EnsureObject
  <2>4. \A path \in WithAncestors(key[1]) : IsPrefix(path, key[1])
    BY <1>3, AncestorsArePrefixes
  <2>. HIDE DEF ensured
  <2>. QED
    BY <2>1, <2>2, <2>3, <2>4 DEF IsStrictPrefix
<1>6. \A k \in missing : \E q \in Params : q.key = key /\ Append(key[1], k) \in ValueSites(q)
  BY SiteOfValue
<1>7. missing \cap ChildKeys(t, key[1]) = {}
  OBVIOUS
<1>. HIDE DEF values, missing, children, ensured
<1>8. \A path \in DOMAIN ensured : path \in DOMAIN r /\ r[path] = ensured[path]
  BY <1>1, <1>2, <1>3, <1>4, <1>7, ExtendMissingKeeps
<1>9. TreeOver(Seq(Word), ensured)
  BY <1>4, SourceFacts
<1>10. ASSUME NEW path \in DOMAIN r, path \notin DOMAIN ensured
       PROVE  \E q \in Params : \E site \in ValueSites(q) :
                q.key = key /\ IsPrefix(site, path) /\ site \in Seq(Seq(Word))
  <2>1. PICK k \in DOMAIN children :
               Append(key[1], k) \in Seq(Seq(Word)) /\ IsPrefix(Append(key[1], k), path)
    BY <1>1, <1>2, <1>3, <1>4, <1>10, ExtendedFrom
  <2>. QED
    BY <1>2, <1>6, <2>1
<1>11. \E q \in Params : q.key = key
  BY <1>1, <1>6
<1>. QED
  BY <1>5, <1>8, <1>10, <1>11
-----------------------------------------------------------------------------
\* Nothing at or below the location differs.
Same(t, u, at) ==
  \A path \in Seq(Seq(Word)) : IsPrefix(at, path) =>
    /\ path \in DOMAIN u <=> path \in DOMAIN t
    /\ path \in DOMAIN t => u[path] = t[path]

\* What is above the location is no obstacle that was not there.
NoNewLeaves(t, u, at) ==
  \A path \in Seq(Seq(Word)) :
    IsPrefix(path, at) /\ IsLeafAt(u, path) => IsLeafAt(t, path)

\* A config does not touch what its params are not related to.
LEMMA CopyAway ==
  ASSUME IndInv, NEW key \in DOMAIN configs, NEW t, SourceTree(t),
         NEW r, r = CopyAliasesFor(t, key), r # Panicked, NEW at \in Seq(Seq(Word)),
         \A q \in Params : q.key = key => \A site \in ValueSites(q) : ~Related(at, site)
  PROVE  Same(t, r, at) /\ NoNewLeaves(t, r, at)
<1>1. CASE r = t
  BY <1>1 DEF Same, NoNewLeaves
<1>2. CASE r # t
  <2>1. /\ \E q \in Params : q.key = key
        /\ \A path \in DOMAIN t :
             /\ path \in DOMAIN r
             /\ r[path] = t[path] \/ (IsPrefix(path, key[1]) /\ r[path] = Object)
        /\ \A path \in DOMAIN r \ DOMAIN t :
             \/ IsPrefix(path, key[1]) /\ r[path] = Object
             \/ \E q \in Params : \E site \in ValueSites(q) :
                  q.key = key /\ IsPrefix(site, path) /\ site \in Seq(Seq(Word))
    BY <1>2, CopyEffect
  <2>2. ~IsPrefix(at, key[1])
    <3>. SUFFICES ASSUME IsPrefix(at, key[1])  PROVE FALSE
      OBVIOUS
    <3>1. PICK q \in Params : q.key = key
      BY <2>1
    <3>2. /\ q.path = Append(key[1], ParamKey(q.param)) /\ q.path \in Seq(Seq(Word))
          /\ key[1] \in Seq(Seq(Word)) /\ ParamKey(q.param) \in Seq(Word) /\ q.path # <<>>
      BY <3>1, ParamFacts
    <3>3. IsPrefix(key[1], q.path)
      <4>1. ParentOf(q.path) = key[1]
        BY <3>2, AppendIsPrefix
      <4>. QED
        BY <3>2, <4>1, ParentSplits
    <3>4. IsPrefix(at, q.path)
      BY <3>2, <3>3, PrefixTransitive
    <3>. QED
      BY <3>1, <3>4 DEF ValueSites, Related
  <2>3. key[1] \in Seq(Seq(Word))
    BY KeysAreNames DEF IndInv, TypeOK, IsConfigs
  <2>4. ASSUME NEW path \in Seq(Seq(Word)), IsPrefix(at, path)
        PROVE  ~IsPrefix(path, key[1])
    BY <2>2, <2>3, <2>4, PrefixTransitive
  <2>5. ASSUME NEW path \in Seq(Seq(Word)), NEW q \in Params, q.key = key,
               NEW site \in ValueSites(q), IsPrefix(site, path), site \in Seq(Seq(Word))
        PROVE  ~IsPrefix(at, path) /\ ~IsPrefix(path, at)
    <3>1. ~IsPrefix(at, site) /\ ~IsPrefix(site, at)
      BY <2>5 DEF Related
    <3>2. ~IsPrefix(at, path)
      BY <2>5, <3>1, PrefixesComparable
    <3>3. ~IsPrefix(path, at)
      BY <2>5, <3>1, PrefixTransitive
    <3>. QED
      BY <3>2, <3>3
  <2>6. Same(t, r, at)
    BY <2>1, <2>4, <2>5 DEF Same
  <2>7. NoNewLeaves(t, r, at)
    <3>. SUFFICES ASSUME NEW path \in Seq(Seq(Word)), IsPrefix(path, at), IsLeafAt(r, path)
                  PROVE  IsLeafAt(t, path)
      BY DEF NoNewLeaves
    <3>1. path \in DOMAIN r /\ r[path] # Object
      BY DEF IsLeafAt, Object
    <3>2. path \in DOMAIN t
      BY <2>1, <2>5, <3>1
    <3>. QED
      BY <2>1, <3>1, <3>2 DEF IsLeafAt
  <2>. QED
    BY <2>6, <2>7
<1>. QED
  BY <1>1, <1>2

\* The location of a value that goes by its path.
LEMMA SuffixedByNothing ==
  ASSUME NEW path \in Path(Key), path # <<>>
  PROVE  Suffixed(path, <<>>) = path
<1>1. path \in Seq(Key)
  BY DEF Path
<1>2. LastKey(path) \in Key /\ path = Append(ParentOf(path), LastKey(path))
  BY <1>1, ParentSplits
<1>3. LastKey(path) \in Seq(Word)
  BY <1>2, KeysAreNames
<1>. HIDE DEF LastKey, ParentOf
<1>4. LastKey(path) \o <<>> = LastKey(path)
  BY <1>3
<1>. QED
  BY <1>2, <1>4 DEF Suffixed

\* The config of a param takes the value at the first of its paths that has one.
LEMMA CopyAtParam ==
  ASSUME IndInv, CanonicalFirst, NEW p \in Params, Undisturbed(p),
         NEW t, SourceTree(t), p.path \notin DOMAIN t, ~IsLeafAt(t, p.key[1]),
         NEW r, r = CopyAliasesFor(t, p.key), r # Panicked,
         NEW best \in DOMAIN AllPathsForChild(configs[p.key], p.param),
         NEW from, from = AllPathsForChild(configs[p.key], p.param)[best].path,
         from \in DOMAIN t \ {NoPath},
         \A j \in DOMAIN AllPathsForChild(configs[p.key], p.param) :
           AllPathsForChild(configs[p.key], p.param)[j].path \in DOMAIN t \ {NoPath}
             => best <= j
  PROVE  Holds(r, p.path, Sub(t, from))
<1>. DEFINE key == p.key
            name == ParamKey(p.param)
            all == AliasSources(key)
            params == Meta[key[2]].params
            paths == AllPathsForChild(configs[key], p.param)
            own(i) == SourcesOfParam(AllPathsForChild(configs[key], params[i]), params[i])
            values == AliasedValues(t, all)
            missing == {v.key : v \in values} \ ChildKeys(t, key[1])
            children == [k \in missing |-> Sub(t, FirstFor(values, k).at)]
            first == FirstFor(values, name)
<1>1. /\ key \in DOMAIN configs /\ key \in Path(Key) \X Types
      /\ \E i \in DOMAIN params : p.param = params[i]
      /\ name \in Seq(Word) /\ key[1] \in Seq(Seq(Word))
      /\ p.path = Append(key[1], name) /\ p.path \in Seq(Seq(Word))
      /\ p.param \in ParamMeta
  BY ParamFacts
<1>2. paths \in Seq(PathEntry) /\ all \in Seq(ParamSource)
  BY <1>1, FirstPathOfParam, AliasSourcesType
<1>3. from \in Path(Key) /\ from # NoPath /\ from \in DOMAIN t
  <2>1. paths[best] \in PathEntry
    BY <1>2
  <2>2. paths[best].path \in Path(Key) \cup {NoPath}
    BY <2>1 DEF PathEntry
  <2>. QED
    BY <2>2
<1>4. /\ \A i \in DOMAIN params : \E offset \in Nat : PartAt(own(i), offset, all)
      /\ \A k \in DOMAIN all : \E i \in DOMAIN params : \E offset \in Nat :
           k - offset \in DOMAIN own(i) /\ PartAt(own(i), offset, all)
  BY <1>1, AliasParts
<1>5. ASSUME NEW i \in DOMAIN params, params[i] = p.param
      PROVE  /\ DOMAIN own(i) = DOMAIN paths
             /\ \A j \in DOMAIN paths : own(i)[j].param = p.param /\ own(i)[j].path = paths[j].path
  BY <1>5 DEF SourcesOfParam
<1>6. TreeOver(Seq(Word), t) /\ t # Panicked
  BY SourceFacts
<1>7. ~LeadsToRoot(all)
  BY <1>6 DEF CopyAliasesFor
<1>8. \A k \in DOMAIN all : all[k].path # <<>>
  BY <1>7 DEF LeadsToRoot
<1>9. ASSUME NEW i \in DOMAIN params, params[i] = p.param, NEW offset \in Nat,
             PartAt(own(i), offset, all)
      PROVE  [rank |-> offset + best, key |-> name, at |-> from] \in values
  <2>. DEFINE k == offset + best
              v == [rank |-> k, key |-> name, at |-> from]
  <2>1. k \in DOMAIN all /\ all[k] = own(i)[best]
    BY <1>5, <1>9 DEF PartAt
  <2>2. all[k].path = from /\ all[k].param = p.param
    BY <1>5, <1>9, <2>1
  <2>3. Suffixed(from, <<>>) = from
    BY <1>3, <1>8, <2>1, <2>2, SuffixedByNothing
  <2>. HIDE DEF name, all, k
  <2>4. name \o <<>> = name
    BY <1>1
  <2>5. v = [rank |-> k, key |-> ParamKey(all[k].param) \o <<>>,
             at |-> Suffixed(all[k].path, <<>>)]
    BY <2>2, <2>3, <2>4 DEF name
  <2>6. Suffixed(all[k].path, <<>>) \in DOMAIN t /\ all[k].path # NoPath
    BY <1>3, <2>2, <2>3
  <2>. HIDE DEF v
  <2>7. v \in AliasedValues(t, all)
    BY <2>1, <2>5, <2>6, AliasedValueIs
  <2>. QED
    BY <2>7 DEF v, k
<1>10. PICK w \in values : w.key = name
  <2>1. PICK i \in DOMAIN params : p.param = params[i]
    BY <1>1
  <2>2. PICK offset \in Nat : PartAt(own(i), offset, all)
    BY <1>4
  <2>. DEFINE v == [rank |-> offset + best, key |-> name, at |-> from]
  <2>3. v \in values
    BY <1>9, <2>1, <2>2
  <2>4. v.key = name
    OBVIOUS
  <2>. HIDE DEF v, values
  <2>. QED
    BY <2>3, <2>4
<1>11. name \notin ChildKeys(t, key[1])
  <2>. SUFFICES ASSUME name \in ChildKeys(t, key[1])  PROVE FALSE
    OBVIOUS
  <2>. HIDE DEF name, key
  <2>1. Append(key[1], name) \in DOMAIN t
    BY <1>1, ChildIsThere
  <2>. QED
    BY <1>1, <2>1
<1>12. name \in missing
  BY <1>10, <1>11
<1>13. r = ExtendMap(EnsureObject(t, key[1]), key[1], children)
  BY <1>6, <1>7, <1>12 DEF CopyAliasesFor, CopyMissing
<1>14. /\ first \in values /\ first.key = name
       /\ \A v \in values : v.key = name => first.rank <= v.rank
  BY <1>2, <1>10, FirstForType, FirstForLeast
<1>15. PICK q \in Params : \E x \in {<<>>} \cup q.param.suffixes :
         /\ q.key = key /\ first.rank \in DOMAIN all
         /\ all[first.rank].param = q.param /\ all[first.rank].path # NoPath
         /\ first.key = ParamKey(q.param) \o x
         /\ first.at = Suffixed(all[first.rank].path, x) /\ first.at \in DOMAIN t
         /\ Append(key[1], first.key) \in ValueSites(q)
  BY <1>1, <1>14, SiteOfValue
<1>16. PICK x \in {<<>>} \cup q.param.suffixes :
         /\ q.key = key /\ first.rank \in DOMAIN all
         /\ all[first.rank].param = q.param /\ all[first.rank].path # NoPath
         /\ first.key = ParamKey(q.param) \o x
         /\ first.at = Suffixed(all[first.rank].path, x) /\ first.at \in DOMAIN t
         /\ Append(key[1], first.key) \in ValueSites(q)
  BY <1>15
<1>. HIDE DEF first, values, all, params, own, paths, key
<1>17. q = p
  <2>1. p.path \in ValueSites(q)
    BY <1>1, <1>14, <1>16
  <2>2. IsPrefix(p.path, p.path)
    BY <1>1, PrefixReflexive
  <2>. QED
    BY <2>1, <2>2 DEF Undisturbed, Related
<1>18. x = <<>>
  <2>1. x \in Seq(Word)
    <3>1. <<>> \in Seq(Word) /\ p.param.suffixes \subseteq Key
      BY <1>1 DEF ParamMeta
    <3>. QED
      BY <1>16, <1>17, <3>1, KeysAreNames
  <2>2. name \o x = name
    BY <1>14, <1>16, <1>17
  <2>. HIDE DEF name
  <2>3. Len(name \o x) = Len(name) + Len(x) /\ Len(name) \in Nat /\ Len(x) \in Nat
    BY <1>1, <2>1, ConcatProperties
  <2>4. Len(x) = 0
    BY <2>2, <2>3
  <2>. QED
    BY <2>1, <2>4
<1>19. first.at = from
  <2>. DEFINE k == first.rank
  <2>1. k \in DOMAIN all /\ k \in Nat /\ all[k].path \in Path(Key) /\ all[k].path # <<>>
    <3>1. k \in DOMAIN all /\ all[k].path # NoPath
      BY <1>16
    <3>2. all[k] \in ParamSource /\ k \in Nat
      BY <1>2, <3>1
    <3>. QED
      BY <1>8, <3>1, <3>2 DEF ParamSource
  <2>2. first.at = all[k].path
    BY <1>16, <1>18, <2>1, SuffixedByNothing
  <2>. HIDE DEF k
  <2>3. PICK i \in DOMAIN params : \E offset \in Nat :
          k - offset \in DOMAIN own(i) /\ PartAt(own(i), offset, all)
    BY <1>4, <2>1
  <2>4. PICK offset \in Nat : k - offset \in DOMAIN own(i) /\ PartAt(own(i), offset, all)
    BY <2>3
  <2>. DEFINE j == k - offset
  <2>5. offset + j = k
    BY <2>1
  <2>6. all[k] = own(i)[j]
    BY <2>4, <2>5 DEF PartAt
  <2>. HIDE DEF j
  <2>7. own(i)[j].param = params[i] /\ j \in DOMAIN own(i)
    <3>1. \A n \in DOMAIN own(i) : own(i)[n].param = params[i]
      BY DEF SourcesOfParam, own
    <3>. QED
      BY <2>4, <3>1 DEF j
  <2>8. params[i] = p.param
    BY <1>16, <1>17, <2>6, <2>7 DEF k
  <2>9. j \in DOMAIN paths /\ own(i)[j].path = paths[j].path
    BY <1>5, <2>7, <2>8
  <2>10. best <= j
    <3>1. paths[j].path \in DOMAIN t \ {NoPath}
      BY <1>16, <2>2, <2>6, <2>9 DEF k
    <3>. QED
      BY <2>9, <3>1 DEF paths, key
  <2>11. j <= best
    <3>. DEFINE v == [rank |-> offset + best, key |-> name, at |-> from]
    <3>1. v \in values
      BY <1>9, <2>4, <2>8
    <3>2. v.key = name /\ v.rank = offset + best
      OBVIOUS
    <3>. HIDE DEF v
    <3>3. k <= offset + best
      BY <1>14, <3>1, <3>2 DEF k
    <3>4. best \in Nat
      BY <1>2 DEF paths, key
    <3>. QED
      BY <2>1, <2>5, <3>3, <3>4 DEF j
  <2>12. j = best
    BY <1>2, <2>9, <2>10, <2>11 DEF paths, key
  <2>. QED
    BY <2>2, <2>6, <2>9, <2>12 DEF paths, key
<1>20. /\ DOMAIN children = missing /\ DOMAIN children \subseteq Seq(Word)
       /\ \A k \in DOMAIN children :
            children[k] = Sub(t, FirstFor(values, k).at) /\ TreeOver(Seq(Word), children[k])
  BY <1>1, CopiedChildren DEF values, all, key
<1>21. children[name] = Sub(t, from) /\ name \in DOMAIN children
  BY <1>12, <1>19, <1>20 DEF first
<1>. DEFINE ensured == EnsureObject(t, key[1])
<1>22. SourceTree(ensured) /\ IsObjectAt(ensured, key[1])
  BY <1>1, EnsureKeeps DEF key
<1>. HIDE DEF ensured, children, missing, name
<1>23. TreeOver(Seq(Word), ensured)
  BY <1>22, SourceFacts
<1>24. \A n \in DOMAIN children[name] :
         /\ Join(p.path, n) \in DOMAIN r
         /\ r[Join(p.path, n)] = children[name][n]
  <2>. DEFINE at == key[1]
  <2>1. at \in Seq(Seq(Word)) /\ r = ExtendMap(ensured, at, children)
        /\ p.path = Append(at, name) /\ IsObjectAt(ensured, at)
    BY <1>1, <1>13, <1>22 DEF ensured
  <2>. HIDE DEF at
  <2>2. \A c \in DOMAIN children : \A n \in DOMAIN children[c] :
          /\ Join(Append(at, c), n) \in DOMAIN r
          /\ r[Join(Append(at, c), n)] = children[c][n]
    BY <1>20, <1>23, <2>1, ExtendMapIsTree
  <2>. QED
    BY <1>21, <2>1, <2>2
<1>. QED
  BY <1>21, <1>24 DEF Holds
-----------------------------------------------------------------------------
\* The index of the first path of the param at which the tree has a value.
IsBest(t, p, best) ==
  LET paths == AllPathsForChild(configs[p.key], p.param)
      given == {i \in DOMAIN paths : paths[i].path \in DOMAIN t \ {NoPath}}
  IN  best \in given /\ \A j \in given : best <= j

PathAt(p, i) == AllPathsForChild(configs[p.key], p.param)[i].path

LEMMA PathsAreParamPaths ==
  ASSUME IndInv, NEW p \in Params, NEW j \in DOMAIN AllPathsForChild(configs[p.key], p.param),
         PathAt(p, j) # NoPath
  PROVE  PathAt(p, j) \in ParamPaths(configs[p.key], p.param)
         /\ PathAt(p, j) \in Seq(Seq(Word))
<1>. DEFINE data == configs[p.key]
            child == p.param
            names == ChildNames(child, data.coerce)
            n == Len(data.paths)
            m == Len(names)
            e == ((j - 1) \div m) + 1
            k == ((j - 1) % m) + 1
<1>1. data \in ConfigData /\ child \in ChildMeta
  BY ParamFacts DEF ChildMeta, IndInv, TypeOK, IsConfigs
<1>. HIDE DEF child, data
<1>2. names \in Seq(MaybeNameEntry) /\ data.paths \in Seq(PathEntry)
  BY <1>1, ChildNamesType DEF ConfigData
<1>3. n \in Nat /\ m \in Nat /\ DOMAIN data.paths = 1..n /\ DOMAIN names = 1..m
  BY <1>2
<1>4. j \in 1..(n * m)
  BY DEF AllPathsForChild, data, child
<1>5. PathAt(p, j) = JoinPath(data.paths[e].path, names[k].ref)
  BY <1>4 DEF AllPathsForChild, PathAt, data, child
<1>6. e \in 1..n /\ k \in 1..m
  BY <1>3, <1>4, ProductIndex
<1>. HIDE DEF e, k, n, m, names
<1>7. PathAt(p, j) \in PathsNamed(data, names)
  BY <1>3, <1>5, <1>6 DEF PathsNamed
<1>8. PathAt(p, j) \in Seq(Seq(Word))
  BY <1>1, <1>2, <1>7, PathsNamedType, KeysAreNames
<1>. QED
  BY <1>7, <1>8 DEF ParamPaths, names, data, child

\* Another config does not touch an undisturbed param.
LEMMA CopyElsewhere ==
  ASSUME IndInv, NEW p \in Params, Undisturbed(p),
         NEW key \in DOMAIN configs, key # p.key, NEW t, SourceTree(t),
         NEW r, r = CopyAliasesFor(t, key), r # Panicked,
         NEW at \in {p.path} \cup ParamPaths(configs[p.key], p.param), at \in Seq(Seq(Word))
  PROVE  Same(t, r, at) /\ NoNewLeaves(t, r, at)
<1>1. \A q \in Params : q.key = key => \A site \in ValueSites(q) : ~Related(at, site)
  BY DEF Undisturbed
<1>. QED
  BY <1>1, CopyAway

LEMMA SameTransitive ==
  ASSUME NEW t, NEW u, NEW v, NEW at
  PROVE  /\ Same(t, u, at) /\ Same(u, v, at) => Same(t, v, at)
         /\ NoNewLeaves(t, u, at) /\ NoNewLeaves(u, v, at) => NoNewLeaves(t, v, at)
BY DEF Same, NoNewLeaves

LEMMA SameSub ==
  ASSUME NEW t, SourceTree(t), NEW u, SourceTree(u), NEW at \in Seq(Seq(Word)),
         Same(t, u, at)
  PROVE  Sub(u, at) = Sub(t, at)
<1>1. DOMAIN t \subseteq Seq(Seq(Word)) /\ DOMAIN u \subseteq Seq(Seq(Word))
  BY SourceFacts
<1>2. /\ Below(u, at) = Below(t, at) /\ Below(t, at) \subseteq Seq(Seq(Word))
      /\ \A path \in Below(t, at) : u[path] = t[path]
  BY <1>1 DEF Same, Below
<1>. QED
  BY <1>2, SameBelowSameSub

\* What the paths of a param have to be like when its config is visited.
Quiet(t, u, p) ==
  /\ \A at \in {p.path} \cup ParamPaths(configs[p.key], p.param) :
       at \in Seq(Seq(Word)) => Same(t, u, at)
  /\ NoNewLeaves(t, u, p.path)

\* The config of the param is visited after other ones.
LEMMA CopyHere ==
  ASSUME IndInv, CanonicalFirst, NEW p \in Params, Undisturbed(p),
         NEW t, SourceTree(t), p.path \notin DOMAIN t,
         \A path \in WithAncestors(p.path) \ {p.path} : ~IsLeafAt(t, path),
         NEW best, IsBest(t, p, best), NEW u, SourceTree(u), Quiet(t, u, p),
         NEW r, r = CopyAliasesFor(u, p.key), r # Panicked
  PROVE  Holds(r, p.path, Sub(t, PathAt(p, best)))
<1>. DEFINE x == p.path
            paths == AllPathsForChild(configs[p.key], p.param)
            from == PathAt(p, best)
            names == {p.path} \cup ParamPaths(configs[p.key], p.param)
<1>1. /\ x \in Seq(Seq(Word)) /\ p.key[1] \in Seq(Seq(Word))
      /\ x = Append(p.key[1], ParamKey(p.param)) /\ ParamKey(p.param) \in Seq(Word)
  BY ParamFacts
<1>2. /\ best \in DOMAIN paths /\ from = paths[best].path /\ from \in DOMAIN t \ {NoPath}
      /\ \A j \in DOMAIN paths : paths[j].path \in DOMAIN t \ {NoPath} => best <= j
  BY DEF IsBest, PathAt
<1>3. \A j \in DOMAIN paths : paths[j].path # NoPath =>
         paths[j].path \in names /\ paths[j].path \in Seq(Seq(Word))
  BY PathsAreParamPaths DEF PathAt
<1>4. \A at \in names : at \in Seq(Seq(Word)) => (at \in DOMAIN u <=> at \in DOMAIN t)
  <2>. SUFFICES ASSUME NEW at \in names, at \in Seq(Seq(Word))
                PROVE  at \in DOMAIN u <=> at \in DOMAIN t
    OBVIOUS
  <2>1. Same(t, u, at) /\ IsPrefix(at, at)
    BY PrefixReflexive DEF Quiet
  <2>. QED
    BY <2>1 DEF Same
<1>. HIDE DEF names, paths
<1>5. x \notin DOMAIN u
  BY <1>1, <1>4 DEF names
<1>6. from \in names /\ from \in Seq(Seq(Word)) /\ from \in DOMAIN u \ {NoPath}
  BY <1>2, <1>3, <1>4
<1>7. \A j \in DOMAIN paths : paths[j].path \in DOMAIN u \ {NoPath} => best <= j
  BY <1>2, <1>3, <1>4
<1>8. Sub(u, from) = Sub(t, from)
  BY <1>6, SameSub DEF Quiet, names
<1>9. ~IsLeafAt(u, p.key[1])
  <2>. SUFFICES ASSUME IsLeafAt(u, p.key[1])  PROVE FALSE
    OBVIOUS
  <2>1. ParentOf(x) = p.key[1] /\ x # <<>>
    <3>1. ASSUME NEW K, NEW s \in Seq(K), NEW k \in K
          PROVE  ParentOf(Append(s, k)) = s /\ Append(s, k) # <<>>
      BY ONLY <3>1, AppendIsPrefix
    <3>. HIDE DEF x
    <3>. QED
      BY ONLY <1>1, <3>1
  <2>2. IsPrefix(p.key[1], x) /\ p.key[1] # x
    BY <1>1, <2>1, ParentSplits
  <2>3. IsLeafAt(t, p.key[1])
    BY <1>1, <2>2 DEF Quiet, NoNewLeaves
  <2>4. p.key[1] # <<>>
    BY <2>3, SourceFacts DEF IsLeafAt, IsObjectAt
  <2>5. p.key[1] \in WithAncestors(x)
    BY <1>1, <2>2, <2>4, AncestorsArePrefixes
  <2>. QED
    BY <2>2, <2>3, <2>5
<1>. QED
  BY <1>2, <1>5, <1>6, <1>7, <1>8, <1>9, CopyAtParam DEF paths

\* A param that is not there gets the value that it has at the first of its
\* aliases, whatever configs are visited before and after its own.
LEMMA CopiedFromAlias ==
  ASSUME IndInv, CanonicalFirst, NEW p \in Params, Undisturbed(p),
         p.path \notin ConfigAncestors,
         NEW o \in Seq(DOMAIN configs), \E n \in DOMAIN o : o[n] = p.key,
         NEW t, SourceTree(t), p.path \notin DOMAIN t,
         \A path \in WithAncestors(p.path) \ {p.path} : ~IsLeafAt(t, path),
         NEW best, IsBest(t, p, best),
         NEW r, r = CopyAliasedValues(t, o), r # Panicked
  PROVE  SourceTree(r) /\ Holds(r, p.path, Sub(t, PathAt(p, best)))
<1>. DEFINE x == p.path
            paths == AllPathsForChild(configs[p.key], p.param)
            from == PathAt(p, best)
            v == Sub(t, from)
<1>1. PICK after : /\ after[0] = t
                   /\ \A n \in 1..Len(o) : after[n] = CopyAliasesFor(after[n - 1], o[n])
                   /\ Copied!Visit(t, o) = after[Len(o)]
  BY Copied!VisitRuns
<1>2. r = after[Len(o)]
  BY <1>1 DEF CopyAliasedValues, Copying!Visit, Copied!Visit
<1>3. Len(o) \in Nat /\ DOMAIN o = 1..Len(o) /\ \A n \in 1..Len(o) : o[n] \in DOMAIN configs
  OBVIOUS
<1>4. PICK m \in 1..Len(o) : o[m] = p.key /\ \A n \in 1..Len(o) : o[n] = p.key => m <= n
  <2>. DEFINE M == {n \in 1..Len(o) : o[n] = p.key}
  <2>1. M \in SUBSET Nat /\ M # {}
    BY <1>3
  <2>2. PICK m \in M : \A n \in M : m <= n
    BY <2>1, Copied!LeastNumber
  <2>. QED
    BY <2>2
<1>5. /\ x \in Seq(Seq(Word)) /\ p.key \in DOMAIN configs /\ p.key[1] \in Seq(Seq(Word))
      /\ x = Append(p.key[1], ParamKey(p.param)) /\ ParamKey(p.param) \in Seq(Word)
      /\ p.param \in ParamMeta /\ configs[p.key] \in ConfigData
  BY ParamFacts DEF IndInv, TypeOK, IsConfigs
<1>6. /\ best \in DOMAIN paths /\ from = paths[best].path /\ from \in DOMAIN t \ {NoPath}
      /\ \A j \in DOMAIN paths : paths[j].path \in DOMAIN t \ {NoPath} => best <= j
  BY DEF IsBest, PathAt
<1>8. TreeOver(Seq(Word), t) /\ from \in Seq(Seq(Word))
  BY <1>6, SourceFacts
<1>9. DOMAIN v \subseteq Seq(Seq(Word))
  <2>1. TreeOver(Seq(Word), v)
    BY <1>6, SubSource
  <2>. HIDE DEF v
  <2>. QED
    BY <2>1 DEF TreeOver, Path
<1>. DEFINE Fine(n) == \/ after[n] = Panicked
                       \/ /\ SourceTree(after[n])
                          /\ n < m => Quiet(t, after[n], p)
                          /\ n >= m => Holds(after[n], x, v)
            T == {n \in Nat : n <= Len(o) => Fine(n)}
<1>. HIDE DEF x, v, from, paths
<1>10. 0 \in T
  <2>1. Quiet(t, t, p)
    BY DEF Same, NoNewLeaves, Quiet
  <2>2. ~(0 >= m)
    BY <1>4
  <2>. QED
    BY <1>1, <2>1, <2>2
<1>11. ASSUME NEW n \in Nat, n \in T  PROVE n + 1 \in T
  <2>0. ASSUME n + 1 <= Len(o), after[n + 1] # Panicked  PROVE after[n] # Panicked
    <3>1. n + 1 \in 1..Len(o) /\ (n + 1) - 1 = n
      BY <1>3, <2>0
    <3>2. after[n + 1] = CopyAliasesFor(after[n], o[n + 1])
      BY <1>1, <3>1
    <3>. QED
      BY <2>0, <3>2 DEF CopyAliasesFor
  <2>. SUFFICES ASSUME n + 1 <= Len(o), after[n + 1] # Panicked
                PROVE  /\ SourceTree(after[n + 1])
                       /\ n + 1 < m => Quiet(t, after[n + 1], p)
                       /\ n + 1 >= m => Holds(after[n + 1], x, v)
    OBVIOUS
  <2>. DEFINE u == after[n]
              w == after[n + 1]
              key == o[n + 1]
  <2>1. n + 1 \in 1..Len(o) /\ (n + 1) - 1 = n /\ n <= Len(o)
    BY <1>3
  <2>2. w = CopyAliasesFor(u, key) /\ key \in DOMAIN configs
    BY <1>1, <1>3, <2>1
  <2>3. SourceTree(u) /\ (n < m => Quiet(t, u, p)) /\ (n >= m => Holds(u, x, v))
    BY <1>11, <2>0, <2>1
  <2>4. w # Panicked /\ u # Panicked
    BY <2>0
  <2>. HIDE DEF u, w, key
  <2>5. Grown(u, w)
    BY <2>2, <2>3, CopyAliasesKeeps
  <2>6. SourceTree(w)
    BY <2>4, <2>5 DEF Grown
  <2>7. ASSUME n + 1 < m  PROVE Quiet(t, w, p)
    <3>1. key # p.key
      <4>. SUFFICES ASSUME key = p.key  PROVE FALSE
        OBVIOUS
      <4>1. m <= n + 1
        BY <1>4, <2>1 DEF key
      <4>. QED
        BY <2>1, <2>7, <4>1
    <3>2. Quiet(t, u, p)
      BY <2>1, <2>3, <2>7
    <3>3. ASSUME NEW at \in {p.path} \cup ParamPaths(configs[p.key], p.param),
                 at \in Seq(Seq(Word))
          PROVE  Same(t, w, at)
      <4>1. Same(u, w, at)
        BY <2>2, <2>3, <2>4, <3>1, <3>3, CopyElsewhere
      <4>2. Same(t, u, at)
        BY <3>2, <3>3 DEF Quiet
      <4>. QED
        BY <4>1, <4>2, SameTransitive
    <3>4. NoNewLeaves(t, w, p.path)
      <4>1. NoNewLeaves(u, w, p.path)
        BY <1>5, <2>2, <2>3, <2>4, <3>1, CopyElsewhere DEF x
      <4>2. NoNewLeaves(t, u, p.path)
        BY <3>2 DEF Quiet
      <4>. QED
        BY <4>1, <4>2, SameTransitive
    <3>. QED
      BY <3>3, <3>4 DEF Quiet
  <2>8. ASSUME n + 1 = m  PROVE Holds(w, x, v)
    <3>1. Quiet(t, u, p) /\ key = p.key
      BY <1>4, <2>1, <2>3, <2>8 DEF key
    <3>2. Holds(w, p.path, Sub(t, PathAt(p, best)))
      BY <2>2, <2>3, <2>4, <3>1, CopyHere
    <3>. QED
      BY <3>2 DEF x, v, from
  <2>9. ASSUME n >= m  PROVE Holds(w, x, v)
    BY <1>5, <1>9, <2>3, <2>4, <2>5, <2>9, HoldsGrows DEF x
  <2>. QED
    BY <1>3, <2>1, <2>6, <2>7, <2>8, <2>9 DEF w
<1>12. Nat \subseteq T
  <2>. HIDE DEF T
  <2>. QED
    BY <1>10, <1>11, Copied!InductionOnSet
<1>13. Len(o) \in T /\ Len(o) >= m
  BY <1>3, <1>4, <1>12
<1>14. Fine(Len(o))
  BY <1>3, <1>13
<1>15. SourceTree(r) /\ Holds(r, x, v)
  BY <1>2, <1>13, <1>14
<1>. QED
  BY <1>15 DEF x, v, from
-----------------------------------------------------------------------------
LEMMA CopyAllGrows ==
  ASSUME IndInv, NEW o \in Seq(DOMAIN configs), NEW t, NEW u, Grown(t, u)
  PROVE  Grown(t, CopyAliasedValues(u, o))
<1>1. PICK after : /\ after[0] = u
                   /\ \A n \in 1..Len(o) : after[n] = CopyAliasesFor(after[n - 1], o[n])
                   /\ Copied!Visit(u, o) = after[Len(o)]
  BY Copied!VisitRuns
<1>2. ASSUME NEW n \in 1..Len(o), Grown(t, after[n - 1])  PROVE Grown(t, after[n])
  <2>1. o[n] \in DOMAIN configs
    OBVIOUS
  <2>. QED
    BY <1>1, <1>2, <2>1, CopyStepGrows
<1>3. Len(o) \in Nat /\ 0 \in 0..Len(o)
  OBVIOUS
<1>4. Grown(t, after[0])
  BY <1>1
<1>5. Grown(t, after[Len(o)])
  BY <1>2, <1>3, <1>4, RunGrows
<1>. QED
  BY <1>1, <1>5 DEF CopyAliasedValues, Copying!Visit, Copied!Visit

\* What is left of a tree that is none would keep everything.
LEMMA KeepsNotAll ==
  ASSUME NEW path, path \notin ConfigAncestors, NEW u, u # Panicked, \A t : Grown(t, u)
  PROVE  FALSE
<1>. DEFINE at(node) == [x \in {path} |-> node]
<1>1. Keeps(at(Object), u) /\ Keeps(at(Other(0)), u)
  BY DEF Grown
<1>2. /\ path \in DOMAIN at(Object) /\ at(Object)[path] = Object
      /\ path \in DOMAIN at(Other(0)) /\ at(Other(0))[path] = Other(0)
  OBVIOUS
<1>. HIDE DEF at
<1>3. u[path].kind = Object.kind /\ u[path].kind = Other(0).kind
  BY <1>1, <1>2 DEF Keeps
<1>. QED
  BY <1>3 DEF Object, Other

\* A param takes the value that is at its own path.
LEMMA CopiedFromPath ==
  ASSUME IndInv, CanonicalFirst, NEW p \in Params, p.path \notin ConfigAncestors,
         NEW o \in Seq(DOMAIN configs), NEW t, SourceTree(t), p.path \in DOMAIN t,
         NEW best, IsBest(t, p, best),
         NEW r, r = CopyAliasedValues(t, o), r # Panicked
  PROVE  SourceTree(r) /\ Holds(r, p.path, Sub(t, PathAt(p, best)))
<1>. DEFINE x == p.path
            paths == AllPathsForChild(configs[p.key], p.param)
            v == Sub(t, x)
<1>1. /\ paths \in Seq(PathEntry) /\ 1 \in DOMAIN paths /\ paths[1].path = x /\ x # NoPath
  BY FirstPathOfParam
<1>2. best \in DOMAIN paths /\ best <= 1
  BY <1>1 DEF IsBest
<1>3. best = 1
  BY <1>1, <1>2
<1>4. PathAt(p, best) = x
  BY <1>1, <1>3 DEF PathAt
<1>5. x \in Seq(Seq(Word)) /\ TreeOver(Seq(Word), t)
  BY ParamFacts, SourceFacts
<1>6. TreeOver(Seq(Word), v) /\ \A q \in DOMAIN v : Join(x, q) \in DOMAIN t /\ v[q] = t[Join(x, q)]
  BY <1>5, SubIsTree
<1>7. Holds(t, x, v)
  BY <1>6 DEF Holds
<1>8. Grown(t, r)
  <2>1. Grown(t, t)
    BY SameKeeps DEF Grown
  <2>. QED
    BY <2>1, CopyAllGrows
<1>. HIDE DEF v, x
<1>9. DOMAIN v \subseteq Seq(Seq(Word))
  BY <1>6 DEF TreeOver, Path
<1>10. SourceTree(r) /\ Holds(r, x, v)
  BY <1>5, <1>7, <1>8, <1>9, HoldsGrows DEF x
<1>. QED
  BY <1>4, <1>10 DEF x, v

\* What a hierarchical source says of a param is what is left for the merge.
LEMMA SourceValueIsKept ==
  ASSUME IndInv, TablesInv, StructureInv, CanonicalFirst,
         NEW source, ~source.flat, SourceTree(source.contents),
         NEW o \in Seq(DOMAIN configs), NEW d \in Seq(DOMAIN configs),
         \A key \in DOMAIN configs : \E n \in DOMAIN o : o[n] = key,
         NEW tree, tree = Preprocess(source, o, d), tree # Panicked,
         NEW p \in Params, p.path \notin ConfigAncestors,
         p.path \in DOMAIN source.contents \/ Undisturbed(p),
         \A path \in WithAncestors(p.path) \ {p.path} : ~IsLeafAt(source.contents, path),
         NEW best, IsBest(source.contents, p, best)
  PROVE  Holds(tree, p.path, Sub(source.contents, PathAt(p, best)))
<1>. DEFINE t == source.contents
            v == Sub(t, PathAt(p, best))
            copied == CopyAliasedValues(t, o)
            left == LaterPasses(copied, o, d)
<1>1. tree = CollectGarbage(left) /\ left # Panicked
  <2>1. tree = CollectGarbage(left)
    BY DEF Preprocess, NestedForm, LaterPasses
  <2>. HIDE DEF left
  <2>. QED
    BY <2>1 DEF CollectGarbage
<1>2. Grown(t, copied)
  <2>1. Grown(t, t)
    BY SameKeeps DEF Grown
  <2>. QED
    BY <2>1, CopyAllGrows
<1>. HIDE DEF t
<1>3. Grown(copied, left)
  <2>1. Grown(copied, copied)
    BY <1>2, SameKeeps DEF Grown
  <2>. HIDE DEF copied
  <2>. QED
    BY <2>1, LaterPassesGrow
<1>4. copied # Panicked
  <2>. SUFFICES ASSUME copied = Panicked  PROVE FALSE
    OBVIOUS
  <2>. HIDE DEF copied
  <2>1. ASSUME NEW u  PROVE Grown(u, left)
    <3>1. Grown(u, copied)
      BY DEF Grown
    <3>. QED
      BY <3>1, LaterPassesGrow
  <2>. HIDE DEF left
  <2>. QED
    BY <1>1, <2>1, KeepsNotAll
<1>5. SourceTree(copied) /\ Holds(copied, p.path, v)
  <2>1. CASE p.path \in DOMAIN t
    BY <1>4, <2>1, CopiedFromPath DEF t
  <2>2. CASE p.path \notin DOMAIN t
    <3>1. p.key \in DOMAIN configs
      BY ParamFacts
    <3>. QED
      BY <1>4, <2>2, <3>1, CopiedFromAlias DEF t
  <2>. QED
    BY <2>1, <2>2
<1>6. PathAt(p, best) \in DOMAIN t /\ SourceTree(t)
  BY DEF IsBest, PathAt, t
<1>. HIDE DEF copied, left
<1>7. <<>> \in DOMAIN v /\ DOMAIN v \subseteq Seq(Seq(Word))
  <2>1. TreeOver(Seq(Word), v)
    BY <1>6, SubSource
  <2>. HIDE DEF v
  <2>. QED
    BY <2>1 DEF TreeOver, IsTree, Path
<1>. HIDE DEF v
<1>8. p.path \in Seq(Seq(Word))
  BY ParamFacts
<1>9. SourceTree(left) /\ Holds(left, p.path, v)
  BY <1>1, <1>3, <1>5, <1>7, <1>8, HoldsGrows
<1>10. Holds(CollectGarbage(left), p.path, v)
  BY <1>7, <1>9, HoldsCollected
<1>. QED
  BY <1>1, <1>10 DEF v, t
-----------------------------------------------------------------------------
(* Flattened sequences: their order, and the words of a path *)

\* Items are related as the sequences that they come from.
LEMMA FlattenedOrder ==
  ASSUME NEW S, NEW seqs \in Seq(Seq(S)), NEW R,
         \A i, j \in DOMAIN seqs : i <= j =>
           \A a \in DOMAIN seqs[i], b \in DOMAIN seqs[j] : <<seqs[i][a], seqs[j][b]>> \in R
  PROVE  LET whole == FlattenSeq(seqs)
         IN  \A r, s \in DOMAIN whole : r <= s => <<whole[r], whole[s]>> \in R
<1>1. CASE Len(seqs) = 0
  <2>1. seqs = <<>>
    BY <1>1
  <2>2. FlattenSeq(seqs) = <<>>
    BY <1>1, <2>1 DEF FlattenSeq
  <2>. QED
    BY <2>2
<1>2. CASE Len(seqs) # 0
  <2>. DEFINE n == Len(seqs)
              f == CHOOSE f : Flattens(f, seqs, n)
              Ordered(g) == \A r, s \in DOMAIN g : r <= s => <<g[r], g[s]>> \in R
              T == {m \in Nat : m + 1 <= n => Ordered(f[m + 1])}
  <2>1. n \in Nat /\ n # 0 /\ DOMAIN seqs = 1..n
    BY <1>2
  <2>2. Flattens(f, seqs, n)
    BY <2>1, FlatteningExists
  <2>. HIDE DEF f
  <2>3. ASSUME NEW m \in 1..n
        PROVE  /\ f[m] \in Seq(S) /\ seqs[m] \in Seq(S)
               /\ f[m] = IF m = 1 THEN seqs[m] ELSE f[m - 1] \o seqs[m]
               /\ \A r \in DOMAIN f[m] : \E i \in 1..m : \E j \in DOMAIN seqs[i] :
                    f[m][r] = seqs[i][j]
    <3>1. \A r \in DOMAIN f[m] : \E i \in 1..m : \E offset \in Nat :
             r - offset \in DOMAIN seqs[i] /\ PartAt(seqs[i], offset, f[m])
      BY <2>2, FlattenUpTo
    <3>2. f[m] \in Seq(S) /\ seqs[m] \in Seq(S)
      BY <2>2, FlattenUpTo
    <3>3. ASSUME NEW r \in DOMAIN f[m]
          PROVE  \E i \in 1..m : \E j \in DOMAIN seqs[i] : f[m][r] = seqs[i][j]
      <4>1. PICK i \in 1..m : \E offset \in Nat :
               r - offset \in DOMAIN seqs[i] /\ PartAt(seqs[i], offset, f[m])
        BY <3>1
      <4>2. PICK offset \in Nat : r - offset \in DOMAIN seqs[i] /\ PartAt(seqs[i], offset, f[m])
        BY <4>1
      <4>3. offset + (r - offset) = r
        <5>1. r \in Nat
          BY <3>2
        <5>. QED
          BY <5>1
      <4>4. f[m][r] = seqs[i][r - offset]
        BY <4>2, <4>3 DEF PartAt
      <4>. QED
        BY <4>2, <4>4
    <3>4. f[m] = IF m = 1 THEN seqs[m] ELSE f[m - 1] \o seqs[m]
      BY <2>2 DEF Flattens
    <3>. QED
      BY <3>2, <3>3, <3>4
  <2>. HIDE DEF n
  <2>4. 0 \in T
    <3>1. 1 \in 1..n /\ 1 <= 1
      BY <2>1
    <3>2. f[1] = seqs[1]
      BY <2>3, <3>1
    <3>3. \A a, b \in DOMAIN seqs[1] : <<seqs[1][a], seqs[1][b]>> \in R
      BY <2>1, <3>1
    <3>. DEFINE g == f[1]
    <3>. HIDE DEF g
    <3>4. Ordered(g)
      BY <3>2, <3>3 DEF g
    <3>5. 0 + 1 = 1 /\ f[0 + 1] = g
      BY DEF g
    <3>. QED
      BY <3>4, <3>5
  <2>5. ASSUME NEW m \in Nat, m \in T  PROVE m + 1 \in T
    <3>. SUFFICES ASSUME m + 2 <= n  PROVE Ordered(f[m + 2])
      BY <2>1
    <3>. DEFINE g == f[m + 1]
                new == seqs[m + 2]
                h == f[m + 2]
    <3>1. /\ m + 1 \in 1..n /\ m + 2 \in 1..n /\ m + 2 # 1 /\ (m + 2) - 1 = m + 1
          /\ m + 1 <= n
      BY <2>1
    <3>2. Ordered(g)
      BY <2>5, <3>1
    <3>3. h = g \o new /\ g \in Seq(S) /\ new \in Seq(S)
      BY <2>3, <3>1
    <3>4. ASSUME NEW r \in DOMAIN g, NEW b \in DOMAIN new
          PROVE  <<g[r], new[b]>> \in R
      <4>1. PICK i \in 1..(m + 1) : \E j \in DOMAIN seqs[i] : g[r] = seqs[i][j]
        BY <2>3, <3>1
      <4>2. i \in DOMAIN seqs /\ m + 2 \in DOMAIN seqs /\ i <= m + 2
        BY <2>1, <3>1
      <4>. QED
        BY <4>1, <4>2
    <3>5. ASSUME NEW a \in DOMAIN new, NEW b \in DOMAIN new
          PROVE  <<new[a], new[b]>> \in R
      <4>1. m + 2 \in DOMAIN seqs /\ m + 2 <= m + 2
        BY <2>1, <3>1
      <4>. QED
        BY <4>1
    <3>. HIDE DEF g, new, h
    <3>6. /\ h \in Seq(S) /\ Len(g) \in Nat /\ Len(new) \in Nat /\ Len(h) = Len(g) + Len(new)
          /\ \A j \in 1..Len(g) : h[j] = g[j]
          /\ \A j \in 1..Len(new) : h[Len(g) + j] = new[j]
      BY <3>3, ConcatProperties
    <3>7. DOMAIN g = 1..Len(g) /\ DOMAIN new = 1..Len(new) /\ DOMAIN h = 1..Len(h)
      BY <3>3, <3>6
    <3>8. ASSUME NEW r \in DOMAIN h
          PROVE  \/ r \in DOMAIN g /\ h[r] = g[r]
                 \/ r > Len(g) /\ \E j \in DOMAIN new : h[r] = new[j]
      <4>1. CASE r <= Len(g)
        BY <3>6, <3>7, <4>1
      <4>2. CASE r > Len(g)
        <5>. DEFINE j == r - Len(g)
        <5>1. j \in 1..Len(new) /\ Len(g) + j = r
          BY <3>6, <3>7, <4>2
        <5>. HIDE DEF j
        <5>2. h[r] = new[j]
          BY <3>6, <5>1
        <5>. QED
          BY <3>7, <4>2, <5>1, <5>2
      <4>3. r \in Nat
        BY <3>7
      <4>. QED
        BY <3>6, <4>1, <4>2, <4>3
    <3>9. ASSUME NEW r \in DOMAIN h, NEW s \in DOMAIN h, r <= s
          PROVE  <<h[r], h[s]>> \in R
      <4>0. r \in Nat /\ s \in Nat
        BY <3>7
      <4>1. CASE s \in DOMAIN g /\ h[s] = g[s]
        <5>1. r <= Len(g)
          BY <3>6, <3>7, <3>9, <4>0, <4>1
        <5>2. r \in DOMAIN g /\ h[r] = g[r]
          BY <3>6, <3>8, <4>0, <5>1
        <5>. QED
          BY <3>2, <3>9, <4>1, <5>2
      <4>2. CASE \E j \in DOMAIN new : h[s] = new[j]
        BY <3>4, <3>5, <3>8, <4>2
      <4>. QED
        BY <3>8, <4>1, <4>2
    <3>10. Ordered(h)
      BY <3>9
    <3>. QED
      BY <3>10 DEF h
  <2>6. Nat \subseteq T
    <3>. HIDE DEF T
    <3>. QED
      BY <2>4, <2>5, Copied!InductionOnSet
  <2>7. Ordered(f[n])
    <3>. DEFINE m == n - 1
    <3>1. m \in Nat /\ m + 1 = n /\ n <= n
      BY <2>1
    <3>. HIDE DEF m
    <3>2. m \in T
      BY <2>6, <3>1
    <3>. QED
      BY <3>1, <3>2
  <2>8. FlattenSeq(seqs) = f[n]
    BY <1>2 DEF FlattenSeq, f, Flattens, n
  <2>. QED
    BY <2>7, <2>8
<1>. QED
  BY <1>1, <1>2

\* The words of a path are those of its parent, and those of its last key.
LEMMA FlattenAppend ==
  ASSUME NEW S, NEW seqs \in Seq(Seq(S)), NEW s \in Seq(S)
  PROVE  FlattenSeq(Append(seqs, s)) = FlattenSeq(seqs) \o s
<1>. DEFINE n == Len(seqs)
            longer == Append(seqs, s)
            f == CHOOSE f : Flattens(f, seqs, n)
            g == CHOOSE g : Flattens(g, longer, n + 1)
            T == {m \in Nat : m + 1 <= n => g[m + 1] = f[m + 1]}
<1>1. /\ n \in Nat /\ n + 1 \in Nat /\ Len(longer) = n + 1 /\ longer[n + 1] = s
      /\ \A i \in 1..n : longer[i] = seqs[i]
  OBVIOUS
<1>2. Flattens(f, seqs, n) /\ Flattens(g, longer, n + 1)
  BY <1>1, FlatteningExists
<1>3. FlattenSeq(longer) = g[n + 1]
  <2>. DEFINE m == n + 1
  <2>1. Len(longer) = m /\ m # 0
    BY <1>1
  <2>2. g = CHOOSE h : Flattens(h, longer, m)
    OBVIOUS
  <2>. HIDE DEF longer, m, g
  <2>3. FlattenSeq(longer) = g[m]
    BY <2>1, <2>2 DEF FlattenSeq, Flattens
  <2>. QED
    BY <2>3 DEF m
<1>4. n # 0 => FlattenSeq(seqs) = f[n]
  BY DEF FlattenSeq, f, Flattens
<1>. HIDE DEF f, g, longer, n
<1>5. \A i \in 1..n : f[i] = IF i = 1 THEN seqs[i] ELSE f[i - 1] \o seqs[i]
  BY <1>2 DEF Flattens
<1>6. \A i \in 1..(n + 1) : g[i] = IF i = 1 THEN longer[i] ELSE g[i - 1] \o longer[i]
  BY <1>2 DEF Flattens
<1>7. 0 \in T
  <2>. SUFFICES ASSUME 1 <= n  PROVE g[1] = f[1]
    OBVIOUS
  <2>1. 1 \in 1..n /\ 1 \in 1..(n + 1)
    BY <1>1
  <2>. QED
    BY <1>1, <1>5, <1>6, <2>1
<1>8. ASSUME NEW m \in Nat, m \in T  PROVE m + 1 \in T
  <2>. SUFFICES ASSUME m + 2 <= n  PROVE g[m + 2] = f[m + 2]
    OBVIOUS
  <2>1. /\ m + 2 \in 1..n /\ m + 2 \in 1..(n + 1) /\ m + 2 # 1 /\ (m + 2) - 1 = m + 1
        /\ m + 1 <= n
    BY <1>1
  <2>2. g[m + 1] = f[m + 1]
    BY <1>8, <2>1
  <2>3. f[m + 2] = f[m + 1] \o seqs[m + 2]
    BY <1>5, <2>1
  <2>4. g[m + 2] = g[m + 1] \o longer[m + 2]
    BY <1>6, <2>1
  <2>. QED
    BY <1>1, <2>1, <2>2, <2>3, <2>4
<1>9. Nat \subseteq T
  <2>. HIDE DEF T
  <2>. QED
    BY <1>7, <1>8, Copied!InductionOnSet
<1>10. CASE n = 0
  <2>1. seqs = <<>>
    BY <1>10 DEF n
  <2>2. FlattenSeq(seqs) = <<>>
    BY <2>1, <1>10 DEF FlattenSeq, n
  <2>3. g[n + 1] = s
    BY <1>1, <1>6, <1>10
  <2>4. <<>> \o s = s
    OBVIOUS
  <2>. QED
    BY <1>3, <2>2, <2>3, <2>4 DEF longer
<1>11. CASE n # 0
  <2>. DEFINE m == n - 1
  <2>1. m \in Nat /\ m + 1 = n /\ n <= n /\ n + 1 \in 1..(n + 1) /\ n + 1 # 1 /\ (n + 1) - 1 = n
    BY <1>1, <1>11
  <2>. HIDE DEF m
  <2>2. m \in T
    BY <1>9, <2>1
  <2>3. g[n] = f[n]
    BY <2>1, <2>2
  <2>4. g[n + 1] = g[n] \o s
    BY <1>1, <1>6, <2>1
  <2>. QED
    BY <1>3, <1>4, <1>11, <2>3, <2>4 DEF longer
<1>. QED
  BY <1>10, <1>11
-----------------------------------------------------------------------------
(* The words of a path *)

LEMMA WordsType ==
  ASSUME NEW path \in Seq(Seq(Word))
  PROVE  Words(path) \in Seq(Word) /\ Len(Words(path)) \in Nat
<1>1. Words(path) \in Seq(Word)
  BY FlattenType DEF Words
<1>. HIDE DEF Words
<1>. QED
  BY <1>1

\* They are those of its parent, and those of its last key.
LEMMA WordsAppend ==
  ASSUME NEW path \in Seq(Seq(Word)), NEW k \in Seq(Word)
  PROVE  /\ Words(Append(path, k)) = Words(path) \o k
         /\ Len(Words(Append(path, k))) = Len(Words(path)) + Len(k)
<1>1. Words(Append(path, k)) = Words(path) \o k
  BY FlattenAppend DEF Words
<1>2. Words(path) \in Seq(Word)
  BY WordsType
<1>. DEFINE w == Words(path)
<1>. HIDE DEF w
<1>3. w \in Seq(Word) => Len(w \o k) = Len(w) + Len(k)
  OBVIOUS
<1>. QED
  BY <1>1, <1>2, <1>3 DEF w

\* A path has more words than what is above it.
LEMMA WordsGrow ==
  ASSUME NEW x \in Path(Key), NEW y \in Seq(Seq(Word)), IsPrefix(y, x), y # x
  PROVE  Len(Words(y)) < Len(Words(x))
<1>. DEFINE up(n) == SubSeq(x, 1, n)
            D == {n \in Nat : Len(y) + n + 1 <= Len(x) =>
                                Len(Words(y)) < Len(Words(up(Len(y) + n + 1)))}
<1>1. /\ x \in Seq(Seq(Word)) /\ Len(x) \in Nat /\ Len(y) \in Nat /\ Len(y) < Len(x)
      /\ up(Len(x)) = x
  <2>1. x \in Seq(Seq(Word))
    BY KeysAreNames
  <2>2. Len(y) < Len(x)
    BY <2>1, StrictPrefixOfParent
  <2>. QED
    BY <2>1, <2>2
<1>2. up(Len(y)) = y
  <2>. DEFINE u == up(Len(y))
  <2>1. u \in Seq(Seq(Word)) /\ Len(u) = Len(y) /\ \A i \in 1..Len(y) : u[i] = x[i]
    BY <1>1
  <2>2. \A i \in 1..Len(y) : y[i] = x[i]
    BY <1>1, PrefixElements
  <2>. HIDE DEF u
  <2>3. u = y
    <3>1. \A i \in 1..Len(y) : u[i] = y[i]
      BY <2>1, <2>2
    <3>2. \A z \in Seq(Seq(Word)) : Len(z) = Len(y) /\ (\A i \in 1..Len(y) : z[i] = y[i]) => z = y
      OBVIOUS
    <3>. QED
      BY <2>1, <3>1, <3>2
  <2>. QED
    BY <2>3 DEF u
<1>3. ASSUME NEW n \in Nat, n < Len(x)
      PROVE  Len(Words(up(n))) < Len(Words(up(n + 1))) /\ up(n) \in Seq(Seq(Word))
  <2>. DEFINE k == x[n + 1]
  <2>1. n + 1 \in DOMAIN x
    BY <1>1, <1>3
  <2>2. k \in Seq(Word) /\ k # <<>>
    <3>1. k \in Key
      BY <2>1 DEF Path
    <3>. QED
      BY <3>1, WordsAssumption
  <2>3. up(n) \in Seq(Seq(Word)) /\ up(n + 1) = Append(up(n), k)
    BY <1>1, <1>3
  <2>4. Len(k) \in Nat /\ Len(k) > 0
    BY <2>2
  <2>. HIDE DEF up, k
  <2>5. /\ Len(Words(up(n + 1))) = Len(Words(up(n))) + Len(k)
        /\ Len(Words(up(n))) \in Nat
    <3>1. Words(Append(up(n), k)) = Words(up(n)) \o k /\ Len(Words(up(n))) \in Nat
          /\ Len(Words(Append(up(n), k))) = Len(Words(up(n))) + Len(k)
      BY <2>2, <2>3, WordsAppend, WordsType, Zenon
    <3>. QED
      BY <2>3, <3>1
  <2>. QED
    BY <2>3, <2>4, <2>5
<1>. HIDE DEF up
<1>4. 0 \in D
  <2>1. Len(y) + 0 + 1 = Len(y) + 1
    BY <1>1
  <2>2. Len(Words(up(Len(y)))) < Len(Words(up(Len(y) + 1)))
    BY <1>1, <1>3
  <2>. QED
    BY <1>2, <2>1, <2>2
<1>5. ASSUME NEW n \in Nat, n \in D  PROVE n + 1 \in D
  <2>. DEFINE m == Len(y) + n + 1
  <2>. SUFFICES ASSUME Len(y) + (n + 1) + 1 <= Len(x)
                PROVE  Len(Words(y)) < Len(Words(up(Len(y) + (n + 1) + 1)))
    OBVIOUS
  <2>1. m \in Nat /\ m < Len(x) /\ m <= Len(x) /\ Len(y) + (n + 1) + 1 = m + 1 /\ m + 1 \in Nat
        /\ m + 1 <= Len(x)
    BY <1>1
  <2>2. Len(Words(y)) < Len(Words(up(m)))
    BY <1>5, <2>1
  <2>. HIDE DEF m
  <2>3. Len(Words(up(m))) < Len(Words(up(m + 1))) /\ up(m) \in Seq(Seq(Word))
    BY <1>3, <2>1
  <2>4. up(m + 1) \in Seq(Seq(Word))
    <3>1. CASE m + 1 < Len(x)
      BY <1>3, <2>1, <3>1
    <3>2. CASE m + 1 = Len(x)
      BY <1>1, <3>2
    <3>. QED
      BY <1>1, <2>1, <3>1, <3>2
  <2>5. Len(Words(y)) \in Nat /\ Len(Words(up(m))) \in Nat /\ Len(Words(up(m + 1))) \in Nat
    BY <2>3, <2>4, WordsType
  <2>6. Len(Words(y)) < Len(Words(up(m + 1)))
    BY <2>2, <2>3, <2>5
  <2>. QED
    BY <2>1, <2>6
<1>6. Nat \subseteq D
  <2>. HIDE DEF D
  <2>. QED
    BY <1>4, <1>5, Copied!InductionOnSet
<1>. DEFINE n == Len(x) - Len(y) - 1
<1>7. n \in Nat /\ Len(y) + n + 1 = Len(x)
  BY <1>1
<1>. HIDE DEF n
<1>8. Len(Words(y)) < Len(Words(up(Len(y) + n + 1)))
  <2>1. n \in D
    BY <1>6, <1>7
  <2>. DEFINE m == Len(y) + n + 1
  <2>2. m <= Len(x)
    BY <1>1, <1>7
  <2>3. n \in D => (m <= Len(x) => Len(Words(y)) < Len(Words(up(m))))
    OBVIOUS
  <2>. HIDE DEF D, m
  <2>4. Len(Words(y)) < Len(Words(up(m)))
    BY <2>1, <2>2, <2>3
  <2>. QED
    BY <2>4 DEF m
<1>9. up(Len(y) + n + 1) = x
  BY <1>1, <1>7
<1>. QED
  BY <1>8, <1>9, Zenon
-----------------------------------------------------------------------------
(* nest_kvs: what is copied where *)

\* Where an entry is copied to.
TargetOf(entry) == Append(entry.parent, entry.field)

LEMMA KvListing ==
  ASSUME TablesInv, NEW key \in Seq(Word)
  PROVE  /\ IsFiniteSet(KvTargets(key))
         /\ (CHOOSE s \in SetToSeqs(KvTargets(key)) : TRUE) \in SetToSeqs(KvTargets(key))
<1>1. IsFiniteSet(KvTargets(key))
  BY KvTargetsType
<1>. DEFINE rank == [x \in KvTargets(key) |-> 0]
<1>2. \A x \in KvTargets(key) : rank[x] \in Nat
  OBVIOUS
<1>. HIDE DEF rank
<1>3. \E s \in SetToSeqs(KvTargets(key)) : ByRank(s, rank)
  BY <1>1, <1>2, SortedListing
<1>. QED
  BY <1>1, <1>3

\* An entry goes below the parent of a param, and the words of its target
\* are its key.
LEMMA KvEntryFacts ==
  ASSUME TablesInv, NEW kvs, TreeOver(Seq(Word), kvs), NEW key \in ChildKeys(kvs, <<>>),
         key \in Seq(Word), <<key>> \in DOMAIN kvs, NEW j \in DOMAIN KvEntries(kvs, key)
  PROVE  LET entry == KvEntries(kvs, key)[j]
         IN  /\ entry.parent \in Seq(Seq(Word)) /\ entry.field \in Seq(Word)
             /\ entry.value = Sub(kvs, <<key>>)
             /\ Words(TargetOf(entry)) = key
             /\ \E path \in DOMAIN mounts :
                  mounts[path].kind = "param" /\ path # <<>> /\ entry.parent = ParentOf(path)
<1>. DEFINE targets == CHOOSE s \in SetToSeqs(KvTargets(key)) : TRUE
            entry == KvEntries(kvs, key)[j]
<1>1. targets \in SetToSeqs(KvTargets(key)) /\ IsFiniteSet(KvTargets(key))
  BY KvListing
<1>2. KvEntries(kvs, key) = [i \in DOMAIN targets |->
        [parent |-> targets[i][1], field |-> targets[i][2], value |-> Sub(kvs, <<key>>)]]
  BY DEF KvEntries
<1>. HIDE DEF targets
<1>3. j \in DOMAIN targets
  BY <1>2
<1>4. /\ entry.parent = targets[j][1] /\ entry.field = targets[j][2]
      /\ entry.value = Sub(kvs, <<key>>)
  BY <1>2, <1>3
<1>. HIDE DEF entry
<1>5. targets[j] \in KvTargets(key)
  BY <1>1, <1>3, ListingType
<1>6. PICK path \in DOMAIN mounts \ {<<>>} :
        /\ mounts[path].kind = "param" /\ IsPrefix(Words(path), key)
        /\ targets[j] = <<ParentOf(path), Relative(Words(ParentOf(path)), key)>>
  BY <1>5 DEF KvTargets
<1>7. /\ entry.parent = ParentOf(path)
      /\ entry.field = Relative(Words(ParentOf(path)), key)
  BY <1>4, <1>6
<1>8. path \in Seq(Seq(Word)) /\ path # <<>>
  BY <1>6, KeysAreNames DEF TablesInv, IsTable
<1>9. /\ ParentOf(path) \in Seq(Seq(Word)) /\ LastKey(path) \in Seq(Word)
      /\ path = Append(ParentOf(path), LastKey(path))
  BY <1>8, ParentSplits
<1>. DEFINE parent == ParentOf(path)
            last == LastKey(path)
            words == Words(parent)
<1>10. words \in Seq(Word) /\ Words(path) = words \o last
  BY <1>9, WordsType, WordsAppend
<1>. HIDE DEF words
<1>11. IsPrefix(words, key)
  <2>1. IsPrefix(words, words \o last) /\ words \o last \in Seq(Word)
    BY <1>9, <1>10, JoinType DEF Join
  <2>. QED
    BY <1>6, <1>10, <2>1, PrefixTransitive
<1>12. Relative(words, key) \in Seq(Word) /\ words \o Relative(words, key) = key
  BY <1>10, <1>11, PrefixSplits DEF Join
<1>13. Words(TargetOf(entry)) = key
  <2>. DEFINE field == Relative(words, key)
  <2>1. entry.parent = parent /\ entry.field = field
    BY <1>7 DEF words
  <2>2. parent \in Seq(Seq(Word)) /\ field \in Seq(Word)
    BY <1>9, <1>12
  <2>. HIDE DEF parent, field
  <2>3. Words(Append(parent, field)) = words \o field
    BY <2>2, WordsAppend DEF words
  <2>. QED
    BY <1>12, <2>1, <2>3 DEF TargetOf, field
<1>14. entry.field \in Seq(Word)
  BY <1>7, <1>12 DEF words
<1>15. entry.parent \in Seq(Seq(Word))
  BY <1>7, <1>9
<1>16. \E q \in DOMAIN mounts :
         mounts[q].kind = "param" /\ q # <<>> /\ entry.parent = ParentOf(q)
  BY <1>6, <1>7
<1>. QED
  BY <1>4, <1>13, <1>14, <1>15, <1>16 DEF entry

\* One of the entries of a key is that of the param at it.
LEMMA KvEntryOf ==
  ASSUME TablesInv, NEW kvs, NEW x \in DOMAIN mounts, x # <<>>,
         mounts[x].kind = "param", NEW key \in Seq(Word), Words(x) = key
  PROVE  \E j \in DOMAIN KvEntries(kvs, key) :
           LET entry == KvEntries(kvs, key)[j]
           IN  TargetOf(entry) = x /\ entry.parent = ParentOf(x)
<1>. DEFINE targets == CHOOSE s \in SetToSeqs(KvTargets(key)) : TRUE
            parent == ParentOf(x)
            field == Relative(Words(parent), key)
<1>1. targets \in SetToSeqs(KvTargets(key)) /\ IsFiniteSet(KvTargets(key))
  BY KvListing
<1>2. KvEntries(kvs, key) = [i \in DOMAIN targets |->
        [parent |-> targets[i][1], field |-> targets[i][2], value |-> Sub(kvs, <<key>>)]]
  BY DEF KvEntries
<1>. HIDE DEF targets
<1>3. IsPrefix(Words(x), key)
  BY PrefixReflexive
<1>4. <<parent, field>> \in KvTargets(key)
  BY <1>3 DEF KvTargets
<1>5. x \in Seq(Seq(Word))
  BY KeysAreNames DEF TablesInv, IsTable
<1>6. parent \in Seq(Seq(Word)) /\ LastKey(x) \in Seq(Word) /\ x = Append(parent, LastKey(x))
  BY <1>5, ParentSplits
<1>7. field = LastKey(x)
  <2>. DEFINE words == Words(parent)
              last == LastKey(x)
  <2>1. words \in Seq(Word) /\ Words(x) = words \o last
    BY <1>6, WordsType, WordsAppend
  <2>. HIDE DEF words
  <2>2. Relative(words, words \o last) = last
    BY <1>6, <2>1, JoinType DEF Join
  <2>. QED
    BY <2>1, <2>2 DEF words
<1>. HIDE DEF parent, field
<1>8. PICK j \in DOMAIN targets : targets[j] = <<parent, field>>
  BY <1>1, <1>4, ListingHas
<1>9. j \in DOMAIN KvEntries(kvs, key)
  BY <1>2
<1>10. /\ KvEntries(kvs, key)[j].parent = parent
       /\ KvEntries(kvs, key)[j].field = field
  BY <1>2, <1>8
<1>11. TargetOf(KvEntries(kvs, key)[j]) = x
  BY <1>6, <1>7, <1>10 DEF TargetOf
<1>. QED
  BY <1>9, <1>10, <1>11 DEF parent
-----------------------------------------------------------------------------
(* nest_kvs: the value of a param *)

\* The entry brings this value to the location,
KvHits(entry, x, v) == TargetOf(entry) = x /\ entry.value = v

\* ... or it goes elsewhere: not above it and not below.
KvMisses(entry, x) == ~IsPrefix(TargetOf(entry), x)

LEMMA KvKeeps ==
  ASSUME NEW entry, IsKvEntry(entry), NEW x \in Seq(Seq(Word)),
         ~IsPrefix(x, entry.parent), NEW v, DOMAIN v \subseteq Seq(Seq(Word)),
         NEW t, SourceTree(t), NEW r, r = CopyKvEntry(t, entry), r # Panicked,
         KvHits(entry, x, v) \/ (Holds(t, x, v) /\ KvMisses(entry, x))
  PROVE  SourceTree(r) /\ Holds(r, x, v)
<1>. DEFINE at == entry.parent
            ensured == EnsureObject(t, at)
            children == Entry(entry.field, entry.value)
<1>1. at \in Seq(Seq(Word)) /\ entry.field \in Seq(Word) /\ TreeOver(Seq(Word), entry.value)
  BY DEF IsKvEntry
<1>2. ensured # Panicked /\ r = ExtendMap(ensured, at, children)
  BY DEF CopyKvEntry
<1>3. SourceTree(r)
  <2>1. GoodTree(r)
    BY CopyKvGood DEF GoodTree
  <2>. QED
    BY <2>1 DEF GoodTree
<1>4. ~IsLeafAt(t, at) /\ TreeOver(Seq(Word), t)
  BY <1>2, SourceFacts DEF EnsureObject
<1>5. TreeOver(Seq(Word), ensured) /\ IsObjectAt(ensured, at)
  BY <1>1, <1>4, EnsureObjectIsTree
<1>6. \A path \in DOMAIN t : path \in DOMAIN ensured
        /\ (ensured[path] = t[path] \/ (path # at /\ IsPrefix(path, at)))
  <2>1. ensured = EnsureObject(t, at)
    OBVIOUS
  <2>. HIDE DEF ensured, at
  <2>2. DOMAIN ensured = DOMAIN t \cup WithAncestors(at)
    BY <1>4, <2>1 DEF EnsureObject
  <2>3. \A path \in DOMAIN t :
          ensured[path] = t[path] \/ (IsStrictPrefix(path, at) /\ ensured[path] = Object)
    BY <1>4, <2>1 DEF EnsureObject
  <2>. QED
    BY <2>2, <2>3 DEF IsStrictPrefix
<1>. HIDE DEF ensured
<1>7. /\ DOMAIN children = {entry.field} /\ children[entry.field] = entry.value
      /\ TreeOver(Seq(Word), entry.value)
  BY <1>1 DEF Entry
<1>. HIDE DEF children
<1>8. /\ \A path \in DOMAIN ensured :
           ~IsPrefix(Append(at, entry.field), path) => path \in DOMAIN r /\ r[path] = ensured[path]
      /\ \A p \in DOMAIN entry.value :
           LET path == Join(Append(at, entry.field), p)
           IN  path \in DOMAIN r /\ r[path] = entry.value[p]
  <2>1. /\ DOMAIN children \subseteq Seq(Word)
        /\ \A key \in DOMAIN children : TreeOver(Seq(Word), children[key])
    BY <1>1, <1>7
  <2>. HIDE DEF at
  <2>2. \A path \in DOMAIN ensured :
          (\A key \in DOMAIN children : ~IsPrefix(Append(at, key), path))
            => path \in DOMAIN r /\ r[path] = ensured[path]
    BY <1>1, <1>2, <1>5, <2>1, ExtendMapIsTree
  <2>3. \A key \in DOMAIN children : \A p \in DOMAIN children[key] :
          LET path == Join(Append(at, key), p)
          IN  path \in DOMAIN r /\ r[path] = children[key][p]
    BY <1>1, <1>2, <1>5, <2>1, ExtendMapIsTree
  <2>. QED
    BY <1>7, <2>2, <2>3
<1>9. CASE KvHits(entry, x, v)
  BY <1>3, <1>8, <1>9 DEF KvHits, TargetOf, Holds
<1>10. CASE Holds(t, x, v) /\ KvMisses(entry, x) /\ ~KvHits(entry, x, v)
  <2>. DEFINE T == Append(at, entry.field)
  <2>1. T \in Seq(Seq(Word)) /\ ParentOf(T) = at
    BY <1>1, AppendIsPrefix
  <2>2. ~IsPrefix(T, x)
    BY <1>10 DEF KvMisses, TargetOf
  <2>3. ~IsPrefix(x, T)
    <3>. SUFFICES ASSUME IsPrefix(x, T)  PROVE FALSE
      OBVIOUS
    <3>1. x # T
      BY <2>2, <2>1, PrefixReflexive
    <3>. HIDE DEF T
    <3>2. IsPrefix(x, at)
      BY <2>1, <3>1, StrictPrefixOfParent
    <3>. QED
      BY <3>2
  <2>. HIDE DEF T
  <2>4. ASSUME NEW q \in DOMAIN v
        PROVE  /\ Join(x, q) \in DOMAIN r
               /\ r[Join(x, q)].kind = v[q].kind /\ r[Join(x, q)].data = v[q].data
    <3>. DEFINE path == Join(x, q)
    <3>1. /\ path \in DOMAIN t /\ t[path].kind = v[q].kind /\ t[path].data = v[q].data
      BY <1>10 DEF Holds
    <3>2. path \in Seq(Seq(Word)) /\ IsPrefix(x, path)
      BY JoinType
    <3>. HIDE DEF path
    <3>3. ~IsPrefix(path, at)
      BY <1>1, <3>2, PrefixTransitive
    <3>4. ~IsPrefix(T, path)
      BY <2>1, <2>2, <2>3, <3>2, PrefixesComparable
    <3>5. path \in DOMAIN r /\ r[path] = t[path]
      BY <1>6, <1>8, <3>1, <3>3, <3>4 DEF T
    <3>. QED
      BY <3>1, <3>5 DEF path
  <2>. QED
    BY <1>3, <2>4 DEF Holds
<1>. QED
  BY <1>9, <1>10
-----------------------------------------------------------------------------
\* The run of a loop over entries: from an entry that hits on.
LEMMA KvRun ==
  ASSUME NEW S, NEW entries \in Seq(S), \A i \in DOMAIN entries : IsKvEntry(entries[i]),
         NEW x \in Seq(Seq(Word)), NEW v, DOMAIN v \subseteq Seq(Seq(Word)),
         \A i \in DOMAIN entries : ~IsPrefix(x, entries[i].parent),
         NEW m \in DOMAIN entries, KvHits(entries[m], x, v),
         \A i \in DOMAIN entries :
           m <= i => KvHits(entries[i], x, v) \/ KvMisses(entries[i], x),
         NEW r, r = CopyingKvs!Visit(Single(Object), entries), r # Panicked
  PROVE  SourceTree(r) /\ Holds(r, x, v)
<1>. DEFINE n == Len(entries)
            There(u) == u = Panicked \/ (SourceTree(u) /\ Holds(u, x, v))
<1>1. PICK after : /\ after[0] = Single(Object)
                   /\ \A i \in 1..n : after[i] = CopyKvEntry(after[i - 1], entries[i])
                   /\ CopiedKvs!Visit(Single(Object), entries) = after[n]
  BY CopiedKvs!VisitRuns
<1>2. n \in Nat /\ DOMAIN entries = 1..n /\ m \in 1..n
  OBVIOUS
<1>3. r = after[n]
  BY <1>1 DEF CopyingKvs!Visit, CopiedKvs!Visit
<1>. HIDE DEF n
<1>4. ASSUME NEW i \in 1..n, GoodTree(after[i - 1])
      PROVE  /\ GoodTree(after[i])
             /\ m <= i /\ (i = m \/ There(after[i - 1])) => There(after[i])
  <2>1. IsKvEntry(entries[i]) /\ after[i] = CopyKvEntry(after[i - 1], entries[i])
    BY <1>1, <1>2
  <2>2. GoodTree(after[i])
    BY <1>4, <2>1, CopyKvGood
  <2>3. ASSUME m <= i, i = m \/ There(after[i - 1]), after[i] # Panicked
        PROVE  SourceTree(after[i]) /\ Holds(after[i], x, v)
    <3>1. after[i - 1] # Panicked
      BY <2>1, <2>3 DEF CopyKvEntry
    <3>2. SourceTree(after[i - 1])
      BY <1>4, <3>1 DEF GoodTree
    <3>3. ~IsPrefix(x, entries[i].parent)
      BY <1>2
    <3>4. KvHits(entries[i], x, v) \/ (Holds(after[i - 1], x, v) /\ KvMisses(entries[i], x))
      BY <1>2, <2>3, <3>1
    <3>. QED
      BY <2>1, <2>3, <3>2, <3>3, <3>4, KvKeeps
  <2>. QED
    BY <2>2, <2>3
<1>. DEFINE D == {i \in Nat : i <= n => GoodTree(after[i]) /\ (m <= i => There(after[i]))}
<1>5. 0 \in D
  <2>1. GoodTree(after[0])
    BY <1>1, SingleIsSource DEF GoodTree
  <2>. QED
    BY <1>2, <2>1
<1>. HIDE DEF There
<1>6. ASSUME NEW i \in Nat, i \in D  PROVE i + 1 \in D
  <2>. SUFFICES ASSUME i + 1 <= n
                PROVE  GoodTree(after[i + 1]) /\ (m <= i + 1 => There(after[i + 1]))
    OBVIOUS
  <2>1. i + 1 \in 1..n /\ (i + 1) - 1 = i /\ i <= n
    BY <1>2
  <2>2. GoodTree(after[i]) /\ (m <= i => There(after[i]))
    BY <1>6, <2>1
  <2>3. m <= i + 1 => i + 1 = m \/ m <= i
    BY <1>2
  <2>4. /\ GoodTree(after[i + 1])
        /\ m <= i + 1 /\ (i + 1 = m \/ There(after[i])) => There(after[i + 1])
    BY <1>4, <2>1, <2>2
  <2>. QED
    BY <2>2, <2>3, <2>4
<1>7. Nat \subseteq D
  <2>. HIDE DEF D
  <2>. QED
    BY <1>5, <1>6, Copied!InductionOnSet
<1>8. There(after[n])
  <2>1. n \in D /\ n <= n /\ m <= n
    BY <1>2, <1>7
  <2>. QED
    BY <2>1
<1>. QED
  BY <1>3, <1>8 DEF There
-----------------------------------------------------------------------------
LEMMA ParentAbove ==
  ASSUME NEW K, NEW path \in Seq(K), path # <<>>
  PROVE  IsPrefix(ParentOf(path), path) /\ ParentOf(path) # path
<1>. DEFINE up == ParentOf(path)
            last == <<LastKey(path)>>
<1>1. /\ up \in Seq(K) /\ LastKey(path) \in K
      /\ path = Append(up, LastKey(path))
  BY ParentSplits
<1>2. last \in Seq(K) /\ Len(last) = 1 /\ Append(up, LastKey(path)) = up \o last
  BY <1>1
<1>. HIDE DEF up, last
<1>3. path = Join(up, last)
  BY <1>1, <1>2 DEF Join
<1>4. IsPrefix(up, path) /\ Len(path) = Len(up) + 1
  <2>1. IsPrefix(up, Join(up, last)) /\ Len(Join(up, last)) = Len(up) + Len(last)
    BY <1>1, <1>2, JoinType
  <2>. QED
    BY <1>2, <1>3, <2>1
<1>5. Len(up) \in Nat
  BY <1>1
<1>. QED
  BY <1>4, <1>5 DEF up

\* The entry whose name is that of a param gives it its value, and no entry
\* after it takes that away: it has at least as many words.
LEMMA NestedEntry ==
  ASSUME IndInv, StructureInv, TablesInv,
         NEW kvs, SourceTree(kvs), IsFiniteSet(DOMAIN kvs),
         NEW p \in Params, <<Words(p.path)>> \in DOMAIN kvs,
         \A path \in DOMAIN mounts :
           mounts[path].kind = "param" => ~IsStrictPrefix(p.path, path),
         NEW r, r = NestKvs(kvs), r # Panicked
  PROVE  SourceTree(r) /\ Holds(r, p.path, Sub(kvs, <<Words(p.path)>>))
<1>. DEFINE x == p.path
            name == Words(x)
            C == ChildKeys(kvs, <<>>)
            E == KvEntrySet(kvs)
            v == Sub(kvs, <<name>>)
<1>1. /\ x \in Path(Key) /\ x \in Seq(Seq(Word)) /\ x # <<>>
      /\ x \in DOMAIN mounts /\ mounts[x].kind = "param"
  <2>1. x \in CanonicalPaths
    BY ParamIsCanonical
  <2>2. x \in DOMAIN mounts /\ mounts[x].kind = "param"
    BY <2>1 DEF CanonicalPaths
  <2>3. x \in Path(Key)
    BY <2>2 DEF IndInv, TypeOK, IsMounts, IsTable, TablesInv
  <2>. QED
    BY <2>2, <2>3, ParamFacts
<1>. HIDE DEF x
<1>2. name \in C /\ name \in Seq(Word)
  <2>1. name \in Seq(Word)
    BY <1>1, WordsType
  <2>. DEFINE at == <<name>>
  <2>2. at \in DOMAIN kvs
    BY DEF x
  <2>3. IsPrefix(<<>>, at) /\ at # <<>> /\ at[Len(<<>>) + 1] = name
    <3>1. at \in Seq(Seq(Word)) /\ at # <<>> /\ at[Len(<<>>) + 1] = name
      BY <2>1
    <3>. HIDE DEF at
    <3>. QED
      BY <3>1, PrefixReflexive
  <2>4. at \in Below(kvs, <<>>) \ {<<>>}
    BY <2>2, <2>3 DEF Below
  <2>. HIDE DEF at, name
  <2>5. name \in C
    BY <2>3, <2>4 DEF ChildKeys
  <2>. QED
    BY <2>1, <2>5
<1>3. TreeOver(Seq(Word), kvs) /\ <<name>> \in DOMAIN kvs
  BY SourceFacts DEF x
<1>4. DOMAIN v \subseteq Seq(Seq(Word))
  <2>1. TreeOver(Seq(Word), v)
    BY <1>3, SubSource
  <2>. QED
    BY <2>1 DEF TreeOver, Path
<1>. HIDE DEF v, name, E
<1>5. PICK keys \in SetToSeqs(C) :
        /\ ShortestFirst(keys) /\ keys \in Seq(C) /\ KvParts(kvs, keys) \in Seq(Seq(E))
        /\ NestKvs(kvs) = CopyingKvs!Visit(Single(Object), FlattenSeq(KvParts(kvs, keys)))
  BY NestKvsParts DEF E
<1>6. IsFiniteSet(C) /\ \A k \in C : k \in Seq(Word) /\ <<k>> \in DOMAIN kvs
  BY NestKvsParts, KvKeysType
<1>. HIDE DEF C
<1>. DEFINE parts == KvParts(kvs, keys)
            entries == FlattenSeq(parts)
<1>7. DOMAIN parts = DOMAIN keys /\ \A i \in DOMAIN parts : parts[i] = KvEntries(kvs, keys[i])
  BY DEF KvParts
<1>8. parts \in Seq(Seq(E)) /\ r = CopyingKvs!Visit(Single(Object), entries)
  BY <1>5
<1>. HIDE DEF parts
<1>9. entries \in Seq(E)
  BY <1>8, FlattenType
<1>10. ASSUME NEW i \in DOMAIN parts, NEW j \in DOMAIN parts[i]
       PROVE  /\ Words(TargetOf(parts[i][j])) = keys[i]
              /\ parts[i][j].value = Sub(kvs, <<keys[i]>>)
              /\ parts[i][j].parent \in Seq(Seq(Word)) /\ parts[i][j].field \in Seq(Word)
              /\ ~IsPrefix(x, parts[i][j].parent)
              /\ keys[i] \in Seq(Word)
  <2>. DEFINE key == keys[i]
  <2>1. key \in C
    BY <1>5, <1>7
  <2>2. key \in Seq(Word) /\ <<key>> \in DOMAIN kvs /\ key \in ChildKeys(kvs, <<>>)
    BY <1>6, <2>1 DEF C
  <2>3. parts[i] = KvEntries(kvs, key)
    BY <1>7
  <2>. HIDE DEF key
  <2>. DEFINE entry == KvEntries(kvs, key)[j]
  <2>4. j \in DOMAIN KvEntries(kvs, key)
    BY <2>3
  <2>5. /\ entry.parent \in Seq(Seq(Word)) /\ entry.field \in Seq(Word)
        /\ entry.value = Sub(kvs, <<key>>) /\ Words(TargetOf(entry)) = key
        /\ \E path \in DOMAIN mounts :
             mounts[path].kind = "param" /\ path # <<>> /\ entry.parent = ParentOf(path)
    BY <1>3, <2>2, <2>4, KvEntryFacts
  <2>6. parts[i][j] = entry
    BY <2>3
  <2>. HIDE DEF entry
  <2>7. PICK path \in DOMAIN mounts :
          mounts[path].kind = "param" /\ path # <<>> /\ entry.parent = ParentOf(path)
    BY <2>5
  <2>8. ~IsPrefix(x, entry.parent)
    <3>. SUFFICES ASSUME IsPrefix(x, entry.parent)  PROVE FALSE
      OBVIOUS
    <3>1. path \in Seq(Seq(Word))
      BY <2>7, KeysAreNames DEF TablesInv, IsTable
    <3>2. /\ entry.parent \in Seq(Seq(Word)) /\ IsPrefix(entry.parent, path)
          /\ entry.parent # path
      <4>1. /\ ParentOf(path) \in Seq(Seq(Word)) /\ LastKey(path) \in Seq(Word)
            /\ path = Append(ParentOf(path), LastKey(path))
        BY <2>7, <3>1, ParentSplits
      <4>2. IsPrefix(ParentOf(path), path) /\ ParentOf(path) # path
        BY <2>7, <3>1, ParentAbove
      <4>. QED
        BY <2>5, <2>7, <4>2
    <3>3. IsPrefix(x, path) /\ x # path
      <4>1. IsPrefix(x, path)
        BY <1>1, <3>1, <3>2, PrefixTransitive
      <4>2. x # path
        BY <1>1, <3>2, PrefixAntisymmetric
      <4>. QED
        BY <4>1, <4>2
    <3>. QED
      BY <2>7, <3>3 DEF IsStrictPrefix, x
  <2>. QED
    BY <2>2, <2>5, <2>6, <2>8 DEF key
\* Where the entry of the param is.
<1>11. PICK i \in DOMAIN parts : keys[i] = name
  BY <1>2, <1>5, <1>6, <1>7, ListingHas
<1>12. PICK j \in DOMAIN parts[i] : TargetOf(parts[i][j]) = x
  <2>1. \E j \in DOMAIN KvEntries(kvs, name) : TargetOf(KvEntries(kvs, name)[j]) = x
    BY <1>1, <1>2, KvEntryOf DEF name
  <2>2. parts[i] = KvEntries(kvs, name)
    BY <1>7, <1>11
  <2>. QED
    BY <2>1, <2>2
<1>13. PICK offset \in Nat : PartAt(parts[i], offset, entries)
  BY <1>8, FlattenParts
<1>. DEFINE m == offset + j
<1>14. m \in DOMAIN entries /\ entries[m] = parts[i][j]
  BY <1>13 DEF PartAt
<1>15. KvHits(entries[m], x, v)
  BY <1>10, <1>11, <1>12, <1>14 DEF KvHits, v
\* Entries come with the number of their words.
<1>. DEFINE R == {pair \in E \X E :
                    Len(Words(TargetOf(pair[1]))) <= Len(Words(TargetOf(pair[2])))}
<1>16. \A s, u \in DOMAIN entries : s <= u => <<entries[s], entries[u]>> \in R
  <2>1. ASSUME NEW k \in DOMAIN parts, NEW l \in DOMAIN parts, k <= l,
               NEW a \in DOMAIN parts[k], NEW b \in DOMAIN parts[l]
        PROVE  <<parts[k][a], parts[l][b]>> \in R
    <3>1. parts[k][a] \in E /\ parts[l][b] \in E
      BY <1>8
    <3>2. Len(keys[k]) <= Len(keys[l])
      BY <1>5, <1>7, <2>1 DEF ShortestFirst
    <3>3. /\ Words(TargetOf(parts[k][a])) = keys[k]
          /\ Words(TargetOf(parts[l][b])) = keys[l]
      BY <1>10
    <3>. QED
      BY <3>1, <3>2, <3>3
  <2>. HIDE DEF R
  <2>. QED
    BY <1>8, <2>1, FlattenedOrder
<1>17. ASSUME NEW s \in DOMAIN entries
       PROVE  /\ entries[s] \in E /\ IsKvEntry(entries[s])
              /\ ~IsPrefix(x, entries[s].parent)
              /\ m <= s => KvHits(entries[s], x, v) \/ KvMisses(entries[s], x)
  <2>1. PICK k \in DOMAIN parts : \E o \in Nat :
          s - o \in DOMAIN parts[k] /\ PartAt(parts[k], o, entries)
    BY <1>8, FlattenParts
  <2>2. PICK o \in Nat : s - o \in DOMAIN parts[k] /\ PartAt(parts[k], o, entries)
    BY <2>1
  <2>. DEFINE a == s - o
  <2>3. a \in DOMAIN parts[k] /\ entries[s] = parts[k][a]
    <3>1. s \in Nat /\ o + a = s
      BY <1>9
    <3>2. o + a \in DOMAIN entries /\ entries[o + a] = parts[k][a]
      BY <2>2 DEF PartAt
    <3>. QED
      BY <2>2, <3>1, <3>2
  <2>. HIDE DEF a
  <2>4. entries[s] \in E /\ IsKvEntry(entries[s])
    BY <1>9, KvSetEntries DEF E
  <2>5. /\ Words(TargetOf(entries[s])) = keys[k]
        /\ entries[s].value = Sub(kvs, <<keys[k]>>)
        /\ ~IsPrefix(x, entries[s].parent)
    BY <1>10, <2>3
  <2>. DEFINE T == TargetOf(entries[s])
  <2>6. T \in Seq(Seq(Word))
    BY <2>4, AppendIsPrefix DEF IsKvEntry, TargetOf
  <2>7. ASSUME m <= s, ~KvMisses(entries[s], x)  PROVE KvHits(entries[s], x, v)
    <3>1. IsPrefix(T, x)
      BY <2>7 DEF KvMisses
    <3>2. T = x
      <4>. SUFFICES ASSUME T # x  PROVE FALSE
        OBVIOUS
      <4>1. <<entries[m], entries[s]>> \in R
        BY <1>14, <1>16, <2>7
      <4>2. Len(Words(TargetOf(entries[m]))) <= Len(Words(T))
        BY <4>1
      <4>3. TargetOf(entries[m]) = x
        BY <1>12, <1>14
      <4>. HIDE DEF T
      <4>4. Len(Words(T)) < Len(Words(x))
        BY <1>1, <2>6, <3>1, WordsGrow
      <4>5. Len(Words(T)) \in Nat /\ Len(Words(x)) \in Nat
        BY <1>1, <2>6, WordsType
      <4>. QED
        BY <4>2, <4>3, <4>4, <4>5
    <3>3. keys[k] = name
      BY <2>5, <3>2 DEF name
    <3>. QED
      BY <2>5, <3>2, <3>3 DEF KvHits, v
  <2>. QED
    BY <2>4, <2>5, <2>7
<1>. HIDE DEF m, R, entries
<1>18. SourceTree(r) /\ Holds(r, x, v)
  BY <1>1, <1>4, <1>8, <1>9, <1>14, <1>15, <1>17, KvRun
<1>. QED
  BY <1>18 DEF x, v, name
-----------------------------------------------------------------------------
(* The value of an entry, up to the merge *)

\* The param is read from a flat source by its name.
Named(contents, p) ==
  /\ <<Words(p.path)>> \in DOMAIN contents
  /\ p.path \notin ConfigAncestors
  /\ \A path \in DOMAIN mounts :
       mounts[path].kind = "param" => ~IsStrictPrefix(p.path, path)

LEMMA SourceEntryIsKept ==
  ASSUME IndInv, TablesInv, StructureInv, NEW source, source.flat,
         SourceTree(source.contents), IsFiniteSet(DOMAIN source.contents),
         NEW o \in Seq(DOMAIN configs), NEW d \in Seq(DOMAIN configs),
         NEW tree, tree = Preprocess(source, o, d), tree # Panicked,
         NEW p \in Params, Named(source.contents, p)
  PROVE  Holds(tree, p.path, Sub(source.contents, <<Words(p.path)>>))
<1>. DEFINE kvs == source.contents
            v == Sub(kvs, <<Words(p.path)>>)
            nested == NestKvs(kvs)
            copied == CopyAliasedValues(nested, o)
            left == LaterPasses(copied, o, d)
<1>1. tree = CollectGarbage(left) /\ left # Panicked
  <2>1. tree = CollectGarbage(left)
    BY DEF Preprocess, NestedForm, LaterPasses
  <2>. HIDE DEF left
  <2>. QED
    BY <2>1 DEF CollectGarbage
<1>2. ASSUME NEW t, Grown(t, nested)  PROVE Grown(t, left)
  <2>. HIDE DEF nested
  <2>1. Grown(t, copied)
    BY <1>2, CopyAllGrows
  <2>. HIDE DEF copied
  <2>. QED
    BY <2>1, LaterPassesGrow
<1>. HIDE DEF left, copied, kvs
<1>3. nested # Panicked
  <2>. SUFFICES ASSUME nested = Panicked  PROVE FALSE
    OBVIOUS
  <2>1. \A t : Grown(t, left)
    BY <1>2 DEF Grown
  <2>. QED
    BY <1>1, <2>1, KeepsNotAll DEF Named
<1>4. SourceTree(nested) /\ Holds(nested, p.path, v)
  BY <1>3, NestedEntry DEF Named, kvs
<1>5. Grown(nested, left)
  <2>1. Grown(nested, nested)
    BY <1>4, SameKeeps DEF Grown
  <2>. HIDE DEF nested
  <2>. QED
    BY <1>2, <2>1
<1>. HIDE DEF nested
<1>6. <<>> \in DOMAIN v /\ DOMAIN v \subseteq Seq(Seq(Word))
  <2>1. TreeOver(Seq(Word), v)
    BY SubSource DEF Named, kvs
  <2>. HIDE DEF v
  <2>. QED
    BY <2>1 DEF TreeOver, IsTree, Path
<1>. HIDE DEF v
<1>7. p.path \in Seq(Seq(Word)) /\ p.path \notin ConfigAncestors
  BY ParamFacts DEF Named
<1>8. SourceTree(left) /\ Holds(left, p.path, v)
  BY <1>1, <1>4, <1>5, <1>6, <1>7, HoldsGrows
<1>9. Holds(CollectGarbage(left), p.path, v)
  BY <1>6, <1>8, HoldsCollected
<1>. QED
  BY <1>1, <1>9 DEF v, kvs
-----------------------------------------------------------------------------
(* The repository *)

\* The repository visits every config of its schema, and no other one.
OrdersListed ==
  status = "open" =>
    /\ \A key \in DOMAIN configs : \E n \in DOMAIN order : order[n] = key
    /\ byDepthOrder \in Seq(DOMAIN configs)

\* The tree has what these contents say of params at their paths,
TellsByPath(contents, m) ==
  \A p \in Params : \A best :
    (/\ IsBest(contents, p, best)
     /\ p.path \notin ConfigAncestors
     /\ p.path \in DOMAIN contents \/ Undisturbed(p)
     /\ \A path \in WithAncestors(p.path) \ {p.path} : ~IsLeafAt(contents, path))
    => Carries(Sub(m, p.path), Sub(contents, PathAt(p, best)))

\* ... or under their names.
TellsByName(contents, m) ==
  \A p \in Params :
    Named(contents, p) => Carries(Sub(m, p.path), Sub(contents, <<Words(p.path)>>))

Tells(source, m) ==
  IF source.flat THEN TellsByName(source.contents, m) ELSE TellsByPath(source.contents, m)

NewestIsRead == sources # <<>> => Tells(NewestSource, merged)

LEMMA BestExists ==
  ASSUME IndInv, CanonicalFirst, NEW p \in Params, NEW t,
         NEW given, given = {i \in DOMAIN AllPathsForChild(configs[p.key], p.param) :
                               AllPathsForChild(configs[p.key], p.param)[i].path
                                 \in DOMAIN t \ {NoPath}},
         given # {}
  PROVE  IsBest(t, p, CHOOSE i \in given : \A j \in given : i <= j)
<1>1. AllPathsForChild(configs[p.key], p.param) \in Seq(PathEntry)
  BY FirstPathOfParam
<1>2. given \in SUBSET Nat
  BY <1>1
<1>3. \E i \in given : \A j \in given : i <= j
  BY <1>2, Copied!LeastNumber
<1>. DEFINE best == CHOOSE i \in given : \A j \in given : i <= j
<1>4. best \in given /\ \A j \in given : best <= j
  BY <1>3
<1>. HIDE DEF best
<1>5. IsBest(t, p, best)
  BY <1>4 DEF IsBest
<1>. QED
  BY <1>5 DEF best

LEMMA NewestReadWins ==
  ASSUME IndInv, CanonicalFirst, NewestIsRead  PROVE NewestSourceWins /\ NewestEntryWins
<1>0. NewestEntryWins
  <2>. SUFFICES ASSUME sources # <<>>, NewestSource.flat, NEW p \in Params,
                       Named(NewestSource.contents, p)
                PROVE  Carries(Sub(merged, p.path),
                               Sub(NewestSource.contents, <<Words(p.path)>>))
    BY DEF NewestEntryWins, Named
  <2>1. TellsByName(NewestSource.contents, merged)
    BY DEF NewestIsRead, Tells
  <2>. QED
    BY <2>1 DEF TellsByName
<1>. SUFFICES ASSUME sources # <<>>, ~NewestSource.flat, NEW p \in Params
              PROVE  LET contents == NewestSource.contents
                         paths    == AllPathsForChild(configs[p.key], p.param)
                         given    == {i \in DOMAIN paths :
                                        paths[i].path \in DOMAIN contents \ {NoPath}}
                         best     == CHOOSE i \in given : \A j \in given : i <= j
                     IN  (/\ given # {}
                          /\ p.path \notin ConfigAncestors
                          /\ p.path \in DOMAIN contents \/ Undisturbed(p)
                          /\ \A path \in WithAncestors(p.path) \ {p.path} :
                               ~IsLeafAt(contents, path))
                         => Carries(Sub(merged, p.path), Sub(contents, paths[best].path))
  BY <1>0 DEF NewestSourceWins
<1>. DEFINE contents == NewestSource.contents
            paths    == AllPathsForChild(configs[p.key], p.param)
            given    == {i \in DOMAIN paths :
                           paths[i].path \in DOMAIN contents \ {NoPath}}
            best     == CHOOSE i \in given : \A j \in given : i <= j
<1>1. TellsByPath(contents, merged)
  BY DEF NewestIsRead, Tells
<1>2. given # {} => IsBest(contents, p, best)
  BY BestExists
<1>3. PathAt(p, best) = paths[best].path
  BY DEF PathAt
<1>. HIDE DEF given, best, contents
<1>4. (/\ given # {}
       /\ p.path \notin ConfigAncestors
       /\ p.path \in DOMAIN contents \/ Undisturbed(p)
       /\ \A path \in WithAncestors(p.path) \ {p.path} : ~IsLeafAt(contents, path))
      => Carries(Sub(merged, p.path), Sub(contents, paths[best].path))
  BY <1>1, <1>2, <1>3 DEF TellsByPath
<1>. QED
  BY <1>4 DEF given, best, contents

\* The state after a step in the terms of the state before it.
LEMMA ReadNext ==
  ASSUME UNCHANGED vars, NEW source, NEW m, merged' = m,
         sources' # <<>> => NewestSource' = source /\ Tells(source, m)
  PROVE  NewestIsRead'
<1>1. configs' = configs /\ ConfigAncestors' = ConfigAncestors /\ mounts' = mounts
  BY SchemaUnchanged DEF vars
<1>2. Params' = Params
  BY <1>1 DEF Params
<1>3. \A p : Undisturbed(p)' <=> Undisturbed(p)
  BY <1>1, <1>2 DEF Undisturbed
<1>4. \A p, best : PathAt(p, best)' = PathAt(p, best)
  BY <1>1 DEF PathAt
<1>5. ASSUME sources' # <<>>  PROVE Tells(NewestSource, merged)'
  <2>1. NewestSource' = source /\ Tells(source, m)
    BY <1>5
  <2>2. \A p, best : IsBest(NewestSource.contents, p, best)' <=> IsBest(source.contents, p, best)
    BY <1>1, <2>1 DEF IsBest
  <2>3. \A p : Named(NewestSource.contents, p)' <=> Named(source.contents, p)
    BY <1>1, <2>1 DEF Named
  <2>4. TellsByPath(NewestSource.contents, merged)' <=> TellsByPath(source.contents, m)
    BY <1>1, <1>2, <1>3, <1>4, <2>1, <2>2 DEF TellsByPath
  <2>5. TellsByName(NewestSource.contents, merged)' <=> TellsByName(source.contents, m)
    BY <1>2, <2>1, <2>3 DEF TellsByName
  <2>. QED
    BY <2>1, <2>4, <2>5 DEF Tells
<1>. QED
  BY <1>5 DEF NewestIsRead
-----------------------------------------------------------------------------
LEMMA InsertSourceRead ==
  ASSUME RepoInv, StructureInv, CanonicalFirst, NewestIsRead, UNCHANGED vars,
         NEW source, IsSource(source),
         NEW o \in Seq(DOMAIN configs), NEW d \in Seq(DOMAIN configs),
         \A key \in DOMAIN configs : \E n \in DOMAIN o : o[n] = key,
         NEW tree, tree = Preprocess(source, o, d), InsertSource(source, tree)
  PROVE  NewestIsRead'
<1>1. CASE tree = Panicked
  <2>1. merged' = merged /\ sources' = sources
    BY <1>1 DEF InsertSource
  <2>2. NewestSource' = NewestSource
    BY <2>1 DEF NewestSource
  <2>3. sources' # <<>> => NewestSource' = NewestSource
          /\ Tells(NewestSource, merged)
    BY <2>1, <2>2 DEF NewestIsRead
  <2>. QED
    BY <2>1, <2>3, ReadNext
<1>2. CASE tree # Panicked
  <2>. DEFINE entry == [source |-> source, layer |-> tree,
                        params |-> Cardinality(Terminals(tree))]
              r == Merge(merged, tree, CanonicalPaths)
  <2>1. merged' = r /\ sources' = Append(sources, entry)
    BY <1>2 DEF InsertSource, GuidedMerge
  <2>2. NewestSource' = source
    <3>. DEFINE S == {sources[i] : i \in DOMAIN sources}
    <3>1. sources \in Seq(S)
      BY DEF RepoInv, SourcesKept
    <3>2. entry.source = source
      OBVIOUS
    <3>. HIDE DEF S, entry
    <3>3. sources'[Len(sources')] = entry
      BY <2>1, <3>1
    <3>. QED
      BY <3>2, <3>3 DEF NewestSource
  <2>. HIDE DEF entry
  <2>3. SourceTree(r)
    <3>1. d \in Seq(Path(Key) \X Types)
      <4>1. DOMAIN configs \subseteq Path(Key) \X Types
        BY DEF RepoInv, IndInv, TypeOK, IsConfigs
      <4>. QED
        BY <4>1, SeqMonotonic
    <3>2. Settled(tree)
      BY <1>2, <3>1, PreprocessedIsSettled DEF RepoInv
    <3>3. Settled(r)
      BY <3>2, MergedIsSettled DEF RepoInv
    <3>. QED
      BY <3>3 DEF Settled
  <2>4. ASSUME ~source.flat  PROVE TellsByPath(source.contents, r)
    <3>. DEFINE contents == source.contents
    <3>. SUFFICES ASSUME NEW p \in Params, NEW best, IsBest(contents, p, best),
                         p.path \notin ConfigAncestors,
                         p.path \in DOMAIN contents \/ Undisturbed(p),
                         \A path \in WithAncestors(p.path) \ {p.path} : ~IsLeafAt(contents, path)
                  PROVE  Carries(Sub(r, p.path), Sub(contents, PathAt(p, best)))
      BY DEF TellsByPath
    <3>. HIDE DEF r
    <3>1. PathAt(p, best) \in DOMAIN contents
      BY DEF IsBest, PathAt
    <3>2. SourceTree(contents)
      BY <3>1 DEF IsSource, GoodTree, Panicked
    <3>. DEFINE v == Sub(contents, PathAt(p, best))
    <3>3. Holds(tree, p.path, v)
      BY <1>2, <2>4, <3>2, SourceValueIsKept DEF RepoInv
    <3>4. TreeOver(Seq(Word), v)
      BY <3>1, <3>2, SubSource
    <3>. HIDE DEF v
    <3>5. <<>> \in DOMAIN v /\ DOMAIN v \subseteq Seq(Seq(Word))
      BY <3>4 DEF TreeOver, IsTree, Path
    <3>6. p.path \in Seq(Seq(Word))
      BY ParamFacts DEF RepoInv
    <3>7. Carries(Sub(r, p.path), v)
      BY <2>3, <3>3, <3>5, <3>6, HoldsRead DEF r
    <3>. QED
      BY <3>7 DEF v
  <2>5. ASSUME source.flat  PROVE TellsByName(source.contents, r)
    <3>. DEFINE contents == source.contents
    <3>. SUFFICES ASSUME NEW p \in Params, Named(contents, p)
                  PROVE  Carries(Sub(r, p.path), Sub(contents, <<Words(p.path)>>))
      BY DEF TellsByName
    <3>. HIDE DEF r
    <3>1. SourceTree(contents) /\ IsFiniteSet(DOMAIN contents)
      BY <2>5 DEF IsSource
    <3>. DEFINE v == Sub(contents, <<Words(p.path)>>)
    <3>2. Holds(tree, p.path, v)
      BY <1>2, <2>5, <3>1, SourceEntryIsKept DEF RepoInv
    <3>3. TreeOver(Seq(Word), v)
      BY <3>1, SubSource DEF Named
    <3>. HIDE DEF v
    <3>4. <<>> \in DOMAIN v /\ DOMAIN v \subseteq Seq(Seq(Word))
      BY <3>3 DEF TreeOver, IsTree, Path
    <3>5. p.path \in Seq(Seq(Word))
      BY ParamFacts DEF RepoInv
    <3>6. Carries(Sub(r, p.path), v)
      BY <2>3, <3>2, <3>4, <3>5, HoldsRead DEF r
    <3>. QED
      BY <3>6 DEF v
  <2>. HIDE DEF r
  <2>6. Tells(source, r)
    BY <2>4, <2>5 DEF Tells
  <2>. QED
    BY <2>1, <2>2, <2>6, ReadNext
<1>. QED
  BY <1>1, <1>2

LEMMA RepoReads ==
  ASSUME RepoInv, StructureInv, CanonicalFirst, OrdersListed, NewestIsRead,
         [RepoNext]_allVars
  PROVE  OrdersListed' /\ NewestIsRead'
<1>1. CASE ChangeSchema
  <2>1. status' = "none" /\ sources' = <<>>
    BY <1>1 DEF ChangeSchema, repo, RepoInv
  <2>. QED
    BY <2>1 DEF OrdersListed, NewestIsRead
<1>2. ASSUME PrefixesListed, UNCHANGED vars, order' \in Orders, byDepthOrder' \in ByDepthOrders
      PROVE  /\ order' \in Seq(DOMAIN configs) /\ byDepthOrder' \in Seq(DOMAIN configs)
             /\ \A key \in DOMAIN configs : \E n \in DOMAIN order' : order'[n] = key
             /\ OrdersListed'
  <2>1. DOMAIN configs' = DOMAIN configs
    BY <1>2, SchemaUnchanged
  <2>2. KeysByDepth(byDepth) = DOMAIN configs
    BY DEF StructureInv, DepthInv
  <2>3. order' \in Seq(DOMAIN configs)
    BY <1>2, OrderType DEF RepoInv
  <2>4. byDepthOrder' \in Seq(DOMAIN configs)
    BY <1>2, <2>2, ByDepthOrderKeys DEF RepoInv
  <2>5. \A key \in DOMAIN configs : \E n \in DOMAIN order' : order'[n] = key
    BY <1>2, OrderIsComplete DEF RepoInv
  <2>. QED
    BY <2>1, <2>3, <2>4, <2>5 DEF OrdersListed
<1>3. ASSUME NEW provided \in Provided, New(provided)  PROVE OrdersListed' /\ NewestIsRead'
  <2>1. /\ status = "none" /\ sources' = sources /\ PrefixesListed /\ UNCHANGED vars
        /\ order' \in Orders /\ byDepthOrder' \in ByDepthOrders
    BY <1>3 DEF New
  <2>2. sources' = <<>>
    BY <2>1 DEF RepoInv
  <2>. QED
    BY <1>2, <2>1, <2>2 DEF NewestIsRead
<1>4. ASSUME NEW provided \in Provided, NewWithFallbacks(provided)
      PROVE  OrdersListed' /\ NewestIsRead'
  <2>1. /\ PrefixesListed /\ UNCHANGED vars
        /\ order' \in Orders /\ byDepthOrder' \in ByDepthOrders
    BY <1>4 DEF NewWithFallbacks
  <2>2. PICK paths \in SetToSeqs(FallbackPaths(provided)) :
          LET source == [contents |-> FallbackContents(paths), flat |-> FALSE]
          IN  InsertSource(source, Preprocess(source, order', byDepthOrder'))
    BY <1>4 DEF NewWithFallbacks
  <2>. DEFINE source == [contents |-> FallbackContents(paths), flat |-> FALSE]
              tree == Preprocess(source, order', byDepthOrder')
  <2>3. InsertSource(source, tree)
    BY <2>2
  <2>4. IsSource(source)
    BY FallbacksGood DEF IsSource, RepoInv
  <2>. HIDE DEF source
  <2>5. NewestIsRead'
    BY <1>2, <2>1, <2>3, <2>4, InsertSourceRead
  <2>. QED
    BY <1>2, <2>1, <2>5
<1>5. ASSUME NEW source \in Sources, With(source)  PROVE OrdersListed' /\ NewestIsRead'
  <2>. DEFINE tree == Preprocess(source, order, byDepthOrder)
  <2>1. /\ UNCHANGED vars /\ order' = order /\ byDepthOrder' = byDepthOrder
        /\ status = "open" /\ InsertSource(source, tree)
    BY <1>5 DEF With
  <2>2. /\ order \in Seq(DOMAIN configs) /\ byDepthOrder \in Seq(DOMAIN configs)
        /\ \A key \in DOMAIN configs : \E n \in DOMAIN order : order[n] = key
    BY <2>1 DEF RepoInv, OrdersListed
  <2>3. NewestIsRead'
    BY <2>1, <2>2, GivenSource, InsertSourceRead
  <2>4. DOMAIN configs' = DOMAIN configs
    BY <2>1, SchemaUnchanged
  <2>. QED
    BY <2>1, <2>2, <2>3, <2>4 DEF OrdersListed
<1>6. CASE UNCHANGED allVars
  <2>1. UNCHANGED vars /\ UNCHANGED repo
    BY <1>6 DEF allVars
  <2>2. /\ merged' = merged /\ sources' = sources /\ status' = status
        /\ order' = order /\ byDepthOrder' = byDepthOrder
    BY <2>1 DEF repo
  <2>3. NewestSource' = NewestSource
    BY <2>2 DEF NewestSource
  <2>4. sources' # <<>> => NewestSource' = NewestSource
          /\ Tells(NewestSource, merged)
    BY <2>2, <2>3 DEF NewestIsRead
  <2>5. NewestIsRead'
    BY <2>1, <2>2, <2>4, ReadNext
  <2>6. DOMAIN configs' = DOMAIN configs
    BY <2>1, SchemaUnchanged
  <2>. QED
    BY <2>2, <2>5, <2>6 DEF OrdersListed
<1>. QED
  BY <1>1, <1>3, <1>4, <1>5, <1>6 DEF RepoNext

LEMMA NewestIsAlwaysRead == RepoSpec => [](NewestSourceWins /\ NewestEntryWins)
<1>1. RepoInit => OrdersListed /\ NewestIsRead
  BY DEF RepoInit, OrdersListed, NewestIsRead
<1>2. RepoSpec => [](OrdersListed /\ NewestIsRead)
  BY <1>1, RepoReads, RepositoryInvariant, SchemaIsBorrowed, StructureHolds,
     CanonicalPathsFirst, PTL DEF RepoSpec
<1>3. RepoInv => IndInv
  BY DEF RepoInv
<1>. QED
  BY <1>2, <1>3, NewestReadWins, RepositoryInvariant, SchemaIsBorrowed,
     CanonicalPathsFirst, PTL

\* "The new source has higher priority and will overwrite values defined in
\* old sources, including via parameter aliases": for every schema, whatever
\* was added before and whatever the passes make of the source.
THEOREM NewestSourceIsRead == RepoSpec => []NewestSourceWins
BY NewestIsAlwaysRead, PTL

\* The same of a flat source: an entry named like a param is read by it,
\* whatever else its name, and those of other entries, can be read as.
THEOREM NewestEntryIsRead == RepoSpec => []NewestEntryWins
BY NewestIsAlwaysRead, PTL
=============================================================================
