------------------------- MODULE MCDeserialization -------------------------
(* An instance of Deserialization for model checking. *)
EXTENDS Deserialization, FiniteSets

W(word) == <<word>>
Leaf(path, node) == [path |-> path, node |-> node]

TreeOf(leaves) ==
  [path \in {<<>>} \cup UNION {WithAncestors(l.path) : l \in leaves} |->
     IF \E l \in leaves : l.path = path
     THEN (CHOOSE l \in leaves : l.path = path).node
     ELSE Object]

Param(index, name) == [kind |-> "param", index |-> index, name |-> W(name)]

Nested(index, name, meta) ==
  [kind |-> "nested", index |-> index, name |-> name, meta |-> meta,
   default |-> NoDefault]

NestedOpt(index, name, meta) ==
  [kind |-> "nested_opt", index |-> index, name |-> name, meta |-> meta]

Struct(fields) ==
  [tag |-> NoTagParam, arms |-> [arm \in {NoVariant} |-> fields], validations |-> 0]

\* An application with a flattened config, an optional one that has another
\* optional one, one with a default, and an enum with a config in a variant.
MCTypes == {"App", "Common", "Db", "Pool", "Job"}
MCKey == {"port", "tags", "db", "url", "pool", "size", "limit", "job", "kind", "0"}

NoPool == [value |-> "default"]
DefaultPool == ConfigOf("Pool", NoVariant, <<NoPool, NoPool>>)

MCCode ==
  [ty \in MCTypes |->
     CASE ty = "App" ->
            Struct(<<NestedOpt(1, W("db"), "Db"), Param(1, "port"),
                     Nested(2, <<>>, "Common"), Nested(3, W("job"), "Job")>>)
       [] ty = "Common" -> Struct(<<Param(1, "tags")>>)
       [] ty = "Db" ->
            Struct(<<Param(1, "url"), NestedOpt(1, W("pool"), "Pool")>>)
       [] ty = "Pool" -> [Struct(<<Param(1, "size"), Param(2, "limit")>>)
              EXCEPT !.validations = 2]
       [] ty = "Job" ->
            [tag |-> [kind |-> "param", index |-> 1, name |-> W("kind")],
             validations |-> 0,
             arms |-> [arm \in {"none", "pool"} |->
                         IF arm = "none" THEN <<>>
                         ELSE <<[Nested(1, W("pool"), "Pool")
                                   EXCEPT !.default = DefaultPool]>>]]]

\* Params with a default; the others are required.
Defaulted == {<<"Common", 1>>, <<"Pool", 2>>}

MCDeParam(ty, index, tree) ==
  CASE tree = Absent /\ <<ty, index>> \in Defaulted ->
         [ok |-> TRUE, value |-> [value |-> "default"]]
    [] tree = Absent /\ <<ty, index>> \notin Defaulted ->
         [ok |-> FALSE, errors |-> <<[category |-> "missing", at |-> <<>>]>>]
    [] tree # Absent /\ ty = "Job" /\ tree[<<>>].data \in DOMAIN MCCode["Job"].arms ->
         [ok |-> TRUE, value |-> tree[<<>>].data]
    [] tree # Absent /\ ty # "Job" /\ tree[<<>>].data # "bad" ->
         [ok |-> TRUE, value |-> [value |-> tree[<<>>].data]]
    [] OTHER ->
         [ok |-> FALSE,
          errors |-> IF ty = "Common"  \* an array with two items
                     THEN <<[category |-> "generic", at |-> W("0")],
                            [category |-> "missing", at |-> W("0")]>>
                     ELSE <<[category |-> "generic", at |-> <<>>]>>]

\* Neither param of a pool may be zero.
MCHolds(ty, n, config) == config.fields[n] # [value |-> "zero"]

Leaves ==
  {Leaf(W("port"), Str("ok")), Leaf(W("port"), Str("bad")),
   Leaf(W("tags"), Str("bad")),
   Leaf(<<"db">>, Str("bad")),
   Leaf(<<"db", "url">>, Str("ok")), Leaf(<<"db", "url">>, Str("bad")),
   Leaf(<<"db", "pool", "size">>, Str("ok")),
   Leaf(<<"db", "pool", "size">>, Str("zero")),
   Leaf(<<"db", "pool", "limit">>, Str("ok")),
   Leaf(<<"db", "pool", "limit">>, Str("bad")),
   Leaf(<<"db", "pool", "limit">>, Str("zero")),
   Leaf(<<"job", "kind">>, Str("none")), Leaf(<<"job", "kind">>, Str("pool")),
   Leaf(<<"job", "pool", "size">>, Str("ok")),
   Leaf(<<"job", "pool">>, Str("bad"))}

IsConsistent(leaves) ==
  \A l1, l2 \in leaves : l1 # l2 => l1.path \notin WithAncestors(l2.path)

MCRoots ==
  {TreeOf(ls) : ls \in {ls \in SUBSET Leaves : IsConsistent(ls) /\ Cardinality(ls) <= 3}}

MCCalls == {<<"App", <<>>>>, <<"Db", W("db")>>, <<"Job", W("job")>>}
=============================================================================
