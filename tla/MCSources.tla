------------------------------ MODULE MCSources ------------------------------
(* Instances of JsonSource, Environment and Sources for model checking. *)
EXTENDS Sources

Leaf(path, node) == [path |-> path, node |-> node]

TreeOf(leaves) ==
  [path \in {<<>>} \cup UNION {WithAncestors(l.path) : l \in leaves} |->
     IF \E l \in leaves : l.path = path
     THEN (CHOOSE l \in leaves : l.path = path).node
     ELSE Object]

\* The source has a scalar at "a" and an object at "b".
ScalarInitial ==
  {TreeOf({Leaf(<<"a">>, Str(<<"v0">>)), Leaf(<<"b", "c">>, Str(<<"v0">>))})}
ObjectInitial ==
  {TreeOf({Leaf(<<"a", "b", "c">>, Str(<<"v0">>)), Leaf(<<"b">>, Str(<<"v0">>))})}

AllLocations == {<<>>, <<"a">>, <<"a", "b">>, <<"a", "b", "c">>, <<"b", "c", "a">>}

Values ==
  {Single(Str(<<"v1">>)), Single(Object), Single(Array(<<"v2">>)),
   TreeOf({Leaf(<<"c">>, Str(<<"v3">>))}),
   TreeOf({Leaf(<<"b", "c">>, Str(<<"v4">>))})}
-----------------------------------------------------------------------------
Var(words, suffix) == [words |-> words, upper |-> TRUE, suffix |-> suffix]

Texts == {"1", "[2]", "oops"}
MCJson == [t \in {"1", "[2]"} |-> t]

\* APP_PORT with JSON under both suffixes, app_port, APP and PORT.
MCProcessEnv ==
  Over([n \in {Var(<<"app", "port">>, "")} |-> "1"],
  Over([n \in {[Var(<<"app", "port">>, "") EXCEPT !.upper = FALSE]} |-> "[2]"],
  Over([n \in {Var(<<"app", "port">>, "__json")} |-> "[2]"],
  Over([n \in {Var(<<"app", "port">>, ":json")} |-> "1"],
  Over([n \in {Var(<<"app">>, "__json")} |-> "1"],
       [n \in {Var(<<"port">>, "__json")} |-> "oops"])))))

MCEnvPrefixes ==
  {[words |-> <<>>, upper |-> TRUE], [words |-> <<"app">>, upper |-> TRUE]}
MCExtra == {{n} : n \in DOMAIN MCProcessEnv}

\* .env files with up to two lines for these names and texts.
Lines ==
  {<<name, text>> : name \in {Var(<<"app", "port">>, ""),
                              Var(<<"app", "port">>, "__json"),
                              Var(<<"port">>, ":json")},
                    text \in Texts}
MCDotEnvs ==
  {<<l>> : l \in Lines} \cup {<<l1, l2>> : l1 \in Lines, l2 \in Lines}

MCPrefixesOfSources == {<<>>, <<"a">>, <<"b", "c">>}
=============================================================================
