-------------------------- MODULE MCConfigSchema --------------------------
(* Instances of ConfigSchema for model checking. *)
EXTENDS ConfigSchema

MCKey == {"a", "b", "o", "x", "y", "v", "w", "c", "k"}

\* Shorthands for metadata.
Alias(dots, keys) ==
  [ref |-> [dots |-> dots, keys |-> keys], deprecated |-> FALSE]

Active(path) == [path |-> path, deprecated |-> FALSE]
Deprecated(path) == [path |-> path, deprecated |-> TRUE]

Param(name, expecting, aliases, variants) ==
  [name |-> <<name>>, expecting |-> {expecting}, aliases |-> aliases,
   variants |-> variants, suffixes |-> {}, secret |-> FALSE,
   fallback |-> FALSE]

Nested(name, meta, aliases, variants) ==
  [name |-> name, meta |-> meta, aliases |-> aliases, variants |-> variants]

Config(params, nested) ==
  [params |-> params, nested |-> nested, tag |-> NoTag]

-----------------------------------------------------------------------------
\* `Outer` nests the enum config `Enum` at "a" (alias "b"), which flattens
\* `Flat` into its variant "w".  A param of `Enum` has a path alias that climbs,
\* another one belongs to both variants.  `Clash` has a param where `Outer` has
\* a config, and mounts `Flat` twice; aliases pushed for one config can put
\* params on configs or on params of other types of another one.
TreeMeta ==
  [ty \in {"Outer", "Enum", "Flat", "Clash"} |->
     CASE ty = "Outer" ->
            Config(<<Param("y", "bool", <<>>, <<>>)>>,
                   <<Nested(<<"a">>, "Enum", <<Alias(0, <<"b">>)>>, <<>>)>>)
       [] ty = "Enum" ->
            Config(<<Param("c", "string", <<Alias(2, <<"o">>)>>, <<>>),
                     Param("x", "integer", <<Alias(0, <<"y">>)>>,
                           <<"v", "w">>)>>,
                   <<Nested(<<>>, "Flat", <<>>, <<"w">>)>>)
       [] ty = "Flat" ->
            Config(<<Param("k", "string", <<Alias(0, <<"o">>)>>, <<>>)>>, <<>>)
       [] ty = "Clash" ->
            Config(<<Param("b", "string", <<>>, <<>>)>>,
                   <<Nested(<<>>, "Flat", <<>>, <<>>),
                     Nested(<<"a">>, "Flat", <<>>, <<>>)>>)]

TreeTypes == DOMAIN TreeMeta
TreeInsertions ==
  {<< <<>>, "Outer">>, << <<"a">>, "Enum">>, << <<>>, "Clash">>}
TreeAliases == {Active(<<"b">>), Deprecated(<<"b", "v">>)}
TreeCoercions == {TRUE}
=============================================================================
