---------------------------- MODULE Completeness ----------------------------
(***************************************************************************)
(* test_complete() of the tester: which params of a config a sample lacks  *)
(* (testing.rs).  CompletenessChecker visits the parsed config and looks   *)
(* up its params in the merged sample.                                     *)
(*                                                                         *)
(* The sample is `merged`, in a repository that is canonicalized, too.     *)
(***************************************************************************)
EXTENDS Serialization

\* Mutant: an object is taken for a config.
CheckLeafParam(path) == IF IsLeafAt(merged, path) THEN {} ELSE {path}

\* check_param: the param, if it is to be reported.
CheckParam(path) == IF path \in DOMAIN merged THEN {} ELSE {path}

\* collect_all_params, for a config that there is no value of: of an enum,
\* only the tag.
RECURSIVE AllParams(_, _)
AllParams(path, ty) ==
  IF Code[ty].tag # NoTagParam
  THEN {Join(path, Code[ty].tag.name)}
  ELSE UNION {LET at == Join(path, field.name)
              IN  IF field.kind = "param" THEN {at} ELSE AllParams(at, field.meta) :
                field \in FieldsIn(ty, NoVariant)}

\* What the checker has found once it has visited the config.
RECURSIVE MissingParams(_, _, _)
MissingParams(path, ty, config) ==
  LET fields == FieldsOf(ty, config)
      found(i) ==
        LET at == Join(path, fields[i].name)
        IN  CASE fields[i].kind = "param" -> CheckParam(at)
              [] fields[i].kind # "param" /\ config.fields[i] # NoConfig ->
                   MissingParams(at, fields[i].meta, config.fields[i])
              [] OTHER -> AllParams(at, fields[i].meta)
  IN  UNION {found(i) : i \in DOMAIN fields}
        \cup UNION {CheckParam(Join(path, tag.name)) :
                      tag \in {Code[ty].tag} \ {NoTagParam}}
-----------------------------------------------------------------------------
\* No optional config within this one is None.
RECURSIVE HasNoHoles(_, _)
HasNoHoles(ty, config) ==
  \A i \in DOMAIN FieldsOf(ty, config) :
    LET field == FieldsOf(ty, config)[i]
    IN  field.kind # "param" =>
          /\ config.fields[i] # NoConfig
          /\ HasNoHoles(field.meta, config.fields[i])

\* test_complete(): "Panics if the sample doesn't recursively cover all params
\* in the config."  Of the params that canonicalize() writes it reports just
\* those that are filled in, and others only for an optional config that is
\* None.
CompletenessAgrees ==
  status = "done" /\ options.flat /\ ~options.diff_with_default =>
    LET visible == {c \in DOMAIN parsed : parsed[c] # NoConfig}
        missing == UNION {MissingParams(c.prefix, c.ty, parsed[c]) : c \in visible}
    IN  /\ missing \cap DOMAIN json = DOMAIN json \ DOMAIN merged
        /\ (\A c \in visible : HasNoHoles(c.ty, parsed[c])) => missing \subseteq DOMAIN json
=============================================================================
