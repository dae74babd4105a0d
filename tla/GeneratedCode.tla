---------------------------- MODULE GeneratedCode ----------------------------
(***************************************************************************)
(* What the derive macros of smart-config-derive generate for a config     *)
(* type, as far as parsing and visiting are concerned, and what it calls.  *)
(*                                                                         *)
(* A struct has one arm, NoVariant; an enum has an arm per variant and a   *)
(* tag, a param.  The fields of an arm are listed in the order of the      *)
(* source.  A config is [ty, variant, fields], its fields in that order.   *)
(***************************************************************************)
EXTENDS ValueTree

CONSTANTS
  Key,               \* segments of paths
  Types,             \* config types
  Code,              \* type -> [tag, arms: variant -> Seq of fields,
                     \*          validations: how many there are]
  DeParam(_, _, _),  \* deserialize_any_param(): type, index of the param,
                     \* tree of the value -> [ok, value, errors]
  Holds(_, _, _)     \* type, index of a validation, config

\* The value of a param or config that is not there.
Absent == [path \in {} |-> Object]

NoVariant == "no variant"
NoDefault == [none |-> "no default"]
NoConfig == [none |-> "None"]
Failed == [none |-> "error"]

IsSeq(s) == s \in Seq({s[i] : i \in DOMAIN s})

\* The tag of a struct; that of an enum is [index, name].
NoTagParam == [index |-> 0, name |-> <<>>]

\* A field is [kind, index, name] of a param, [kind, index, name, meta,
\* default] of a nested config.  `index` is that in the metadata, `name` the
\* path relative to the config, <<>> for a flattened one.
IsField(field) ==
  /\ field.index \in Nat /\ field.name \in Path(Key)
  /\ \/ field.kind = "param"
     \/ field.kind \in {"nested", "nested_opt"} /\ field.meta \in Types
  /\ field.kind = "nested" => field.default # Failed

FieldsIn(ty, arm) == {Code[ty].arms[arm][i] : i \in DOMAIN Code[ty].arms[arm]}

ASSUME CodeAssumption ==
  \A ty \in Types :
    /\ Code[ty].validations \in Nat
    /\ Code[ty].tag.index \in Nat /\ Code[ty].tag.name \in Path(Key)
    /\ Code[ty].tag = NoTagParam => DOMAIN Code[ty].arms = {NoVariant}
    /\ \A arm \in DOMAIN Code[ty].arms :
         /\ IsSeq(Code[ty].arms[arm])
         /\ \A field \in FieldsIn(ty, arm) : IsField(field)

\* The metadata of a type is a constant of the program that refers to that of the
\* types nested in it: no type is nested in itself, however deep.
ASSUME NestingAssumption ==
  \A tys \in SUBSET Types : tys # {} =>
    \E ty \in tys : \A arm \in DOMAIN Code[ty].arms :
      \A field \in FieldsIn(ty, arm) : field.kind # "param" => field.meta \notin tys

\* The params of a type, without and with its tag.
FieldParams(ty) ==
  UNION {{field \in FieldsIn(ty, arm) : field.kind = "param"} :
           arm \in DOMAIN Code[ty].arms}

ParamsOf(ty) == FieldParams(ty) \cup ({Code[ty].tag} \ {NoTagParam})

\* What a param deserializer returns, with the errors it has pushed: a value
\* or at least one error, at the value or within it.
ErrorCategory == {"missing", "generic"}
ParamError == [category : ErrorCategory, at : Path(Key)]
IsOutcome(outcome) ==
  ~outcome.ok => outcome.errors \in Seq(ParamError) /\ outcome.errors # <<>>

\* ParseError; `param` is 0 for an error that concerns the config.
ParseError ==
  [category : ErrorCategory, path : Path(Key), config : Types, param : Nat]

Error(category, path, ty, index) ==
  [category |-> category, path |-> path, config |-> ty, param |-> index]

\* push_generic_error for what a param deserializer has pushed and returned.
Located(ty, index, path, errs) ==
  [i \in DOMAIN errs |->
     Error(errs[i].category, Join(path, errs[i].at), ty, index)]

ConfigOf(ty, variant, fields) ==
  [ty |-> ty, variant |-> variant, fields |-> fields]
=============================================================================
