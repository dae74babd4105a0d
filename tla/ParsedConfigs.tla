---------------------------- MODULE ParsedConfigs ----------------------------
(***************************************************************************)
(* What parsing a config of a type at a path gives, without saying how: a  *)
(* value and errors that depend on the tree alone.                         *)
(*                                                                         *)
(* All errors of the parts that are read are reported, except those of an  *)
(* optional config that only misses params; it is None.                    *)
(***************************************************************************)
EXTENDS GeneratedCode, Functions

ValueAt(t, path) == IF path \in DOMAIN t THEN Sub(t, path) ELSE Absent

Fails(found) == [value |-> Failed, errors |-> found]
Gives(value) == [value |-> value, errors |-> {}]

OfParam(t, ty, path, param) ==
  LET at      == Join(path, param.name)
      outcome == DeParam(ty, param.index, ValueAt(t, at))
  IN  IF outcome.ok
      THEN Gives(outcome.value)
      ELSE Fails(Range(Located(ty, param.index, at, outcome.errors)))

\* The validations of its type that a config fails.
Violated(ty, config) ==
  {n \in 1..Code[ty].validations : ~Holds(ty, n, config)}

\* An optional config that is not there, or only misses params, is None.
OfOptional(t, path, config) ==
  IF \/ path \notin DOMAIN t
     \/ /\ config.value = Failed
        /\ \A e \in config.errors : e.category = "missing"
  THEN Gives(NoConfig)
  ELSE config

\* `configs` are those that may be nested.
OfField(t, configs, ty, path, field) ==
  LET at == Join(path, field.name)
  IN  CASE field.kind = "param" -> OfParam(t, ty, path, field)
        [] field.kind = "nested_opt" ->
             OfOptional(t, at, configs[<<field.meta, at>>])
        [] field.kind = "nested" ->
             IF at \notin DOMAIN t /\ field.default # NoDefault
             THEN Gives(field.default)
             ELSE configs[<<field.meta, at>>]

\* A config that is an object: its fields, all of which are read, and the
\* validations once there is a config to validate.
OfArm(t, configs, ty, path, arm) ==
  LET fields   == Code[ty].arms[arm]
      outcomes == [i \in DOMAIN fields |-> OfField(t, configs, ty, path, fields[i])]
      config   == ConfigOf(ty, arm, [i \in DOMAIN fields |-> outcomes[i].value])
  IN  IF \E i \in DOMAIN fields : outcomes[i].value = Failed
      THEN Fails(UNION {outcomes[i].errors : i \in DOMAIN fields})
      ELSE IF Violated(ty, config) # {}
           THEN Fails({Error("generic", path, ty, 0)})
           ELSE Gives(config)

OfObject(t, configs, ty, path) ==
  IF IsLeafAt(t, path)
  THEN Fails({Error("generic", path, ty, 0)})
  ELSE IF Code[ty].tag = NoTagParam
       THEN OfArm(t, configs, ty, path, NoVariant)
       ELSE LET tag == OfParam(t, ty, path, Code[ty].tag)
            IN  IF tag.errors = {} THEN OfArm(t, configs, ty, path, tag.value)
                ELSE tag

\* The outcomes for all types and paths.
Outcomes(t) ==
  LET of[c \in Types \X Path(Key)] == OfObject(t, of, c[1], c[2])
  IN  of

OfConfig(t, ty, path) == Outcomes(t)[<<ty, path>>]

\* The outcome of parse(), or of parse_opt().
Outcome(t, ty, path, opt) ==
  LET config == OfConfig(t, ty, path)
  IN  IF opt THEN OfOptional(t, path, config) ELSE config
=============================================================================
