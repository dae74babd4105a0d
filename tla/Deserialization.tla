--------------------------- MODULE Deserialization ---------------------------
(***************************************************************************)
(* Parsing of a config from a merged tree of values: `ConfigParser` of     *)
(* source/mod.rs, `DeserializeContext` of de/mod.rs, and the code that the *)
(* derive macro generates for `DeserializeConfig`.                         *)
(*                                                                         *)
(* Every call of deserialize_any_config() is a frame on a stack.  Errors   *)
(* are pushed to one list that all calls share; a call only returns a      *)
(* marker.  What a param deserializer does to a value is a parameter.      *)
(***************************************************************************)
EXTENDS ParsedConfigs

CONSTANTS
  Roots,   \* merged trees that are parsed
  Calls    \* <<type, prefix>> pairs the program has parsers for

\* All that a param deserializer may find.
Values == {Absent} \cup UNION {{Sub(t, path) : path \in DOMAIN t} : t \in Roots}

ASSUME ParserAssumption ==
  /\ \A t \in Roots : IsTree(t) /\ DOMAIN t \subseteq Path(Key)
  /\ Calls \subseteq Types \X Path(Key)

\* A deserializer that fails has an error to push, or has pushed some, all of
\* them at the value or within it; otherwise it returns a value, that of a tag
\* a variant.
ASSUME DeParamAssumption ==
  \A ty \in Types, value \in Values :
    /\ \A param \in ParamsOf(ty) :
         IsOutcome(DeParam(ty, param.index, value))
    /\ \A param \in FieldParams(ty) :
         DeParam(ty, param.index, value).ok =>
           DeParam(ty, param.index, value).value # Failed
    /\ LET tag == DeParam(ty, Code[ty].tag.index, value)
       IN  Code[ty].tag # NoTagParam /\ tag.ok
             => tag.value \in DOMAIN Code[ty].arms

VARIABLES
  root,    \* the merged tree
  stack,   \* frames of the running calls, the innermost is the last
  errors,  \* errors pushed so far
  result   \* what the last parse() has returned

parser == <<stack, errors, result>>
vars == <<root, parser>>

\* DeserializeContext::current_value
CurrentValue(path) == IF path \in DOMAIN root THEN Sub(root, path) ELSE Absent

\* Mutant: the fields of an enum are read before its tag.
FrameWithoutTag(ty, path, opt) ==
  [ty |-> ty, path |-> path, opt |-> opt, count |-> Len(errors),
   pc |-> "fields", arm |-> NoVariant, values |-> <<>>,
   checked |-> 0, has_errors |-> FALSE]

\* A call of deserialize_any_config(); `opt` and `count` are those of
\* deserialize_any_config_opt().
Frame(ty, path, opt) ==
  [ty |-> ty, path |-> path, opt |-> opt, count |-> Len(errors),
   pc |-> "object", arm |-> NoVariant, values |-> <<>>,
   checked |-> 0, has_errors |-> FALSE]

Top == stack[Len(stack)]
Callers == SubSeq(stack, 1, Len(stack) - 1)

\* The fields of the struct or variant that the call reads.
FieldsOf(frame) == Code[frame.ty].arms[frame.arm]
AllRead(frame) == Len(frame.values) = Len(FieldsOf(frame))
NextField(frame) == FieldsOf(frame)[Len(frame.values) + 1]

\* deserialize_any_param()
ParamResult(frame, param) ==
  DeParam(frame.ty, param.index, CurrentValue(Join(frame.path, param.name)))

ErrorsOf(frame, param) ==
  Located(frame.ty, param.index, Join(frame.path, param.name),
          ParamResult(frame, param).errors)

Tag(frame) == Code[frame.ty].tag

\* The frame with the result of its next field.
WithValue(frame, value) == [frame EXCEPT !.values = Append(@, value)]

AnyFailed(frame) == \E i \in DOMAIN frame.values : frame.values[i] = Failed

\* The call will return an error.
Doomed(frame) == AnyFailed(frame) \/ frame.has_errors

Built(frame) == ConfigOf(frame.ty, frame.arm, frame.values)
-----------------------------------------------------------------------------
\* Mutant: looks at the last error only.
LastMissingSince(errs, count) == errs[Len(errs)].category = "missing"

OnlyMissingSince(errs, count) ==
  \A i \in (count + 1)..Len(errs) : errs[i].category = "missing"

\* The end of a call: `value` is Failed or the config, `errs` the list by then.
\* An optional config that only misses params becomes None, and its errors
\* are dropped (deserialize_any_config_opt).  The innermost caller goes on,
\* or parse() returns, with a generic error if there is no other one
\* (ConfigParser::with_context).
Return(value, errs) ==
  LET absent   == /\ value = Failed /\ Top.opt
                  /\ OnlyMissingSince(errs, Top.count)
      returned == IF absent THEN NoConfig ELSE value
      kept     == IF absent THEN SubSeq(errs, 1, Top.count) ELSE errs
      caller   == Callers[Len(Callers)]
  IN  \/ /\ Callers # <<>>
         /\ stack' = [Callers EXCEPT ![Len(Callers)] =
                        WithValue(caller, returned)]
         /\ errors' = kept
         /\ UNCHANGED result
      \/ /\ Callers = <<>>
         /\ stack' = <<>>
         /\ errors' = IF returned = Failed /\ kept = <<>>
                      THEN <<Error("generic", Top.path, Top.ty, 0)>>
                      ELSE kept
         /\ result' = returned

\* ConfigParser::parse
Parse(ty, path) ==
  /\ stack = <<>>
  /\ stack' = <<[Frame(ty, path, FALSE) EXCEPT !.count = 0]>>
  /\ errors' = <<>>
  /\ UNCHANGED <<root, result>>

\* ConfigParser::parse_opt, deserialize_any_config_opt: nothing is there.
ParseOptAbsent(ty, path) ==
  /\ stack = <<>>
  /\ path \notin DOMAIN root
  /\ result' = NoConfig
  /\ errors' = <<>>
  /\ UNCHANGED <<root, stack>>

ParseOpt(ty, path) ==
  /\ stack = <<>>
  /\ path \in DOMAIN root
  /\ stack' = <<[Frame(ty, path, TRUE) EXCEPT !.count = 0]>>
  /\ errors' = <<>>
  /\ UNCHANGED <<root, result>>

Running(pc) == stack # <<>> /\ Top.pc = pc

\* Mutant: returns the marker only.
RejectSilently ==
  /\ Running("object")
  /\ IsLeafAt(root, Top.path)
  /\ Return(Failed, errors)
  /\ UNCHANGED root

\* deserialize_any_config: a value that is there must be an object.
RejectNonObject ==
  /\ Running("object")
  /\ IsLeafAt(root, Top.path)
  /\ Return(Failed, Append(errors, Error("generic", Top.path, Top.ty, 0)))
  /\ UNCHANGED root

EnterConfig ==
  /\ Running("object")
  /\ ~IsLeafAt(root, Top.path)
  /\ stack' = [stack EXCEPT ![Len(stack)].pc =
                 IF Tag(Top) = NoTagParam THEN "fields" ELSE "tag"]
  /\ UNCHANGED <<root, errors, result>>

\* Mutant: starts over once the variant is known.
ReadTagOnly ==
  /\ Running("tag")
  /\ ParamResult(Top, Tag(Top)).ok
  /\ stack' = [stack EXCEPT ![Len(stack)].pc = "object"]
  /\ UNCHANGED <<root, errors, result>>

\* The generated `match` on the tag: its error ends the call at once.
ReadTag ==
  /\ Running("tag")
  /\ ParamResult(Top, Tag(Top)).ok
  /\ stack' = [stack EXCEPT ![Len(stack)].pc = "fields",
                            ![Len(stack)].arm = ParamResult(Top, Tag(Top)).value]
  /\ UNCHANGED <<root, errors, result>>

RejectTag ==
  /\ Running("tag")
  /\ ~ParamResult(Top, Tag(Top)).ok
  /\ Return(Failed, errors \o ErrorsOf(Top, Tag(Top)))
  /\ UNCHANGED root

\* `let __i = ...` of the generated code: a field that fails stops nothing.
ReadParam ==
  /\ Running("fields") /\ ~AllRead(Top) /\ NextField(Top).kind = "param"
  /\ LET param == ParamResult(Top, NextField(Top))
     IN  /\ stack' = [stack EXCEPT ![Len(stack)] =
                        WithValue(Top, IF param.ok THEN param.value ELSE Failed)]
         /\ errors' = IF param.ok THEN errors
                      ELSE errors \o ErrorsOf(Top, NextField(Top))
  /\ UNCHANGED <<root, result>>

NestedPath == Join(Top.path, NextField(Top).name)

\* deserialize_nested_config: the default replaces a config that is absent.
UseDefault ==
  /\ Running("fields") /\ ~AllRead(Top) /\ NextField(Top).kind = "nested"
  /\ NestedPath \notin DOMAIN root /\ NextField(Top).default # NoDefault
  /\ stack' = [stack EXCEPT ![Len(stack)] =
                 WithValue(Top, NextField(Top).default)]
  /\ UNCHANGED <<root, errors, result>>

ReadNested ==
  /\ Running("fields") /\ ~AllRead(Top) /\ NextField(Top).kind = "nested"
  /\ NestedPath \in DOMAIN root \/ NextField(Top).default = NoDefault
  /\ stack' = Append(stack, Frame(NextField(Top).meta, NestedPath, FALSE))
  /\ UNCHANGED <<root, errors, result>>

\* deserialize_nested_config_opt
SkipNestedOpt ==
  /\ Running("fields") /\ ~AllRead(Top) /\ NextField(Top).kind = "nested_opt"
  /\ NestedPath \notin DOMAIN root
  /\ stack' = [stack EXCEPT ![Len(stack)] = WithValue(Top, NoConfig)]
  /\ UNCHANGED <<root, errors, result>>

ReadNestedOpt ==
  /\ Running("fields") /\ ~AllRead(Top) /\ NextField(Top).kind = "nested_opt"
  /\ NestedPath \in DOMAIN root
  /\ stack' = Append(stack, Frame(NextField(Top).meta, NestedPath, TRUE))
  /\ UNCHANGED <<root, errors, result>>

\* Mutant: the first failed field ends the call.
FailEarly ==
  /\ Running("fields")
  /\ AnyFailed(Top)
  /\ Return(Failed, errors)
  /\ UNCHANGED root

\* The generated constructor: the first `?` on a failed field returns.
FailFields ==
  /\ Running("fields") /\ AllRead(Top)
  /\ AnyFailed(Top)
  /\ Return(Failed, errors)
  /\ UNCHANGED root

Construct ==
  /\ Running("fields") /\ AllRead(Top)
  /\ ~AnyFailed(Top)
  /\ stack' = [stack EXCEPT ![Len(stack)].pc = "validate"]
  /\ UNCHANGED <<root, errors, result>>

\* All validations are run on the config, and their errors pushed.
Validate ==
  /\ Running("validate") /\ Top.checked < Code[Top.ty].validations
  /\ LET holds == Holds(Top.ty, Top.checked + 1, Built(Top))
     IN  /\ stack' = [stack EXCEPT
                        ![Len(stack)].checked = @ + 1,
                        ![Len(stack)].has_errors = @ \/ ~holds]
         /\ errors' = IF holds THEN errors
                      ELSE Append(errors, Error("generic", Top.path, Top.ty, 0))
  /\ UNCHANGED <<root, result>>

ReturnConfig ==
  /\ Running("validate") /\ Top.checked = Code[Top.ty].validations
  /\ Return(IF Top.has_errors THEN Failed ELSE Built(Top), errors)
  /\ UNCHANGED root

Step ==
  \/ RejectNonObject
  \/ EnterConfig
  \/ ReadTag
  \/ RejectTag
  \/ ReadParam
  \/ UseDefault
  \/ ReadNested
  \/ SkipNestedOpt
  \/ ReadNestedOpt
  \/ FailFields
  \/ Construct
  \/ Validate
  \/ ReturnConfig

Init ==
  /\ root \in Roots
  /\ stack = <<>>
  /\ errors = <<>>
  /\ result = NoConfig

Next ==
  \/ \E c \in Calls : Parse(c[1], c[2])
  \/ \E c \in Calls : ParseOptAbsent(c[1], c[2])
  \/ \E c \in Calls : ParseOpt(c[1], c[2])
  \/ Step

\* Parsing is a call: it runs until it returns.
Fairness == WF_vars(Step)

Spec == Init /\ [][Next]_vars /\ Fairness
-----------------------------------------------------------------------------
(* Properties *)

\* The parser stays within its types: a call starts with no variant and no
\* values, has a tag if it reads one, an arm of its type once it reads fields,
\* and has read no more of them than the arm has.
FrameOK(frame) ==
  /\ DOMAIN frame = {"ty", "path", "opt", "count", "pc", "arm", "values",
                    "checked", "has_errors"}
  /\ frame.ty \in Types
  /\ frame.path \in Path(Key)
  /\ frame.opt \in BOOLEAN
  /\ frame.count \in Nat
  /\ frame.checked \in Nat /\ frame.has_errors \in BOOLEAN
  /\ frame.pc \in {"object", "tag", "fields", "validate"}
  /\ IsSeq(frame.values)
  /\ frame.pc = "tag" => Tag(frame) # NoTagParam
  /\ frame.pc \in {"object", "tag"} =>
       frame.arm = NoVariant /\ frame.values = <<>>
  /\ frame.pc \in {"fields", "validate"} =>
       /\ frame.arm \in DOMAIN Code[frame.ty].arms
       /\ Len(frame.values) <= Len(FieldsOf(frame))

TypeOK ==
  /\ IsTree(root)
  /\ IsSeq(stack)
  /\ \A i \in DOMAIN stack : FrameOK(stack[i])
  /\ errors \in Seq(ParseError)

IsWithin(path, at) ==
  Len(at) <= Len(path) /\ SubSeq(path, 1, Len(at)) = at

\* deserialize_any_config_opt(): "optional config misses required params and
\* no other errors; coercing it to `None`".  The list of errors is shared by
\* all calls that are running, and is cut: this loses errors of the config
\* that becomes None only, at its location or below, and none that says
\* anything else than that a param is missing.
OuterErrorsKept ==
  [][stack # <<>> =>
       \A i \in DOMAIN errors :
         \/ i \in DOMAIN errors' /\ errors'[i] = errors[i]
         \/ /\ Top.opt
            /\ errors[i].category = "missing"
            /\ IsWithin(errors[i].path, Top.path)]_vars

\* "Error info should is contained in the context": a call that will return
\* a mere marker, because one of its fields has failed, has pushed an error
\* that is still there, whatever the calls for other fields have dropped.
\* The generic error that ConfigParser adds is never needed.
FailureExplained ==
  \A i \in DOMAIN stack :
    Doomed(stack[i]) => Len(errors) > stack[i].count

\* Calls that are nested are at nested paths; the errors since a call are at
\* its path or below, and a call that fails has an error of its own, before
\* those of the calls that it is waiting for.
CallsNest ==
  \A i, j \in DOMAIN stack : i < j =>
    /\ stack[i].pc = "fields" /\ ~AllRead(stack[i])
    /\ stack[i].count <= stack[j].count
    /\ IsWithin(stack[j].path, stack[i].path)
    /\ Doomed(stack[i]) => stack[i].count < stack[j].count

ErrorsWithin ==
  \A i \in DOMAIN stack :
    /\ stack[i].count <= Len(errors)
    /\ \A k \in (stack[i].count + 1)..Len(errors) :
         IsWithin(errors[k].path, stack[i].path)

IndInv ==
  /\ TypeOK
  /\ CallsNest
  /\ ErrorsWithin
  /\ FailureExplained

\* Every parse() returns, however configs are nested and whatever the tree is:
\* no call waits for another field than the next one, and none starts over.
EveryParseReturns == stack # <<>> ~> stack = <<>>
-----------------------------------------------------------------------------
(* The promise that is kept *)

Promise ==
  INSTANCE ParsePromise WITH
    asked  <- IF stack = <<>> THEN [none |-> "nobody"]
              ELSE [ty |-> stack[1].ty, path |-> stack[1].path,
                    opt |-> stack[1].opt],
    errors <- IF stack = <<>> THEN Range(errors) ELSE {}

\* ConfigParser::parse: "This list of errors is as full as possible (i.e.,
\* there is no short-circuiting on encountering an error)."  Whatever calls
\* share the list of errors and cut it, what parse() and parse_opt() return is
\* the config and the errors that the tree determines.
ImplementsPromise == Promise!Spec

\* What is promised of a field of a call.
Promised(t, frame, n) ==
  OfField(t, Outcomes(t), frame.ty, frame.path, FieldsOf(frame)[n])

\* How far a call has come: it has what is promised of the fields it has read,
\* and as its own errors theirs; once it has the config, just an error for a
\* validation that has failed.
KeepsPromise(t, frame, own) ==
  LET read   == DOMAIN frame.values
      tag    == OfParam(t, frame.ty, frame.path, Tag(frame))
      failed == {n \in 1..frame.checked : ~Holds(frame.ty, n, Built(frame))}
  IN  /\ frame.opt => frame.path \in DOMAIN t
      /\ frame.pc # "object" => ~IsLeafAt(t, frame.path)
      /\ frame.pc \in {"fields", "validate"} =>
           IF Tag(frame) = NoTagParam THEN frame.arm = NoVariant
           ELSE tag.errors = {} /\ frame.arm = tag.value
      /\ \A n \in read : frame.values[n] = Promised(t, frame, n).value
      /\ frame.pc # "validate" =>
           /\ frame.checked = 0 /\ ~frame.has_errors
           /\ own = UNION {Promised(t, frame, n).errors : n \in read}
      /\ frame.pc = "validate" =>
           /\ AllRead(frame) /\ ~AnyFailed(frame)
           /\ frame.checked <= Code[frame.ty].validations
           /\ frame.has_errors <=> failed # {}
           /\ own = {Error("generic", frame.path, frame.ty, 0) : n \in failed}

\* A call is for the field that its caller waits for.
Serves(t, call, caller) ==
  LET field == NextField(caller)
  IN  /\ field.kind \in {"nested", "nested_opt"}
      /\ call.ty = field.meta
      /\ call.path = Join(caller.path, field.name)
      /\ call.opt <=> field.kind = "nested_opt"
      /\ call.opt \/ call.path \in DOMAIN t \/ field.default = NoDefault

\* The errors of a call, without those of the call that it waits for.
OwnErrors(i) ==
  LET last == IF i = Len(stack) THEN Len(errors) ELSE stack[i + 1].count
  IN  {errors[k] : k \in (stack[i].count + 1)..last}

\* The inductive invariant of the refinement.
PromiseInv ==
  /\ IndInv
  /\ stack # <<>> => stack[1].count = 0
  /\ \A i \in DOMAIN stack : KeepsPromise(root, stack[i], OwnErrors(i))
  /\ \A i \in DOMAIN stack : i < Len(stack) => Serves(root, stack[i + 1], stack[i])
=============================================================================
