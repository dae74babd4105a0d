----------------------- MODULE Deserialization_proofs -----------------------
(***************************************************************************)
(* Proofs about Deserialization, for all config types, merged trees, param *)
(* deserializers and validations.                                          *)
(***************************************************************************)
EXTENDS Deserialization, SequenceTheorems, TLAPS

-----------------------------------------------------------------------------
(* Lemmas about the operators *)

LEMMA JoinType ==
  ASSUME NEW path \in Path(Key), NEW suffix \in Path(Key)
  PROVE  Join(path, suffix) \in Path(Key)
BY DEF Path, Join

LEMMA JoinWithin ==
  ASSUME NEW path \in Path(Key), NEW suffix \in Path(Key)
  PROVE  IsWithin(Join(path, suffix), path)
<1>1. /\ path \o suffix \in Seq(Key)
      /\ Len(path \o suffix) = Len(path) + Len(suffix)
      /\ \A i \in 1..Len(path) : (path \o suffix)[i] = path[i]
  BY DEF Path
<1>2. SubSeq(path \o suffix, 1, Len(path)) = path
  BY <1>1 DEF Path
<1>. QED
  BY <1>1, <1>2 DEF IsWithin, Join, Path

LEMMA WithinTrans ==
  ASSUME NEW a \in Path(Key), NEW b \in Path(Key), NEW c \in Path(Key),
         IsWithin(a, b), IsWithin(b, c)
  PROVE  IsWithin(a, c)
<1>1. /\ Len(c) <= Len(b) /\ Len(b) <= Len(a)
      /\ SubSeq(a, 1, Len(b)) = b
      /\ SubSeq(b, 1, Len(c)) = c
  BY DEF IsWithin
<1>2. \A i \in 1..Len(b) : a[i] = b[i]
  BY <1>1 DEF Path
<1>3. \A i \in 1..Len(c) : b[i] = c[i]
  BY <1>1 DEF Path
<1>4. SubSeq(a, 1, Len(c)) = c
  <2>1. \A i \in 1..Len(c) : a[i] = c[i]
    BY <1>1, <1>2, <1>3 DEF Path
  <2>. QED
    BY <1>1, <2>1 DEF Path
<1>. QED
  BY <1>1, <1>4 DEF IsWithin, Path

LEMMA WithinSelf ==
  ASSUME NEW a \in Path(Key)
  PROVE  IsWithin(a, a)
BY DEF IsWithin, Path

\* A sequence is one over its own items, whatever they are.
LEMMA IsSeqOf ==
  ASSUME NEW S, NEW s \in Seq(S)
  PROVE  IsSeq(s)
<1>1. /\ Len(s) \in Nat /\ DOMAIN s = 1..Len(s)
      /\ s = [i \in 1..Len(s) |-> s[i]]
  OBVIOUS
<1>2. [i \in 1..Len(s) |-> s[i]] \in Seq({s[i] : i \in DOMAIN s})
  BY <1>1
<1>. QED
  BY <1>1, <1>2 DEF IsSeq

LEMMA SeqFacts ==
  ASSUME NEW s, IsSeq(s)
  PROVE  /\ Len(s) \in Nat
         /\ DOMAIN s = 1..Len(s)
BY DEF IsSeq

LEMMA AppendIsSeq ==
  ASSUME NEW s, IsSeq(s), NEW e
  PROVE  /\ IsSeq(Append(s, e))
         /\ Len(Append(s, e)) = Len(s) + 1
         /\ \A i \in DOMAIN s : Append(s, e)[i] = s[i]
         /\ Append(s, e)[Len(s) + 1] = e
<1>. DEFINE S == {s[i] : i \in DOMAIN s} \cup {e}
<1>1. s \in Seq(S)
  <2>1. \A i \in 1..Len(s) : s[i] \in S
    BY SeqFacts
  <2>. QED
    BY <2>1, SeqFacts DEF IsSeq
<1>2. Append(s, e) \in Seq(S)
  BY <1>1
<1>3. IsSeq(Append(s, e))
  BY <1>2, IsSeqOf
<1>. QED
  BY <1>1, <1>3, SeqFacts

LEMMA ReplaceIsSeq ==
  ASSUME NEW s, IsSeq(s), NEW n \in DOMAIN s, NEW e
  PROVE  /\ IsSeq([s EXCEPT ![n] = e])
         /\ Len([s EXCEPT ![n] = e]) = Len(s)
<1>. DEFINE S == {s[i] : i \in DOMAIN s} \cup {e}
            new == [s EXCEPT ![n] = e]
<1>1. Len(s) \in Nat /\ DOMAIN s = 1..Len(s)
  BY SeqFacts
<1>2. \A i \in 1..Len(s) : new[i] \in S
  BY <1>1
<1>3. new = [i \in 1..Len(s) |-> new[i]]
  BY <1>1
<1>. HIDE DEF S, new
<1>4. [i \in 1..Len(s) |-> new[i]] \in Seq(S)
  BY <1>1, <1>2
<1>5. new \in Seq(S)
  BY <1>3, <1>4, Zenon
<1>6. Len(new) = Len(s)
  BY <1>1, <1>3, <1>5
<1>. QED
  BY <1>5, <1>6, IsSeqOf DEF new

\* The list of errors, cut or extended.
LEMMA CutType ==
  ASSUME NEW S, NEW s \in Seq(S), NEW n \in Nat, n <= Len(s)
  PROVE  /\ SubSeq(s, 1, n) \in Seq(S)
         /\ Len(SubSeq(s, 1, n)) = n
         /\ \A i \in 1..n : SubSeq(s, 1, n)[i] = s[i]
BY SubSeqProperties

LEMMA CallersFacts ==
  ASSUME IsSeq(stack), stack # <<>>
  PROVE  /\ IsSeq(Callers)
         /\ Len(stack) \in Nat /\ Len(stack) > 0
         /\ Len(Callers) = Len(stack) - 1
         /\ DOMAIN Callers = 1..(Len(stack) - 1)
         /\ \A i \in DOMAIN Callers : Callers[i] = stack[i]
         /\ Callers = <<>> <=> Len(stack) = 1
<1>. DEFINE S == {stack[i] : i \in DOMAIN stack}
<1>1. stack \in Seq(S)
  BY DEF IsSeq
<1>. HIDE DEF S
<1>2. Len(stack) \in Nat /\ Len(stack) > 0
  BY <1>1
<1>3. /\ Callers \in Seq(S) /\ Len(Callers) = Len(stack) - 1
      /\ \A i \in 1..(Len(stack) - 1) : Callers[i] = stack[i]
  <2>1. Len(stack) - 1 \in Nat /\ Len(stack) - 1 <= Len(stack)
    BY <1>2
  <2>. QED
    BY <1>1, <2>1, CutType, Zenon DEF Callers
<1>4. IsSeq(Callers)
  BY <1>3, IsSeqOf
<1>5. Callers = <<>> <=> Len(stack) = 1
  BY <1>2, <1>3
<1>. QED
  BY <1>2, <1>3, <1>4, <1>5, SeqFacts

\* A field of the arm that is being read.
LEMMA FieldType ==
  ASSUME NEW ty \in Types, NEW arm \in DOMAIN Code[ty].arms,
         NEW n \in 1..Len(Code[ty].arms[arm])
  PROVE  /\ IsField(Code[ty].arms[arm][n])
         /\ Code[ty].arms[arm][n].kind = "param" =>
              Code[ty].arms[arm][n] \in FieldParams(ty)
<1>1. IsSeq(Code[ty].arms[arm])
  BY CodeAssumption
<1>2. n \in DOMAIN Code[ty].arms[arm]
  BY <1>1, SeqFacts
<1>3. Code[ty].arms[arm][n] \in FieldsIn(ty, arm)
  BY <1>2 DEF FieldsIn
<1>4. IsField(Code[ty].arms[arm][n])
  BY <1>3, CodeAssumption
<1>. QED
  <2>. DEFINE field  == Code[ty].arms[arm][n]
              params == {f \in FieldsIn(ty, arm) : f.kind = "param"}
  <2>1. params \in {{f \in FieldsIn(ty, a) : f.kind = "param"} :
                     a \in DOMAIN Code[ty].arms}
    OBVIOUS
  <2>2. field.kind = "param" => field \in params
    BY <1>3
  <2>3. params \subseteq FieldParams(ty)
    BY <2>1, Zenon DEF FieldParams
  <2>. QED
    BY <1>4, <2>2, <2>3, Zenon
-----------------------------------------------------------------------------
(* The invariant *)

\* The tree that is parsed is one of those given.
Inv == IndInv /\ root \in Roots

LEMMA ValueFound ==
  ASSUME root \in Roots, NEW path
  PROVE  CurrentValue(path) \in Values
BY DEF CurrentValue, Values

LEMMA TopFacts ==
  ASSUME IndInv, stack # <<>>
  PROVE  /\ Len(stack) \in DOMAIN stack
         /\ Top = stack[Len(stack)]
         /\ FrameOK(Top)
         /\ Top.ty \in Types /\ Top.path \in Path(Key) /\ Top.count \in Nat
         /\ Top.count <= Len(errors)
         /\ Len(errors) \in Nat
<1>1. Len(stack) \in DOMAIN stack
  BY CallersFacts, SeqFacts DEF IndInv, TypeOK
<1>2. Top = stack[Len(stack)] /\ FrameOK(Top) /\ Top.count <= Len(errors)
  BY <1>1 DEF IndInv, TypeOK, ErrorsWithin, Top
<1>3. Len(errors) \in Nat
  BY DEF IndInv, TypeOK
<1>. QED
  BY <1>1, <1>2, <1>3 DEF FrameOK

\* The errors of a param are well-formed, at the path of its config or below.
LEMMA LocatedType ==
  ASSUME NEW ty \in Types, NEW index \in Nat, NEW path \in Path(Key),
         NEW errs \in Seq(ParamError),
         NEW base \in Path(Key), IsWithin(path, base)
  PROVE  /\ Located(ty, index, path, errs) \in Seq(ParseError)
         /\ Len(Located(ty, index, path, errs)) = Len(errs)
         /\ \A k \in 1..Len(errs) :
              IsWithin(Located(ty, index, path, errs)[k].path, base)
<1>. DEFINE found == Located(ty, index, path, errs)
<1>1. found = [i \in 1..Len(errs) |->
                 Error(errs[i].category, Join(path, errs[i].at), ty, index)]
  BY DEF Located
<1>2. \A i \in 1..Len(errs) :
        /\ errs[i].category \in ErrorCategory /\ errs[i].at \in Path(Key)
        /\ Join(path, errs[i].at) \in Path(Key)
        /\ IsWithin(Join(path, errs[i].at), base)
  <2>. SUFFICES ASSUME NEW i \in 1..Len(errs)
                PROVE  /\ errs[i].category \in ErrorCategory
                       /\ errs[i].at \in Path(Key)
                       /\ Join(path, errs[i].at) \in Path(Key)
                       /\ IsWithin(Join(path, errs[i].at), base)
    OBVIOUS
  <2>1. errs[i] \in ParamError
    OBVIOUS
  <2>2. errs[i].category \in ErrorCategory /\ errs[i].at \in Path(Key)
    BY <2>1 DEF ParamError
  <2>3. /\ Join(path, errs[i].at) \in Path(Key)
        /\ IsWithin(Join(path, errs[i].at), path)
    BY <2>2, JoinType, JoinWithin
  <2>. QED
    BY <2>2, <2>3, WithinTrans
<1>3. \A i \in 1..Len(errs) :
        /\ found[i] \in ParseError
        /\ IsWithin(found[i].path, base)
  BY <1>1, <1>2 DEF ParseError, Error
<1>. HIDE DEF found
<1>4. found \in Seq(ParseError) /\ Len(found) = Len(errs)
  BY <1>1, <1>3
<1>. QED
  BY <1>3, <1>4 DEF found

\* What a param deserializer does for the running call.
LEMMA ParamFails ==
  ASSUME Inv, stack # <<>>, NEW param \in ParamsOf(Top.ty),
         param.index \in Nat, param.name \in Path(Key),
         ~ParamResult(Top, param).ok
  PROVE  /\ ErrorsOf(Top, param) \in Seq(ParseError)
         /\ Len(ErrorsOf(Top, param)) > 0
         /\ \A k \in 1..Len(ErrorsOf(Top, param)) :
              IsWithin(ErrorsOf(Top, param)[k].path, Top.path)
<1>. DEFINE path == Join(Top.path, param.name)
            errs == ParamResult(Top, param).errors
<1>1. Top.ty \in Types /\ Top.path \in Path(Key)
  BY TopFacts DEF Inv
<1>2. IsOutcome(ParamResult(Top, param))
  BY <1>1, ValueFound, DeParamAssumption DEF Inv, ParamResult
<1>3. errs \in Seq(ParamError) /\ errs # <<>>
  BY <1>2 DEF IsOutcome
<1>4. path \in Path(Key) /\ IsWithin(path, Top.path)
  BY <1>1, JoinType, JoinWithin
<1>5. ErrorsOf(Top, param) = Located(Top.ty, param.index, path, errs)
  BY DEF ErrorsOf
<1>. HIDE DEF path, errs
<1>6. Len(errs) \in Nat /\ Len(errs) > 0
  BY <1>3
<1>. QED
  <2>1. /\ Located(Top.ty, param.index, path, errs) \in Seq(ParseError)
        /\ Len(Located(Top.ty, param.index, path, errs)) = Len(errs)
        /\ \A k \in 1..Len(errs) :
             IsWithin(Located(Top.ty, param.index, path, errs)[k].path, Top.path)
    BY <1>1, <1>3, <1>4, LocatedType, Zenon
  <2>. QED
    BY <1>5, <1>6, <2>1

LEMMA WithValueFacts ==
  ASSUME NEW frame, FrameOK(frame), frame.pc = "fields", ~AllRead(frame),
         NEW value
  PROVE  /\ FrameOK(WithValue(frame, value))
         /\ WithValue(frame, value).path = frame.path
         /\ WithValue(frame, value).count = frame.count
         /\ Doomed(WithValue(frame, value)) <=>
              Doomed(frame) \/ value = Failed
<1>. DEFINE new == WithValue(frame, value)
<1>1. /\ DOMAIN new = DOMAIN frame
      /\ new.ty = frame.ty /\ new.path = frame.path /\ new.opt = frame.opt
      /\ new.count = frame.count /\ new.pc = frame.pc /\ new.arm = frame.arm
      /\ new.checked = frame.checked /\ new.has_errors = frame.has_errors
      /\ new.values = Append(frame.values, value)
  BY DEF WithValue, FrameOK
<1>2. /\ IsSeq(new.values)
      /\ Len(new.values) = Len(frame.values) + 1
      /\ \A i \in DOMAIN frame.values : new.values[i] = frame.values[i]
      /\ new.values[Len(frame.values) + 1] = value
      /\ DOMAIN frame.values = 1..Len(frame.values)
      /\ DOMAIN new.values = 1..(Len(frame.values) + 1)
      /\ Len(frame.values) \in Nat
  BY <1>1, AppendIsSeq, SeqFacts DEF FrameOK
<1>. HIDE DEF new
<1>3. Len(new.values) <= Len(FieldsOf(new))
  <2>1. IsSeq(FieldsOf(frame)) /\ FieldsOf(new) = FieldsOf(frame)
    BY <1>1, CodeAssumption DEF FieldsOf, FrameOK
  <2>2. Len(FieldsOf(frame)) \in Nat
    BY <2>1, SeqFacts
  <2>. QED
    BY <1>2, <2>1, <2>2 DEF AllRead, FrameOK
<1>4. FrameOK(new)
  BY <1>1, <1>2, <1>3 DEF FrameOK
<1>5. Doomed(new) <=> Doomed(frame) \/ value = Failed
  BY <1>1, <1>2 DEF Doomed, AnyFailed
<1>. QED
  BY <1>1, <1>4, <1>5 DEF new

\* A step of the innermost call that does not end it.
TopChange(frame, found) ==
  /\ FrameOK(frame)
  /\ frame.path = Top.path /\ frame.count = Top.count
  /\ found \in Seq(ParseError)
  /\ \A k \in 1..Len(found) : IsWithin(found[k].path, Top.path)
  /\ Doomed(frame) => Len(errors) + Len(found) > Top.count
  /\ stack' = [stack EXCEPT ![Len(stack)] = frame]
  /\ errors' = errors \o found
  /\ root' = root

\* Errors that are added stay in order.
LEMMA ConcatFacts ==
  ASSUME NEW S, NEW s \in Seq(S), NEW t \in Seq(S)
  PROVE  /\ s \o t \in Seq(S)
         /\ Len(s) \in Nat /\ Len(t) \in Nat
         /\ Len(s \o t) = Len(s) + Len(t)
         /\ \A k \in 1..Len(s) : (s \o t)[k] = s[k]
         /\ \A k \in (Len(s) + 1)..(Len(s) + Len(t)) :
              (s \o t)[k] = t[k - Len(s)] /\ k - Len(s) \in 1..Len(t)
OBVIOUS

LEMMA ErrorPath ==
  ASSUME NEW s \in Seq(ParseError), NEW k \in 1..Len(s)
  PROVE  s[k].path \in Path(Key)
<1>1. s[k] \in ParseError
  OBVIOUS
<1>. QED
  BY <1>1 DEF ParseError

LEMMA TopStep ==
  ASSUME Inv, stack # <<>>, NEW frame, NEW found, TopChange(frame, found)
  PROVE  Inv'
<1>. DEFINE n == Len(stack)
<1>1. /\ n \in Nat /\ n > 0 /\ DOMAIN stack = 1..n
      /\ IsSeq(stack) /\ errors \in Seq(ParseError)
  BY CallersFacts, SeqFacts DEF Inv, IndInv, TypeOK
<1>. HIDE DEF n
<1>2. /\ n \in DOMAIN stack /\ Top = stack[n]
      /\ Top.path \in Path(Key) /\ Top.count \in Nat
  BY TopFacts DEF Inv, n
<1>3. stack' = [stack EXCEPT ![n] = frame]
  BY DEF TopChange, n
<1>4. /\ IsSeq(stack') /\ Len(stack') = n /\ DOMAIN stack' = 1..n
  <2>1. IsSeq(stack') /\ Len(stack') = Len(stack)
    BY <1>1, <1>2, <1>3, ReplaceIsSeq
  <2>. QED
    BY <2>1, SeqFacts DEF n
<1>5. /\ stack'[n] = frame
      /\ \A i \in 1..n : i # n => stack'[i] = stack[i]
  BY <1>1, <1>2, <1>3
<1>6. /\ FrameOK(frame) /\ frame.path = Top.path /\ frame.count = Top.count
      /\ Doomed(frame) => Len(errors) + Len(found) > Top.count
      /\ root' = root
  BY DEF TopChange
<1>7. \A i \in 1..n : /\ stack'[i].path = stack[i].path
                      /\ stack'[i].count = stack[i].count
                      /\ FrameOK(stack[i]) /\ FrameOK(stack'[i])
  BY <1>1, <1>2, <1>5, <1>6 DEF Inv, IndInv, TypeOK
<1>8. /\ errors' \in Seq(ParseError)
      /\ Len(errors') = Len(errors) + Len(found)
      /\ \A k \in 1..Len(errors) : errors'[k] = errors[k]
      /\ \A k \in (Len(errors) + 1)..Len(errors') :
           IsWithin(errors'[k].path, Top.path)
      /\ Len(errors) \in Nat /\ Len(found) \in Nat
  BY <1>1, ConcatFacts DEF TopChange
<1>9. TypeOK'
  BY <1>4, <1>6, <1>7, <1>8 DEF Inv, IndInv, TypeOK
<1>10. CallsNest'
  <2>. SUFFICES ASSUME NEW i \in 1..n, NEW j \in 1..n, i < j
                PROVE  /\ stack'[i].pc = "fields" /\ ~AllRead(stack'[i])
                       /\ stack'[i].count <= stack'[j].count
                       /\ IsWithin(stack'[j].path, stack'[i].path)
                       /\ Doomed(stack'[i]) =>
                            stack'[i].count < stack'[j].count
    BY <1>4 DEF CallsNest
  <2>1. stack'[i] = stack[i]
    BY <1>1, <1>5
  <2>. QED
    BY <1>1, <1>7, <2>1 DEF Inv, IndInv, CallsNest
<1>11. ErrorsWithin'
  <2>. SUFFICES ASSUME NEW i \in 1..n
                PROVE  /\ stack[i].count <= Len(errors')
                       /\ \A k \in (stack[i].count + 1)..Len(errors') :
                            IsWithin(errors'[k].path, stack[i].path)
    BY <1>4, <1>7 DEF ErrorsWithin
  <2>1. /\ stack[i].count \in Nat /\ stack[i].path \in Path(Key)
        /\ stack[i].count <= Len(errors)
    BY <1>1, <1>7 DEF Inv, IndInv, ErrorsWithin, FrameOK
  <2>2. IsWithin(Top.path, stack[i].path)
    <3>1. CASE i = n
      BY <3>1, <1>2, WithinSelf
    <3>2. CASE i # n
      BY <3>2, <1>1, <1>2 DEF Inv, IndInv, CallsNest
    <3>. QED
      BY <3>1, <3>2
  <2>3. \A k \in (stack[i].count + 1)..Len(errors) :
          IsWithin(errors'[k].path, stack[i].path)
    <3>1. \A k \in (stack[i].count + 1)..Len(errors) :
            IsWithin(errors[k].path, stack[i].path)
      BY <1>1 DEF Inv, IndInv, ErrorsWithin
    <3>. QED
      BY <1>8, <2>1, <3>1
  <2>4. \A k \in (Len(errors) + 1)..Len(errors') :
          IsWithin(errors'[k].path, stack[i].path)
    <3>1. \A k \in 1..Len(errors') : errors'[k].path \in Path(Key)
      BY <1>8, ErrorPath
    <3>. QED
      BY <1>2, <1>8, <2>1, <2>2, <3>1, WithinTrans
  <2>. QED
    BY <1>8, <2>1, <2>3, <2>4
<1>12. FailureExplained'
  <2>. SUFFICES ASSUME NEW i \in 1..n, Doomed(stack'[i])
                PROVE  Len(errors') > stack'[i].count
    BY <1>4 DEF FailureExplained, Doomed
  <2>1. CASE i = n
    BY <2>1, <1>5, <1>6, <1>8
  <2>2. CASE i # n
    <3>1. stack'[i] = stack[i] /\ stack[i].count \in Nat
      BY <2>2, <1>5, <1>7 DEF FrameOK
    <3>2. Len(errors) > stack[i].count
      BY <1>1, <3>1 DEF Inv, IndInv, FailureExplained
    <3>. QED
      BY <1>8, <3>1, <3>2
  <2>. QED
    BY <2>1, <2>2
<1>. QED
  BY <1>6, <1>9, <1>10, <1>11, <1>12 DEF Inv, IndInv

\* A call for a nested config.
PushChange(frame) ==
  /\ FrameOK(frame)
  /\ Top.pc = "fields" /\ ~AllRead(Top)
  /\ IsWithin(frame.path, Top.path)
  /\ frame.count = Len(errors)
  /\ ~Doomed(frame)
  /\ stack' = Append(stack, frame)
  /\ errors' = errors
  /\ root' = root

LEMMA PushStep ==
  ASSUME Inv, stack # <<>>, NEW frame, PushChange(frame)
  PROVE  Inv'
<1>. DEFINE n == Len(stack)
<1>1. /\ n \in Nat /\ n > 0 /\ DOMAIN stack = 1..n
      /\ IsSeq(stack) /\ errors \in Seq(ParseError)
  BY CallersFacts, SeqFacts DEF Inv, IndInv, TypeOK
<1>. HIDE DEF n
<1>2. /\ n \in DOMAIN stack /\ Top = stack[n] /\ Top.path \in Path(Key)
  BY TopFacts DEF Inv, n
<1>3. /\ IsSeq(stack') /\ DOMAIN stack' = 1..(n + 1)
      /\ \A i \in 1..n : stack'[i] = stack[i]
      /\ stack'[n + 1] = frame
  <2>1. stack' = Append(stack, frame)
    BY DEF PushChange
  <2>2. /\ IsSeq(stack') /\ Len(stack') = Len(stack) + 1
        /\ \A i \in DOMAIN stack : stack'[i] = stack[i]
        /\ stack'[Len(stack) + 1] = frame
    BY <1>1, <2>1, AppendIsSeq
  <2>. QED
    BY <1>1, <2>2, SeqFacts DEF n
<1>4. /\ FrameOK(frame) /\ ~Doomed(frame) /\ frame.count = Len(errors)
      /\ frame.path \in Path(Key)
      /\ IsWithin(frame.path, Top.path)
      /\ stack[n].pc = "fields" /\ ~AllRead(stack[n])
      /\ errors' = errors /\ root' = root
  BY <1>2 DEF PushChange, FrameOK
<1>6. TypeOK'
  BY <1>1, <1>3, <1>4 DEF Inv, IndInv, TypeOK
<1>7. \A i \in 1..n : /\ stack[i].path \in Path(Key)
                      /\ stack[i].count \in Nat
                      /\ stack[i].count <= Len(errors)
                      /\ Doomed(stack[i]) => stack[i].count < Len(errors)
  BY <1>1 DEF Inv, IndInv, TypeOK, FrameOK, ErrorsWithin, FailureExplained
<1>8. CallsNest'
  <2>. SUFFICES ASSUME NEW i \in 1..(n + 1), NEW j \in 1..(n + 1), i < j
                PROVE  /\ stack'[i].pc = "fields" /\ ~AllRead(stack'[i])
                       /\ stack'[i].count <= stack'[j].count
                       /\ IsWithin(stack'[j].path, stack'[i].path)
                       /\ Doomed(stack'[i]) =>
                            stack'[i].count < stack'[j].count
    BY <1>3 DEF CallsNest
  <2>1. i \in 1..n /\ stack'[i] = stack[i]
    BY <1>1, <1>3
  <2>2. CASE j \in 1..n
    BY <1>1, <1>3, <2>1, <2>2 DEF Inv, IndInv, CallsNest
  <2>3. CASE j = n + 1
    <3>1. /\ IsWithin(stack[n].path, stack[i].path)
          /\ stack[i].pc = "fields" /\ ~AllRead(stack[i])
      <4>1. CASE i = n
        BY <4>1, <1>4, <1>7, WithinSelf
      <4>2. CASE i # n
        BY <4>2, <1>1, <2>1 DEF Inv, IndInv, CallsNest
      <4>. QED
        BY <4>1, <4>2
    <3>2. IsWithin(frame.path, stack[i].path)
      BY <1>2, <1>4, <1>7, <2>1, <3>1, WithinTrans
    <3>. QED
      BY <1>3, <1>4, <1>7, <2>1, <2>3, <3>1, <3>2
  <2>. QED
    BY <1>1, <2>2, <2>3
<1>9. ErrorsWithin'
  <2>. SUFFICES ASSUME NEW i \in 1..(n + 1)
                PROVE  /\ stack'[i].count <= Len(errors)
                       /\ \A k \in (stack'[i].count + 1)..Len(errors) :
                            IsWithin(errors[k].path, stack'[i].path)
    BY <1>3, <1>4 DEF ErrorsWithin
  <2>1. CASE i \in 1..n
    BY <1>1, <1>3, <2>1 DEF Inv, IndInv, ErrorsWithin
  <2>2. CASE i = n + 1
    BY <1>1, <1>3, <1>4, <2>2
  <2>. QED
    BY <1>1, <2>1, <2>2
<1>10. FailureExplained'
  <2>. SUFFICES ASSUME NEW i \in 1..(n + 1), Doomed(stack'[i])
                PROVE  Len(errors) > stack'[i].count
    BY <1>3, <1>4 DEF FailureExplained, Doomed
  <2>1. i \in 1..n /\ stack'[i] = stack[i]
    BY <1>1, <1>3, <1>4
  <2>. QED
    BY <1>1, <1>7, <2>1
<1>. QED
  BY <1>4, <1>6, <1>8, <1>9, <1>10 DEF Inv, IndInv

\* parse() and parse_opt() start with an empty list of errors.
LEMMA StartStep ==
  ASSUME Inv, NEW frame, FrameOK(frame), frame.count = 0, ~Doomed(frame),
         stack' = <<frame>>, errors' = <<>>, root' = root
  PROVE  Inv'
<1>1. IsSeq(stack') /\ DOMAIN stack' = {1} /\ stack'[1] = frame
  <2>1. <<frame>> \in Seq({frame})
    OBVIOUS
  <2>2. IsSeq(<<frame>>)
    BY <2>1, IsSeqOf
  <2>. QED
    BY <2>2
<1>2. TypeOK'
  BY <1>1 DEF Inv, IndInv, TypeOK
<1>3. CallsNest' /\ ErrorsWithin'
  BY <1>1 DEF CallsNest, ErrorsWithin
<1>4. FailureExplained'
  BY <1>1 DEF FailureExplained, Doomed
<1>. QED
  BY <1>2, <1>3, <1>4 DEF Inv, IndInv

\* The end of the innermost call.
EndChange(value, errs) ==
  /\ errs \in Seq(ParseError)
  /\ Len(errors) <= Len(errs)
  /\ \A k \in 1..Len(errors) : errs[k] = errors[k]
  /\ \A k \in (Len(errors) + 1)..Len(errs) : IsWithin(errs[k].path, Top.path)
  /\ value = Failed => Len(errs) > Top.count
  /\ Return(value, errs)
  /\ root' = root

IsAbsent(value, errs) ==
  value = Failed /\ Top.opt /\ OnlyMissingSince(errs, Top.count)
Returned(value, errs) == IF IsAbsent(value, errs) THEN NoConfig ELSE value
Kept(value, errs) ==
  IF IsAbsent(value, errs) THEN SubSeq(errs, 1, Top.count) ELSE errs

\* Return(), with its local definitions expanded.
LEMMA ReturnCases ==
  ASSUME NEW value, NEW errs, EndChange(value, errs)
  PROVE  \/ /\ Callers # <<>>
            /\ stack' = [Callers EXCEPT ![Len(Callers)] =
                           WithValue(Callers[Len(Callers)],
                                     Returned(value, errs))]
            /\ errors' = Kept(value, errs)
            /\ result' = result
         \/ /\ Callers = <<>>
            /\ stack' = <<>>
            /\ errors' = IF Returned(value, errs) = Failed
                              /\ Kept(value, errs) = <<>>
                         THEN <<Error("generic", Top.path, Top.ty, 0)>>
                         ELSE Kept(value, errs)
            /\ result' = Returned(value, errs)
BY Zenon DEF EndChange, Return, Returned, Kept, IsAbsent

\* What is kept is a prefix of the errors by then: at least those before the
\* call, and one more for a call that fails.
LEMMA KeptFacts ==
  ASSUME Inv, stack # <<>>, NEW value, NEW errs, EndChange(value, errs)
  PROVE  /\ Kept(value, errs) \in Seq(ParseError)
         /\ Len(Kept(value, errs)) \in Top.count..Len(errs)
         /\ \A k \in 1..Len(Kept(value, errs)) : Kept(value, errs)[k] = errs[k]
         /\ Returned(value, errs) = Failed => Len(Kept(value, errs)) > Top.count
<1>1. /\ Top.count \in Nat /\ Top.count <= Len(errors) /\ Len(errors) \in Nat
      /\ errs \in Seq(ParseError) /\ Len(errors) <= Len(errs)
      /\ value = Failed => Len(errs) > Top.count
  BY TopFacts DEF Inv, EndChange
<1>2. Len(errs) \in Nat
  BY <1>1
<1>3. CASE IsAbsent(value, errs)
  <2>1. Returned(value, errs) # Failed
    BY <1>3 DEF Returned, NoConfig, Failed
  <2>2. /\ SubSeq(errs, 1, Top.count) \in Seq(ParseError)
        /\ Len(SubSeq(errs, 1, Top.count)) = Top.count
        /\ \A k \in 1..Top.count : SubSeq(errs, 1, Top.count)[k] = errs[k]
    BY <1>1, <1>2, CutType
  <2>. QED
    BY <1>1, <1>2, <1>3, <2>1, <2>2 DEF Kept
<1>4. CASE ~IsAbsent(value, errs)
  BY <1>1, <1>2, <1>4 DEF Returned, Kept
<1>. QED
  BY <1>3, <1>4

LEMMA EndStep ==
  ASSUME Inv, stack # <<>>, NEW value, NEW errs, EndChange(value, errs)
  PROVE  Inv'
<1>. DEFINE kept     == Kept(value, errs)
            returned == Returned(value, errs)
            n        == Len(stack)
            m        == Len(Callers)
<1>1. /\ kept \in Seq(ParseError)
      /\ Len(kept) \in Nat /\ Top.count <= Len(kept) /\ Len(kept) <= Len(errs)
      /\ \A k \in 1..Len(kept) : kept[k] = errs[k]
      /\ returned = Failed => Len(kept) > Top.count
      /\ Len(errors) \in Nat /\ Len(errs) \in Nat
  <2>1. errs \in Seq(ParseError) /\ errors \in Seq(ParseError)
    BY DEF EndChange, Inv, IndInv, TypeOK
  <2>2. Len(errs) \in Nat /\ Len(errors) \in Nat
    BY <2>1
  <2>. QED
    BY <2>2, KeptFacts, TopFacts DEF Inv
<1>2. CASE Callers = <<>>
  <2>. HIDE DEF kept, returned
  <2>1. stack' = <<>>
    BY <1>2, ReturnCases, Zenon
  <2>2. errors' \in Seq(ParseError)
    <3>1. errors' = kept \/ errors' = <<Error("generic", Top.path, Top.ty, 0)>>
      BY <1>2, ReturnCases DEF kept, returned
    <3>2. Error("generic", Top.path, Top.ty, 0) \in ParseError
      BY TopFacts DEF Inv, Error, ParseError, ErrorCategory
    <3>3. <<Error("generic", Top.path, Top.ty, 0)>> \in Seq(ParseError)
      BY <3>2
    <3>. QED
      BY <1>1, <3>1, <3>3
  <2>3. IsSeq(<<>>) /\ DOMAIN <<>> = {}
    BY DEF IsSeq
  <2>4. root' = root
    BY DEF EndChange
  <2>5. TypeOK'
    BY <2>1, <2>2, <2>3, <2>4 DEF Inv, IndInv, TypeOK
  <2>6. CallsNest' /\ ErrorsWithin' /\ FailureExplained'
    BY <2>1, <2>3 DEF CallsNest, ErrorsWithin, FailureExplained
  <2>. QED
    BY <2>4, <2>5, <2>6 DEF Inv, IndInv
<1>3. CASE Callers # <<>>
  <2>1. /\ n \in Nat /\ n > 1 /\ m = n - 1 /\ DOMAIN stack = 1..n
        /\ IsSeq(Callers) /\ DOMAIN Callers = 1..m /\ m \in DOMAIN Callers
        /\ \A i \in 1..m : Callers[i] = stack[i]
    BY <1>3, CallersFacts, SeqFacts DEF Inv, IndInv, TypeOK
  <2>. HIDE DEF kept, returned, n, m
  <2>2. /\ Top = stack[n] /\ Top.path \in Path(Key) /\ Top.count \in Nat
    BY TopFacts DEF Inv, n
  <2>. DEFINE caller == WithValue(stack[m], returned)
  <2>3. stack' = [Callers EXCEPT ![m] = caller] /\ errors' = kept
    BY <1>3, <2>1, ReturnCases, Zenon DEF kept, returned, m
  <2>4. /\ FrameOK(stack[m]) /\ stack[m].pc = "fields" /\ ~AllRead(stack[m])
        /\ Doomed(stack[m]) => stack[m].count < Top.count
        /\ stack[m].count <= Top.count
    BY <2>1, <2>2 DEF Inv, IndInv, TypeOK, CallsNest
  <2>5. /\ FrameOK(caller)
        /\ caller.path = stack[m].path /\ caller.count = stack[m].count
        /\ Doomed(caller) <=> Doomed(stack[m]) \/ returned = Failed
    BY <2>4, WithValueFacts
  <2>. HIDE DEF caller
  <2>6. /\ IsSeq(stack') /\ DOMAIN stack' = 1..m
        /\ stack'[m] = caller
        /\ \A i \in 1..m : i # m => stack'[i] = stack[i]
    <3>1. IsSeq(stack') /\ Len(stack') = Len(Callers)
      BY <2>1, <2>3, ReplaceIsSeq
    <3>. QED
      BY <2>1, <2>3, <3>1, SeqFacts
  <2>7. \A i \in 1..m : /\ FrameOK(stack'[i])
                        /\ stack'[i].path = stack[i].path
                        /\ stack'[i].count = stack[i].count
                        /\ stack[i].count \in Nat
                        /\ stack[i].path \in Path(Key)
    <3>1. \A i \in 1..m : FrameOK(stack[i])
      BY <2>1 DEF Inv, IndInv, TypeOK
    <3>2. \A i \in 1..m : stack[i].count \in Nat /\ stack[i].path \in Path(Key)
      BY <3>1 DEF FrameOK
    <3>. QED
      BY <2>5, <2>6, <3>1, <3>2
  <2>8. root' = root
    BY DEF EndChange
  <2>9. TypeOK'
    BY <1>1, <2>3, <2>6, <2>7, <2>8 DEF Inv, IndInv, TypeOK
  <2>10. CallsNest'
    <3>. SUFFICES ASSUME NEW i \in 1..m, NEW j \in 1..m, i < j
                  PROVE  /\ stack'[i].pc = "fields" /\ ~AllRead(stack'[i])
                         /\ stack'[i].count <= stack'[j].count
                         /\ IsWithin(stack'[j].path, stack'[i].path)
                         /\ Doomed(stack'[i]) =>
                              stack'[i].count < stack'[j].count
      BY <2>6 DEF CallsNest
    <3>1. stack'[i] = stack[i]
      BY <2>1, <2>6
    <3>2. i \in DOMAIN stack /\ j \in DOMAIN stack
      BY <2>1
    <3>3. /\ stack[i].pc = "fields" /\ ~AllRead(stack[i])
          /\ stack[i].count <= stack[j].count
          /\ IsWithin(stack[j].path, stack[i].path)
          /\ Doomed(stack[i]) => stack[i].count < stack[j].count
      BY <3>2, Zenon DEF Inv, IndInv, CallsNest
    <3>. QED
      BY <2>7, <3>1, <3>3
  <2>11. ErrorsWithin'
    <3>. SUFFICES ASSUME NEW i \in 1..m
                  PROVE  /\ stack[i].count <= Len(kept)
                         /\ \A k \in (stack[i].count + 1)..Len(kept) :
                              IsWithin(kept[k].path, stack[i].path)
      BY <2>3, <2>6, <2>7 DEF ErrorsWithin
    <3>1. /\ stack[i].count <= Top.count
          /\ IsWithin(Top.path, stack[i].path)
      BY <2>1, <2>2 DEF Inv, IndInv, CallsNest
    <3>2. \A k \in (stack[i].count + 1)..Len(errors) :
            IsWithin(errors[k].path, stack[i].path)
      BY <2>1 DEF Inv, IndInv, ErrorsWithin
    <3>3. \A k \in (Len(errors) + 1)..Len(errs) :
            IsWithin(errs[k].path, stack[i].path)
      <4>1. /\ errs \in Seq(ParseError)
            /\ \A k \in (Len(errors) + 1)..Len(errs) :
                 IsWithin(errs[k].path, Top.path)
        BY DEF EndChange
      <4>2. \A k \in 1..Len(errs) : errs[k].path \in Path(Key)
        BY <4>1, ErrorPath
      <4>. QED
        BY <1>1, <2>2, <2>7, <3>1, <4>1, <4>2, WithinTrans
    <3>4. \A k \in 1..Len(errors) : errs[k] = errors[k]
      BY DEF EndChange
    <3>5. \A k \in (stack[i].count + 1)..Len(errs) :
            IsWithin(errs[k].path, stack[i].path)
      <4>. TAKE k \in (stack[i].count + 1)..Len(errs)
      <4>1. CASE k <= Len(errors)
        BY <1>1, <2>7, <3>2, <3>4, <4>1
      <4>2. CASE k > Len(errors)
        BY <1>1, <2>7, <3>3, <4>2
      <4>. QED
        BY <1>1, <2>7, <4>1, <4>2
    <3>6. stack[i].count <= Len(kept)
      BY <1>1, <2>2, <2>7, <3>1
    <3>7. \A k \in (stack[i].count + 1)..Len(kept) :
            IsWithin(kept[k].path, stack[i].path)
      <4>. TAKE k \in (stack[i].count + 1)..Len(kept)
      <4>1. k \in (stack[i].count + 1)..Len(errs) /\ k \in 1..Len(kept)
        BY <1>1, <2>7
      <4>. QED
        BY <1>1, <3>5, <4>1
    <3>. QED
      BY <3>6, <3>7
  <2>12. FailureExplained'
    <3>. SUFFICES ASSUME NEW i \in 1..m, Doomed(stack'[i])
                  PROVE  Len(kept) > stack[i].count
      BY <2>3, <2>6, <2>7 DEF FailureExplained, Doomed
    <3>1. CASE i = m
      BY <1>1, <2>2, <2>4, <2>5, <2>6, <2>7, <3>1
    <3>2. CASE i # m
      <4>1. Doomed(stack[i])
        BY <2>6, <3>2
      <4>2. stack[i].count < Top.count
        BY <2>1, <2>2, <4>1 DEF Inv, IndInv, CallsNest
      <4>. QED
        BY <1>1, <2>2, <2>7, <4>2
    <3>. QED
      BY <3>1, <3>2
  <2>. QED
    BY <2>8, <2>9, <2>10, <2>11, <2>12 DEF Inv, IndInv
<1>. QED
  BY <1>2, <1>3
-----------------------------------------------------------------------------
(* The steps *)

LEMMA TagFacts ==
  ASSUME Inv, stack # <<>>, Running("tag")
  PROVE  /\ Tag(Top) \in ParamsOf(Top.ty)
         /\ Tag(Top).index \in Nat /\ Tag(Top).name \in Path(Key)
         /\ ParamResult(Top, Tag(Top)).ok =>
              ParamResult(Top, Tag(Top)).value \in DOMAIN Code[Top.ty].arms
<1>1. /\ Top.ty \in Types /\ Tag(Top) # NoTagParam
  BY TopFacts DEF Inv, FrameOK, Running
<1>2. Tag(Top) \in ParamsOf(Top.ty)
  <2>1. Code[Top.ty].tag \in {Code[Top.ty].tag} \ {NoTagParam}
    BY <1>1 DEF Tag
  <2>2. Code[Top.ty].tag \in ParamsOf(Top.ty)
    BY <2>1 DEF ParamsOf
  <2>. QED
    BY <2>2 DEF Tag
<1>3. Tag(Top).index \in Nat /\ Tag(Top).name \in Path(Key)
  BY <1>1, CodeAssumption DEF Tag
<1>4. ParamResult(Top, Tag(Top)).ok =>
        ParamResult(Top, Tag(Top)).value \in DOMAIN Code[Top.ty].arms
  BY <1>1, ValueFound, DeParamAssumption DEF Inv, ParamResult, Tag
<1>. QED
  BY <1>2, <1>3, <1>4

LEMMA NextFieldFacts ==
  ASSUME Inv, stack # <<>>, Running("fields"), ~AllRead(Top)
  PROVE  /\ IsField(NextField(Top))
         /\ NextField(Top).kind = "param" =>
              NextField(Top) \in FieldParams(Top.ty)
<1>1. /\ FrameOK(Top) /\ Top.pc = "fields"
  BY TopFacts DEF Inv, Running
<1>2. /\ Top.ty \in Types /\ Top.arm \in DOMAIN Code[Top.ty].arms
      /\ IsSeq(Top.values) /\ Len(Top.values) <= Len(FieldsOf(Top))
  BY <1>1 DEF FrameOK
<1>3. Len(Top.values) \in Nat
  BY <1>2, SeqFacts
<1>4. Len(FieldsOf(Top)) \in Nat
  <2>1. IsSeq(FieldsOf(Top))
    BY <1>2, CodeAssumption DEF FieldsOf
  <2>. QED
    BY <2>1, SeqFacts
<1>5. Len(Top.values) + 1 \in 1..Len(FieldsOf(Top))
  BY <1>2, <1>3, <1>4 DEF AllRead
<1>. QED
  BY <1>2, <1>5, FieldType DEF NextField, FieldsOf

\* A call that just starts.
LEMMA FrameType ==
  ASSUME NEW ty \in Types, NEW path \in Path(Key), NEW opt \in BOOLEAN,
         Len(errors) \in Nat
  PROVE  /\ FrameOK(Frame(ty, path, opt))
         /\ FrameOK([Frame(ty, path, opt) EXCEPT !.count = 0])
<1>1. IsSeq(<<>>)
  BY DEF IsSeq
<1>. QED
  BY <1>1 DEF FrameOK, Frame

LEMMA RejectNonObjectEnds ==
  ASSUME Inv, RejectNonObject
  PROVE  stack # <<>> /\ EndChange(Failed, Append(errors, Error("generic", Top.path, Top.ty, 0)))
<1>. DEFINE error == Error("generic", Top.path, Top.ty, 0)
            errs  == Append(errors, error)
<1>1. stack # <<>> /\ Return(Failed, errs) /\ root' = root
  BY DEF RejectNonObject, Running
<1>2. error \in ParseError /\ error.path = Top.path /\ Top.path \in Path(Key)
  BY <1>1, TopFacts DEF Inv, Error, ParseError, ErrorCategory
<1>. HIDE DEF error
<1>3. /\ errs \in Seq(ParseError) /\ Len(errs) = Len(errors) + 1
      /\ \A k \in 1..Len(errors) : errs[k] = errors[k]
      /\ errs[Len(errors) + 1] = error
  BY <1>2 DEF Inv, IndInv, TypeOK
<1>4. /\ Len(errors) \in Nat /\ Top.count \in Nat /\ Top.count <= Len(errors)
  BY <1>1, TopFacts DEF Inv
<1>. HIDE DEF errs
<1>5. \A k \in (Len(errors) + 1)..Len(errs) : IsWithin(errs[k].path, Top.path)
  BY <1>2, <1>3, <1>4, WithinSelf
<1>6. EndChange(Failed, errs)
  BY <1>1, <1>3, <1>4, <1>5 DEF EndChange
<1>. QED
  BY <1>1, <1>6 DEF errs, error

LEMMA RejectTagEnds ==
  ASSUME Inv, RejectTag
  PROVE  stack # <<>> /\ EndChange(Failed, errors \o ErrorsOf(Top, Tag(Top)))
<1>. DEFINE found == ErrorsOf(Top, Tag(Top))
            errs  == errors \o found
<1>1. stack # <<>> /\ Return(Failed, errs) /\ root' = root
      /\ Running("tag") /\ ~ParamResult(Top, Tag(Top)).ok
  BY DEF RejectTag, Running
<1>2. /\ found \in Seq(ParseError) /\ Len(found) > 0
      /\ \A k \in 1..Len(found) : IsWithin(found[k].path, Top.path)
  BY <1>1, TagFacts, ParamFails
<1>. HIDE DEF found
<1>3. /\ Len(errors) \in Nat /\ Top.count \in Nat /\ Top.count <= Len(errors)
      /\ errors \in Seq(ParseError)
  BY <1>1, TopFacts DEF Inv, IndInv, TypeOK
<1>4. /\ errs \in Seq(ParseError) /\ Len(found) \in Nat
      /\ Len(errs) = Len(errors) + Len(found)
      /\ \A k \in 1..Len(errors) : errs[k] = errors[k]
      /\ \A k \in (Len(errors) + 1)..Len(errs) :
           errs[k] = found[k - Len(errors)] /\ k - Len(errors) \in 1..Len(found)
  BY <1>2, <1>3, ConcatFacts
<1>. HIDE DEF errs
<1>5. \A k \in (Len(errors) + 1)..Len(errs) : IsWithin(errs[k].path, Top.path)
  BY <1>2, <1>4
<1>6. EndChange(Failed, errs)
  BY <1>1, <1>2, <1>3, <1>4, <1>5 DEF EndChange
<1>. QED
  BY <1>1, <1>6 DEF errs, found

LEMMA FailFieldsEnds ==
  ASSUME Inv, FailFields
  PROVE  stack # <<>> /\ EndChange(Failed, errors)
<1>1. stack # <<>> /\ Return(Failed, errors) /\ root' = root /\ Doomed(Top)
  BY DEF FailFields, Running, Doomed
<1>2. /\ Len(errors) \in Nat /\ errors \in Seq(ParseError)
      /\ Len(errors) > Top.count
  BY <1>1, TopFacts DEF Inv, IndInv, TypeOK, FailureExplained
<1>3. EndChange(Failed, errors)
  BY <1>1, <1>2 DEF EndChange
<1>. QED
  BY <1>1, <1>3

LEMMA ReturnConfigEnds ==
  ASSUME Inv, ReturnConfig
  PROVE  stack # <<>> /\ EndChange(IF Top.has_errors THEN Failed ELSE Built(Top), errors)
<1>. DEFINE value == IF Top.has_errors THEN Failed ELSE Built(Top)
<1>1. stack # <<>> /\ Return(value, errors) /\ root' = root
  BY DEF ReturnConfig, Running
<1>2. value = Failed => Doomed(Top)
  BY DEF Built, ConfigOf, Failed, Doomed
<1>. HIDE DEF value
<1>3. /\ Len(errors) \in Nat /\ errors \in Seq(ParseError)
      /\ value = Failed => Len(errors) > Top.count
  BY <1>1, <1>2, TopFacts DEF Inv, IndInv, TypeOK, FailureExplained
<1>4. EndChange(value, errors)
  BY <1>1, <1>3 DEF EndChange
<1>. QED
  BY <1>1, <1>4 DEF value

\* A step that changes the frame only.
LEMMA FrameChange ==
  ASSUME Inv, stack # <<>>, NEW frame, FrameOK(frame),
         frame.path = Top.path, frame.count = Top.count,
         Doomed(frame) => Doomed(Top),
         stack' = [stack EXCEPT ![Len(stack)] = frame],
         errors' = errors, root' = root
  PROVE  TopChange(frame, <<>>)
<1>1. errors \in Seq(ParseError) /\ Len(errors) \in Nat
  BY TopFacts DEF Inv, IndInv, TypeOK
<1>2. Doomed(Top) => Len(errors) > Top.count
  BY TopFacts DEF Inv, IndInv, FailureExplained
<1>3. errors' = errors \o <<>> /\ <<>> \in Seq(ParseError) /\ Len(<<>>) = 0
  BY <1>1
<1>. QED
  BY <1>1, <1>2, <1>3 DEF TopChange

LEMMA EnterConfigChange ==
  ASSUME Inv, EnterConfig
  PROVE  /\ stack # <<>>
         /\ TopChange([Top EXCEPT !.pc = IF Tag(Top) = NoTagParam THEN "fields" ELSE "tag"],
                      <<>>)
<1>. DEFINE frame == [Top EXCEPT !.pc = IF Tag(Top) = NoTagParam THEN "fields" ELSE "tag"]
<1>1. stack # <<>> /\ Top.pc = "object" /\ FrameOK(Top)
  BY TopFacts DEF Inv, EnterConfig, Running
<1>2. /\ Top.values = <<>> /\ Top.arm = NoVariant /\ Top.ty \in Types
      /\ Len(Top.values) = 0
  BY <1>1 DEF FrameOK
<1>3. Tag(Top) = NoTagParam =>
        /\ NoVariant \in DOMAIN Code[Top.ty].arms
        /\ Len(Code[Top.ty].arms[NoVariant]) \in Nat
  BY <1>2, CodeAssumption, SeqFacts DEF Tag
<1>4. FrameOK(frame)
  BY <1>1, <1>2, <1>3 DEF FrameOK, Tag, FieldsOf
<1>5. /\ frame.path = Top.path /\ frame.count = Top.count
      /\ frame.values = Top.values /\ frame.has_errors = Top.has_errors
  BY <1>1 DEF FrameOK
<1>6. /\ stack' = [stack EXCEPT ![Len(stack)] = frame]
      /\ errors' = errors /\ root' = root
  BY DEF EnterConfig, Top
<1>. HIDE DEF frame
<1>7. Doomed(frame) => Doomed(Top)
  BY <1>5 DEF Doomed, AnyFailed
<1>8. TopChange(frame, <<>>)
  BY <1>1, <1>4, <1>5, <1>6, <1>7, FrameChange
<1>. QED
  BY <1>1, <1>8 DEF frame

LEMMA ReadTagChange ==
  ASSUME Inv, ReadTag
  PROVE  /\ stack # <<>>
         /\ TopChange([Top EXCEPT !.pc = "fields",
                                  !.arm = ParamResult(Top, Tag(Top)).value],
                      <<>>)
<1>. DEFINE arm   == ParamResult(Top, Tag(Top)).value
            frame == [Top EXCEPT !.pc = "fields", !.arm = arm]
<1>1. stack # <<>> /\ Top.pc = "tag" /\ FrameOK(Top) /\ Top.ty \in Types
  BY TopFacts DEF Inv, ReadTag, Running
<1>2. arm \in DOMAIN Code[Top.ty].arms
  BY <1>1, TagFacts DEF ReadTag
<1>3. Top.values = <<>> /\ Len(Top.values) = 0
  BY <1>1 DEF FrameOK
<1>4. Len(Code[Top.ty].arms[arm]) \in Nat
  BY <1>1, <1>2, CodeAssumption, SeqFacts
<1>5. /\ stack' = [stack EXCEPT ![Len(stack)] = frame]
      /\ errors' = errors /\ root' = root
  BY DEF ReadTag, Top
<1>. HIDE DEF arm
<1>6. FrameOK(frame)
  BY <1>1, <1>2, <1>3, <1>4 DEF FrameOK, Tag, FieldsOf
<1>7. /\ frame.path = Top.path /\ frame.count = Top.count
      /\ frame.values = Top.values /\ frame.has_errors = Top.has_errors
  BY <1>1 DEF FrameOK
<1>. HIDE DEF frame
<1>8. Doomed(frame) => Doomed(Top)
  BY <1>7 DEF Doomed, AnyFailed
<1>9. TopChange(frame, <<>>)
  BY <1>1, <1>5, <1>6, <1>7, <1>8, FrameChange
<1>. QED
  BY <1>1, <1>9 DEF frame, arm

LEMMA ReadParamChange ==
  ASSUME Inv, ReadParam
  PROVE  LET field == NextField(Top)
             param == ParamResult(Top, field)
         IN  /\ stack # <<>>
             /\ TopChange(WithValue(Top, IF param.ok THEN param.value ELSE Failed),
                          IF param.ok THEN <<>> ELSE ErrorsOf(Top, field))
<1>. DEFINE field == NextField(Top)
            param == ParamResult(Top, field)
            value == IF param.ok THEN param.value ELSE Failed
            frame == WithValue(Top, value)
            found == IF param.ok THEN <<>> ELSE ErrorsOf(Top, field)
<1>1. /\ stack # <<>> /\ FrameOK(Top) /\ Top.pc = "fields" /\ ~AllRead(Top)
      /\ Running("fields") /\ field.kind = "param"
  BY TopFacts DEF Inv, ReadParam, Running
<1>2. /\ field \in FieldParams(Top.ty) /\ field \in ParamsOf(Top.ty)
      /\ field.index \in Nat /\ field.name \in Path(Key)
  BY <1>1, NextFieldFacts DEF IsField, ParamsOf
<1>3. errors \in Seq(ParseError) /\ Len(errors) \in Nat
  BY <1>1, TopFacts DEF Inv, IndInv, TypeOK
<1>4. /\ stack' = [stack EXCEPT ![Len(stack)] = frame] /\ root' = root
      /\ errors' = IF param.ok THEN errors ELSE errors \o ErrorsOf(Top, field)
  BY DEF ReadParam
<1>5. /\ FrameOK(frame) /\ frame.path = Top.path /\ frame.count = Top.count
      /\ Doomed(frame) <=> Doomed(Top) \/ value = Failed
  BY <1>1, WithValueFacts
<1>. HIDE DEF frame
<1>6. ASSUME param.ok, value # Failed  PROVE TopChange(frame, found)
  BY <1>1, <1>4, <1>5, <1>6, FrameChange
<1>7. ASSUME ~param.ok  PROVE TopChange(frame, found)
  <2>1. /\ found \in Seq(ParseError) /\ Len(found) > 0
        /\ \A k \in 1..Len(found) : IsWithin(found[k].path, Top.path)
    BY <1>1, <1>2, <1>7, ParamFails
  <2>2. errors' = errors \o found
    BY <1>4, <1>7
  <2>. HIDE DEF found
  <2>3. Top.count \in Nat /\ Top.count <= Len(errors) /\ Len(found) \in Nat
    BY <1>1, <2>1, TopFacts DEF Inv
  <2>. QED
    BY <1>3, <1>4, <1>5, <2>1, <2>2, <2>3 DEF TopChange
<1>8. ASSUME param.ok, value = Failed  PROVE FALSE
  \* A value is none of the markers.
  <2>1. param.value # Failed
    BY <1>1, <1>2, <1>8, TopFacts, ValueFound, DeParamAssumption
       DEF Inv, ParamResult
  <2>. QED
    BY <1>8, <2>1
<1>9. TopChange(frame, found)
  BY <1>6, <1>7, <1>8
<1>. QED
  BY <1>1, <1>9 DEF frame

\* Fields that take a value without a call.
LEMMA ValueChange ==
  ASSUME Inv, stack # <<>>, Running("fields"), ~AllRead(Top),
         NEW value, value # Failed,
         stack' = [stack EXCEPT ![Len(stack)] = WithValue(Top, value)],
         errors' = errors, root' = root
  PROVE  TopChange(WithValue(Top, value), <<>>)
<1>1. FrameOK(Top) /\ Top.pc = "fields"
  BY TopFacts DEF Inv, Running
<1>2. /\ FrameOK(WithValue(Top, value))
      /\ WithValue(Top, value).path = Top.path
      /\ WithValue(Top, value).count = Top.count
      /\ Doomed(WithValue(Top, value)) <=> Doomed(Top) \/ value = Failed
  BY <1>1, WithValueFacts
<1>. QED
  BY <1>2, FrameChange

LEMMA UseDefaultChange ==
  ASSUME Inv, UseDefault
  PROVE  stack # <<>> /\ TopChange(WithValue(Top, NextField(Top).default), <<>>)
<1>. DEFINE value == NextField(Top).default
<1>1. /\ stack # <<>> /\ Running("fields") /\ ~AllRead(Top)
      /\ NextField(Top).kind = "nested" /\ value # NoDefault
      /\ stack' = [stack EXCEPT ![Len(stack)] = WithValue(Top, value)]
      /\ errors' = errors /\ root' = root
  BY DEF UseDefault, Running
<1>2. value # Failed
  BY <1>1, NextFieldFacts DEF IsField
<1>. QED
  BY <1>1, <1>2, ValueChange

LEMMA SkipNestedOptChange ==
  ASSUME Inv, SkipNestedOpt
  PROVE  stack # <<>> /\ TopChange(WithValue(Top, NoConfig), <<>>)
<1>1. /\ stack # <<>> /\ Running("fields") /\ ~AllRead(Top)
      /\ stack' = [stack EXCEPT ![Len(stack)] = WithValue(Top, NoConfig)]
      /\ errors' = errors /\ root' = root
  BY DEF SkipNestedOpt, Running
<1>2. NoConfig # Failed
  BY DEF NoConfig, Failed
<1>. QED
  BY <1>1, <1>2, ValueChange

LEMMA ConstructChange ==
  ASSUME Inv, Construct
  PROVE  stack # <<>> /\ TopChange([Top EXCEPT !.pc = "validate"], <<>>)
<1>. DEFINE frame == [Top EXCEPT !.pc = "validate"]
<1>1. stack # <<>> /\ Top.pc = "fields" /\ FrameOK(Top)
  BY TopFacts DEF Inv, Construct, Running
<1>2. FrameOK(frame)
  BY <1>1 DEF FrameOK, FieldsOf, Tag
<1>3. /\ frame.path = Top.path /\ frame.count = Top.count
      /\ frame.values = Top.values /\ frame.has_errors = Top.has_errors
  BY <1>1 DEF FrameOK
<1>4. /\ stack' = [stack EXCEPT ![Len(stack)] = frame]
      /\ errors' = errors /\ root' = root
  BY DEF Construct, Top
<1>. HIDE DEF frame
<1>5. Doomed(frame) => Doomed(Top)
  BY <1>3 DEF Doomed, AnyFailed
<1>6. TopChange(frame, <<>>)
  BY <1>1, <1>2, <1>3, <1>4, <1>5, FrameChange
<1>. QED
  BY <1>1, <1>6 DEF frame

LEMMA ValidateChange ==
  ASSUME Inv, Validate
  PROVE  LET holds == Holds(Top.ty, Top.checked + 1, Built(Top))
         IN  /\ stack # <<>>
             /\ TopChange([Top EXCEPT !.checked = @ + 1,
                                      !.has_errors = @ \/ ~holds],
                          IF holds THEN <<>>
                          ELSE <<Error("generic", Top.path, Top.ty, 0)>>)
<1>. DEFINE holds == Holds(Top.ty, Top.checked + 1, Built(Top))
            frame == [Top EXCEPT !.checked = @ + 1,
                                 !.has_errors = @ \/ ~holds]
            error == Error("generic", Top.path, Top.ty, 0)
<1>1. stack # <<>> /\ Top.pc = "validate" /\ FrameOK(Top)
  BY TopFacts DEF Inv, Validate, Running
<1>2. /\ stack' = [stack EXCEPT ![Len(stack)] = frame] /\ root' = root
      /\ errors' = IF holds THEN errors ELSE Append(errors, error)
  BY DEF Validate, Top
<1>3. error \in ParseError /\ error.path = Top.path /\ Top.path \in Path(Key)
  BY <1>1, TopFacts DEF Inv, Error, ParseError, ErrorCategory
<1>4. /\ Len(errors) \in Nat /\ errors \in Seq(ParseError)
      /\ Top.count \in Nat /\ Top.count <= Len(errors)
  BY <1>1, TopFacts DEF Inv, IndInv, TypeOK
<1>. HIDE DEF holds, error
<1>5. FrameOK(frame)
  BY <1>1 DEF FrameOK, FieldsOf, Tag
<1>6. /\ frame.path = Top.path /\ frame.count = Top.count
      /\ frame.values = Top.values
      /\ frame.has_errors <=> Top.has_errors \/ ~holds
  BY <1>1 DEF FrameOK
<1>. HIDE DEF frame
<1>7. ASSUME holds  PROVE TopChange(frame, <<>>)
  <2>1. Doomed(frame) => Doomed(Top)
    BY <1>6, <1>7 DEF Doomed, AnyFailed
  <2>. QED
    BY <1>1, <1>2, <1>5, <1>6, <1>7, <2>1, FrameChange
<1>8. ASSUME ~holds  PROVE TopChange(frame, <<error>>)
  <2>1. /\ <<error>> \in Seq(ParseError) /\ Len(<<error>>) = 1
        /\ \A k \in 1..Len(<<error>>) : <<error>>[k].path = Top.path
        /\ errors' = errors \o <<error>>
    BY <1>2, <1>3, <1>4, <1>8
  <2>. QED
    BY <1>2, <1>3, <1>4, <1>5, <1>6, <1>8, <2>1, WithinSelf DEF TopChange
<1>9. TopChange(frame, IF holds THEN <<>> ELSE <<error>>)
  BY <1>7, <1>8
<1>. QED
  BY <1>1, <1>9 DEF frame, holds, error

\* Calls for nested configs.
LEMMA NestChange ==
  ASSUME Inv, stack # <<>>, Running("fields"), ~AllRead(Top),
         NextField(Top).kind \in {"nested", "nested_opt"},
         NEW opt \in BOOLEAN,
         stack' = Append(stack, Frame(NextField(Top).meta, NestedPath, opt)),
         errors' = errors, root' = root
  PROVE  PushChange(Frame(NextField(Top).meta, NestedPath, opt))
<1>. DEFINE frame == Frame(NextField(Top).meta, NestedPath, opt)
<1>1. /\ Top.pc = "fields" /\ Top.path \in Path(Key) /\ Len(errors) \in Nat
  BY TopFacts DEF Inv, Running
<1>2. /\ NextField(Top).meta \in Types /\ NextField(Top).name \in Path(Key)
  BY NextFieldFacts DEF IsField
<1>3. NestedPath \in Path(Key) /\ IsWithin(NestedPath, Top.path)
  BY <1>1, <1>2, JoinType, JoinWithin DEF NestedPath
<1>4. FrameOK(frame)
  BY <1>1, <1>2, <1>3, FrameType
<1>5. /\ frame.path = NestedPath /\ frame.count = Len(errors)
      /\ ~Doomed(frame)
  BY DEF Frame, Doomed, AnyFailed
<1>. QED
  BY <1>1, <1>3, <1>4, <1>5 DEF PushChange

\* Calls of parse() and parse_opt().
LEMMA ParseFrame ==
  ASSUME Inv, NEW call \in Calls, NEW opt \in BOOLEAN
  PROVE  LET frame == [Frame(call[1], call[2], opt) EXCEPT !.count = 0]
         IN  FrameOK(frame) /\ frame.count = 0 /\ ~Doomed(frame)
<1>. DEFINE frame == [Frame(call[1], call[2], opt) EXCEPT !.count = 0]
<1>1. call[1] \in Types /\ call[2] \in Path(Key)
  BY ParserAssumption
<1>2. Len(errors) \in Nat
  BY DEF Inv, IndInv, TypeOK
<1>3. FrameOK(frame)
  BY <1>1, <1>2, FrameType
<1>4. frame.count = 0 /\ ~Doomed(frame)
  BY DEF Frame, Doomed, AnyFailed
<1>. QED
  BY <1>3, <1>4

LEMMA InitInv == Init => Inv
<1>. SUFFICES ASSUME Init PROVE Inv
  OBVIOUS
<1>1. /\ IsSeq(<<>>) /\ DOMAIN <<>> = {} /\ <<>> \in Seq(ParseError)
  BY DEF IsSeq
<1>2. IsTree(root)
  BY ParserAssumption DEF Init
<1>. QED
  BY <1>1, <1>2 DEF Init, Inv, IndInv, TypeOK, CallsNest, ErrorsWithin,
                    FailureExplained

LEMMA NextInv == Inv /\ [Next]_vars => Inv'
<1>. SUFFICES ASSUME Inv, [Next]_vars PROVE Inv'
  OBVIOUS
<1>1. CASE UNCHANGED vars
  BY <1>1 DEF vars, parser, Inv, IndInv, TypeOK, CallsNest, ErrorsWithin,
              FailureExplained
<1>2. ASSUME NEW call \in Calls, Parse(call[1], call[2])
      PROVE  Inv'
  BY <1>2, ParseFrame, StartStep DEF Parse
<1>3. ASSUME NEW call \in Calls, ParseOptAbsent(call[1], call[2])
      PROVE  Inv'
  <2>1. /\ stack = <<>> /\ stack' = <<>> /\ errors' = <<>> /\ root' = root
        /\ IsSeq(<<>>) /\ DOMAIN <<>> = {}
    BY <1>3 DEF ParseOptAbsent, IsSeq
  <2>. QED
    BY <2>1 DEF Inv, IndInv, TypeOK, CallsNest, ErrorsWithin, FailureExplained
<1>4. ASSUME NEW call \in Calls, ParseOpt(call[1], call[2])
      PROVE  Inv'
  BY <1>4, ParseFrame, StartStep DEF ParseOpt
<1>5. CASE RejectNonObject
  BY <1>5, RejectNonObjectEnds, EndStep
<1>6. CASE EnterConfig
  BY <1>6, EnterConfigChange, TopStep
<1>7. CASE ReadTag
  BY <1>7, ReadTagChange, TopStep
<1>8. CASE RejectTag
  BY <1>8, RejectTagEnds, EndStep
<1>9. CASE ReadParam
  BY <1>9, ReadParamChange, TopStep
<1>10. CASE UseDefault
  BY <1>10, UseDefaultChange, TopStep
<1>11. CASE ReadNested
  BY <1>11, NestChange, PushStep DEF ReadNested, Running
<1>12. CASE SkipNestedOpt
  BY <1>12, SkipNestedOptChange, TopStep
<1>13. CASE ReadNestedOpt
  BY <1>13, NestChange, PushStep DEF ReadNestedOpt, Running
<1>14. CASE FailFields
  BY <1>14, FailFieldsEnds, EndStep
<1>15. CASE Construct
  BY <1>15, ConstructChange, TopStep
<1>16. CASE Validate
  BY <1>16, ValidateChange, TopStep
<1>17. CASE ReturnConfig
  BY <1>17, ReturnConfigEnds, EndStep
<1>. QED
  BY <1>1, <1>2, <1>3, <1>4, <1>5, <1>6, <1>7, <1>8, <1>9, <1>10, <1>11,
     <1>12, <1>13, <1>14, <1>15, <1>16, <1>17 DEF Next, Step
-----------------------------------------------------------------------------
(* Theorems *)

LEMMA Invariance == Spec => []Inv
BY InitInv, NextInv, PTL DEF Spec

\* The calls of a running parse() are nested at nested paths, the errors since
\* a call began are at its path or below, and the marks at which the list of
\* errors may be cut never overtake one another.
THEOREM InductiveInvariant == Spec => []IndInv
<1>1. Inv => IndInv
  BY DEF Inv
<1>. QED
  BY <1>1, Invariance, PTL

\* Calls read the fields of the arm their tag has selected and no more of them,
\* and errors name a config and a path.
THEOREM TypeCorrect == Spec => []TypeOK
<1>1. Inv => TypeOK
  BY DEF Inv, IndInv
<1>. QED
  BY <1>1, Invariance, PTL

\* A call that will return a mere marker has an error of its own in the list,
\* whatever optional configs have become None since.
THEOREM FailuresExplained == Spec => []FailureExplained
<1>1. Inv => FailureExplained
  BY DEF Inv, IndInv
<1>. QED
  BY <1>1, Invariance, PTL

\* The end of a call drops errors of an optional config only.
LEMMA EndKeepsErrors ==
  ASSUME Inv, stack # <<>>, NEW value, NEW errs, EndChange(value, errs),
         NEW i \in DOMAIN errors
  PROVE  \/ i \in DOMAIN errors' /\ errors'[i] = errors[i]
         \/ /\ Top.opt /\ errors[i].category = "missing"
            /\ IsWithin(errors[i].path, Top.path)
<1>. DEFINE kept == Kept(value, errs)
<1>1. /\ errs \in Seq(ParseError) /\ errors \in Seq(ParseError)
      /\ Len(errors) <= Len(errs)
      /\ \A k \in 1..Len(errors) : errs[k] = errors[k]
  BY DEF EndChange, Inv, IndInv, TypeOK
<1>2. /\ Len(errs) \in Nat /\ Len(errors) \in Nat
      /\ i \in 1..Len(errors) /\ i \in 1..Len(errs)
  BY <1>1
<1>3. /\ kept \in Seq(ParseError) /\ Len(kept) \in Top.count..Len(errs)
      /\ \A k \in 1..Len(kept) : kept[k] = errs[k]
      /\ Top.count \in Nat
  BY KeptFacts, TopFacts DEF Inv
<1>4. errors' = kept \/ kept = <<>>
  BY ReturnCases
<1>5. CASE i <= Len(kept)
  <2>1. i \in DOMAIN kept /\ kept[i] = errors[i]
    BY <1>1, <1>2, <1>3, <1>5
  <2>2. errors' = kept
    BY <1>4, <2>1
  <2>. QED
    BY <2>1, <2>2
<1>6. CASE i > Len(kept)
  <2>1. IsAbsent(value, errs)
    BY <1>2, <1>6 DEF Kept
  <2>2. i \in (Top.count + 1)..Len(errs) /\ i \in (Top.count + 1)..Len(errors)
    BY <1>2, <1>3, <1>6
  <2>3. Top.opt /\ errs[i].category = "missing"
    BY <2>1, <2>2 DEF IsAbsent, OnlyMissingSince
  <2>4. IsWithin(errors[i].path, Top.path)
    BY <2>2, TopFacts DEF Inv, IndInv, ErrorsWithin
  <2>. QED
    BY <1>1, <1>2, <2>3, <2>4
<1>. QED
  BY <1>2, <1>3, <1>5, <1>6

LEMMA ErrorsKeptStep ==
  Inv /\ [Next]_vars =>
    [stack # <<>> =>
       \A i \in DOMAIN errors :
         \/ i \in DOMAIN errors' /\ errors'[i] = errors[i]
         \/ /\ Top.opt
            /\ errors[i].category = "missing"
            /\ IsWithin(errors[i].path, Top.path)]_vars
<1>. SUFFICES ASSUME Inv, Next, stack # <<>>, NEW i \in DOMAIN errors
              PROVE  \/ i \in DOMAIN errors' /\ errors'[i] = errors[i]
                     \/ /\ Top.opt
                        /\ errors[i].category = "missing"
                        /\ IsWithin(errors[i].path, Top.path)
  OBVIOUS
<1>1. errors \in Seq(ParseError) /\ Len(errors) \in Nat /\ i \in 1..Len(errors)
  BY DEF Inv, IndInv, TypeOK
<1>2. CASE errors' = errors
  BY <1>2
<1>3. CASE \E found \in Seq(ParseError) : errors' = errors \o found
  <2>. PICK found \in Seq(ParseError) : errors' = errors \o found
    BY <1>3
  <2>. QED
    BY <1>1, ConcatFacts
<1>4. CASE \E value, errs : EndChange(value, errs)
  BY <1>4, EndKeepsErrors
<1>5. CASE ReadParam
  <2>. DEFINE field == NextField(Top)
  <2>1. CASE ParamResult(Top, field).ok
    BY <1>2, <1>5, <2>1 DEF ReadParam
  <2>2. CASE ~ParamResult(Top, field).ok
    <3>1. /\ Running("fields") /\ ~AllRead(Top) /\ field.kind = "param"
          /\ errors' = errors \o ErrorsOf(Top, field)
      BY <1>5, <2>2 DEF ReadParam
    <3>2. /\ field \in ParamsOf(Top.ty)
          /\ field.index \in Nat /\ field.name \in Path(Key)
      BY <3>1, NextFieldFacts DEF IsField, ParamsOf
    <3>. QED
      BY <1>3, <2>2, <3>1, <3>2, ParamFails
  <2>. QED
    BY <2>1, <2>2
<1>6. CASE Validate
  <2>1. CASE errors' = errors
    BY <1>2, <2>1
  <2>2. CASE errors' # errors
    <3>1. /\ errors' = Append(errors, Error("generic", Top.path, Top.ty, 0))
          /\ Running("validate")
      BY <1>6, <2>2 DEF Validate
    <3>2. Error("generic", Top.path, Top.ty, 0) \in ParseError
      BY TopFacts DEF Inv, Error, ParseError, ErrorCategory
    <3>. QED
      BY <1>1, <3>1, <3>2
  <2>. QED
    BY <2>1, <2>2
<1>7. ~ \E call \in Calls : \/ Parse(call[1], call[2])
                            \/ ParseOptAbsent(call[1], call[2])
                            \/ ParseOpt(call[1], call[2])
  BY DEF Parse, ParseOptAbsent, ParseOpt
<1>8. CASE \/ EnterConfig \/ ReadTag \/ UseDefault \/ ReadNested
           \/ SkipNestedOpt \/ ReadNestedOpt \/ Construct
  BY <1>2, <1>8 DEF EnterConfig, ReadTag, UseDefault, ReadNested,
                    SkipNestedOpt, ReadNestedOpt, Construct
<1>9. CASE RejectNonObject \/ RejectTag \/ FailFields \/ ReturnConfig
  BY <1>4, <1>9, RejectNonObjectEnds, RejectTagEnds, FailFieldsEnds,
     ReturnConfigEnds
<1>. QED
  BY <1>5, <1>6, <1>7, <1>8, <1>9 DEF Next, Step

\* The list of errors is cut by an optional config that becomes None, which
\* only loses errors of its own about params that are missing.
THEOREM ErrorsKept == Spec => OuterErrorsKept
BY Invariance, ErrorsKeptStep, PTL DEF Spec, OuterErrorsKept
-----------------------------------------------------------------------------
(* The outcomes that are promised: they exist, and the tree determines them *)

\* The types that are nested in a type.
UsedBy(ty) ==
  {meta \in Types : \E arm \in DOMAIN Code[ty].arms :
     \E field \in FieldsIn(ty, arm) : field.kind # "param" /\ field.meta = meta}

\* A field that is a config is of a type nested in its own.
LEMMA UsedByField ==
  ASSUME NEW ty \in Types, NEW arm \in DOMAIN Code[ty].arms,
         NEW field \in FieldsIn(ty, arm), field.kind # "param"
  PROVE  /\ field.kind \in {"nested", "nested_opt"}
         /\ field.meta \in UsedBy(ty) /\ field.name \in Path(Key)
BY CodeAssumption DEF UsedBy, IsField

\* Of any types, there is one that has none of the others nested in it.
LEMMA LeastType ==
  ASSUME NEW tys \in SUBSET Types, tys # {}
  PROVE  \E ty \in tys : UsedBy(ty) \cap tys = {}
<1>1. PICK ty \in tys :
        \A arm \in DOMAIN Code[ty].arms :
          \A field \in FieldsIn(ty, arm) : field.kind # "param" => field.meta \notin tys
  BY NestingAssumption, Zenon
<1>2. \A meta \in UsedBy(ty) : meta \notin tys
  BY <1>1 DEF UsedBy
<1>. QED
  BY <1>2

LEMMA ValueAtType ==
  ASSUME NEW t \in Roots, NEW path
  PROVE  ValueAt(t, path) \in Values
BY DEF ValueAt, Values

\* The variant of a tag is one of the type.
LEMMA TagOutcome ==
  ASSUME NEW t \in Roots, NEW ty \in Types, NEW path, Code[ty].tag # NoTagParam,
         OfParam(t, ty, path, Code[ty].tag).errors = {}
  PROVE  OfParam(t, ty, path, Code[ty].tag).value \in DOMAIN Code[ty].arms
<1>. DEFINE at      == Join(path, Code[ty].tag.name)
            outcome == DeParam(ty, Code[ty].tag.index, ValueAt(t, at))
            index   == Code[ty].tag.index
<1>1. ValueAt(t, at) \in Values
  BY ValueAtType
<1>2. outcome.ok => outcome.value \in DOMAIN Code[ty].arms
  BY <1>1, DeParamAssumption
<1>3. Code[ty].tag \in ParamsOf(ty)
  BY DEF ParamsOf
<1>4. IsOutcome(outcome)
  BY <1>1, <1>3, DeParamAssumption
<1>5. OfParam(t, ty, path, Code[ty].tag) =
        IF outcome.ok THEN Gives(outcome.value)
        ELSE Fails(Range(Located(ty, index, at, outcome.errors)))
  BY DEF OfParam
<1>. HIDE DEF outcome, at, index
<1>6. ASSUME ~outcome.ok
      PROVE  Range(Located(ty, index, at, outcome.errors)) # {}
  <2>1. outcome.errors \in Seq(ParamError) /\ outcome.errors # <<>>
    BY <1>4, <1>6 DEF IsOutcome
  <2>2. 1 \in DOMAIN outcome.errors
    BY <2>1
  <2>3. 1 \in DOMAIN Located(ty, index, at, outcome.errors)
    BY <2>2 DEF Located
  <2>. QED
    BY <2>3 DEF Range
<1>. QED
  BY <1>2, <1>5, <1>6 DEF Gives, Fails

\* A config depends on those nested in it.
LEMMA SameNested ==
  ASSUME NEW t \in Roots, NEW f, NEW g, NEW ty \in Types, NEW path \in Path(Key),
         \A meta \in UsedBy(ty), p \in Path(Key) : f[<<meta, p>>] = g[<<meta, p>>]
  PROVE  OfObject(t, f, ty, path) = OfObject(t, g, ty, path)
<1>1. ASSUME NEW arm \in DOMAIN Code[ty].arms, NEW field \in FieldsIn(ty, arm)
      PROVE  OfField(t, f, ty, path, field) = OfField(t, g, ty, path, field)
  <2>1. CASE field.kind = "param"
    BY <2>1 DEF OfField
  <2>2. CASE field.kind # "param"
    <3>1. /\ field.kind \in {"nested", "nested_opt"}
          /\ field.meta \in UsedBy(ty) /\ field.name \in Path(Key)
      BY <1>1, <2>2, UsedByField
    <3>2. Join(path, field.name) \in Path(Key)
      BY <3>1, JoinType
    <3>3. f[<<field.meta, Join(path, field.name)>>]
            = g[<<field.meta, Join(path, field.name)>>]
      BY <3>1, <3>2
    <3>. QED
      BY <3>1, <3>3 DEF OfField
  <2>. QED
    BY <2>1, <2>2
<1>2. ASSUME NEW arm \in DOMAIN Code[ty].arms
      PROVE  OfArm(t, f, ty, path, arm) = OfArm(t, g, ty, path, arm)
  <2>. DEFINE fields == Code[ty].arms[arm]
              of(h)  == [i \in DOMAIN fields |-> OfField(t, h, ty, path, fields[i])]
  <2>1. \A i \in DOMAIN fields : fields[i] \in FieldsIn(ty, arm)
    BY DEF FieldsIn
  <2>2. of(f) = of(g)
    BY <1>1, <2>1
  <2>3. \A h : OfArm(t, h, ty, path, arm) =
                 LET outcomes == of(h)
                     config   == ConfigOf(ty, arm, [i \in DOMAIN fields |-> outcomes[i].value])
                 IN  IF \E i \in DOMAIN fields : outcomes[i].value = Failed
                     THEN Fails(UNION {outcomes[i].errors : i \in DOMAIN fields})
                     ELSE IF Violated(ty, config) # {}
                          THEN Fails({Error("generic", path, ty, 0)})
                          ELSE Gives(config)
    BY DEF OfArm
  <2>. HIDE DEF of
  <2>. QED
    BY <2>2, <2>3
<1>3. CASE IsLeafAt(t, path)
  BY <1>3 DEF OfObject
<1>4. CASE ~IsLeafAt(t, path) /\ Code[ty].tag = NoTagParam
  <2>1. NoVariant \in DOMAIN Code[ty].arms
    BY <1>4, CodeAssumption
  <2>2. OfArm(t, f, ty, path, NoVariant) = OfArm(t, g, ty, path, NoVariant)
    BY <1>2, <2>1
  <2>. QED
    BY <1>4, <2>2 DEF OfObject
<1>5. CASE ~IsLeafAt(t, path) /\ Code[ty].tag # NoTagParam
  <2>. DEFINE tag == OfParam(t, ty, path, Code[ty].tag)
  <2>1. tag.errors = {} => OfArm(t, f, ty, path, tag.value) = OfArm(t, g, ty, path, tag.value)
    BY <1>2, <1>5, TagOutcome
  <2>2. \A h : OfObject(t, h, ty, path) =
                 IF tag.errors = {} THEN OfArm(t, h, ty, path, tag.value) ELSE tag
    BY <1>5 DEF OfObject
  <2>. HIDE DEF tag
  <2>. QED
    BY <2>1, <2>2
<1>. QED
  BY <1>3, <1>4, <1>5

\* Outcomes for some types and all that are nested in them.
Solves(t, tys, f) ==
  /\ tys \subseteq Types
  /\ \A ty \in tys : UsedBy(ty) \subseteq tys
  /\ f = [c \in tys \X Path(Key) |-> f[c]]
  /\ \A ty \in tys, path \in Path(Key) :
       f[<<ty, path>>] = OfObject(t, f, ty, path)

\* They are determined by the tree.
LEMMA SolutionsAgree ==
  ASSUME NEW t \in Roots, NEW tys1, NEW f, Solves(t, tys1, f),
         NEW tys2, NEW g, Solves(t, tys2, g)
  PROVE  \A ty \in tys1 \cap tys2, path \in Path(Key) :
           f[<<ty, path>>] = g[<<ty, path>>]
<1>. DEFINE S == {ty \in tys1 \cap tys2 : \E path \in Path(Key) :
                    f[<<ty, path>>] # g[<<ty, path>>]}
<1>1. S \in SUBSET Types
  BY DEF Solves
<1>2. CASE S # {}
  <2>. HIDE DEF S
  <2>1. PICK ty \in S : UsedBy(ty) \cap S = {}
    BY <1>1, <1>2, LeastType
  <2>2. ty \in Types /\ ty \in tys1 /\ ty \in tys2
    BY <1>1, <2>1 DEF S
  <2>3. UsedBy(ty) \subseteq tys1 /\ UsedBy(ty) \subseteq tys2
    BY <2>2 DEF Solves
  <2>4. \A meta \in UsedBy(ty), p \in Path(Key) : f[<<meta, p>>] = g[<<meta, p>>]
    BY <2>1, <2>3 DEF S
  <2>5. \A p \in Path(Key) : f[<<ty, p>>] = g[<<ty, p>>]
    <3>. TAKE p \in Path(Key)
    <3>1. OfObject(t, f, ty, p) = OfObject(t, g, ty, p)
      BY <2>2, <2>4, SameNested
    <3>2. f[<<ty, p>>] = OfObject(t, f, ty, p)
      BY <2>2 DEF Solves
    <3>3. g[<<ty, p>>] = OfObject(t, g, ty, p)
      BY <2>2 DEF Solves
    <3>. QED
      BY <3>1, <3>2, <3>3
  <2>. QED
    BY <2>1, <2>5 DEF S
<1>3. CASE S = {}
  BY <1>3
<1>. QED
  BY <1>2, <1>3

\* There is one for all types.
LEMMA SolutionExists ==
  ASSUME NEW t \in Roots  PROVE \E f : Solves(t, Types, f)
<1>. DEFINE IsSolved(ty) == \E tys, f : ty \in tys /\ Solves(t, tys, f)
            U            == {ty \in Types : IsSolved(ty)}
            IsValue(c, v) == \E tys, f : c[1] \in tys /\ Solves(t, tys, f) /\ v = f[c]
            F            == [c \in U \X Path(Key) |-> CHOOSE v : IsValue(c, v)]
<1>1. ASSUME NEW tys, NEW f, Solves(t, tys, f), NEW ty \in tys, NEW path \in Path(Key)
      PROVE  ty \in U /\ F[<<ty, path>>] = f[<<ty, path>>]
  <2>. DEFINE c == <<ty, path>>
  <2>1. ty \in U
    BY <1>1 DEF Solves
  <2>2. c[1] = ty /\ c \in U \X Path(Key)
    BY <2>1
  <2>3. IsValue(c, f[c])
    BY <1>1, <2>2
  <2>4. IsValue(c, F[c])
    <3>1. F[c] = CHOOSE v : IsValue(c, v)
      BY <2>2
    <3>. HIDE DEF F, IsValue, c
    <3>. QED
      BY <2>3, <3>1
  <2>5. PICK tys2, g : c[1] \in tys2 /\ Solves(t, tys2, g) /\ F[c] = g[c]
    BY <2>4
  <2>. HIDE DEF F, U, IsValue
  <2>6. ty \in tys \cap tys2
    BY <2>2, <2>5
  <2>7. f[c] = g[c]
    BY <1>1, <2>5, <2>6, SolutionsAgree
  <2>. QED
    BY <2>1, <2>5, <2>7
<1>. HIDE DEF IsValue
<1>2. \A ty \in U : UsedBy(ty) \subseteq U
  <2>. TAKE ty \in U
  <2>1. PICK tys, f : ty \in tys /\ Solves(t, tys, f)
    OBVIOUS
  <2>2. UsedBy(ty) \subseteq tys /\ tys \subseteq Types
    BY <2>1 DEF Solves
  <2>. QED
    BY <2>1, <2>2
<1>3. Solves(t, U, F)
  <2>1. ASSUME NEW ty \in U, NEW path \in Path(Key)
        PROVE  F[<<ty, path>>] = OfObject(t, F, ty, path)
    <3>1. PICK tys, f : ty \in tys /\ Solves(t, tys, f)
      OBVIOUS
    <3>2. UsedBy(ty) \subseteq tys /\ ty \in Types
      BY <3>1 DEF Solves
    <3>. HIDE DEF F, U
    <3>3. ASSUME NEW meta \in UsedBy(ty), NEW p \in Path(Key)
          PROVE  F[<<meta, p>>] = f[<<meta, p>>]
      <4>1. meta \in tys
        BY <3>2
      <4>. QED
        BY <1>1, <3>1, <4>1
    <3>4. OfObject(t, F, ty, path) = OfObject(t, f, ty, path)
      BY <3>2, <3>3, SameNested
    <3>5. F[<<ty, path>>] = f[<<ty, path>>]
      BY <1>1, <3>1
    <3>6. f[<<ty, path>>] = OfObject(t, f, ty, path)
      BY <3>1 DEF Solves
    <3>. QED
      BY <3>4, <3>5, <3>6
  <2>2. F = [c \in U \X Path(Key) |-> F[c]] /\ U \subseteq Types
    OBVIOUS
  <2>. HIDE DEF F, U
  <2>. QED
    BY <1>2, <2>1, <2>2 DEF Solves
<1>. HIDE DEF F
<1>4. ASSUME Types \ U # {}  PROVE FALSE
  <2>1. PICK ty \in Types \ U : UsedBy(ty) \cap (Types \ U) = {}
    <3>1. Types \ U \in SUBSET Types
      OBVIOUS
    <3>. HIDE DEF U
    <3>. QED
      BY <1>4, <3>1, LeastType
  <2>2. UsedBy(ty) \subseteq U
    <3>1. UsedBy(ty) \subseteq Types
      BY DEF UsedBy
    <3>. HIDE DEF U
    <3>. QED
      BY <2>1, <3>1
  <2>. DEFINE V == U \cup {ty}
              G == [c \in V \X Path(Key) |->
                      IF c[1] \in U THEN F[c] ELSE OfObject(t, F, c[1], c[2])]
  <2>3. \A meta \in U, p \in Path(Key) : G[<<meta, p>>] = F[<<meta, p>>]
    <3>. HIDE DEF U
    <3>. QED
      OBVIOUS
  <2>4. \A p \in Path(Key) : G[<<ty, p>>] = OfObject(t, F, ty, p)
    <3>1. ty \notin U
      BY <2>1
    <3>. HIDE DEF U
    <3>. QED
      BY <3>1
  <2>5. G = [c \in V \X Path(Key) |-> G[c]]
    OBVIOUS
  <2>6. U \subseteq Types
    OBVIOUS
  <2>. HIDE DEF U, G
  <2>7. V \subseteq Types /\ \A u \in V : UsedBy(u) \subseteq V
    BY <1>2, <2>1, <2>2, <2>6
  <2>8. ASSUME NEW u \in V, NEW p \in Path(Key)
        PROVE  /\ OfObject(t, G, u, p) = OfObject(t, F, u, p)
               /\ G[<<u, p>>] = OfObject(t, F, u, p)
    <3>1. UsedBy(u) \subseteq U /\ u \in Types
      BY <1>2, <2>2, <2>7
    <3>2. \A meta \in UsedBy(u), q \in Path(Key) : G[<<meta, q>>] = F[<<meta, q>>]
      BY <2>3, <3>1
    <3>3. OfObject(t, G, u, p) = OfObject(t, F, u, p)
      BY <3>1, <3>2, SameNested
    <3>4. CASE u \in U
      BY <1>3, <2>3, <3>3, <3>4 DEF Solves
    <3>5. CASE u = ty
      BY <2>4, <3>3, <3>5
    <3>. QED
      BY <3>3, <3>4, <3>5
  <2>9. Solves(t, V, G)
    <3>. HIDE DEF V
    <3>. QED
      BY <2>5, <2>7, <2>8 DEF Solves
  <2>10. ty \in U
    <3>1. ty \in V
      OBVIOUS
    <3>. QED
      BY <2>1, <2>9, <3>1 DEF U
  <2>. QED
    BY <2>1, <2>10
<1>5. U = Types
  BY <1>4
<1>. QED
  BY <1>3, <1>5

\* What is promised is well-defined: the outcomes of types that nest in one
\* another, at infinitely many paths, have a solution, and the promise of a
\* config is what its fields and validations make of it.
THEOREM OutcomesDetermined ==
  ASSUME NEW t \in Roots, NEW ty \in Types, NEW path \in Path(Key)
  PROVE  OfConfig(t, ty, path) = OfObject(t, Outcomes(t), ty, path)
<1>. DEFINE Eq(f) == f = [c \in Types \X Path(Key) |-> OfObject(t, f, c[1], c[2])]
<1>1. PICK f : Solves(t, Types, f)
  BY SolutionExists
<1>2. Eq(f)
  <2>1. f = [c \in Types \X Path(Key) |-> f[c]]
    BY <1>1 DEF Solves
  <2>2. \A c \in Types \X Path(Key) : f[c] = OfObject(t, f, c[1], c[2])
    BY <1>1 DEF Solves
  <2>. QED
    BY <2>1, <2>2
<1>3. Outcomes(t) = CHOOSE g : Eq(g)
  BY DEF Outcomes
<1>4. Eq(Outcomes(t))
  <2>. HIDE DEF Eq
  <2>. QED
    BY <1>2, <1>3
<1>5. <<ty, path>> \in Types \X Path(Key)
  OBVIOUS
<1>. QED
  BY <1>4, <1>5 DEF OfConfig
-----------------------------------------------------------------------------
(* What has been read is what is promised *)

\* The inductive invariant, and that the tree is one of those given.
Keeping == PromiseInv /\ root \in Roots

LEMMA KeptInv == Keeping => Inv
BY DEF Keeping, PromiseInv, Inv

\* A call starts with at least as many errors as the calls that wait for it.
LEMMA CountsGrow ==
  ASSUME Inv, NEW i \in DOMAIN stack, NEW j \in DOMAIN stack, i < j
  PROVE  stack[i].count <= stack[j].count
BY DEF Inv, IndInv, CallsNest

\* What the parser reads is what the promise says.
LEMMA ParamIs ==
  ASSUME NEW frame, NEW param
  PROVE  OfParam(root, frame.ty, frame.path, param) =
           IF ParamResult(frame, param).ok THEN Gives(ParamResult(frame, param).value)
           ELSE Fails(Range(ErrorsOf(frame, param)))
BY DEF OfParam, ParamResult, ErrorsOf, ValueAt, CurrentValue

\* A call that reads fields reads those that the promise speaks of.
LEMMA ArmIs ==
  ASSUME root \in Roots, NEW frame, NEW own, KeepsPromise(root, frame, own),
         frame.ty \in Types, frame.path \in Path(Key),
         frame.pc \in {"fields", "validate"}
  PROVE  OfConfig(root, frame.ty, frame.path) =
           OfArm(root, Outcomes(root), frame.ty, frame.path, frame.arm)
<1>. DEFINE tag == OfParam(root, frame.ty, frame.path, Tag(frame))
<1>1. /\ ~IsLeafAt(root, frame.path)
      /\ IF Tag(frame) = NoTagParam THEN frame.arm = NoVariant
         ELSE tag.errors = {} /\ frame.arm = tag.value
  BY DEF KeepsPromise
<1>2. OfConfig(root, frame.ty, frame.path) =
        OfObject(root, Outcomes(root), frame.ty, frame.path)
  BY OutcomesDetermined
<1>. QED
  BY <1>1, <1>2 DEF OfObject, Tag

\* Once all fields are read, what is left is to look at them.
LEMMA AllReadIs ==
  ASSUME root \in Roots, NEW frame, FrameOK(frame), NEW own,
         KeepsPromise(root, frame, own),
         frame.pc \in {"fields", "validate"}, AllRead(frame)
  PROVE  OfConfig(root, frame.ty, frame.path) =
           IF AnyFailed(frame)
           THEN Fails(UNION {Promised(root, frame, n).errors : n \in DOMAIN frame.values})
           ELSE IF Violated(frame.ty, Built(frame)) # {}
                THEN Fails({Error("generic", frame.path, frame.ty, 0)})
                ELSE Gives(Built(frame))
<1>. DEFINE fields   == FieldsOf(frame)
            outcomes == [n \in DOMAIN fields |-> Promised(root, frame, n)]
            values   == [n \in DOMAIN fields |-> outcomes[n].value]
<1>1. /\ frame.ty \in Types /\ frame.path \in Path(Key) /\ IsSeq(frame.values)
      /\ frame.arm \in DOMAIN Code[frame.ty].arms
  BY DEF FrameOK
<1>2. IsSeq(fields)
  BY <1>1, CodeAssumption DEF FieldsOf
<1>3. DOMAIN fields = DOMAIN frame.values
  BY <1>1, <1>2, SeqFacts DEF AllRead
<1>4. \A n \in DOMAIN fields : frame.values[n] = outcomes[n].value
  BY <1>3 DEF KeepsPromise
<1>5. frame.values = values
  <2>1. frame.values = [n \in DOMAIN frame.values |-> frame.values[n]]
    BY <1>1 DEF IsSeq
  <2>. HIDE DEF fields, outcomes
  <2>. QED
    BY <1>3, <1>4, <2>1
<1>6. OfConfig(root, frame.ty, frame.path) =
        OfArm(root, Outcomes(root), frame.ty, frame.path, frame.arm)
  BY <1>1, ArmIs
<1>7. OfArm(root, Outcomes(root), frame.ty, frame.path, frame.arm) =
        IF \E n \in DOMAIN fields : outcomes[n].value = Failed
        THEN Fails(UNION {outcomes[n].errors : n \in DOMAIN fields})
        ELSE IF Violated(frame.ty, ConfigOf(frame.ty, frame.arm, values)) # {}
             THEN Fails({Error("generic", frame.path, frame.ty, 0)})
             ELSE Gives(ConfigOf(frame.ty, frame.arm, values))
  BY DEF OfArm, Promised, FieldsOf
<1>8. Built(frame) = ConfigOf(frame.ty, frame.arm, values)
  BY <1>5 DEF Built
<1>9. AnyFailed(frame) <=> \E n \in DOMAIN fields : outcomes[n].value = Failed
  BY <1>3, <1>4 DEF AnyFailed
<1>10. UNION {outcomes[n].errors : n \in DOMAIN fields}
         = UNION {Promised(root, frame, n).errors : n \in DOMAIN frame.values}
  BY <1>3
<1>. HIDE DEF fields, outcomes, values
<1>. QED
  BY <1>6, <1>7, <1>8, <1>9, <1>10

\* The errors of the innermost call.
LEMMA TopKeeps ==
  ASSUME Keeping, stack # <<>>
  PROVE  /\ KeepsPromise(root, Top, {errors[k] : k \in (Top.count + 1)..Len(errors)})
         /\ FrameOK(Top) /\ Top.ty \in Types /\ Top.path \in Path(Key)
         /\ root \in Roots
<1>1. Len(stack) \in DOMAIN stack /\ FrameOK(Top) /\ Top = stack[Len(stack)]
      /\ Top.ty \in Types /\ Top.path \in Path(Key)
  BY KeptInv, TopFacts DEF Inv
<1>2. KeepsPromise(root, stack[Len(stack)], OwnErrors(Len(stack)))
  BY <1>1 DEF Keeping, PromiseInv
<1>3. OwnErrors(Len(stack)) = {errors[k] : k \in (Top.count + 1)..Len(errors)}
  BY <1>1 DEF OwnErrors
<1>. QED
  BY <1>1, <1>2, <1>3 DEF Keeping

\* One more field is read.
LEMMA FieldRead ==
  ASSUME NEW t, NEW frame, FrameOK(frame), NEW own, KeepsPromise(t, frame, own),
         frame.pc = "fields", ~AllRead(frame),
         NEW field, field = OfField(t, Outcomes(t), frame.ty, frame.path, NextField(frame))
  PROVE  KeepsPromise(t, WithValue(frame, field.value), own \cup field.errors)
<1>. DEFINE new == WithValue(frame, field.value)
            n   == Len(frame.values)
<1>1. /\ new.ty = frame.ty /\ new.path = frame.path /\ new.opt = frame.opt
      /\ new.pc = frame.pc /\ new.arm = frame.arm
      /\ new.checked = frame.checked /\ new.has_errors = frame.has_errors
      /\ new.values = Append(frame.values, field.value)
  BY DEF WithValue, FrameOK
<1>2. /\ n \in Nat /\ DOMAIN frame.values = 1..n /\ DOMAIN new.values = 1..(n + 1)
      /\ \A i \in 1..n : new.values[i] = frame.values[i]
      /\ new.values[n + 1] = field.value
  BY <1>1, AppendIsSeq, SeqFacts DEF FrameOK
<1>. HIDE DEF new
<1>3. \A i : Promised(t, new, i) = Promised(t, frame, i)
  BY <1>1 DEF Promised, FieldsOf
<1>4. Promised(t, frame, n + 1) = field
  BY DEF Promised, NextField
<1>5. Tag(new) = Tag(frame) /\ NoTagParam = NoTagParam
  BY <1>1 DEF Tag
<1>6. /\ frame.opt => frame.path \in DOMAIN t
      /\ ~IsLeafAt(t, frame.path)
      /\ IF Tag(frame) = NoTagParam THEN frame.arm = NoVariant
         ELSE /\ OfParam(t, frame.ty, frame.path, Tag(frame)).errors = {}
              /\ frame.arm = OfParam(t, frame.ty, frame.path, Tag(frame)).value
      /\ \A i \in 1..n : frame.values[i] = Promised(t, frame, i).value
      /\ frame.checked = 0 /\ ~frame.has_errors
      /\ own = UNION {Promised(t, frame, i).errors : i \in 1..n}
  BY <1>2 DEF KeepsPromise
<1>. HIDE DEF n
<1>7. \A i \in 1..(n + 1) : new.values[i] = Promised(t, new, i).value
  BY <1>2, <1>3, <1>4, <1>6
<1>8. own \cup field.errors = UNION {Promised(t, new, i).errors : i \in 1..(n + 1)}
  <2>. DEFINE E(i) == Promised(t, new, i).errors
  <2>1. own = UNION {E(i) : i \in 1..n}
    BY <1>3, <1>6
  <2>2. E(n + 1) = field.errors
    BY <1>3, <1>4
  <2>3. \A i : i \in 1..(n + 1) <=> i \in 1..n \/ i = n + 1
    BY <1>2
  <2>. HIDE DEF E
  <2>4. \A e : e \in UNION {E(i) : i \in 1..(n + 1)}
                 <=> e \in UNION {E(i) : i \in 1..n} \/ e \in E(n + 1)
    BY <2>3
  <2>5. UNION {E(i) : i \in 1..(n + 1)} = own \cup field.errors
    BY <2>1, <2>2, <2>4
  <2>. QED
    BY <2>5 DEF E
<1>9. KeepsPromise(t, new, own \cup field.errors)
  BY <1>1, <1>2, <1>5, <1>6, <1>7, <1>8 DEF KeepsPromise
<1>. QED
  BY <1>9 DEF new

\* The request is still the same one.
SameRequest ==
  /\ stack # <<>> /\ stack' # <<>>
  /\ stack'[1].ty = stack[1].ty
  /\ stack'[1].path = stack[1].path
  /\ stack'[1].opt = stack[1].opt

\* Sizes and positions of the stack and the errors.
LEMMA StackFacts ==
  ASSUME Keeping, stack # <<>>
  PROVE  /\ Len(stack) \in Nat /\ Len(stack) > 0 /\ DOMAIN stack = 1..Len(stack)
         /\ IsSeq(stack)
         /\ stack[Len(stack)] = Top
         /\ Len(errors) \in Nat
         /\ errors \in Seq(ParseError)
         /\ \A i \in 1..Len(stack) :
              /\ FrameOK(stack[i]) /\ stack[i].count \in Nat
              /\ stack[i].count <= Len(errors)
              /\ KeepsPromise(root, stack[i], OwnErrors(i))
         /\ \A i \in 1..(Len(stack) - 1) :
              /\ stack[i].count <= stack[i + 1].count
              /\ stack[i].pc = "fields" /\ ~AllRead(stack[i])
              /\ Serves(root, stack[i + 1], stack[i])
              /\ OwnErrors(i) = {errors[k] : k \in (stack[i].count + 1)..stack[i + 1].count}
         /\ stack[1].count = 0
<1>1. Inv
  BY KeptInv
<1>2. /\ Len(stack) \in Nat /\ Len(stack) > 0 /\ DOMAIN stack = 1..Len(stack)
      /\ IsSeq(stack) /\ Len(errors) \in Nat /\ stack[Len(stack)] = Top
      /\ errors \in Seq(ParseError)
  BY <1>1, CallersFacts, SeqFacts, TopFacts DEF Inv, IndInv, TypeOK
<1>3. ASSUME NEW i \in 1..Len(stack)
      PROVE  /\ FrameOK(stack[i]) /\ stack[i].count \in Nat
             /\ stack[i].count <= Len(errors)
             /\ KeepsPromise(root, stack[i], OwnErrors(i))
  <2>1. FrameOK(stack[i]) /\ stack[i].count <= Len(errors)
    BY <1>1, <1>2 DEF Inv, IndInv, TypeOK, ErrorsWithin
  <2>. QED
    BY <1>2, <2>1 DEF Keeping, PromiseInv, FrameOK
<1>4. ASSUME NEW i \in 1..(Len(stack) - 1)
      PROVE  /\ stack[i].count <= stack[i + 1].count
             /\ stack[i].pc = "fields" /\ ~AllRead(stack[i])
             /\ Serves(root, stack[i + 1], stack[i])
             /\ OwnErrors(i) = {errors[k] : k \in (stack[i].count + 1)..stack[i + 1].count}
  <2>1. i \in DOMAIN stack /\ i + 1 \in DOMAIN stack /\ i < i + 1 /\ i < Len(stack)
    BY <1>2
  <2>2. /\ stack[i].count <= stack[i + 1].count
        /\ stack[i].pc = "fields" /\ ~AllRead(stack[i])
    BY <1>1, <2>1 DEF Inv, IndInv, CallsNest
  <2>3. Serves(root, stack[i + 1], stack[i])
    BY <2>1 DEF Keeping, PromiseInv
  <2>4. OwnErrors(i) = {errors[k] : k \in (stack[i].count + 1)..stack[i + 1].count}
    BY <1>2, <2>1 DEF OwnErrors
  <2>. QED
    BY <2>2, <2>3, <2>4
<1>5. stack[1].count = 0
  BY DEF Keeping, PromiseInv
<1>. QED
  BY <1>2, <1>3, <1>4, <1>5
-----------------------------------------------------------------------------
(* Steps of the innermost call, and calls that start *)

\* The errors since a mark.
Since(errs, count) == {errs[k] : k \in (count + 1)..Len(errs)}

\* Errors that are added count for all marks before them.
LEMMA SinceConcat ==
  ASSUME NEW s \in Seq(ParseError), NEW found \in Seq(ParseError),
         NEW count \in Nat, count <= Len(s)
  PROVE  Since(s \o found, count) = Since(s, count) \cup Range(found)
<1>1. /\ Len(s) \in Nat /\ Len(found) \in Nat /\ DOMAIN found = 1..Len(found)
      /\ Len(s \o found) = Len(s) + Len(found)
      /\ \A k \in 1..Len(s) : (s \o found)[k] = s[k]
      /\ \A k \in (Len(s) + 1)..(Len(s) + Len(found)) :
           (s \o found)[k] = found[k - Len(s)] /\ k - Len(s) \in 1..Len(found)
  BY ConcatFacts
<1>. DEFINE all == s \o found
<1>. HIDE DEF all
<1>2. /\ \A k \in 1..Len(s) : all[k] = s[k]
      /\ \A k \in (Len(s) + 1)..(Len(s) + Len(found)) :
           all[k] = found[k - Len(s)] /\ k - Len(s) \in 1..Len(found)
      /\ Len(all) = Len(s) + Len(found)
  BY <1>1 DEF all
<1>3. ASSUME NEW e \in Since(all, count)
      PROVE  e \in Since(s, count) \cup Range(found)
  <2>1. PICK k \in (count + 1)..Len(all) : e = all[k]
    BY DEF Since
  <2>2. CASE k <= Len(s)
    BY <1>1, <1>2, <2>1, <2>2 DEF Since
  <2>3. CASE k > Len(s)
    <3>1. e = found[k - Len(s)] /\ k - Len(s) \in DOMAIN found
      BY <1>1, <1>2, <2>1, <2>3
    <3>. QED
      BY <3>1 DEF Range
  <2>. QED
    BY <1>1, <2>1, <2>2, <2>3
<1>4. ASSUME NEW e \in Since(s, count)
      PROVE  e \in Since(all, count)
  BY <1>1, <1>2 DEF Since
<1>5. ASSUME NEW e \in Range(found)
      PROVE  e \in Since(all, count)
  <2>1. PICK i \in 1..Len(found) : e = found[i]
    BY <1>1 DEF Range
  <2>2. /\ i + Len(s) \in (Len(s) + 1)..(Len(s) + Len(found))
        /\ i + Len(s) \in (count + 1)..Len(all)
        /\ (i + Len(s)) - Len(s) = i
    BY <1>1, <1>2
  <2>3. e = all[i + Len(s)]
    BY <1>2, <2>1, <2>2
  <2>. QED
    BY <2>2, <2>3 DEF Since
<1>. QED
  BY <1>3, <1>4, <1>5 DEF all

\* The innermost call goes on.
LEMMA TopKept ==
  ASSUME Keeping, stack # <<>>, NEW frame, NEW found, TopChange(frame, found),
         frame.ty = Top.ty, frame.opt = Top.opt,
         KeepsPromise(root, frame, Since(errors, Top.count) \cup Range(found))
  PROVE  Keeping' /\ SameRequest
<1>. PICK n : n = Len(stack)
  OBVIOUS
<1>1. /\ n \in Nat /\ n > 0 /\ DOMAIN stack = 1..n /\ IsSeq(stack) /\ stack[n] = Top
      /\ Len(errors) \in Nat /\ errors \in Seq(ParseError)
      /\ stack[1].count = 0
  BY StackFacts
<1>2. \A i \in 1..n :
        /\ stack[i].count \in Nat /\ stack[i].count <= Len(errors)
        /\ KeepsPromise(root, stack[i], OwnErrors(i))
  BY StackFacts
<1>3. \A i \in 1..(n - 1) :
        /\ Serves(root, stack[i + 1], stack[i])
        /\ OwnErrors(i) = {errors[k] : k \in (stack[i].count + 1)..stack[i + 1].count}
  BY StackFacts
<1>4. Inv'
  BY KeptInv, TopStep
<1>5. /\ stack' = [stack EXCEPT ![Len(stack)] = frame] /\ errors' = errors \o found
      /\ root' = root /\ found \in Seq(ParseError)
      /\ frame.path = Top.path /\ frame.count = Top.count
  BY DEF TopChange
<1>6. /\ IsSeq(stack') /\ Len(stack') = n /\ DOMAIN stack' = 1..n
      /\ stack'[n] = frame
      /\ \A i \in 1..n : i # n => stack'[i] = stack[i]
  <2>1. n \in DOMAIN stack /\ stack' = [stack EXCEPT ![n] = frame]
    BY <1>1, <1>5
  <2>2. IsSeq(stack') /\ Len(stack') = Len(stack)
    BY <1>1, <2>1, ReplaceIsSeq
  <2>. QED
    BY <1>1, <2>1, <2>2
<1>7. \A i \in 1..n : /\ stack'[i].count = stack[i].count /\ stack'[i].ty = stack[i].ty
                      /\ stack'[i].path = stack[i].path /\ stack'[i].opt = stack[i].opt
  BY <1>1, <1>5, <1>6
<1>8. /\ \A k \in 1..Len(errors) : errors'[k] = errors[k]
      /\ Len(errors') >= Len(errors)
  BY <1>1, <1>5, ConcatFacts
<1>9. KeepsPromise(root, stack'[n], OwnErrors(n)')
  <2>1. OwnErrors(n)' = Since(errors', Top.count)
    BY <1>1, <1>5, <1>6 DEF OwnErrors, Since
  <2>2. Since(errors', Top.count) = Since(errors, Top.count) \cup Range(found)
    BY <1>1, <1>2, <1>5, SinceConcat
  <2>. QED
    BY <1>6, <2>1, <2>2
<1>10. ASSUME NEW i \in 1..n, i # n
       PROVE  /\ KeepsPromise(root, stack'[i], OwnErrors(i)')
              /\ Serves(root, stack'[i + 1], stack'[i])
  <2>1. i \in 1..(n - 1) /\ i + 1 \in 1..n /\ n = Len(stack')
    BY <1>1, <1>6, <1>10
  <2>2. OwnErrors(i)' = {errors'[k] : k \in (stack'[i].count + 1)..stack'[i + 1].count}
    BY <1>10, <2>1 DEF OwnErrors
  <2>3. OwnErrors(i) = {errors[k] : k \in (stack[i].count + 1)..stack[i + 1].count}
    BY <1>3, <2>1
  <2>4. stack'[i].count = stack[i].count /\ stack'[i + 1].count = stack[i + 1].count
    BY <1>7, <2>1
  <2>5. stack[i].count \in Nat /\ stack[i + 1].count <= Len(errors) /\ stack[i + 1].count \in Nat
    BY <1>2, <2>1
  <2>6. \A k \in (stack[i].count + 1)..stack[i + 1].count : errors'[k] = errors[k]
    BY <1>1, <1>8, <2>5
  <2>7. OwnErrors(i)' = OwnErrors(i)
    BY <2>2, <2>3, <2>4, <2>6
  <2>8. Serves(root, stack'[i + 1], stack[i])
    BY <1>3, <1>7, <2>1 DEF Serves
  <2>. QED
    BY <1>2, <1>6, <1>10, <2>7, <2>8
<1>11. PromiseInv'
  <2>1. \A i \in DOMAIN stack' : KeepsPromise(root', stack'[i], OwnErrors(i)')
    BY <1>5, <1>6, <1>9, <1>10
  <2>2. \A i \in DOMAIN stack' : i < Len(stack') => Serves(root', stack'[i + 1], stack'[i])
    BY <1>1, <1>5, <1>6, <1>10
  <2>3. stack'[1].count = 0
    BY <1>1, <1>7
  <2>. QED
    BY <1>4, <2>1, <2>2, <2>3 DEF PromiseInv, Inv
<1>12. SameRequest
  <2>1. stack' # <<>>
    BY <1>1, <1>6
  <2>. QED
    BY <1>1, <1>7, <2>1 DEF SameRequest
<1>. QED
  BY <1>5, <1>11, <1>12 DEF Keeping

\* A call for a nested config starts.
LEMMA PushKept ==
  ASSUME Keeping, stack # <<>>, NEW frame, PushChange(frame),
         KeepsPromise(root, frame, {}), Serves(root, frame, Top)
  PROVE  Keeping' /\ SameRequest
<1>. PICK n : n = Len(stack)
  OBVIOUS
<1>1. /\ n \in Nat /\ n > 0 /\ DOMAIN stack = 1..n /\ IsSeq(stack) /\ stack[n] = Top
      /\ Len(errors) \in Nat /\ errors \in Seq(ParseError)
      /\ stack[1].count = 0
  BY StackFacts
<1>2. \A i \in 1..n :
        /\ stack[i].count \in Nat /\ stack[i].count <= Len(errors)
        /\ KeepsPromise(root, stack[i], OwnErrors(i))
  BY StackFacts
<1>3. \A i \in 1..(n - 1) : Serves(root, stack[i + 1], stack[i])
  BY StackFacts
<1>4. Inv'
  BY KeptInv, PushStep
<1>5. /\ stack' = Append(stack, frame) /\ errors' = errors /\ root' = root
      /\ frame.count = Len(errors)
  BY DEF PushChange
<1>6. /\ Len(stack') = n + 1 /\ DOMAIN stack' = 1..(n + 1)
      /\ stack'[n + 1] = frame
      /\ \A i \in 1..n : stack'[i] = stack[i]
  BY <1>1, <1>5, AppendIsSeq, SeqFacts
<1>7. \A i \in 1..n : OwnErrors(i)' = OwnErrors(i)
  <2>. TAKE i \in 1..n
  <2>1. CASE i = n
    <3>1. OwnErrors(i)' = {errors[k] : k \in (stack[n].count + 1)..Len(errors)}
      BY <1>1, <1>5, <1>6, <2>1 DEF OwnErrors
    <3>. QED
      BY <2>1, <3>1 DEF OwnErrors
  <2>2. CASE i # n
    <3>1. i + 1 \in 1..n /\ i # n + 1
      BY <1>1, <2>2
    <3>2. stack'[i + 1] = stack[i + 1] /\ stack'[i] = stack[i]
      BY <1>6, <3>1
    <3>. QED
      BY <1>5, <1>6, <2>2, <3>1, <3>2 DEF OwnErrors
  <2>. QED
    BY <2>1, <2>2
<1>8. OwnErrors(n + 1)' = {}
  <2>1. OwnErrors(n + 1)' = {errors[k] : k \in (Len(errors) + 1)..Len(errors)}
    BY <1>5, <1>6 DEF OwnErrors
  <2>2. (Len(errors) + 1)..Len(errors) = {}
    BY <1>1
  <2>. QED
    BY <2>1, <2>2
<1>9. PromiseInv'
  <2>1. \A i \in DOMAIN stack' : KeepsPromise(root', stack'[i], OwnErrors(i)')
    <3>. TAKE i \in DOMAIN stack'
    <3>1. CASE i = n + 1
      BY <1>5, <1>6, <1>8, <3>1
    <3>2. CASE i # n + 1
      <4>1. i \in 1..n
        BY <1>1, <1>6, <3>2
      <4>. QED
        BY <1>2, <1>5, <1>6, <1>7, <4>1
    <3>. QED
      BY <3>1, <3>2
  <2>2. ASSUME NEW i \in DOMAIN stack', i < Len(stack')
        PROVE  Serves(root', stack'[i + 1], stack'[i])
    <3>1. CASE i = n
      BY <1>1, <1>5, <1>6, <3>1
    <3>2. CASE i # n
      <4>1. i \in 1..(n - 1) /\ i \in 1..n /\ i + 1 \in 1..n
        BY <1>1, <1>6, <2>2, <3>2
      <4>. QED
        BY <1>3, <1>5, <1>6, <4>1
    <3>. QED
      BY <3>1, <3>2
  <2>3. stack'[1].count = 0
    BY <1>1, <1>6
  <2>. QED
    BY <1>4, <2>1, <2>2, <2>3 DEF PromiseInv, Inv
<1>10. SameRequest
  BY <1>1, <1>6 DEF SameRequest
<1>. QED
  BY <1>5, <1>9, <1>10 DEF Keeping
-----------------------------------------------------------------------------
(* Calls that end *)

\* A call of parse() starts.
LEMMA StartKept ==
  ASSUME Keeping, NEW frame, FrameOK(frame), frame.count = 0, ~Doomed(frame),
         KeepsPromise(root, frame, {}),
         stack' = <<frame>>, errors' = <<>>, root' = root
  PROVE  Keeping'
<1>1. Inv'
  BY KeptInv, StartStep
<1>2. /\ Len(stack') = 1 /\ DOMAIN stack' = {1} /\ stack'[1] = frame
      /\ Len(errors') = 0
  OBVIOUS
<1>3. OwnErrors(1)' = {}
  BY <1>2 DEF OwnErrors
<1>4. \A i \in DOMAIN stack' : KeepsPromise(root', stack'[i], OwnErrors(i)')
  BY <1>2, <1>3
<1>5. \A i \in DOMAIN stack' : ~(i < Len(stack'))
  BY <1>2
<1>6. stack'[1].count = 0
  BY <1>2
<1>7. PromiseInv'
  BY <1>1, <1>4, <1>5, <1>6 DEF PromiseInv, Inv
<1>. QED
  BY <1>7 DEF Keeping

\* No call is running.
LEMMA IdleKept ==
  ASSUME Inv', root \in Roots, root' = root, stack' = <<>>
  PROVE  Keeping'
<1>1. DOMAIN stack' = {}
  OBVIOUS
<1>. QED
  BY <1>1 DEF Keeping, PromiseInv, Inv

\* The innermost call has the config that is promised, and its errors.
Answers(value, errs) ==
  LET config == OfConfig(root, Top.ty, Top.path)
  IN  value = config.value /\ Since(errs, Top.count) = config.errors

\* What a call returns, an optional config that is absent included.
LEMMA AnswerIs ==
  ASSUME Keeping, stack # <<>>, NEW value, NEW errs,
         EndChange(value, errs), Answers(value, errs)
  PROVE  /\ Returned(value, errs) = Outcome(root, Top.ty, Top.path, Top.opt).value
         /\ Since(Kept(value, errs), Top.count)
              = Outcome(root, Top.ty, Top.path, Top.opt).errors
<1>. DEFINE config == OfConfig(root, Top.ty, Top.path)
<1>1. /\ Top.opt => Top.path \in DOMAIN root
      /\ FrameOK(Top)
  BY TopKeeps DEF KeepsPromise
<1>2. value = config.value /\ Since(errs, Top.count) = config.errors
  BY DEF Answers
<1>3. /\ Top.count \in Nat /\ Top.count <= Len(errs) /\ Len(errs) \in Nat
      /\ errs \in Seq(ParseError)
  <2>1. errs \in Seq(ParseError) /\ Len(errors) <= Len(errs)
    BY DEF EndChange
  <2>2. Top.count \in Nat /\ Top.count <= Len(errors) /\ Len(errors) \in Nat
    BY KeptInv, TopFacts DEF Inv
  <2>3. Len(errs) \in Nat
    BY <2>1
  <2>. QED
    BY <2>1, <2>2, <2>3
<1>4. Outcome(root, Top.ty, Top.path, Top.opt) =
        IF Top.opt THEN OfOptional(root, Top.path, config) ELSE config
  BY DEF Outcome
<1>. HIDE DEF config
<1>5. OnlyMissingSince(errs, Top.count) <=> \A e \in config.errors : e.category = "missing"
  BY <1>2 DEF OnlyMissingSince, Since
<1>6. CASE IsAbsent(value, errs)
  <2>1. Outcome(root, Top.ty, Top.path, Top.opt) = Gives(NoConfig)
    BY <1>2, <1>4, <1>5, <1>6 DEF IsAbsent, OfOptional
  <2>2. Len(SubSeq(errs, 1, Top.count)) = Top.count
    BY <1>3, CutType
  <2>3. Since(SubSeq(errs, 1, Top.count), Top.count) = {}
    BY <1>3, <2>2 DEF Since
  <2>. QED
    BY <1>6, <2>1, <2>3 DEF Returned, Kept, Gives
<1>7. CASE ~IsAbsent(value, errs)
  <2>1. Outcome(root, Top.ty, Top.path, Top.opt) = config
    BY <1>1, <1>2, <1>4, <1>5, <1>7 DEF IsAbsent, OfOptional
  <2>. QED
    BY <1>2, <1>7, <2>1 DEF Returned, Kept
<1>. QED
  BY <1>6, <1>7

\* A field of the caller is a nested config.
LEMMA ServedIs ==
  ASSUME NEW t, NEW call, NEW caller, Serves(t, call, caller), call.opt \in BOOLEAN
  PROVE  OfField(t, Outcomes(t), caller.ty, caller.path, NextField(caller))
           = Outcome(t, call.ty, call.path, call.opt)
<1>. DEFINE field == NextField(caller)
<1>1. /\ field.kind \in {"nested", "nested_opt"}
      /\ call.ty = field.meta /\ call.path = Join(caller.path, field.name)
      /\ call.opt <=> field.kind = "nested_opt"
      /\ call.opt \/ call.path \in DOMAIN t \/ field.default = NoDefault
  BY DEF Serves
<1>. HIDE DEF field
<1>2. CASE field.kind = "nested_opt"
  <2>1. OfField(t, Outcomes(t), caller.ty, caller.path, field)
          = OfOptional(t, call.path, Outcomes(t)[<<call.ty, call.path>>])
    BY <1>1, <1>2 DEF OfField
  <2>. QED
    BY <1>1, <1>2, <2>1 DEF Outcome, OfConfig, field
<1>3. CASE field.kind = "nested"
  <2>1. OfField(t, Outcomes(t), caller.ty, caller.path, field)
          = Outcomes(t)[<<call.ty, call.path>>]
    BY <1>1, <1>3 DEF OfField
  <2>. QED
    BY <1>1, <1>3, <2>1 DEF Outcome, OfConfig, field
<1>. QED
  BY <1>1, <1>2, <1>3

\* A caller goes on with what is promised of the field it waited for.
LEMMA CallerKept ==
  ASSUME Keeping, stack # <<>>, NEW value, NEW errs, EndChange(value, errs),
         Answers(value, errs), Callers # <<>>
  PROVE  Keeping' /\ SameRequest
<1>. PICK n : n = Len(stack)
  OBVIOUS
<1>. PICK m : m = n - 1
  OBVIOUS
<1>. PICK kept : kept = Kept(value, errs)
  OBVIOUS
<1>. PICK mark : mark = Top.count
  OBVIOUS
<1>. DEFINE outcome == Outcome(root, Top.ty, Top.path, Top.opt)
            caller  == stack[m]
            new     == WithValue(caller, outcome.value)
<1>1. /\ n \in Nat /\ n > 0 /\ DOMAIN stack = 1..n /\ IsSeq(stack) /\ stack[n] = Top
      /\ Len(errors) \in Nat /\ errors \in Seq(ParseError)
      /\ stack[1].count = 0
  BY StackFacts
<1>2. /\ IsSeq(Callers) /\ Len(Callers) = m /\ DOMAIN Callers = 1..m
      /\ m \in Nat /\ m > 0 /\ n = m + 1
      /\ \A i \in 1..m : Callers[i] = stack[i]
  BY <1>1, CallersFacts
<1>3. \A i \in 1..n :
        /\ FrameOK(stack[i])
        /\ stack[i].count \in Nat /\ stack[i].count <= Len(errors)
        /\ KeepsPromise(root, stack[i], OwnErrors(i))
  BY StackFacts
<1>4. \A i \in 1..m :
        /\ stack[i].count <= stack[i + 1].count
        /\ stack[i].pc = "fields" /\ ~AllRead(stack[i])
        /\ Serves(root, stack[i + 1], stack[i])
        /\ OwnErrors(i) = {errors[k] : k \in (stack[i].count + 1)..stack[i + 1].count}
  BY <1>2, StackFacts
<1>5. Inv'
  BY KeptInv, EndStep
<1>6. /\ stack' = [Callers EXCEPT ![m] = new]
      /\ errors' = kept /\ root' = root
      /\ Since(kept, mark) = outcome.errors
  <2>1. /\ stack' = [Callers EXCEPT ![Len(Callers)] =
                       WithValue(Callers[Len(Callers)], Returned(value, errs))]
        /\ errors' = kept
    BY ReturnCases
  <2>2. Callers[Len(Callers)] = caller
    BY <1>2
  <2>3. Returned(value, errs) = outcome.value /\ Since(kept, mark) = outcome.errors
    BY AnswerIs
  <2>4. root' = root
    BY DEF EndChange
  <2>. HIDE DEF caller, outcome
  <2>. QED
    BY <1>2, <2>1, <2>2, <2>3, <2>4
<1>7. /\ Len(kept) \in Nat /\ mark <= Len(kept) /\ mark \in Nat /\ mark <= Len(errors)
      /\ \A k \in 1..mark : kept[k] = errors[k]
  <2>1. /\ Len(kept) \in mark..Len(errs)
        /\ \A k \in 1..Len(kept) : kept[k] = errs[k]
    BY KeptInv, KeptFacts
  <2>2. mark \in Nat /\ mark <= Len(errors)
    BY <1>1, <1>3
  <2>3. /\ \A k \in 1..Len(errors) : errs[k] = errors[k]
        /\ errs \in Seq(ParseError)
    BY DEF EndChange
  <2>4. Len(errs) \in Nat
    BY <2>3
  <2>. QED
    BY <1>1, <2>1, <2>2, <2>3, <2>4
<1>8. KeepsPromise(root, new, OwnErrors(m) \cup outcome.errors)
  <2>1. outcome = OfField(root, Outcomes(root), caller.ty, caller.path, NextField(caller))
    <3>1. Serves(root, Top, caller) /\ Top.opt \in BOOLEAN
      BY <1>1, <1>2, <1>3, <1>4 DEF FrameOK
    <3>. QED
      BY <3>1, ServedIs
  <2>2. /\ FrameOK(caller) /\ KeepsPromise(root, caller, OwnErrors(m))
        /\ caller.pc = "fields" /\ ~AllRead(caller)
    BY <1>2, <1>3, <1>4
  <2>. HIDE DEF outcome, caller
  <2>. QED
    BY <2>1, <2>2, FieldRead
<1>9. /\ new.ty = caller.ty /\ new.path = caller.path /\ new.opt = caller.opt
      /\ new.count = caller.count
  <2>1. FrameOK(caller)
    BY <1>2, <1>3
  <2>. QED
    BY <2>1 DEF WithValue, FrameOK
<1>. HIDE DEF new, outcome
<1>10. /\ IsSeq(stack') /\ Len(stack') = m /\ DOMAIN stack' = 1..m
       /\ stack'[m] = new
       /\ \A i \in 1..m : i # m => stack'[i] = stack[i]
  <2>1. m \in DOMAIN Callers
    BY <1>2
  <2>2. IsSeq(stack') /\ Len(stack') = Len(Callers)
    BY <1>2, <1>6, <2>1, ReplaceIsSeq
  <2>. QED
    BY <1>2, <1>6, <2>1, <2>2
<1>11. \A i \in 1..m :
         /\ stack'[i].count = stack[i].count /\ stack'[i].ty = stack[i].ty
         /\ stack'[i].path = stack[i].path /\ stack'[i].opt = stack[i].opt
  BY <1>9, <1>10
<1>12. KeepsPromise(root, stack'[m], OwnErrors(m)')
  <2>1. OwnErrors(m)' = Since(kept, caller.count)
    BY <1>2, <1>6, <1>10, <1>11 DEF OwnErrors, Since
  <2>2. OwnErrors(m) = {errors[k] : k \in (caller.count + 1)..mark}
        /\ caller.count \in Nat /\ caller.count <= mark
    BY <1>1, <1>2, <1>3, <1>4
  <2>. HIDE DEF caller
  <2>3. Since(kept, caller.count) = OwnErrors(m) \cup Since(kept, mark)
    <3>1. \A k \in (caller.count + 1)..Len(kept) :
            \/ k \in (caller.count + 1)..mark /\ kept[k] = errors[k]
            \/ k \in (mark + 1)..Len(kept)
      BY <1>7, <2>2
    <3>2. \A k \in (caller.count + 1)..mark :
            k \in (caller.count + 1)..Len(kept) /\ kept[k] = errors[k]
      BY <1>7, <2>2
    <3>3. \A k \in (mark + 1)..Len(kept) : k \in (caller.count + 1)..Len(kept)
      BY <1>7, <2>2
    <3>. QED
      BY <2>2, <3>1, <3>2, <3>3 DEF Since
  <2>. QED
    BY <1>6, <1>8, <1>10, <2>1, <2>3
<1>13. ASSUME NEW i \in 1..m, i # m
       PROVE  /\ KeepsPromise(root, stack'[i], OwnErrors(i)')
              /\ Serves(root, stack'[i + 1], stack'[i])
  <2>1. i \in 1..m /\ i + 1 \in 1..m /\ i \in 1..n /\ i + 1 \in 1..n
    BY <1>2, <1>13
  <2>2. OwnErrors(i)' = {kept[k] : k \in (stack'[i].count + 1)..stack'[i + 1].count}
    BY <1>6, <1>10, <1>13 DEF OwnErrors
  <2>3. OwnErrors(i) = {errors[k] : k \in (stack[i].count + 1)..stack[i + 1].count}
    BY <1>4
  <2>4. stack'[i].count = stack[i].count /\ stack'[i + 1].count = stack[i + 1].count
    BY <1>11, <2>1
  <2>5. /\ stack[i].count \in Nat /\ stack[i + 1].count \in Nat
        /\ stack[i + 1].count <= mark
    <3>1. i + 1 \in DOMAIN stack /\ n \in DOMAIN stack /\ i + 1 < n
      BY <1>2, <1>13, <2>1
    <3>2. stack[i + 1].count <= stack[n].count
      BY <3>1, KeptInv, CountsGrow
    <3>. QED
      BY <1>1, <1>3, <2>1, <3>2
  <2>6. \A k \in (stack[i].count + 1)..stack[i + 1].count : kept[k] = errors[k]
    BY <1>7, <2>5
  <2>7. OwnErrors(i)' = OwnErrors(i)
    BY <2>2, <2>3, <2>4, <2>6
  <2>8. Serves(root, stack'[i + 1], stack[i])
    BY <1>4, <1>11, <2>1 DEF Serves
  <2>. QED
    BY <1>3, <1>10, <1>13, <2>1, <2>7, <2>8
<1>14. PromiseInv'
  <2>1. \A i \in DOMAIN stack' : KeepsPromise(root', stack'[i], OwnErrors(i)')
    BY <1>6, <1>10, <1>12, <1>13
  <2>2. \A i \in DOMAIN stack' : i < Len(stack') => Serves(root', stack'[i + 1], stack'[i])
    BY <1>2, <1>6, <1>10, <1>13
  <2>3. stack'[1].count = 0
    BY <1>1, <1>2, <1>11
  <2>. QED
    BY <1>5, <2>1, <2>2, <2>3 DEF PromiseInv, Inv
<1>15. SameRequest
  <2>1. stack' # <<>> /\ 1 \in 1..m
    BY <1>2, <1>10
  <2>. QED
    BY <1>11, <2>1 DEF SameRequest
<1>. QED
  BY <1>6, <1>14, <1>15 DEF Keeping

\* parse() returns what is promised, without a generic error of its own.
LEMMA OutermostKept ==
  ASSUME Keeping, stack # <<>>, NEW value, NEW errs, EndChange(value, errs),
         Answers(value, errs), Callers = <<>>
  PROVE  /\ Keeping'
         /\ stack' = <<>> /\ root' = root
         /\ result' = Outcome(root, stack[1].ty, stack[1].path, stack[1].opt).value
         /\ Range(errors') = Outcome(root, stack[1].ty, stack[1].path, stack[1].opt).errors
<1>. DEFINE outcome == Outcome(root, Top.ty, Top.path, Top.opt)
            kept    == Kept(value, errs)
<1>1. Len(stack) = 1 /\ Top = stack[1] /\ stack[1].count = 0
  BY StackFacts, CallersFacts
<1>2. /\ Returned(value, errs) = outcome.value
      /\ Since(kept, 0) = outcome.errors
  BY <1>1, AnswerIs
<1>3. /\ Returned(value, errs) = Failed => Len(kept) > 0
      /\ kept \in Seq(ParseError)
  BY <1>1, KeptInv, KeptFacts
<1>4. /\ stack' = <<>>
      /\ errors' = IF Returned(value, errs) = Failed /\ kept = <<>>
                   THEN <<Error("generic", Top.path, Top.ty, 0)>>
                   ELSE kept
      /\ result' = Returned(value, errs)
  BY ReturnCases, Zenon
<1>. HIDE DEF kept
<1>5. errors' = kept
  BY <1>3, <1>4
<1>6. Range(kept) = Since(kept, 0)
  BY <1>3 DEF Range, Since
<1>7. root' = root
  BY DEF EndChange
<1>8. Keeping'
  BY KeptInv, EndStep, <1>4, <1>7, IdleKept DEF Keeping
<1>. QED
  BY <1>1, <1>2, <1>4, <1>5, <1>6, <1>7, <1>8

\* A call that has not read anything has no errors of its own.
LEMMA NothingRead ==
  ASSUME Keeping, stack # <<>>, Top.pc \in {"object", "tag"}
  PROVE  /\ Since(errors, Top.count) = {}
         /\ Top.values = <<>> /\ Top.arm = NoVariant
         /\ Top.checked = 0 /\ ~Top.has_errors
<1>1. FrameOK(Top) /\ KeepsPromise(root, Top, Since(errors, Top.count))
  BY TopKeeps DEF Since
<1>2. Top.values = <<>> /\ Top.arm = NoVariant /\ DOMAIN <<>> = {}
  BY <1>1 DEF FrameOK
<1>3. Since(errors, Top.count) = UNION {Promised(root, Top, n).errors : n \in {}}
  BY <1>1, <1>2 DEF KeepsPromise
<1>. QED
  BY <1>1, <1>2, <1>3 DEF KeepsPromise

LEMMA NoneAdded == Range(<<>>) = {}
BY DEF Range

\* One error is added.
LEMMA SinceAppend ==
  ASSUME Keeping, stack # <<>>
  PROVE  LET error == Error("generic", Top.path, Top.ty, 0)
         IN  Since(Append(errors, error), Top.count) = Since(errors, Top.count) \cup {error}
<1>. DEFINE error == Error("generic", Top.path, Top.ty, 0)
<1>1. /\ errors \in Seq(ParseError) /\ Top.count \in Nat /\ Top.count <= Len(errors)
      /\ error \in ParseError
  BY KeptInv, TopFacts DEF Inv, IndInv, TypeOK, Error, ParseError, ErrorCategory
<1>. HIDE DEF error
<1>2. Append(errors, error) = errors \o <<error>> /\ <<error>> \in Seq(ParseError)
  BY <1>1
<1>3. Range(<<error>>) = {error}
  BY DEF Range
<1>4. Since(errors \o <<error>>, Top.count) = Since(errors, Top.count) \cup Range(<<error>>)
  BY <1>1, <1>2, SinceConcat
<1>. QED
  BY <1>2, <1>3, <1>4 DEF error

\* Calls that end have what is promised of their config.
LEMMA RejectNonObjectAnswers ==
  ASSUME Keeping, RejectNonObject
  PROVE  Answers(Failed, Append(errors, Error("generic", Top.path, Top.ty, 0)))
<1>1. stack # <<>> /\ Top.pc = "object" /\ IsLeafAt(root, Top.path)
  BY DEF RejectNonObject, Running
<1>2. Since(Append(errors, Error("generic", Top.path, Top.ty, 0)), Top.count)
        = {Error("generic", Top.path, Top.ty, 0)}
  BY <1>1, NothingRead, SinceAppend
<1>3. OfConfig(root, Top.ty, Top.path) = OfObject(root, Outcomes(root), Top.ty, Top.path)
  BY <1>1, TopKeeps, OutcomesDetermined
<1>4. OfConfig(root, Top.ty, Top.path) = Fails({Error("generic", Top.path, Top.ty, 0)})
  BY <1>1, <1>3 DEF OfObject
<1>. QED
  BY <1>2, <1>4 DEF Answers, Fails

LEMMA RejectTagAnswers ==
  ASSUME Keeping, RejectTag
  PROVE  Answers(Failed, errors \o ErrorsOf(Top, Tag(Top)))
<1>. DEFINE found == ErrorsOf(Top, Tag(Top))
<1>1. /\ stack # <<>> /\ Top.pc = "tag" /\ Running("tag")
      /\ ~ParamResult(Top, Tag(Top)).ok
  BY DEF RejectTag, Running
<1>2. /\ found \in Seq(ParseError) /\ Len(found) > 0
  BY <1>1, KeptInv, TagFacts, ParamFails
<1>3. /\ errors \in Seq(ParseError) /\ Top.count \in Nat /\ Top.count <= Len(errors)
  BY <1>1, KeptInv, TopFacts DEF Inv, IndInv, TypeOK
<1>4. Since(errors \o found, Top.count) = Range(found)
  <2>1. Since(errors, Top.count) = {}
    BY <1>1, NothingRead
  <2>. HIDE DEF found
  <2>2. Since(errors \o found, Top.count) = Since(errors, Top.count) \cup Range(found)
    BY <1>2, <1>3, SinceConcat
  <2>. QED
    BY <2>1, <2>2
<1>5. OfParam(root, Top.ty, Top.path, Tag(Top)) = Fails(Range(found))
  BY <1>1, ParamIs
<1>6. Range(found) # {}
  <2>. HIDE DEF found
  <2>1. 1 \in DOMAIN found
    BY <1>2
  <2>. QED
    BY <2>1 DEF Range
<1>7. /\ Tag(Top) # NoTagParam /\ ~IsLeafAt(root, Top.path)
      /\ Top.ty \in Types /\ Top.path \in Path(Key) /\ root \in Roots
  BY <1>1, TopKeeps DEF FrameOK, KeepsPromise
<1>8. OfConfig(root, Top.ty, Top.path) = OfObject(root, Outcomes(root), Top.ty, Top.path)
  BY <1>7, OutcomesDetermined
<1>. HIDE DEF found
<1>9. OfConfig(root, Top.ty, Top.path) = Fails(Range(found))
  BY <1>5, <1>6, <1>7, <1>8 DEF OfObject, Tag, Fails
<1>. QED
  BY <1>4, <1>9 DEF Answers, Fails, found

LEMMA FailFieldsAnswers ==
  ASSUME Keeping, FailFields
  PROVE  Answers(Failed, errors)
<1>1. stack # <<>> /\ Top.pc = "fields" /\ AllRead(Top) /\ AnyFailed(Top)
  BY DEF FailFields, Running
<1>2. /\ KeepsPromise(root, Top, Since(errors, Top.count))
      /\ FrameOK(Top) /\ root \in Roots
  BY <1>1, TopKeeps DEF Since
<1>3. OfConfig(root, Top.ty, Top.path) =
        Fails(UNION {Promised(root, Top, n).errors : n \in DOMAIN Top.values})
  BY <1>1, <1>2, AllReadIs
<1>4. Since(errors, Top.count) = UNION {Promised(root, Top, n).errors : n \in DOMAIN Top.values}
  BY <1>1, <1>2 DEF KeepsPromise
<1>. QED
  BY <1>3, <1>4 DEF Answers, Fails

LEMMA ReturnConfigAnswers ==
  ASSUME Keeping, ReturnConfig
  PROVE  Answers(IF Top.has_errors THEN Failed ELSE Built(Top), errors)
<1>. DEFINE failed == Violated(Top.ty, Built(Top))
            error  == Error("generic", Top.path, Top.ty, 0)
<1>1. stack # <<>> /\ Top.pc = "validate" /\ Top.checked = Code[Top.ty].validations
  BY DEF ReturnConfig, Running
<1>2. /\ KeepsPromise(root, Top, Since(errors, Top.count))
      /\ FrameOK(Top) /\ root \in Roots
  BY <1>1, TopKeeps DEF Since
<1>3. /\ AllRead(Top) /\ ~AnyFailed(Top)
      /\ Top.has_errors <=> failed # {}
      /\ Since(errors, Top.count) = {error : n \in failed}
  BY <1>1, <1>2 DEF KeepsPromise, Violated
<1>. HIDE DEF failed
<1>4. OfConfig(root, Top.ty, Top.path) =
        IF failed # {} THEN Fails({error}) ELSE Gives(Built(Top))
  BY <1>1, <1>2, <1>3, AllReadIs DEF failed
<1>. HIDE DEF error
<1>5. CASE failed # {}
  <2>1. {error : n \in failed} = {error}
    BY <1>5
  <2>. QED
    BY <1>3, <1>4, <1>5, <2>1 DEF Answers, Fails
<1>6. CASE failed = {}
  <2>1. {error : n \in failed} = {}
    BY <1>6
  <2>. QED
    BY <1>3, <1>4, <1>6, <2>1 DEF Answers, Gives
<1>. QED
  BY <1>5, <1>6
-----------------------------------------------------------------------------
(* Steps that keep the promise *)

\* A step of the innermost call that adds no errors.
LEMMA QuietKept ==
  ASSUME Keeping, stack # <<>>, NEW frame, TopChange(frame, <<>>),
         frame.ty = Top.ty, frame.opt = Top.opt,
         KeepsPromise(root, frame, Since(errors, Top.count))
  PROVE  Keeping' /\ SameRequest
<1>1. Since(errors, Top.count) \cup Range(<<>>) = Since(errors, Top.count)
  BY NoneAdded
<1>. QED
  BY <1>1, TopKept

LEMMA EnterConfigKept ==
  ASSUME Keeping, EnterConfig
  PROVE  Keeping' /\ SameRequest
<1>. DEFINE frame == [Top EXCEPT !.pc = IF Tag(Top) = NoTagParam THEN "fields" ELSE "tag"]
            own   == Since(errors, Top.count)
<1>1. stack # <<>> /\ Top.pc = "object" /\ ~IsLeafAt(root, Top.path)
  BY DEF EnterConfig, Running
<1>2. TopChange(frame, <<>>)
  BY KeptInv, EnterConfigChange
<1>3. FrameOK(Top) /\ KeepsPromise(root, Top, own)
  BY <1>1, TopKeeps DEF Since
<1>4. /\ own = {} /\ Top.values = <<>> /\ Top.arm = NoVariant
      /\ Top.checked = 0 /\ ~Top.has_errors
  BY <1>1, NothingRead
<1>5. /\ frame.ty = Top.ty /\ frame.path = Top.path /\ frame.opt = Top.opt
      /\ frame.arm = Top.arm /\ frame.values = Top.values
      /\ frame.checked = Top.checked /\ frame.has_errors = Top.has_errors
      /\ frame.pc = IF Tag(Top) = NoTagParam THEN "fields" ELSE "tag"
  BY <1>3 DEF FrameOK
<1>. HIDE DEF frame, own
<1>6. Tag(frame) = Tag(Top) /\ DOMAIN frame.values = {}
  BY <1>4, <1>5 DEF Tag
<1>7. own = UNION {Promised(root, frame, n).errors : n \in DOMAIN frame.values}
  BY <1>4, <1>6
<1>8. Top.opt => Top.path \in DOMAIN root
  BY <1>3 DEF KeepsPromise
<1>9. KeepsPromise(root, frame, own)
  BY <1>1, <1>4, <1>5, <1>6, <1>7, <1>8 DEF KeepsPromise
<1>. QED
  BY <1>1, <1>2, <1>5, <1>9, QuietKept DEF own

LEMMA ReadTagKept ==
  ASSUME Keeping, ReadTag
  PROVE  Keeping' /\ SameRequest
<1>. DEFINE arm   == ParamResult(Top, Tag(Top)).value
            frame == [Top EXCEPT !.pc = "fields", !.arm = arm]
            own   == Since(errors, Top.count)
<1>1. stack # <<>> /\ Top.pc = "tag" /\ ParamResult(Top, Tag(Top)).ok
  BY DEF ReadTag, Running
<1>2. TopChange(frame, <<>>)
  BY KeptInv, ReadTagChange
<1>3. FrameOK(Top) /\ KeepsPromise(root, Top, own)
  BY <1>1, TopKeeps DEF Since
<1>4. own = {} /\ Top.values = <<>> /\ Top.checked = 0 /\ ~Top.has_errors
  BY <1>1, NothingRead
<1>5. OfParam(root, Top.ty, Top.path, Tag(Top)) = Gives(arm)
  BY <1>1, ParamIs
<1>. HIDE DEF arm
<1>6. /\ frame.ty = Top.ty /\ frame.path = Top.path /\ frame.opt = Top.opt
      /\ frame.arm = arm /\ frame.values = Top.values
      /\ frame.checked = Top.checked /\ frame.has_errors = Top.has_errors
      /\ frame.pc = "fields"
  BY <1>3 DEF FrameOK
<1>. HIDE DEF frame, own
<1>7. Tag(frame) = Tag(Top) /\ DOMAIN frame.values = {}
  BY <1>4, <1>6 DEF Tag
<1>8. own = UNION {Promised(root, frame, n).errors : n \in DOMAIN frame.values}
  BY <1>4, <1>7
<1>9. /\ Top.opt => Top.path \in DOMAIN root
      /\ ~IsLeafAt(root, Top.path)
      /\ Tag(Top) # NoTagParam
  BY <1>1, <1>3 DEF KeepsPromise, FrameOK
<1>10. /\ OfParam(root, frame.ty, frame.path, Tag(frame)).errors = {}
       /\ OfParam(root, frame.ty, frame.path, Tag(frame)).value = frame.arm
  BY <1>5, <1>6, <1>7 DEF Gives
<1>11. KeepsPromise(root, frame, own)
  BY <1>4, <1>6, <1>7, <1>8, <1>9, <1>10 DEF KeepsPromise
<1>. QED
  BY <1>1, <1>2, <1>6, <1>11, QuietKept DEF own, frame, arm

\* A field takes what is promised of it.
LEMMA FieldKept ==
  ASSUME Keeping, stack # <<>>, Top.pc = "fields", ~AllRead(Top),
         NEW field,
         field = OfField(root, Outcomes(root), Top.ty, Top.path, NextField(Top)),
         NEW found, field.errors = Range(found),
         TopChange(WithValue(Top, field.value), found)
  PROVE  Keeping' /\ SameRequest
<1>. DEFINE frame == WithValue(Top, field.value)
<1>1. FrameOK(Top) /\ KeepsPromise(root, Top, Since(errors, Top.count))
  BY TopKeeps DEF Since
<1>2. KeepsPromise(root, frame, Since(errors, Top.count) \cup Range(found))
  BY <1>1, FieldRead
<1>3. frame.ty = Top.ty /\ frame.opt = Top.opt
  BY <1>1 DEF WithValue, FrameOK
<1>. HIDE DEF frame
<1>4. TopChange(frame, found)
  BY DEF frame
<1>. QED
  BY <1>2, <1>3, <1>4, TopKept

LEMMA ReadParamKept ==
  ASSUME Keeping, ReadParam
  PROVE  Keeping' /\ SameRequest
<1>. DEFINE param == ParamResult(Top, NextField(Top))
            value == IF param.ok THEN param.value ELSE Failed
            found == IF param.ok THEN <<>> ELSE ErrorsOf(Top, NextField(Top))
            field == OfField(root, Outcomes(root), Top.ty, Top.path, NextField(Top))
<1>1. stack # <<>> /\ Top.pc = "fields" /\ ~AllRead(Top) /\ NextField(Top).kind = "param"
  BY DEF ReadParam, Running
<1>2. TopChange(WithValue(Top, value), found)
  BY KeptInv, ReadParamChange
<1>3. field = OfParam(root, Top.ty, Top.path, NextField(Top))
  BY <1>1 DEF OfField
<1>4. OfParam(root, Top.ty, Top.path, NextField(Top)) =
        IF param.ok THEN Gives(param.value)
        ELSE Fails(Range(ErrorsOf(Top, NextField(Top))))
  BY ParamIs
<1>. HIDE DEF field, param
<1>5. field.value = value /\ field.errors = Range(found)
  <2>1. CASE param.ok
    BY <1>3, <1>4, <2>1, NoneAdded DEF Gives
  <2>2. CASE ~param.ok
    BY <1>3, <1>4, <2>2 DEF Fails
  <2>. QED
    BY <2>1, <2>2
<1>. HIDE DEF value, found
<1>6. TopChange(WithValue(Top, field.value), found)
  BY <1>2, <1>5
<1>. QED
  BY <1>1, <1>5, <1>6, FieldKept DEF field

LEMMA UseDefaultKept ==
  ASSUME Keeping, UseDefault
  PROVE  Keeping' /\ SameRequest
<1>. DEFINE field == OfField(root, Outcomes(root), Top.ty, Top.path, NextField(Top))
<1>1. /\ stack # <<>> /\ Top.pc = "fields" /\ ~AllRead(Top)
      /\ NextField(Top).kind = "nested" /\ NextField(Top).default # NoDefault
      /\ Join(Top.path, NextField(Top).name) \notin DOMAIN root
  BY DEF UseDefault, Running, NestedPath
<1>2. TopChange(WithValue(Top, NextField(Top).default), <<>>)
  BY KeptInv, UseDefaultChange
<1>3. field = Gives(NextField(Top).default)
  BY <1>1 DEF OfField
<1>. HIDE DEF field
<1>4. field.value = NextField(Top).default /\ field.errors = Range(<<>>)
  BY <1>3, NoneAdded DEF Gives
<1>5. TopChange(WithValue(Top, field.value), <<>>)
  BY <1>2, <1>4
<1>. QED
  BY <1>1, <1>4, <1>5, FieldKept DEF field

LEMMA SkipNestedOptKept ==
  ASSUME Keeping, SkipNestedOpt
  PROVE  Keeping' /\ SameRequest
<1>. DEFINE field == OfField(root, Outcomes(root), Top.ty, Top.path, NextField(Top))
<1>1. /\ stack # <<>> /\ Top.pc = "fields" /\ ~AllRead(Top)
      /\ NextField(Top).kind = "nested_opt"
      /\ Join(Top.path, NextField(Top).name) \notin DOMAIN root
  BY DEF SkipNestedOpt, Running, NestedPath
<1>2. TopChange(WithValue(Top, NoConfig), <<>>)
  BY KeptInv, SkipNestedOptChange
<1>3. field = Gives(NoConfig)
  BY <1>1 DEF OfField, OfOptional
<1>. HIDE DEF field
<1>4. field.value = NoConfig /\ field.errors = Range(<<>>)
  BY <1>3, NoneAdded DEF Gives
<1>5. TopChange(WithValue(Top, field.value), <<>>)
  BY <1>2, <1>4
<1>. QED
  BY <1>1, <1>4, <1>5, FieldKept DEF field

\* A call that starts has read nothing.
LEMMA FreshKeeps ==
  ASSUME NEW t, NEW frame, frame.pc = "object", frame.values = <<>>,
         frame.checked = 0, ~frame.has_errors,
         frame.opt => frame.path \in DOMAIN t
  PROVE  KeepsPromise(t, frame, {})
<1>1. DOMAIN frame.values = {}
  OBVIOUS
<1>2. {} = UNION {Promised(t, frame, n).errors : n \in DOMAIN frame.values}
  BY <1>1
<1>. QED
  BY <1>1, <1>2 DEF KeepsPromise

LEMMA NestKept ==
  ASSUME Keeping, stack # <<>>, Running("fields"), ~AllRead(Top),
         NextField(Top).kind \in {"nested", "nested_opt"},
         NEW opt \in BOOLEAN, opt <=> NextField(Top).kind = "nested_opt",
         opt => NestedPath \in DOMAIN root,
         opt \/ NestedPath \in DOMAIN root \/ NextField(Top).default = NoDefault,
         stack' = Append(stack, Frame(NextField(Top).meta, NestedPath, opt)),
         errors' = errors, root' = root
  PROVE  Keeping' /\ SameRequest
<1>. DEFINE frame == Frame(NextField(Top).meta, NestedPath, opt)
<1>1. PushChange(frame)
  BY KeptInv, NestChange
<1>2. /\ frame.ty = NextField(Top).meta /\ frame.path = NestedPath /\ frame.opt = opt
      /\ frame.pc = "object" /\ frame.values = <<>>
      /\ frame.checked = 0 /\ ~frame.has_errors
  BY DEF Frame
<1>. HIDE DEF frame
<1>3. KeepsPromise(root, frame, {})
  BY <1>2, FreshKeeps
<1>4. Serves(root, frame, Top)
  BY <1>2 DEF Serves, NestedPath
<1>. QED
  BY <1>1, <1>3, <1>4, PushKept

LEMMA ReadNestedKept ==
  ASSUME Keeping, ReadNested
  PROVE  Keeping' /\ SameRequest
<1>1. /\ stack # <<>> /\ Running("fields") /\ ~AllRead(Top)
      /\ NextField(Top).kind = "nested"
      /\ NestedPath \in DOMAIN root \/ NextField(Top).default = NoDefault
      /\ stack' = Append(stack, Frame(NextField(Top).meta, NestedPath, FALSE))
      /\ errors' = errors /\ root' = root
  BY DEF ReadNested, Running
<1>. QED
  BY <1>1, NestKept

LEMMA ReadNestedOptKept ==
  ASSUME Keeping, ReadNestedOpt
  PROVE  Keeping' /\ SameRequest
<1>1. /\ stack # <<>> /\ Running("fields") /\ ~AllRead(Top)
      /\ NextField(Top).kind = "nested_opt"
      /\ NestedPath \in DOMAIN root
      /\ stack' = Append(stack, Frame(NextField(Top).meta, NestedPath, TRUE))
      /\ errors' = errors /\ root' = root
  BY DEF ReadNestedOpt, Running
<1>. QED
  BY <1>1, NestKept

\* A part that has a value has no errors.
LEMMA ConfigGives ==
  ASSUME NEW t \in Roots, NEW ty \in Types, NEW path \in Path(Key),
         OfConfig(t, ty, path).value # Failed
  PROVE  OfConfig(t, ty, path).errors = {}
<1>. DEFINE tag == OfParam(t, ty, path, Code[ty].tag)
<1>1. OfConfig(t, ty, path) = OfObject(t, Outcomes(t), ty, path)
  BY OutcomesDetermined
<1>2. \A found : Fails(found).value = Failed
  BY DEF Fails
<1>3. \A value : Gives(value).errors = {}
  BY DEF Gives
<1>4. \/ OfConfig(t, ty, path) = Fails({Error("generic", path, ty, 0)})
      \/ \E arm : OfConfig(t, ty, path) = OfArm(t, Outcomes(t), ty, path, arm)
      \/ OfConfig(t, ty, path) = tag /\ tag.errors # {}
  BY <1>1 DEF OfObject
<1>5. (\E found : tag = Fails(found)) \/ (\E value : tag = Gives(value))
  BY DEF OfParam
<1>6. ASSUME NEW arm
      PROVE  \/ \E found : OfArm(t, Outcomes(t), ty, path, arm) = Fails(found)
             \/ \E value : OfArm(t, Outcomes(t), ty, path, arm) = Gives(value)
  BY DEF OfArm
<1>. HIDE DEF tag
<1>. QED
  BY <1>2, <1>3, <1>4, <1>5, <1>6

LEMMA FieldGives ==
  ASSUME root \in Roots, NEW frame, FrameOK(frame), frame.pc = "fields",
         NEW n \in DOMAIN frame.values,
         Promised(root, frame, n).value # Failed
  PROVE  Promised(root, frame, n).errors = {}
<1>. DEFINE field   == FieldsOf(frame)[n]
            at      == Join(frame.path, field.name)
            config  == Outcomes(root)[<<field.meta, at>>]
            outcome == OfField(root, Outcomes(root), frame.ty, frame.path, field)
<1>1. /\ frame.ty \in Types /\ frame.path \in Path(Key)
      /\ frame.arm \in DOMAIN Code[frame.ty].arms
      /\ Len(frame.values) <= Len(FieldsOf(frame)) /\ IsSeq(frame.values)
  BY DEF FrameOK
<1>2. n \in 1..Len(FieldsOf(frame))
  <2>1. IsSeq(FieldsOf(frame))
    BY <1>1, CodeAssumption DEF FieldsOf
  <2>2. /\ Len(FieldsOf(frame)) \in Nat /\ Len(frame.values) \in Nat
        /\ DOMAIN frame.values = 1..Len(frame.values)
    BY <1>1, <2>1, SeqFacts
  <2>. QED
    BY <1>1, <2>2
<1>3. IsField(field)
  BY <1>1, <1>2, FieldType DEF FieldsOf
<1>4. /\ \A value : Gives(value).errors = {}
      /\ \A found : Fails(found).value = Failed
  BY DEF Gives, Fails
<1>5. outcome.value # Failed
  BY DEF Promised
<1>6. CASE field.kind = "param"
  <2>1. outcome = OfParam(root, frame.ty, frame.path, field)
    BY <1>6 DEF OfField
  <2>2. \/ \E found : outcome = Fails(found)
        \/ \E value : outcome = Gives(value)
    BY <2>1 DEF OfParam
  <2>. HIDE DEF outcome
  <2>3. outcome.errors = {}
    BY <1>4, <1>5, <2>2
  <2>. QED
    BY <2>3 DEF outcome, Promised
<1>7. CASE field.kind \in {"nested", "nested_opt"}
  <2>1. field.meta \in Types /\ at \in Path(Key)
    BY <1>1, <1>3, <1>7, JoinType DEF IsField
  <2>2. config.value # Failed => config.errors = {}
    BY <2>1, ConfigGives DEF OfConfig
  <2>3. outcome = config \/ \E value : outcome = Gives(value)
    BY <1>7 DEF OfField, OfOptional
  <2>. HIDE DEF outcome, config
  <2>4. outcome.errors = {}
    BY <1>4, <1>5, <2>2, <2>3
  <2>. QED
    BY <2>4 DEF outcome, Promised
<1>. QED
  BY <1>3, <1>6, <1>7 DEF IsField

LEMMA ConstructKept ==
  ASSUME Keeping, Construct
  PROVE  Keeping' /\ SameRequest
<1>. DEFINE frame == [Top EXCEPT !.pc = "validate"]
            own   == Since(errors, Top.count)
<1>1. stack # <<>> /\ Top.pc = "fields" /\ AllRead(Top) /\ ~AnyFailed(Top)
  BY DEF Construct, Running
<1>2. TopChange(frame, <<>>)
  BY KeptInv, ConstructChange
<1>3. /\ FrameOK(Top) /\ KeepsPromise(root, Top, own) /\ root \in Roots
  BY <1>1, TopKeeps DEF Since
<1>4. /\ frame.ty = Top.ty /\ frame.path = Top.path /\ frame.opt = Top.opt
      /\ frame.arm = Top.arm /\ frame.values = Top.values
      /\ frame.checked = Top.checked /\ frame.has_errors = Top.has_errors
      /\ frame.pc = "validate"
  BY <1>3 DEF FrameOK
<1>. HIDE DEF frame, own
<1>5. /\ Top.checked = 0 /\ ~Top.has_errors
      /\ own = UNION {Promised(root, Top, n).errors : n \in DOMAIN Top.values}
      /\ Top.opt => Top.path \in DOMAIN root
      /\ ~IsLeafAt(root, Top.path)
      /\ IF Tag(Top) = NoTagParam THEN Top.arm = NoVariant
         ELSE /\ OfParam(root, Top.ty, Top.path, Tag(Top)).errors = {}
              /\ Top.arm = OfParam(root, Top.ty, Top.path, Tag(Top)).value
      /\ \A n \in DOMAIN Top.values : Top.values[n] = Promised(root, Top, n).value
  BY <1>1, <1>3 DEF KeepsPromise
<1>6. /\ Tag(frame) = Tag(Top) /\ FieldsOf(frame) = FieldsOf(Top)
      /\ AllRead(frame) /\ ~AnyFailed(frame)
      /\ \A n : Promised(root, frame, n) = Promised(root, Top, n)
  BY <1>1, <1>4 DEF Tag, FieldsOf, AllRead, AnyFailed, Promised
\* Fields that have a value have no errors.
<1>7. own = {}
  <2>1. ASSUME NEW n \in DOMAIN Top.values  PROVE Promised(root, Top, n).errors = {}
    <3>1. Promised(root, Top, n).value # Failed
      BY <1>1, <1>5 DEF AnyFailed
    <3>. QED
      BY <1>1, <1>3, <2>1, <3>1, FieldGives
  <2>. QED
    BY <1>5, <2>1
<1>8. /\ {n \in 1..frame.checked : ~Holds(frame.ty, n, Built(frame))} = {}
      /\ frame.checked <= Code[frame.ty].validations
  <2>1. Code[Top.ty].validations \in Nat
    BY <1>3, CodeAssumption DEF FrameOK
  <2>. QED
    BY <1>4, <1>5, <2>1
<1>9. KeepsPromise(root, frame, own)
  BY <1>4, <1>5, <1>6, <1>7, <1>8 DEF KeepsPromise
<1>. QED
  BY <1>1, <1>2, <1>4, <1>9, QuietKept DEF own

LEMMA ValidateKept ==
  ASSUME Keeping, Validate
  PROVE  Keeping' /\ SameRequest
<1>. DEFINE holds == Holds(Top.ty, Top.checked + 1, Built(Top))
            error == Error("generic", Top.path, Top.ty, 0)
            frame == [Top EXCEPT !.checked = @ + 1, !.has_errors = @ \/ ~holds]
            found == IF holds THEN <<>> ELSE <<error>>
            own   == Since(errors, Top.count)
            failed == {n \in 1..Top.checked : ~Holds(Top.ty, n, Built(Top))}
            more   == {n \in 1..(Top.checked + 1) : ~Holds(Top.ty, n, Built(Top))}
<1>1. /\ stack # <<>> /\ Top.pc = "validate"
      /\ Top.checked < Code[Top.ty].validations
  BY DEF Validate, Running
<1>2. TopChange(frame, found)
  BY KeptInv, ValidateChange
<1>3. /\ FrameOK(Top) /\ KeepsPromise(root, Top, own)
  BY <1>1, TopKeeps DEF Since
<1>4. /\ Top.checked \in Nat /\ Code[Top.ty].validations \in Nat
      /\ Top.has_errors \in BOOLEAN
  BY <1>3, CodeAssumption DEF FrameOK
<1>5. more = failed \cup (IF holds THEN {} ELSE {Top.checked + 1})
  <2>1. \A n : n \in 1..(Top.checked + 1) <=> n \in 1..Top.checked \/ n = Top.checked + 1
    BY <1>4
  <2>. QED
    BY <2>1
<1>6. Range(found) = IF holds THEN {} ELSE {error}
  <2>. HIDE DEF error, holds
  <2>1. Range(<<error>>) = {error}
    BY DEF Range
  <2>. QED
    BY <2>1, NoneAdded
<1>7. /\ AllRead(Top) /\ ~AnyFailed(Top)
      /\ Top.has_errors <=> failed # {}
      /\ own = {error : n \in failed}
      /\ Top.opt => Top.path \in DOMAIN root
      /\ ~IsLeafAt(root, Top.path)
      /\ IF Tag(Top) = NoTagParam THEN Top.arm = NoVariant
         ELSE /\ OfParam(root, Top.ty, Top.path, Tag(Top)).errors = {}
              /\ Top.arm = OfParam(root, Top.ty, Top.path, Tag(Top)).value
      /\ \A n \in DOMAIN Top.values : Top.values[n] = Promised(root, Top, n).value
  BY <1>1, <1>3 DEF KeepsPromise
<1>. HIDE DEF holds, error
<1>8. /\ frame.ty = Top.ty /\ frame.path = Top.path /\ frame.opt = Top.opt
      /\ frame.arm = Top.arm /\ frame.values = Top.values
      /\ frame.checked = Top.checked + 1
      /\ frame.has_errors <=> Top.has_errors \/ ~holds
      /\ frame.pc = "validate"
  BY <1>1, <1>3 DEF FrameOK
<1>. HIDE DEF frame
<1>9. /\ Tag(frame) = Tag(Top) /\ AllRead(frame) /\ ~AnyFailed(frame)
      /\ Built(frame) = Built(Top)
      /\ \A n : Promised(root, frame, n) = Promised(root, Top, n)
  BY <1>7, <1>8 DEF Tag, FieldsOf, AllRead, AnyFailed, Promised, Built
<1>10. more = {n \in 1..frame.checked : ~Holds(frame.ty, n, Built(frame))}
  BY <1>8, <1>9
<1>. HIDE DEF more, failed, own, found
<1>11. /\ frame.has_errors <=> more # {}
       /\ own \cup Range(found) = {error : n \in more}
  BY <1>5, <1>6, <1>7, <1>8
<1>12. frame.checked <= Code[frame.ty].validations
  BY <1>1, <1>4, <1>8
<1>13. error = Error("generic", frame.path, frame.ty, 0)
  BY <1>8 DEF error
<1>14. KeepsPromise(root, frame, own \cup Range(found))
  BY <1>7, <1>8, <1>9, <1>10, <1>11, <1>12, <1>13 DEF KeepsPromise
<1>. QED
  BY <1>1, <1>2, <1>8, <1>14, TopKept DEF own
-----------------------------------------------------------------------------
(* The parser implements its promise *)

\* The request that is running.
Asked == IF stack = <<>> THEN [none |-> "nobody"]
         ELSE [ty |-> stack[1].ty, path |-> stack[1].path, opt |-> stack[1].opt]

Reported == IF stack = <<>> THEN Range(errors) ELSE {}

\* A step within a call says nothing yet.
LEMMA SilentStep ==
  ASSUME SameRequest, root' = root, result' = result
  PROVE  UNCHANGED <<root, Asked, Reported, result>>
BY DEF SameRequest, Asked, Reported

LEMMA SilentIsPromised ==
  ASSUME SameRequest, root' = root, result' = result
  PROVE  [Promise!Next]_(Promise!pvars)
BY SilentStep DEF Promise!pvars, Asked, Reported

\* The end of a call: of parse(), or of a call within it.
LEMMA EndPromised ==
  ASSUME Keeping, stack # <<>>, NEW value, NEW errs, EndChange(value, errs),
         Answers(value, errs)
  PROVE  Keeping' /\ [Promise!Next]_(Promise!pvars)
<1>1. CASE Callers # <<>>
  <2>1. Keeping' /\ SameRequest
    BY <1>1, CallerKept
  <2>2. root' = root /\ result' = result
    BY <1>1, ReturnCases DEF EndChange
  <2>. QED
    BY <2>1, <2>2, SilentIsPromised
<1>2. CASE Callers = <<>>
  <2>1. /\ Keeping'
        /\ stack' = <<>> /\ root' = root
        /\ result' = Outcome(root, stack[1].ty, stack[1].path, stack[1].opt).value
        /\ Range(errors') = Outcome(root, stack[1].ty, stack[1].path, stack[1].opt).errors
    BY <1>2, OutermostKept
  <2>2. Promise!Answer
    BY <2>1 DEF Promise!Answer, Promise!Reply, Promise!Nobody
  <2>. QED
    BY <2>1, <2>2 DEF Promise!Next
<1>. QED
  BY <1>1, <1>2

\* The start of parse() and parse_opt().
LEMMA StartPromised ==
  ASSUME Keeping, NEW call \in Calls, NEW opt \in BOOLEAN, stack = <<>>,
         opt => call[2] \in DOMAIN root,
         stack' = <<[Frame(call[1], call[2], opt) EXCEPT !.count = 0]>>,
         errors' = <<>>, root' = root, result' = result
  PROVE  Keeping' /\ [Promise!Next]_(Promise!pvars)
<1>. DEFINE frame == [Frame(call[1], call[2], opt) EXCEPT !.count = 0]
<1>1. FrameOK(frame) /\ frame.count = 0 /\ ~Doomed(frame)
  BY KeptInv, ParseFrame
<1>2. /\ frame.ty = call[1] /\ frame.path = call[2] /\ frame.opt = opt
      /\ frame.pc = "object" /\ frame.values = <<>>
      /\ frame.checked = 0 /\ ~frame.has_errors
  BY DEF Frame
<1>. HIDE DEF frame
<1>3. stack' = <<frame>>
  BY DEF frame
<1>4. KeepsPromise(root, frame, {})
  BY <1>2, FreshKeeps
<1>5. Keeping'
  BY <1>1, <1>3, <1>4, StartKept
<1>6. stack' # <<>> /\ stack'[1] = frame
  BY <1>3
<1>7. Promise!Ask(call[1], call[2], opt)
  BY <1>2, <1>6 DEF Promise!Ask, Promise!Nobody
<1>. QED
  BY <1>5, <1>7 DEF Promise!Next

LEMMA AbsentPromised ==
  ASSUME Keeping, NEW call \in Calls, ParseOptAbsent(call[1], call[2])
  PROVE  Keeping' /\ [Promise!Next]_(Promise!pvars)
<1>1. /\ stack = <<>> /\ stack' = <<>> /\ errors' = <<>> /\ root' = root
      /\ result' = NoConfig /\ call[2] \notin DOMAIN root
  BY DEF ParseOptAbsent
<1>2. Keeping'
  <2>1. Inv'
    BY KeptInv, NextInv DEF Next
  <2>. QED
    BY <1>1, <2>1, IdleKept DEF Keeping
<1>. DEFINE outcome == Outcome(root, call[1], call[2], TRUE)
<1>3. outcome = Gives(NoConfig)
  BY <1>1 DEF Outcome, OfOptional
<1>. HIDE DEF outcome
<1>4. result' = outcome.value /\ Range(errors') = outcome.errors
  BY <1>1, <1>3, NoneAdded DEF Gives
<1>5. Promise!AnswerAtOnce(call[1], call[2])
  BY <1>1, <1>4 DEF Promise!AnswerAtOnce, Promise!Reply, Promise!Nobody, outcome
<1>. QED
  BY <1>2, <1>5 DEF Promise!Next

LEMMA PromiseInit ==
  Init => Keeping /\ Promise!Init
<1>. SUFFICES ASSUME Init PROVE Keeping /\ Promise!Init
  OBVIOUS
<1>1. Keeping
  <2>1. DOMAIN stack = {}
    BY DEF Init
  <2>. QED
    BY <2>1, InitInv DEF Init, Keeping, PromiseInv, Inv
<1>2. Promise!Init
  BY NoneAdded DEF Init, Promise!Init, Promise!Nobody, Promise!None, NoConfig
<1>. QED
  BY <1>1, <1>2

\* Every step does what the promise allows, or says nothing.
LEMMA PromiseNext ==
  Keeping /\ [Next]_vars => Keeping' /\ [Promise!Next]_(Promise!pvars)
<1>. SUFFICES ASSUME Keeping, [Next]_vars
              PROVE  Keeping' /\ [Promise!Next]_(Promise!pvars)
  OBVIOUS
<1>1. CASE UNCHANGED vars
  <2>1. UNCHANGED <<root, stack, errors, result>>
    BY <1>1 DEF vars, parser
  <2>2. Keeping'
    BY <2>1, KeptInv, NextInv DEF vars, parser, Keeping, PromiseInv, OwnErrors, Inv
  <2>3. UNCHANGED Promise!pvars
    BY <2>1 DEF Promise!pvars
  <2>. QED
    BY <2>2, <2>3
<1>2. ASSUME NEW call \in Calls, Parse(call[1], call[2])
      PROVE  Keeping' /\ [Promise!Next]_(Promise!pvars)
  BY <1>2, StartPromised DEF Parse
<1>3. ASSUME NEW call \in Calls, ParseOptAbsent(call[1], call[2])
      PROVE  Keeping' /\ [Promise!Next]_(Promise!pvars)
  BY <1>3, AbsentPromised
<1>4. ASSUME NEW call \in Calls, ParseOpt(call[1], call[2])
      PROVE  Keeping' /\ [Promise!Next]_(Promise!pvars)
  BY <1>4, StartPromised DEF ParseOpt
<1>5. CASE RejectNonObject
  BY <1>5, KeptInv, RejectNonObjectEnds, RejectNonObjectAnswers, EndPromised
<1>6. CASE RejectTag
  BY <1>6, KeptInv, RejectTagEnds, RejectTagAnswers, EndPromised
<1>7. CASE FailFields
  BY <1>7, KeptInv, FailFieldsEnds, FailFieldsAnswers, EndPromised
<1>8. CASE ReturnConfig
  BY <1>8, KeptInv, ReturnConfigEnds, ReturnConfigAnswers, EndPromised
<1>9. CASE EnterConfig
  BY <1>9, EnterConfigKept, SilentIsPromised DEF EnterConfig
<1>10. CASE ReadTag
  BY <1>10, ReadTagKept, SilentIsPromised DEF ReadTag
<1>11. CASE ReadParam
  BY <1>11, ReadParamKept, SilentIsPromised DEF ReadParam
<1>12. CASE UseDefault
  BY <1>12, UseDefaultKept, SilentIsPromised DEF UseDefault
<1>13. CASE ReadNested
  BY <1>13, ReadNestedKept, SilentIsPromised DEF ReadNested
<1>14. CASE SkipNestedOpt
  BY <1>14, SkipNestedOptKept, SilentIsPromised DEF SkipNestedOpt
<1>15. CASE ReadNestedOpt
  BY <1>15, ReadNestedOptKept, SilentIsPromised DEF ReadNestedOpt
<1>16. CASE Construct
  BY <1>16, ConstructKept, SilentIsPromised DEF Construct
<1>17. CASE Validate
  BY <1>17, ValidateKept, SilentIsPromised DEF Validate
<1>. QED
  BY <1>1, <1>2, <1>3, <1>4, <1>5, <1>6, <1>7, <1>8, <1>9, <1>10, <1>11,
     <1>12, <1>13, <1>14, <1>15, <1>16, <1>17 DEF Next, Step

\* For all config types, however they nest, and all merged trees: whatever calls
\* share the list of errors and cut it, parse() and parse_opt() return the config
\* and exactly the errors that the tree determines, each once it is asked for; no
\* error of a part that is read is lost, but those of an optional config that
\* becomes None.
THEOREM ParserKeepsPromise == Spec => ImplementsPromise
BY PromiseInit, PromiseNext, PTL DEF Spec, ImplementsPromise, Promise!Spec
=============================================================================
