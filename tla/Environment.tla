---------------------------- MODULE Environment ----------------------------
(***************************************************************************)
(* A source built from environment variables (`Environment` of             *)
(* source/env.rs): a flat map that is filled, filtered and coerced by      *)
(* calls of its methods.                                                   *)
(*                                                                         *)
(* A name is [words, upper, suffix]: its words (between underscores),      *)
(* whether it is in upper case, and the suffix that marks JSON values (""  *)
(* if there is none).  A prefix is words and an underscore after them.     *)
(* A value is [text, parsed]; `Json` maps the texts that are JSON to what  *)
(* is parsed from them.                                                    *)
(***************************************************************************)
EXTENDS Sequences, Naturals

LOCAL INSTANCE SequencesExt
LOCAL INSTANCE FiniteSetsExt

CONSTANTS
  ProcessEnv,  \* name -> text, the variables of the process
  EnvPrefixes,    \* prefixes the program passes: [words, upper]
  Extra,       \* sets of names the program passes to with_vars()
  DotEnvs,     \* contents of .env files: sequences of <<name, text>>
  Json         \* text -> parsed value

VARIABLES
  map,      \* name -> value
  outcome   \* of the last coerce_json(), "none" before it

envVars == <<map, outcome>>

JsonSuffixes == {":json", "__json"}

\* What is between underscores (a prover does not know that these two are
\* strings).
Word == STRING \cup {"", "json"}

\* "a__json" is spelled with the suffix.
Canonical(words) ==
  LET n == Len(words)
  IN  ~(n > 2 /\ words[n - 1] = "" /\ words[n] = "json")

\* Names with two suffixes, and prefixes that end with two underscores, are
\* left out.
Name ==
  {name \in [words : Seq(Word), upper : BOOLEAN, suffix : {""} \cup JsonSuffixes] :
     Canonical(name.words)}

Prefix ==
  {prefix \in [words : Seq(Word), upper : BOOLEAN] :
     prefix.words # <<>> => prefix.words[Len(prefix.words)] # ""}

ASSUME EnvironmentAssumption ==
  /\ \A name \in DOMAIN ProcessEnv : name \in Name
  /\ \A names \in Extra : names \subseteq Name
  /\ \A lines \in DotEnvs : \A i \in DOMAIN lines : lines[i][1] \in Name
  /\ \A prefix \in EnvPrefixes : prefix \in Prefix

Plain(text) == [text |-> text, parsed |-> FALSE]
Parsed(text) == [text |-> Json[text], parsed |-> TRUE]

Lower(name) == [name EXCEPT !.upper = FALSE]

\* "app__json" is "app_" and "_json".
CutsSuffix(prefix, name) ==
  prefix.words # <<>> /\ name.words = prefix.words /\ name.suffix = "__json"

HasPrefix(name, prefix) ==
  \/ prefix.words = <<>>
  \/ /\ name.upper = prefix.upper
     /\ IsStrictPrefix(prefix.words, name.words) \/ CutsSuffix(prefix, name)

\* Mutant: loses the suffix with the prefix.
WithoutPrefixAndSuffix(name, prefix) ==
  [name EXCEPT !.words = SubSeq(@, Len(prefix.words) + 1, Len(@)),
               !.suffix = IF prefix.words = <<>> THEN @ ELSE ""]

WithoutPrefix(name, prefix) ==
  IF CutsSuffix(prefix, name)
  THEN [name EXCEPT !.words = <<"", "json">>, !.suffix = ""]
  ELSE [name EXCEPT !.words = SubSeq(@, Len(prefix.words) + 1, Len(@))]

\* f over g, and f without these keys.
Over(f, g) ==
  [x \in DOMAIN f \cup DOMAIN g |-> IF x \in DOMAIN f THEN f[x] ELSE g[x]]
Without(f, names) == [x \in DOMAIN f \ names |-> f[x]]
-----------------------------------------------------------------------------
(* Methods, as operators on the map *)

\* Environment::from_iter for variables in this order: the last wins.
Collect(vs, prefix) ==
  LET taken == {i \in DOMAIN vs : HasPrefix(vs[i][1], prefix)}
      retained(i) == WithoutPrefix(Lower(vs[i][1]), prefix)
  IN  [n \in {retained(i) : i \in taken} |->
         Plain(vs[Max({i \in taken : retained(i) = n})][2])]

\* Environment::strip_prefix; the prefix is converted to lower case.  No two
\* names become the same.
Stripped(m, prefix) ==
  LET lower == [prefix EXCEPT !.upper = FALSE]
      retained == {name \in DOMAIN m : HasPrefix(name, lower)}
  IN  [n \in {WithoutPrefix(name, lower) : name \in retained} |->
         m[CHOOSE name \in retained : WithoutPrefix(name, lower) = n]]

\* The entries that coerce_json() looks at, and those that it cannot parse.
\* It knows the suffixes in lower case only.
Marked(m) ==
  {name \in DOMAIN m :
     name.suffix \in JsonSuffixes /\ ~name.upper /\ ~m[name].parsed}
Failing(m) == {name \in Marked(m) : m[name].text \notin DOMAIN Json}

WithoutSuffix(name) == [name EXCEPT !.suffix = ""]

\* Mutant: does not override a variable without the suffix.
CoercedBelow(m, names) ==
  LET target(n) == {name \in names : WithoutSuffix(name) = n}
      last(n) == CHOOSE name \in target(n) :
                   "__json" \in {x.suffix : x \in target(n)}
                     => name.suffix = "__json"
  IN  Over(Without(m, names),
           [n \in {WithoutSuffix(name) : name \in names} |->
              Parsed(m[last(n)].text)])

\* The map with these entries coerced.  They are inserted in the order of the
\* map, where ":json" is before "__json".
CoercedEntries(m, names) ==
  LET target(n) == {name \in names : WithoutSuffix(name) = n}
      last(n) == CHOOSE name \in target(n) :
                   "__json" \in {x.suffix : x \in target(n)}
                     => name.suffix = "__json"
  IN  Over([n \in {WithoutSuffix(name) : name \in names} |->
              Parsed(m[last(n)].text)],
           Without(m, names))

\* Environment::coerce_json: nothing is coerced if anything fails.
Coerced(m) ==
  IF Failing(m) = {} THEN CoercedEntries(m, Marked(m)) ELSE m
-----------------------------------------------------------------------------
EnvInit ==
  /\ map = [n \in {} |-> Plain("")]
  /\ outcome = "none"

\* Environment::prefixed; the order of the variables of the process is not
\* specified.
Prefixed(prefix) ==
  /\ map = [n \in {} |-> Plain("")]
  /\ \E order \in SetToSeqs(DOMAIN ProcessEnv) :
       map' = Collect([i \in DOMAIN order |-> <<order[i], ProcessEnv[order[i]]>>],
                      prefix)
  /\ outcome' = "none"

\* Environment::from_dotenv: no prefix, and the last line wins.
FromDotenv(lines) ==
  /\ map = [n \in {} |-> Plain("")]
  /\ map' = Collect(lines, [words |-> <<>>, upper |-> FALSE])
  /\ outcome' = "none"

\* Environment::with_vars; the names are taken as they are.
WithVars(names) ==
  /\ map' = Over([n \in names \cap DOMAIN ProcessEnv |-> Plain(ProcessEnv[n])],
                 map)
  /\ outcome' = "none"

\* Environment::strip_prefix
StripPrefix(prefix) ==
  /\ map' = Stripped(map, prefix)
  /\ outcome' = "none"

CoerceJson ==
  /\ outcome' = IF Failing(map) = {} THEN "ok" ELSE "err"
  /\ map' = Coerced(map)

EnvNext ==
  \/ \E prefix \in EnvPrefixes : Prefixed(prefix)
  \/ \E lines \in DotEnvs : FromDotenv(lines)
  \/ \E names \in Extra : WithVars(names)
  \/ \E prefix \in EnvPrefixes : StripPrefix(prefix)
  \/ CoerceJson

EnvSpec == EnvInit /\ [][EnvNext]_envVars
-----------------------------------------------------------------------------
(* Properties *)

\* Once coerce_json() has succeeded, no value is left to be coerced: a second
\* call would change nothing.
CoercionComplete == outcome = "ok" => Coerced(map) = map /\ Marked(map) = {}

\* A variable with the suffix wins over the same variable without it, and
\* nothing else changes.
JsonWins ==
  [][CoerceJson /\ outcome' = "ok" =>
       /\ \A name \in Marked(map) :
            LET target == WithoutSuffix(name)
            IN  /\ target \in DOMAIN map'
                /\ map'[target] \in {Parsed(map[n].text) :
                                       n \in {x \in Marked(map) :
                                                WithoutSuffix(x) = target}}
       /\ \A name \in DOMAIN map \ Marked(map) :
            name \notin {WithoutSuffix(n) : n \in Marked(map)} =>
              name \in DOMAIN map' /\ map'[name] = map[name]]_envVars

\* The program may strip a prefix before or after the coercion, unless there is
\* a variable whose name is the prefix and a part of the suffix.
StripCommutes ==
  \A prefix \in EnvPrefixes :
    (Failing(map) = {} /\ \A name \in Marked(map) : ~CutsSuffix(prefix, name)) =>
      Stripped(Coerced(map), prefix) = Coerced(Stripped(map, prefix))
=============================================================================
