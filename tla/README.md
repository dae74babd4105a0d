# A TLA+ verification of smart-config

This directory models `smart-config`, a library for layered, strongly typed
configuration: an application declares config types, mounts them in a *schema*,
opens a *repository* on the schema, adds *sources* (JSON, environment variables)
to it, and parses the merged tree into its configs; it can also write the
configs back as JSON. The models are written from `src/crates/smart-config` and
`src/crates/smart-config-derive`. TLC checks them on small instances, and TLAPS
proves the central results about schemas, sources, repositories, parsing,
decimals and testers for every instance. Paths like `schema/mod.rs` below are relative to
`src/crates/smart-config/src`.

## 1. Inventory

### Components, their state and their operations

| Component (source) | State | Operations |
| --- | --- | --- |
| Schema (`schema/mod.rs`, `schema/mount.rs`) | `configs` by prefix and type, their order by depth, mounting points by path, the coercion flag; during a call, a patch and a stack of configs to be inserted | `insert`, `push_alias`, `push_deprecated_alias`, `coerce_serde_enums`; lookups and iteration |
| Values and paths (`value.rs`) | trees of values with origins | `Pointer` arithmetic, `ensure_object`, `deep_merge` |
| Preprocessing (`source/mod.rs`) | the tree of one source | copying of aliased values, marking of secrets, conversion of serde-like enums, nesting of object params, sub-configs and arrays, garbage collection; `nest_kvs` for flat sources |
| Repository (`source/mod.rs`) | the schema it borrows, its sources, the merged tree | `new`, `with`, `with_all`, `canonicalize`, parsers |
| Fallbacks (`fallback.rs`) | none | reading variables and manual values; the source made of them |
| JSON source (`source/json.rs`) | a tree that is edited in place | `new`, `merge` |
| Environment source (`source/env.rs`) | a flat map | `prefixed`, `from_iter`, `from_dotenv`, `with_vars`, `strip_prefix`, `coerce_json`, `convert_flat_params` |
| YAML source (`source/yaml.rs`) | none | conversion to a tree |
| Tester (`testing.rs`) | thread-local mock variables, the guard of each tester | `new`, `set_env`, `coerce_serde_enums`, `insert`, `test*`, drop |
| Deserialization (`de/`, generated code) | the calls that are running, the list of errors they share | nested and optional configs, params, tags, validations; the deserializers of params |
| Decimals and units (`utils/decimal.rs`, `de/units.rs`, `types.rs`) | none | parsing, printing, scaling and rounding with overflow checks |
| Visitors (`visit.rs`, generated code) | the object under construction | serialization of configs, in full or as a difference, nested or flat |
| Metadata (`metadata/`) | constants emitted by the derive macros | consistency assertions |
| Derive macros, command-line helpers, patterns, errors, validation | none | code generation, printing, predicates |

### Interactions

An application builds the schema by calls on `&mut ConfigSchema`. The repository
borrows it immutably, so that no schema change interleaves with a source. On
`new`, the fallbacks of the schema's params become the first source. `with` runs
every pass of the preprocessing on the new source, each pass reading the schema,
and merges what is left over the tree. Parsers read the tree: generated code
walks the fields of a config, calls a deserializer for each param and itself for
each nested config, and all of these calls push to one list of errors.
`canonicalize` parses the top-level configs and writes them through a visitor to
JSON, which may become a source of another repository. Environment sources and
fallbacks read the process environment, or the mock variables of the thread
while a `Tester` has set some.

### What is hard

* **Sequences of calls on the schema.** Paths, aliases and mounting points
  accumulate over calls; a call may fail in the middle of a tree of configs, and
  it may meet configs that are there, partly, under other aliases.
* **Order of passes and of layers.** Six passes feed each other; a value moved
  by a late pass has missed the early ones. Configs at one prefix are visited in
  the order of a `HashMap`.
* **Names with several readings.** `db_url` can be a param of its own or the
  param `url` of the config `db`; `tags_0` can be an array item.
* **One list of errors for all calls.** An optional config that only misses
  params becomes `None`, and cuts the list where its call began.
* **Two ways through one value.** What the visitor writes, the deserializers
  must read, with defaults, fallbacks and renamed params in between.
* **Limits of integers.** A decimal is a mantissa and an exponent of fixed width.
* **Shared state between testers.** Mock variables are thread-local, testers may
  overlap on a thread, and a panic may destroy some of them.
* **Arms taken for unreachable.** `ensure_object` assumes that its location is
  no scalar, and others that a path is not empty.

There is no I/O to crash in, no messages and no locks: apart from the testers
the library is sequential, and its hazards are orders of calls and of data.

### What makes each component correct

* Schema: every path of a config and of its params is mounted; no param at a
  config's location, no param of another type at one location; a failed call
  leaves no trace; priorities of aliases, canonical params and mounting points
  never change for the worse; iteration misses nothing and repeats nothing.
* Preprocessing and repository: the repository is a stack of layers; the newest
  source wins for every param, at whichever name it is given; numbered items
  become an array only if none is missing, each at its number; nothing but
  values of canonical params stays; secrets are wrapped; no order of a
  `HashMap` is visible; nothing panics.
* JSON source: the last `merge` wins and everything else stays.
* Environment source: JSON variables win over plain ones and nothing is left to
  be coerced; filtering and coercion commute.
* Deserialization: every parse returns the config or all errors of the parts
  that were read, and nothing but a missing optional config is forgiven.
* Serialization: what is written is read back as the same config.
* Decimals and units: what is printed is parsed, and rounding is to the nearest.
* Tester: no mock variable outlives the tester that set it; a tester alone on a
  thread is isolated.

## 2. Modules

```
Paths ─┬─ ConfigSchema ── Preprocessing ── ConfigRepository ─────────────┐
       │                     │   └ Visiting ·· Visiting_proofs           │
       └─ ValueTree ─────────┘        ConfigRepository ··▸ LayeredConfig │
            │  └─ ValueTree_proofs ──────────────────────────────────────┤
            │        │                              ConfigRepository_proofs
            │        │                                └─ SourceValues_proofs
            ├─ JsonSource ──┬─ Sources ── Sources_proofs (with ValueTree_proofs)
            │   Environment ┘
            ├─ GeneratedCode ── ParsedConfigs ─┬─ Deserialization ··▸ ParsePromise
            │                                  │    └─ Deserialization_proofs
            │                                  └─ Serialization ── Completeness
            └─ JsonValues ─┐
              VariantNames ┴─ RustTypes ── ParamDeserializers
Decimal ── Units ── Conversions ── Conversions_proofs
Tester ── Tester_proofs
```

A line is EXTENDS, dots are INSTANCE, `··▸` is a refinement. `Serialization`
reads configs as `ParsedConfigs` says, which `Deserialization` is shown to do.
`MCSerialization` joins `Completeness` and `ParamDeserializers`, so that configs
are read and written with the library's own deserializers.

| Module | Models | Correspondence |
| --- | --- | --- |
| `Paths` | `Pointer` | paths are sequences of keys; `JoinPath` is `join_path` with its failure (`NoPath`) |
| `ConfigSchema` | `ConfigSchema`, `PatchedSchema`, `ConfigData` | `configs`, `byDepth`, `mounts`, `coerce` are the fields; `patch` and `pending` are the patch and the stack of the walk. `Insert` and `PushAlias` start a call, every iteration of the walk is `InsertInner`, `SkipPresent` or `RejectConflict`, and `Commit` ends the call |
| `ValueTree` | `WithOrigin`, `Value` | a tree is a function from paths to nodes; `EnsureObject` returns `Panicked` where the code reaches `unreachable!()` |
| `Visiting` | loops | `Visit` applies the body of a loop, its parameter `Step`, to the items of a sequence |
| `Preprocessing` | `preprocess_source`, `nest_kvs` | one operator for each pass, on the tree of the source, with one instance of `Visiting` for each loop over configs; keys are sequences of words, so that `db_url` and `db.url` have the same words |
| `ConfigRepository` | `ConfigRepository`, `Fallbacks` | actions `New`, `NewWithFallbacks`, `With`; all schema calls happen before. The iteration orders are chosen once, among all that the code allows |
| `LayeredConfig` | nothing in the code: what a repository promises | `Overlay` of layers, site by site; `ConfigRepository` implements it under the mapping `Layered` |
| `JsonSource` | `Json::merge` | `MergeAt`, `RejectRoot` (the documented panic), `PanicInEnsure` |
| `Environment` | `Environment` | one action for each method; a name is its words, its case and its JSON suffix, a prefix is words and the underscore after them |
| `Sources` | `ConfigSources`, `Prefixed` | a source is built by the actions of `JsonSource` or `Environment` and then pushed |
| `GeneratedCode` | what the macros emit for a config type | a type has arms (of an enum) with fields, a tag, and validations: the constant `Code` |
| `Deserialization` | `DeserializeContext`, `ConfigParser`, generated `deserialize_config` | the calls that are running are the frames of `stack`; `errors` is the shared list. Each action is one statement of a call: `EnterConfig`, `ReadTag`, `ReadParam`, `ReadNested`, `ReadNestedOpt`, `FailFields`, `Construct`, `Validate`, `ReturnConfig` |
| `ParsedConfigs` | what a config of a type at a path is, as a recursive function of the tree | a config and a set of errors: that of its tag, of all its fields, or of the validations it fails; `OfOptional` is where errors are forgiven |
| `ParsePromise` | nothing in the code: what a parser promises | a request (`Ask`) and one `Answer` that depends on the tree alone; `Deserialization` implements it, with the answer of `ParsedConfigs` |
| `JsonValues`, `VariantNames`, `RustTypes` | `Value` and its coercions, `EnumVariant`, `ValueDeserializer` | values of JSON, names of variants in all spellings, values of Rust types through serde |
| `ParamDeserializers` | `de/param.rs`, `de/repeated.rs`, `de/secret.rs`, `de/_private.rs` | a deserializer is a record of its kind and parts; `DeserializeParam` and `SerializeParam` are its two directions |
| `Serialization` | `canonicalize`, `Serializer`, generated `visit_config` | one action for each top-level config visited, then `ReadBack` as the source of a new repository |
| `Completeness` | `CompletenessChecker` in the mode of `test_complete()` | which params a sample lacks |
| `Decimal`, `Units` | `Decimal`, `de/units.rs`, `types.rs` | operators that return a value, an error, or `Overflowed` where the code leaves a width without a check |
| `Conversions` | none | chains of requests to these operators |
| `Tester` | `Tester`, `MockEnvGuard`, lookups of variables | each tester lives on a thread; `CreatePanics` unwinds through any testers of the thread |
| `MC…` | instances | constants of the runs |
| `…_proofs` | | theorems of section 4 |

Metadata is the constant `Meta`: what the derive macro emits, as the schema and
the preprocessing read it. Origins of values, descriptions, logging and the text
of errors are left out. Definitions marked "Mutant" are broken variants of a
definition; they document which bug each property detects, and no specification
uses them.

## 3. Runs

| Run | Question | Properties |
| --- | --- | --- |
| `schema` | Does any order of insertions and aliases, with failures in between, leave a complete schema without conflicts? Are the invariants of the proofs inductive on the way, within the calls, too? | `IndInv`, `NoPathConflicts`, `MountsExplained`, `CanonicalParamsMarked`, `NestedPresent`, `ParentLinkResolves`, `TopLevelIsDirect`, `IterCovers`, `AliasPriorityKept`, `MountsStable` |
| `repo_app` | Does the newest source win, whatever aliases it uses, and is a repository a stack of layers? | `NewestSourceWins`, `ImplementsLayers` |
| `repo_shapes` | Do flat names with several readings reach all their params, and nothing else? Does the order of configs at one prefix matter? Are serde-like enums recognised wherever they are spelled? Which numbered entries become an array? | `NewestEntryWins`, `ItemsInOrder`, `SecretsWrapped`, `NoGarbage`, `NoPanic`, `OrderIndependent`, `VariantSelected` |
| `sources` | What do sequences of `merge()` and of coercions leave, and what is pushed? | `PushedObjects`, `LastMergeWins`, `StripCommutes`, `JsonWins` |
| `tester_threads` | Do testers leak or share variables, also after a panic? | `MockVarsReclaimed`, `SoleTesterIsolated` |
| `parse_configs` | Does every parse return what the tree determines, with all errors, although calls share and cut one list? | `IndInv`, `FailureExplained`, `OuterErrorsKept`, `ImplementsPromise`, `EveryParseReturns` |
| `decimals` | Are decimals and units read, scaled, rounded and printed exactly, up to the limits of the widths? | `ParsedExactly`, `PrintedParses`, `ProductNearest`, `IntegerNearest`, `UnitsReadBack` |
| `round_trip` | Is a repository that is written as JSON, in any of its forms, read back as the same configs? Do deserializers report all errors, and does coercion of text change the meaning of a param? Does the spelling of a variant? | `CanonicalReparses`, `FailuresReported`, `CoercionAgrees`, `SpellingsAgree`, `CompletenessAgrees` |

Four runs show that the code breaks a sentence of its documentation, a comment or
what its errors and tests say:

| Run | Statement | What happens |
| --- | --- | --- |
| `repo_secrets` | "Values corresponding to secret params are wrapped" | `db_size` of a hierarchical source is moved to `db.size` after secrets have been marked |
| `repo_enum_panic` | `unreachable!(); // Ensured by calls above` | a scalar at an enum config and a variant's content at its alias reach this arm |
| `json_ancestors` | `merge()`: ancestors that are no objects "are replaced with objects" | the direct parent is not: `merge()` panics |
| `decimal_overflow` | digits that do not fit are an error: "too many digits" | each digit times its power of ten is checked, but not its addition to the mantissa: that of the leading digit overflows |

### Bounds

* `schema`: four config types (an enum with coercion, a config flattened into a
  variant, one that clashes), three insertions in any order and repeated, two
  aliases that may be pushed for every config, the coercion flag switched on at
  any moment between two calls. That suffices for a config to be present before,
  within or after its parent, for conflicts at the first and at a later config
  of a call, and for aliases that meet a param. The number of calls is not
  bounded: the state space is finite, since every alias is pushed at most once
  for a config and a present config is not inserted again.
* `repo_app` takes all pairs of sources (`MaxSources = 2`). A third source adds
  nothing that the pairs lack, because the state after two is a tree like that
  after one. Sources are sets of leaves, up to three at once for the new source
  (alias and canonical location, a suffix, a leaf at a config, a pushed alias).
  `repo_shapes`, `repo_secrets` and `repo_enum_panic` take one source: their
  properties are about the preprocessing of a single one, and all iteration
  orders that the schema allows. Items of an array are numbered "0", "00", "1"
  and "2", any of them missing; `Rank` is the order of words as texts, in which
  the last of two spellings of a number wins.
* In the runs of the repository and in the proofs about it, the constant
  `PrefixOrder` lists the prefixes of all configs, in the order of their keys.
  `PrefixesListed` is a guard of opening a repository: a schema with a config at
  any other prefix is not considered.
* `sources`: five locations up to three levels deep and five values, all
  sequences of merges; six process variables of three names, all `.env` files
  of up to two lines out of nine. One source is pushed (`MaxPushed = 1`): a
  source is moved when it is pushed and shares nothing with the next one.
* `tester_threads`: three testers, two threads, two variables (one of which the
  process has), one config type. Two testers overlap on one thread while a third
  is elsewhere or on the same one. Threads and testers are symmetric.
* `parse_configs`: five types with a flattened config, an optional config inside
  an optional config, a nested one with a default, an enum with a config in a
  variant, and two validations; all trees with up to three values, good, bad or
  of the wrong kind, and all sequences of `parse()` and `parse_opt()`.
* `decimals`: widths of 15 and 30 bits instead of 64 and 128, with the same
  relation between them; mantissas at the borders of digits, widths and ties,
  and all texts of up to four symbols. Units have smaller ratios, so that the
  largest unit fits.
* `round_trip`: a config with nineteen params, one for every deserializer and
  its combinations, next to nested, optional and flattened configs, an enum, and
  a config at a renamed location; each param with every value of its list, and
  up to three values of the structure at once; all options of the serializer,
  all orders of configs. The enum has variants of one and of two words, and is
  given names in several cases, with both separators, and with other letters.

Runs with `CHECK_DEADLOCK FALSE` stop on purpose: when the bound on sources is
reached, after a panic, when every tester is gone, when `canonicalize` or a
chain of conversions is at its end.

`CanonicalReparses` leaves out what the code does not promise to keep, each
exception being needed: a config within another one of which nothing is written
because all of it is a default, where the default of the place is another one
(`HasVanished`), the same for a whole config in flat mode (`IsBlank`), and an
infinite number, for which JSON has no word (`HasInfinity`).

### Fairness and liveness

Most operations are calls by the application, which may stop calling; no
fairness is assumed for them. The one liveness property is `EveryParseReturns`:
a call of `parse()` returns. Its fairness is `WF(Step)`, where `Step` is the
disjunction of the statements of a parse: a thread that runs a function without
waiting goes on with it. No fairness is assumed for the next call of the
application.

## 4. Proofs

### Schema

The first half of `ConfigRepository_proofs` is about schemas alone. It proves, for
all metadata, keys, sets of insertions and aliases, and every sequence of calls:
`TypeCorrect`, `PathsAreMounted` (every path of every config, and every path of
its params that does not come from enum coercion, is mounted with the right kind
and types), `NoConflicts` and `MountsOnlyGrow`.

The argument is the inductive invariant `IndInv`. `MountsCover` is not
inductive: `Commit` replaces data of configs by data of the patch, of which it
says nothing. `IndInv` adds that the configs of the patch are covered by the
mounting points of schema and patch together, and that those *extend* the
committed ones. The step for `InsertInner` rests on three lemmas: mounting
extends what is mounted (`MountingExtends`), coverage survives extension
(`CoveredByExtension`), and merged data is covered if both parts are
(`MergedDataCovered`). `NoPathConflicts` follows from `MountsCover`, since the
mounting points are a function: two claims on one path must agree.

It also proves what a schema is made of: `NestedConfigsPresent`,
`ParentLinksResolve`, `CanonicalPathsMarked`, `IterIsComplete`,
`AliasPrioritiesKept`, and `CanonicalPathsFirst` (the first path of a config is
the one it is mounted at, however it got its aliases). `ParentLinksResolve` says
more than that a link leads somewhere: the parent is a config of the schema whose
metadata nests this type just here, so that the link which `push_alias()` writes
over another one is right, too. None of them is inductive, because a call works
on a patch and a stack. `StructureInv` (theorem `StructureHolds`) states what they
owe each other: the nested configs of a config of the patch are in the schema, in
the patch, or still on the stack; parent links of the patch and of the stack
point to configs that are there already; paths of data in the patch continue
those of the schema; between two calls patch and stack are empty.

Two of its theorems have a hypothesis besides the specification, because the
property fails without it:

* `IterListsEachOnce` assumes `InsertedOnce`, which the code states in a comment
  (`schema/mod.rs:650`): no call inserts a config twice. A config type for which
  that is false is described in section 6.
* `NoMountIsStale` (`MountsExplained`) assumes `InsertedOnce` and that enum
  coercion is never switched on (`Coercions \subseteq {FALSE}`). With coercion:
  a config nested in two others is inserted with the first one while the flag is
  off, and with the second one while it is on; an alias pushed for the first one
  puts the stored flag back, and the mounting points of the coerced paths stay.
  TLC checks the property with a flag that is switched on once.

The only assumption on constants is `ConstantsAssumption`: metadata has the
shape the derive macro gives it, and what the application passes are paths.
`MountsCover` leaves out the paths of enum coercion for the same reason as
above: the stored flag of a config need not be the one under which its paths
were mounted.

### Sources

`ValueTree_proofs` is a library about trees: what `EnsureObject`, `ExtendMap`,
`Sub`, `DeepMerge` and `Merge` return, keep and replace, for all trees and
paths. `Sources_proofs` uses it for `PushedAreObjects`, `MergedLastIsThere`,
`MergeKeepsRest`, `CoercionIsComplete`, `MarkedVariablesWin` and
`StripsCommute`. The source that is edited is always a tree with an object at
the root, of which the last value is at its place.

`MergeKeepsRest` and `CoercionIsComplete` speak of one operation each, for any
tree and any set of variables; no run repeats them on an instance.

`StripsCommute` compares two runs of `coerce_json()` on maps with different
names. Its invariant is that the keys of the map are names (`NamesInv`): every
spelling has one reading as words and a suffix, which `Canonical` ensures. From
that follow that cutting a prefix is injective (`WithoutPrefixInjective`), that
it commutes with cutting a suffix (`SuffixKept`), that the marked names before
and after are the same (`StrippedMarked`), and that the entry that wins under a
name is the same one (`CoercedValue`). The exclusion in the property is needed:
the prefix `app_` cuts `app__json` into `_json`, which is no longer marked.

### Repository

`ConfigRepository_proofs` goes on to prove, for all schemas, all sources of all
sizes and all iteration orders:

* `SchemaIsBorrowed`: `RepoSpec => Spec`, so that the theorems about schemas
  hold of the schema of every repository.
* `RepositoryInvariant` and `RepositoryTypeCorrect`: the merged value is a tree
  with an object at its root, whatever was moved, replaced, dropped and merged.
* `RepositoryIsLayered`: `RepoSpec => ImplementsLayers`, the refinement. Each
  source replaces whole params (or non-objects where configs should be) and
  leaves the others alone.
* `GarbageIsCollected`: `NoGarbage`, if no alias is pushed at run time.

The inductive invariant is `RepoInv`: `IndInv` of the schema; its tables are
finite and the root is no canonical param (`TablesInv`); and the merged tree is
*settled*: every value is at, above or below a terminal, a place where the walk
of the garbage collector ends. The argument has three parts.

1. Every pass turns a tree with an object at the root into such a tree, or
   panics (`GoodTree`). Each pass is a loop over configs or params. Induction
   over the loop cannot be had from the library, whose theorem takes an operator
   as an argument; `Visiting_proofs` proves it once, for any `Step` and `Good`
   given as constants (`VisitKeeps`), by contradiction on the least item that
   breaks `Good`, and is instantiated for every pass. What is left is one lemma
   for one item of each (`CopyAliasesGood`, `ConvertGood`, `NestObjectsGood`,
   `NestArrayGood`, `CopyKvGood`, …).
2. Garbage collection leaves a settled tree (`GarbageCollected`), whatever the
   passes before it did.
3. For two settled trees, the terminals of `Merge` are those of the new tree,
   and those of the old one that are not related to them; each keeps its value
   (`MergedUpper`, `MergedLower`, `MergedRest`). That is `Overlay`
   (`MergeIsOverlay`), and the merged tree is settled again (`MergedIsSettled`).

`NoGarbage` follows from `Settled` once all canonical paths belong to params of
configs (`OnlyParamsMarked`). This needs `Aliases = {}`: an alias pushed at run
time makes its first path to a param canonical (`schema/mod.rs:639`), and values
there are kept.

`SourceValues_proofs` follows one value from a source to the param that reads
it, through all passes, whatever the rest of the source is:

* `NewestSourceIsRead`: `RepoSpec => []NewestSourceWins`. If the newest
  hierarchical source has a value at any path of a param, the param reads the
  one at the path with the highest priority, unless there is a config at the
  param or below.
* `NewestEntryIsRead`: `RepoSpec => []NewestEntryWins`, the same of an entry of a
  flat source that is named like the param, whatever else that name and those of
  other entries can be read as.

The inductive invariant adds two facts to `RepoInv`, `StructureInv` and
`CanonicalFirst`: the orders chosen when the repository was opened list every
config (`OrdersListed`), and the merged value has what the newest source says of
each param (`NewestIsRead`). A step to it goes as follows.

1. A pass keeps every value that is not at a config or at an ancestor of one
   (`Keeps`, `Grown`); one lemma for an item of each loop (`MarkSecretsKeeps`,
   `ConvertKeeps`, `NestObjectsKeeps`, `NestArrayKeeps`) and one for each loop.
   Fields are inserted only where there are none (`ExtendMissingKeeps`).
2. So a value that is at its param after the first pass is there after the last
   one. Garbage collection leaves it, since the place is a canonical path
   (`HoldsCollected`), and the merge takes it from the new source (`HoldsRead`).
3. The first pass on a hierarchical source is `copy_aliased_values`. If the
   param has no value at its own path, it gets the value of the first path that
   has one when its config is visited (`CopyAtParam`), and every config is
   visited (`OrderIsComplete`, `ByDepthOrderKeys`). Visits of other configs
   change neither the param nor its aliases (`CopyElsewhere`): this is what the
   hypothesis `Undisturbed` of the property says in terms of the schema, no
   value of another param ends up at, above or below one of these paths.
4. The first pass on a flat source is `nest_kvs`, which starts from an empty
   object and copies each entry to places whose words are its key. Entries come
   in the order of their lengths (`FlattenedOrder`). A later entry is not put
   at a path above the param, because all words of a path are those of the key
   and a longer path has more of them (`WordsGrow`); one at the same path has the
   same words, so that it is the same entry (`KvKeeps`, `KvRun`).

The hypotheses of the properties are needed: at a param that is also a config, or
has configs below it, the library makes an object; a flat entry for a param
below another one turns the value of the upper one into an object.

The assumptions are `ConstantsAssumption`, `WordsAssumption` and
`RepositoryAssumption`: keys are made of words, sources are trees with an object
at the root, and a flat source has finitely many entries.

### Parsing

`Deserialization_proofs` proves, for all config types, trees, params and
validations: `InductiveInvariant`, `TypeCorrect`, `FailuresExplained` and
`ErrorsKept`. `FailureExplained` alone is not inductive: an optional config that
returns `None` cuts the list of errors, and could cut the error that explains
its caller. `IndInv` adds `CallsNest` (the mark at which a call cuts is not
before that of its caller, and a caller that is doomed has an error before the
mark of the call) and `ErrorsWithin` (errors after a mark are within the path of
the call). The assumptions are `CodeAssumption` (the shape of generated code),
`ParserAssumption`, and `DeParamAssumption`: a deserializer returns a value, or at
least one error. The library pushes an error for every failure, and
`FailuresReported` checks it for its own deserializers in `round_trip`.

`ParserKeepsPromise` is the refinement, `Spec => ImplementsPromise`: what a parse
returns is the config and exactly the set of errors that `ParsedConfigs` derives
from the tree. It needs two things.

1. *The promise is well-defined* (`OutcomesDetermined`). `Outcomes` is a function
   that refers to itself at the types nested in a type and at all of infinitely
   many paths; that it has a value must be shown. `NestingAssumption` says that
   types nest acyclically, as metadata constants that refer to one another must.
   Two solutions for some types agree on those that both are for
   (`SolutionsAgree`, by a least type where they do not), so that all of them
   have a union, which is a solution for every type (`SolutionExists`).
2. *The inductive invariant* `PromiseInv`, which TLC has found to hold on the
   instance of `parse_configs`. `IndInv` says where errors are; `PromiseInv` says
   what they are: `KeepsPromise` for every call, the fields it has read have the
   promised values, and its own errors, those between its mark and the mark of
   the call it waits for, are the promised ones; and `Serves`, a call is for the
   field its caller waits for. Errors of a call that becomes `None` lie after
   its mark, so that the cut takes them and no others (`AnswerIs`); what is left
   is what is promised of the caller's field (`CallerKept`). The generic error
   that `ConfigParser` adds to an empty list is never added (`OutermostKept`).
   A config is built only if all of its fields have values; then none of them
   has left an error behind (`FieldGives`), and only validations can fail.

### Decimals and units

`Conversions_proofs` proves, for every width of mantissas and exponents with the
relation that the types of the code have (`DecimalAssumption`), so for 64 and 128
bits, where TLC cannot go:

* `ProductIsNearest`: a product is exact, or is rounded once, half to even, to
  the smallest power of ten with which it fits; and two decimals are equal as
  the code compares them exactly if they are the same number.
* `IntegerIsNearest`: `to_int()` returns the number itself, or the nearest
  integer with ties to the even one; `scale()` is exact or fails; an amount of
  time becomes milliseconds that are off by less than one, although
  `into_duration` rounds twice, and that are exact if they are an integer that
  fits.

Both rest on one invariant (`Answered`): the last answer is that of the function
that was called, on numbers within the widths. The functions are recursive. That
powers of ten (`PowersExist`) and the loop that strips trailing zeros
(`StripExists`) are total is shown by induction on a set of numbers, instantiated
from `Visiting_proofs`; that the number of zeros is the greatest one that divides
follows (`StripCounts`). A product that does not fit is
divided by the least power of ten that makes it fit: `CutExists` shows that there
always is one, and `CutFacts` that the result fits and that one digit more would
not. The neighbours of a rounded number are compared by cross-multiplication
(`RoundedAbove`, `RoundedBelow`, `CutNearest`), so that no fractions are needed.

### Testers

`Tester_proofs` proves, for any number of threads, testers, variables and
configs, and from `TesterAssumption` alone, `TypeCorrect`, `VarsReclaimed` and
`SoleTestersIsolated`. `SoleTesterIsolated` is not inductive: a tester marked as
alone could share its thread with one that sets a variable. `Tester!IndInv` adds
`AloneIsAlone`: a tester so marked is the only one alive on its thread. `Drop`
and `CreatePanics` rest on one lemma (`DropInv`) about any set of testers that is
dropped and any set of guards that clear their threads.

### What is only model-checked, and why

* `TopLevelIsDirect`: a flag that no other proof needs.
* `OrderIndependent` compares two orders of one loop, step by step; the passes
  commute only for configs that do not share a path.
* `ItemsInOrder`: what is at an array param after the passes depends on how other
  params whose names begin alike are nested before.
* `VariantSelected` says which variant a spelled-out enum selects: it depends on
  what alias copying has put at the fields of the *other* variants before, which
  the lemmas about one value do not tell.
* `SecretsWrapped` and `NoPanic`: they hold for flat sources of the instance
  and are false in general, as two of the runs show.
* `ParsedExactly`, `PrintedParses` and `UnitsReadBack` (`decimals`): recursion
  over the digits of a text, which is induction over data.
* The deserializers, visitors and names of variants (`round_trip`): recursion
  over nested types of values, with operators as arguments.
* `EveryParseReturns`: liveness.

## 5. Plan

1. *Repository*: `VariantSelected`, as a lemma about the conversion of enums, and
   then through the other passes with the lemmas of `SourceValues_proofs`.
2. *Order of paths* (`schema/mount.rs`): the range query for key-value forms
   against the set of equivalent paths, which `KvTargets` takes for granted.
3. `convert_flat_params()` in `Environment`; the completeness checker in its
   minimal mode; conversion of floating-point numbers to decimals.

## 6. Disagreements met while modelling

Besides the findings of section 3. Each of these is what the code does; the models
reproduce it unless it lies in a part that is not modelled, and no run is kept
for it.

Schema:

* `insert()` takes for granted that a call never inserts a config twice
  (`schema/mod.rs:650`). A config that flattens two others, each of which nests a
  third one at the same place with different aliases, does: the second data
  replaces the first, whose alias is lost but stays mounted.
* An alias that is pushed for a config makes the configs it nests nested ones,
  also one that was inserted directly before (`schema/mod.rs:569`, against the
  doc at 127).
* The same alias gives them the coercion flag of the aliased config, but only the
  paths under the new alias are checked and mounted (`schema/mod.rs:571`): with a
  config at `a.v.x`, an enum config inserted at `a` without coercion, and a config
  around it inserted with coercion, the alias makes `a.v.x` a spelling of a param.
* `iter()` promises to list a config once; one nested directly and, deeper,
  through a flattened config is listed at two depths (`schema/mod.rs:230`).
* Types that overlap without being equal are rejected (`schema/mod.rs:629`
  against the doc at 437).
* The first path under a pushed alias counts as canonical, so that garbage
  collection keeps values there (`schema/mod.rs:639`).
* `assert_param_against_config` looks at the first alias only, and skips
  path-like ones (`metadata/_private.rs:199`).

Sources and repository:

* "param paths are never empty" (`source/mod.rs:550`): the alias `..` of a param
  of a config one level below the root leads to the root. It is accepted at
  compile time, and every hierarchical source then panics (`LeadsToRoot`).
* A flat source can reach the `unreachable!()` arm of `ensure_object` through a
  param of another variant (`source/mod.rs:1049`).
* A fallback at a location below that of another fallback makes
  `ensure_object()` panic or loses the first, depending on the order of a
  `HashMap` (`fallback.rs:239`).
* One malformed variable undoes all coercions (`source/env.rs:156`, `:162`),
  although the doc says that successful ones are applied (`source/env.rs:137`).
  `with_vars()` does not see mock variables (`source/env.rs:69`).
* A prefix that ends with an underscore takes one of the two from the suffix of
  the variable that is named like the prefix (`source/env.rs:127`): `APP__JSON`
  under `APP_` is the plain variable `_json`, unless it was coerced before.

Parsing and serialization:

* A nested config in hierarchical mode replaces what another one at the same
  location has written (`visit.rs:136`), against the doc of `canonicalize()`
  (`source/mod.rs:325`).
* A difference to the defaults drops an optional config all of whose params are
  defaults, which is then read as `None` (`visit.rs:134`).
* `merge_json` panics if a top-level config is below a param that is written as
  a non-object; an optional config that is `None` is read back as present if
  another config is below its path.
* An optional config becomes `None` also if a field is missing inside a param
  that is present, since the error has the same category (`error.rs:94`); `null`
  for it is an error.
* Floating-point params accept `inf` and are then written as `null`. Sequences
  of pairs lose their order and repeated keys as JSON objects. Integers of 128
  bits beyond 64 bits are read from text, but cannot be written
  (`de/param.rs:287`).
* `null` for a `String` is the text "null". Secret texts are never coerced
  (`de/mod.rs:417`), so that parts of a secret list are not null-like. The empty
  text is a list with one empty item.
* Names of variants with one-letter words are taken for upper case.

Decimals and units:

* `into_duration` rounds twice, and falls back to seconds beyond 64 bits of
  milliseconds; "." and "_" are read as zero; additions of exponents are not
  checked; ether amounts with more than 64 bits and exponents beyond the width
  are printed as texts that cannot be read.

Tester:

* Two testers that are created on a thread before either sets a variable share
  their variables (`testing.rs:79`), although the message of the assertion rules
  out "another `Tester`". Dropping one clears those of both.
* Coercion enabled on a tester does not reach the schema it was created with
  (`testing.rs:563`). The minimal mode reports the tag of an enum with a default
  variant although other params depend on it.

## 7. Not modelled

YAML (a one-time conversion without state), validation (predicates on values),
compile-time assertions of metadata and descriptions, parsing of attributes by
the macros, regular expressions and texts of errors, command-line helpers
(printing), `convert_flat_params`, the minimal mode of the completeness checker,
and `Decimal::from_f64`. Origins of values are left out everywhere: no property
depends on them. The custom order of key-value paths (`schema/mount.rs`) is
modelled by the result of its range query.
