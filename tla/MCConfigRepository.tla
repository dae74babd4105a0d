------------------------- MODULE MCConfigRepository -------------------------
(* Instances of ConfigRepository for model checking. *)
EXTENDS ConfigRepository, FiniteSets

\* Shorthands for keys and metadata.
W(word) == <<word>>

Alias(dots, keys) ==
  [ref |-> [dots |-> dots, keys |-> keys], deprecated |-> FALSE]

Param(name, expecting, aliases) ==
  [name |-> <<name>>, expecting |-> {expecting}, aliases |-> aliases,
   variants |-> <<>>, suffixes |-> {}, secret |-> FALSE, fallback |-> FALSE]

Nested(name, meta, aliases) ==
  [name |-> name, meta |-> meta, aliases |-> aliases, variants |-> <<>>]

Config(params, nested) ==
  [params |-> params, nested |-> nested, tag |-> NoTag]

\* The tree of a source with these leaves; there is none if a leaf is within
\* another one.
Leaf(path, node) == [path |-> path, node |-> node]

IsConsistent(leaves) ==
  \A l1, l2 \in leaves : l1 # l2 => l1.path \notin WithAncestors(l2.path)

TreeOf(leaves) ==
  [path \in {<<>>} \cup UNION {WithAncestors(l.path) : l \in leaves} |->
     IF \E l \in leaves : l.path = path
     THEN (CHOOSE l \in leaves : l.path = path).node
     ELSE Object]

\* Sources with at most n of these leaves.
SmallSourcesOf(leaves, flat, n) ==
  {[contents |-> TreeOf(ls), flat |-> flat] :
     ls \in {ls \in SUBSET leaves : IsConsistent(ls) /\ Cardinality(ls) <= n}}

SourcesOf(leaves, flat) == SmallSourcesOf(leaves, flat, Cardinality(leaves))
-----------------------------------------------------------------------------
\* An application config at "app" with a nested database config, a param
\* with suffixes, and params reached through aliases, one of which may be
\* pushed for either config.
app == W("app")
port == W("port")
bind == W("bind")
db == W("db")
database == W("database")
url == W("url")
cache == W("cache")
ms == W("ms")
junk == W("junk")
old == W("old")
cacheMs == <<"cache", "ms">>
dbUrl == <<"db", "url">>

AppWord == {"app", "port", "bind", "db", "database", "url", "cache", "ms",
            "junk", "old", "0", "1", "2", "00"}
AppIndex == [w \in {"0", "1", "2", "00"} |->
               CASE w = "1" -> 1 [] w = "2" -> 2 [] OTHER -> 0]
AppRank == [w \in {"0", "1", "2", "00"} |->
              CASE w = "0" -> 0 [] w = "00" -> 1 [] w = "1" -> 2 [] w = "2" -> 3]
AppKey == {app, port, bind, db, database, url, cache, ms, junk, old,
           cacheMs, dbUrl}

AppMeta ==
  [ty \in {"App", "Db"} |->
     CASE ty = "App" ->
            Config(<<Param(port, "integer", <<Alias(0, <<bind>>)>>),
                     [Param(cache, "object", <<>>) EXCEPT !.suffixes = {ms}]>>,
                   <<Nested(<<db>>, "Db", <<Alias(0, <<database>>)>>)>>)
       [] ty = "Db" ->
            Config(<<[Param(url, "string", <<Alias(2, <<url>>)>>)
                       EXCEPT !.fallback = TRUE]>>, <<>>)]

AppTypes == DOMAIN AppMeta
AppInsertions == {<< <<app>>, "App">>}
AppPrefixOrder == << <<app>>, <<app, db>> >>
AppAliases == {[path |-> <<old>>, deprecated |-> TRUE]}
NoAliases == {}
NoCoercions == {}
AppProvided == {{}, {<<app, db, url>>}}

AppOldLeaves ==
  {Leaf(<<app, port>>, Str(<<"old", "port">>)),
   Leaf(<<app, cache, junk>>, Str(<<"old", "cache.junk">>)),
   Leaf(<<app, db, junk>>, Str(<<"old", "db.junk">>))}

AppNewLeaves ==
  {Leaf(<<app, port>>, Str(<<"new", "port">>)),
   Leaf(<<app, bind>>, Str(<<"new", "bind">>)),
   Leaf(<<app, cacheMs>>, Str(<<"new", "cache_ms">>)),
   Leaf(<<app, cache>>, Other(<<"new", "cache">>)),
   Leaf(<<app, db>>, Str(<<"new", "db">>)),
   Leaf(<<app, database, url>>, Str(<<"new", "database.url">>)),
   Leaf(<<app, url>>, Str(<<"new", "app.url">>))}

\* At the pushed alias, next to the canonical location.
AppMovedLeaves ==
  {Leaf(<<app, bind>>, Str(<<"new", "bind">>)),
   Leaf(<<old, port>>, Str(<<"new", "old.port">>)),
   Leaf(<<old, db, url>>, Str(<<"new", "old.db.url">>)),
   Leaf(<<old, cache>>, Other(<<"new", "old.cache">>))}

AppSources ==
  SourcesOf(AppOldLeaves, FALSE)
    \cup SmallSourcesOf(AppNewLeaves, FALSE, 3)
    \cup SmallSourcesOf(AppMovedLeaves, FALSE, 3)
-----------------------------------------------------------------------------
\* Several configs at one prefix and names with several readings.  `Common` is
\* flattened into `App`, both have a config at "db" and a param with the alias
\* "bind".  "db_url" can be the param at the root or that of the config at "db";
\* "log_file_size" goes through the location of the param "log".  The enum
\* config with serde-like coercion at "job" has the alias "task"; `ram` and
\* `disk` are its variants.
listen == W("listen")
log == W("log")
file == W("file")
size == W("size")
tags == W("tags")
tags0 == <<"tags", "0">>
tags1 == <<"tags", "1">>
tags2 == <<"tags", "2">>
tags00 == <<"tags", "00">>
dbSize == <<"db", "size">>
logFileSize == <<"log", "file", "size">>
job == W("job")
task == W("task")
kind == W("kind")
ram == W("ram")
disk == W("disk")
mb == W("mb")

ShapesWord ==
  AppWord \cup {"listen", "log", "file", "size", "tags", "job", "task", "kind",
                "ram", "disk", "mb", "path"}
ShapesKey ==
  AppKey \cup {listen, log, file, size, tags, tags0, tags1, tags2, tags00, dbSize,
               logFileSize, job, task, kind, ram, disk, mb, W("path")}

ShapesMeta ==
  [ty \in {"App", "Common", "Db", "Pool", "File", "Job"} |->
     CASE ty = "App" ->
            Config(<<Param(port, "integer", <<Alias(0, <<bind>>)>>),
                     Param(tags, "array", <<>>),
                     Param(dbUrl, "string", <<>>),
                     Param(log, "string", <<>>)>>,
                   <<Nested(<<>>, "Common", <<>>), Nested(<<db>>, "Db", <<>>),
                     Nested(<<job>>, "Job", <<Alias(0, <<task>>)>>)>>)
       [] ty = "Common" ->
            Config(<<Param(listen, "integer", <<Alias(0, <<bind>>)>>),
                     [Param(cache, "object", <<>>) EXCEPT !.suffixes = {ms}]>>,
                   <<Nested(<<db>>, "Pool", <<Alias(0, <<database>>)>>)>>)
       [] ty = "Db" -> Config(<<Param(url, "string", <<>>)>>, <<>>)
       [] ty = "Pool" ->
            Config(<<[Param(size, "string", <<Alias(2, <<size>>)>>)
                        EXCEPT !.secret = TRUE]>>, <<>>)
       [] ty = "File" -> Config(<<Param(size, "integer", <<>>)>>, <<>>)
       [] ty = "Job" ->
            [Config(<<Param(kind, "string", <<>>),
                      [Param(mb, "integer", <<>>) EXCEPT !.variants = <<ram>>],
                      [Param(W("path"), "string", <<>>)
                         EXCEPT !.variants = <<disk>>]>>, <<>>)
             EXCEPT !.tag =
               [param |-> kind,
                variants |-> <<[name |-> ram, fields |-> <<ram>>],
                               [name |-> disk, fields |-> <<disk>>]>>]]]

ShapesTypes == DOMAIN ShapesMeta
ShapesInsertions == {<< <<>>, "App">>, << <<log, file>>, "File">>}
ShapesCoercions == {TRUE}
ShapesPrefixOrder == << <<>>, <<db>>, <<job>>, <<log, file>> >>
NoFallbacks == {{}}

EnvLeaves ==
  {Leaf(<<tags0>>, Str(<<"tags_0">>)),
   Leaf(<<tags1>>, Str(<<"tags_1">>)),
   Leaf(<<cacheMs>>, Str(<<"cache_ms">>)),
   Leaf(<<cache>>, Str(<<"cache">>)),
   Leaf(<<dbUrl>>, Str(<<"db_url">>)),
   Leaf(<<dbSize>>, Str(<<"db_size">>)),
   Leaf(<<log>>, Str(<<"log">>)),
   Leaf(<<logFileSize>>, Str(<<"log_file_size">>))}

\* Items of the array, in order, with gaps, and spelled twice.
ItemLeaves ==
  {Leaf(<<tags0>>, Str(<<"tags_0">>)),
   Leaf(<<tags00>>, Str(<<"tags_00">>)),
   Leaf(<<tags1>>, Str(<<"tags_1">>)),
   Leaf(<<tags2>>, Str(<<"tags_2">>)),
   Leaf(<<tags>>, Other(<<"tags">>))}

FlatLeaves ==
  {Leaf(<<bind>>, Str(<<"bind">>)),
   Leaf(<<listen>>, Str(<<"listen">>)),
   Leaf(<<dbUrl>>, Str(<<"db_url">>)),
   Leaf(<<cacheMs>>, Str(<<"cache_ms">>)),
   Leaf(<<db, size>>, Str(<<"db.size">>)),
   Leaf(<<database, size>>, Str(<<"database.size">>)),
   Leaf(<<size>>, Str(<<"size">>))}

JobLeaves ==
  {Leaf(<<job, ram, mb>>, Str(<<"job.ram.mb">>)),
   Leaf(<<task, ram, mb>>, Str(<<"task.ram.mb">>)),
   Leaf(<<job, disk, W("path")>>, Str(<<"job.disk.path">>)),
   Leaf(<<task, disk>>, Str(<<"task.disk">>)),
   Leaf(<<task, kind>>, Str(<<"task.kind">>)),
   Leaf(<<job, mb>>, Str(<<"job.mb">>))}

ShapesSources ==
  SmallSourcesOf(EnvLeaves, TRUE, 3)
    \cup SourcesOf(ItemLeaves, TRUE)
    \cup SmallSourcesOf(FlatLeaves, FALSE, 3)
    \cup SmallSourcesOf(JobLeaves, FALSE, 3)

\* A non-object at the enum config.
ScalarJobSources == SourcesOf(JobLeaves \cup {Leaf(<<job>>, Str(<<"job">>))}, FALSE)

\* Secret params in hierarchical sources.
JsonSources ==
  SourcesOf({Leaf(<<db, size>>, Str(<<"db.size">>)),
             Leaf(<<dbSize>>, Str(<<"db_size">>)),
             Leaf(<<cacheMs>>, Str(<<"cache_ms">>))}, FALSE)
=============================================================================
