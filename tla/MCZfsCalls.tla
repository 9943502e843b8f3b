------------------------------ MODULE MCZfsCalls -----------------------------
(* ZfsCalls for TLC.  Path calls: a pool with two datasets, each object of it whole,    *)
(* unreadable, missing, without its ZAP, or with another bonus.              *)
EXTENDS ZfsCalls

Object(zap, bonus) == [readable |-> TRUE, zap |-> zap, bonus |-> bonus, data |-> TRUE]
None == [type |-> "none"]
Dir(zap, head) == [type |-> "dsl_dir", child_zap |-> zap, head |-> head]
Ds(set) == [type |-> "dsl_dataset", objset |-> set]
Sa(header, words) == [type |-> "sa", header |-> header, words |-> words]
Dirent(t, m, n) == (t * MidSpan + m) * ObjSpan + n
D(o, x) == o :> x
Empty == [n \in {} |-> 0]

\* Dataset <<>> is ds1; dataset <<"a">> is ds2, which shares names with it.
BaseObjects ==
  D(<<"mos", 1>>, Object("root_dataset" :> 2, None))
  @@ D(<<"mos", 2>>, Object(NoZap, Dir(3, 4)))
  @@ D(<<"mos", 3>>, Object("a" :> 5 @@ "f" :> 4, None))
  @@ D(<<"mos", 4>>, Object(NoZap, Ds("ds1")))
  @@ D(<<"mos", 5>>, Object(NoZap, Dir(6, 7)))
  @@ D(<<"mos", 6>>, Object("b" :> 2, None))
  @@ D(<<"mos", 7>>, Object(NoZap, Ds("ds2")))
  @@ D(<<"ds1", 1>>, Object("ROOT" :> 2, None))
  @@ D(<<"ds1", 2>>, Object("a" :> Dirent(4, 1, 3) @@ "f" :> Dirent(8, 0, 4) @@ "s" :> Dirent(10, 0, 5), None))
  @@ D(<<"ds1", 3>>, Object("f" :> Dirent(8, 1, 6) @@ "b" :> Dirent(6, 0, 5) @@ "a" :> Dirent(4, 0, 3), None))
  @@ D(<<"ds1", 4>>, Object(NoZap, Sa(1, <<0, 0, 3>>)))
  @@ D(<<"ds1", 5>>, Object(NoZap, Sa(1, <<0, 0, 1>>)))
  @@ D(<<"ds1", 6>>, Object(NoZap, Sa(2, <<0, 0, 9, 6, 1>>)))
  @@ D(<<"ds2", 1>>, Object("ROOT" :> 3, None))
  @@ D(<<"ds2", 3>>, Object("f" :> Dirent(8, 0, 2), None))
  @@ D(<<"ds2", 2>>, Object(NoZap, Sa(1, <<0, 0, 0>>)))

\* What can be wrong with an object.
Damaged(x) ==
  {[x EXCEPT !.readable = FALSE]}
  \cup (CASE x.zap # NoZap -> {[x EXCEPT !.zap = z] : z \in {NoZap, Empty}}
          [] x.bonus.type = "dsl_dir" -> {[x EXCEPT !.bonus.head = Absent], [x EXCEPT !.bonus = None]}
          [] x.bonus.type = "dsl_dataset" ->
               {[x EXCEPT !.bonus.objset = b] : b \in {Absent, "ds3"}} \cup {[x EXCEPT !.bonus = None]}
          [] x.bonus.type = "sa" ->
               {[x EXCEPT !.bonus.header = 4], [x EXCEPT !.bonus = None], [x EXCEPT !.data = FALSE]})
World(objects) == [objects |-> objects]
MCWorlds ==
  {World(BaseObjects)}
  \cup {World([BaseObjects EXCEPT ![o] = x]) :
          <<o, x>> \in UNION {{o} \X Damaged(BaseObjects[o]) : o \in DOMAIN BaseObjects}}
  \cup {World([p \in DOMAIN BaseObjects \ {o} |-> BaseObjects[p]]) : o \in DOMAIN BaseObjects}
  \cup {World([BaseObjects EXCEPT ![<<"mos", 6>>].readable = FALSE, ![<<"ds1", 3>>].readable = FALSE])}
  \* A file whose contents happen to be those of a ZAP block.
  \cup {World([BaseObjects EXCEPT ![<<"ds1", 4>>].zap = "f" :> Dirent(8, 0, 6)])}

C(op, ds, p, off, len) == [op |-> op, dataset |-> ds, path |-> p, off |-> off, len |-> len]
DatasetPaths == {<<>>, <<"a">>, <<"x">>, <<"a", "b">>}
FilePaths == {<<>>, <<"a">>, <<"f">>, <<"s">>, <<"x">>, <<"a", "f">>, <<"s", "f">>,
              <<"f", "f">>}
MCCalls ==
  {C(op, ds, p, 0, 0) : op \in {"read_dir", "stat", "exists", "read"}, ds \in DatasetPaths, p \in FilePaths}
  \cup {C("read_at", ds, p, off, len) :
          ds \in {<<>>}, p \in {<<>>, <<"f">>, <<"a", "f">>, <<"s">>},
          off \in {0, 1, 3, 7}, len \in {0, 2, 5, 9}}
\* datasets(): every graph of three DSL directories with up to two entries
\* each, trees, cycles and shared directories, one of them perhaps unreadable.
DslEntry(n, o) == [name |-> n, obj |-> o]
EntryLists ==
  {<<>>} \cup {<<DslEntry("a", o)>> : o \in Objects}
  \cup {<<DslEntry("b", p[1]), DslEntry("a", p[2])>> : p \in Objects \X Objects}
  \cup {<<DslEntry("$ORIGIN", o), DslEntry("b", o)>> : o \in {3}}
MCPools ==
  {[o \in Objects |-> [readable |-> o # lost, entries |-> e[o]]] :
     lost \in {0} \cup Objects, e \in [Objects -> EntryLists]}
=============================================================================
