---------------------------- MODULE MCSpecQueries ----------------------------
(***************************************************************************)
(* Two specs: "a" with requirements, tasks and a feature file, "r" with tasks  *)
(* and a roadmap whose node may exceed a page.                               *)
(***************************************************************************)
EXTENDS SpecQueries

MCSpecOrder == <<"a", "r">>
MCPathOrder == <<"AC", "FR", "TASKS", "a.feature", "rROADMAP", "rTASKS">>
MCLocalOrder == <<"AC-1.1", "AC-1.2", "AC", "FR", "TASKS", "a.feature", "rROADMAP", "rTASKS", "FR-1", "FR-2",
                  "ROADMAP", "SCEN-1", "TASK-1", "TASK-2">>
MCSpecOf == [AC |-> "a", FR |-> "a", TASKS |-> "a", rROADMAP |-> "r", rTASKS |-> "r"] @@ ("a.feature" :> "a")
MCDocumentKind == [AC |-> "ACCEPTANCE_CRITERIA", FR |-> "FUNCTIONAL_REQUIREMENTS", TASKS |-> "TASKS", rROADMAP |-> "ROADMAP", rTASKS |-> "TASKS"]
                  @@ ("a.feature" :> "FEATURE")
MCNodeKind == ("AC-1.1" :> "ACCEPTANCE_CRITERION") @@ ("AC-1.2" :> "ACCEPTANCE_CRITERION") @@ ("FR-1" :> "FUNCTIONAL_REQUIREMENT")
              @@ ("FR-2" :> "FUNCTIONAL_REQUIREMENT") @@ ("TASK-1" :> "TASK") @@ ("TASK-2" :> "TASK") @@ ("SCEN-1" :> "SCENARIO")
MCParentOf == ("AC-1.1" :> "FR-1") @@ ("AC-1.2" :> "FR-1")
MCOffset == <<5, 40, 300, 310>>

Def(l) == [is |-> "def", local |-> l, level |-> 2]
Nested(l) == [is |-> "def", local |-> l, level |-> 3]
Plain == [is |-> "heading", level |-> 2]
Ref(s, l, t) == [is |-> "ref", target |-> [spec |-> s, local |-> l], type |-> t]
Bad == [is |-> "bad", level |-> 2]
Doc(n, items) == [bytes |-> n, items |-> items]

\* Documents with and without ambiguous, rejected, forbidden and broken items.
TwoRequirements == Doc(1, <<Def("FR-1"), Def("FR-2")>>)
FirstTwice == Doc(1, <<Def("FR-1"), Def("FR-1"), Def("FR-2")>>)
SecondTwice == Doc(1, <<Def("FR-1"), Def("FR-2"), Def("FR-2")>>)
OnlySecond == Doc(1, <<Bad, Def("FR-2")>>)
Criteria == Doc(1, <<Def("AC-1.1"), Ref("own", "FR-2", "COVERS"), Nested("AC-1.2")>>)
Huge == Doc(5, <<Def("FR-1")>>)
OneTask ==
    Doc(2, <<Def("TASK-1"), Ref("own", "FR-1", "IMPLEMENTS"), Plain, Ref("r", "TASK-1", "DEPENDS_ON")>>)
Tested == Doc(2, <<Def("SCEN-1"), Ref("own", "FR-1", "TESTED_BY"), Ref("own", "FR-2", "TESTED_BY")>>)
Unnamed == Doc(2, <<Bad, Ref("own", "FR-1", "TESTED_BY")>>)
SmallRoadmap == Doc(1, <<>>)
LargeRoadmap == Doc(4, <<Ref("own", "TASK-1", "REFS")>>)
ForeignTask == Doc(2, <<Def("TASK-1"), Ref("a", "FR-1", "IMPLEMENTS"), Ref("a", "FR-1", "REFS")>>)
TwoTasks == Doc(2, <<Def("TASK-1"), Def("TASK-2"), Ref("own", "FR-1", "REFS")>>)
BadReferences == Doc(4, <<Def("TASK-1"), Ref("a", "FR-1", "DEPENDS_ON"), Ref("own", "FR-", "REFS")>>)

MCVariants ==
    [AC |-> {Absent, Criteria}, FR |-> {TwoRequirements, FirstTwice, SecondTwice, OnlySecond, Huge}, TASKS |-> {Absent, OneTask},
     rROADMAP |-> {SmallRoadmap, LargeRoadmap}, rTASKS |-> {ForeignTask, TwoTasks, BadReferences}]
    @@ ("a.feature" :> {Absent, Tested, Unnamed})

Corpus(ac, fr, tasks, feature, roadmap, rtasks) ==
    [AC |-> ac, FR |-> fr, TASKS |-> tasks, rROADMAP |-> roadmap, rTASKS |-> rtasks]
    @@ ("a.feature" :> feature)
MCCorpora ==
    {Corpus(Absent, TwoRequirements, OneTask, Tested, SmallRoadmap, ForeignTask),
     Corpus(Criteria, OnlySecond, Absent, Absent, Absent, Absent)}

FR1 == [spec |-> "a", local |-> "FR-1"]
Find(spec, kinds, n) == [op |-> "findNodes", specs |-> {spec}, kinds |-> kinds, limit |-> n]
Entities == Range(MCNodeKind)
Edges(id, direction, aggregate, n) ==
    [op |-> "getEdges", id |-> id, direction |-> direction, types |-> Range(Types), aggregate |-> aggregate, limit |-> n]
Walks(id, direction, depth, visited, n) ==
    [op |-> "trace", id |-> id, direction |-> direction, types |-> Range(Types), maxDepth |-> depth,
     maxVisited |-> visited, limit |-> n]
Validate(specs, severities, n) == [op |-> "validation", specs |-> specs, severities |-> severities, limit |-> n]

MCLists ==
    {Find("a", Entities, 3), Find("a", Entities, 2), Find("r", {"DOCUMENT", "ROADMAP", "TASK"}, 2),
     Edges(FR1, "both", FALSE, 2), Edges(FR1, "in", TRUE, 1),
     Walks(FR1, "both", 2, 9, 2), Walks(FR1, "both", 3, 3, 9),
     Validate({"a", "r"}, {"WARNING"}, 1), Validate({"r"}, {"ERROR", "WARNING"}, 2),
     [op |-> "inventory", specs |-> {"a", "r"}, limit |-> 1],
     [op |-> "diagnostics", specs |-> {"r"}, severities |-> {"WARNING"}, limit |-> 1],
     [op |-> "listTasks", specs |-> {"r"}, requirement |-> {}, limit |-> 1],
     [op |-> "listTasks", specs |-> {"r"}, requirement |-> {}, limit |-> 2]}
=============================================================================
