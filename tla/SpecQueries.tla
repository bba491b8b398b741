----------------------------- MODULE SpecQueries -----------------------------
(***************************************************************************)
(* A client that reads the corpus through the query service: the graph is     *)
(* built once and cached until a refresh (adapters/query-service.js), a list   *)
(* is answered page by page, and the client follows the cursors                *)
(* (kernel/query/service.js, kernel/query/extended.js) while documents change: *)
(* by patches and archivals that the graph of the outcome is asked about first *)
(* (authoring/proposals.js; how they are committed is AuthoringTransaction),    *)
(* or past the service.                                                       *)
(***************************************************************************)
EXTENDS SpecGraph, SequencesExt

CONSTANTS
    Variants,    \* the contents a document may have
    Corpora,     \* what the documents hold at first
    Lists,       \* the list queries the client makes
    PageBytes,   \* what a page may hold
    MaxSeen,     \* bound: a client with so many items of a list asks for no more
    MaxPatches,  \* bound: patches and archivals
    MaxEdits     \* bound: documents changed past the service

VARIABLES
    files,    \* the documents on disk
    graph,    \* the cached graph (settled)
    query,    \* the list query the client pages through
    cursor,   \* the cursor it has for the next page
    seen,     \* the items received with it
    due,      \* the whole list when the first page was cut (history)
    reply,    \* "idle", "more", "done", or why the last page was refused
    archived, \* the specs in the archive that were not created again
    patches, edits

vars == <<files, graph, query, cursor, seen, due, reply, archived, patches, edits>>
client == <<query, cursor, seen, due, reply>>

Start == [digest |-> [op |-> "start"]]   \* no cursor
NoQuery == [op |-> "none"]
NoGraph == [state |-> "none"]
Unreadable == [state |-> "error"]
Loaded(g) == g \notin {NoGraph, Unreadable}

\* Every scenario below starts from a corpus that is in order.
InOrder(f) ==
    /\ Readable(f)
    /\ \A p, q \in Places(f, Present(f), "def") : Defined(f, p) = Defined(f, q) => p = q
    /\ \A d \in Docs : DocumentKind[d] = "FEATURE" => Places(f, {d}, "bad") = {}
ASSUME VariantsAssumption == \A d \in Docs : Variants[d] # {} /\ Variants[d] \subseteq Documents
\* Scenarios are defined in feature files alone, and only a bare tag states that one
\* tests a requirement: a qualified tag is a plain reference.
ASSUME TagsAssumption ==
    \A d \in Docs : \A v \in Variants[d] : \A x \in Range(v.items) :
        /\ x.is = "def" /\ NodeKind[x.local] = "SCENARIO" => DocumentKind[d] = "FEATURE"
        /\ x.is = "ref" /\ x.type = "TESTED_BY" /\ DocumentKind[d] = "FEATURE" => x.target.spec = "own"
ASSUME CorporaAssumption ==
    \A f \in Corpora : /\ f = [d \in Docs |-> f[d]] /\ InOrder(f)
                       /\ \A d \in Docs : f[d] \in Variants[d] \cup {Absent}

Queries ==
    [op : {"findNodes"}, specs : SUBSET Specs, kinds : SUBSET STRING, limit : Nat]
        \cup [op : {"getEdges"}, id : Ids, direction : {"in", "out", "both"}, types : SUBSET Range(Types),
              aggregate : BOOLEAN, limit : Nat]
        \cup [op : {"trace"}, id : Ids, direction : {"in", "out", "both"}, types : SUBSET Range(Types),
              maxDepth : Nat, maxVisited : Nat, limit : Nat]
        \cup [op : {"validation", "diagnostics"}, specs : SUBSET Specs, severities : SUBSET {"ERROR", "WARNING"},
              limit : Nat]
        \cup [op : {"inventory"}, specs : SUBSET Specs, limit : Nat]
        \cup [op : {"listTasks"}, specs : SUBSET Specs, requirement : SUBSET Ids, limit : Nat]
ASSUME ListsAssumption == Lists \subseteq Queries
ASSUME BoundsAssumption == {PageBytes, MaxSeen, MaxPatches, MaxEdits} \subseteq Nat

-----------------------------------------------------------------------------
(* The lists. *)

Row(item, key, size) == [item |-> item, key |-> key, size |-> size]

\* A number below 1000 as its decimal digits compare in a string.
Digits(n) ==
    IF n < 10 THEN <<n>>
    ELSE IF n < 100 THEN <<n \div 10, n % 10>>
    ELSE <<n \div 100, (n \div 10) % 10, n % 10>>
Padded(digits) == [i \in 1 .. 3 |-> IF i <= Len(digits) THEN digits[i] ELSE -1]

\* The node of a roadmap carries its whole document, others a section of theirs.
NodeBytes(g, id) ==
    IF KindOf(id) = "ROADMAP"
    THEN g.fingerprint[CHOOSE d \in g.accepted : RoadmapNode(d) = id /\ DocumentKind[d] = "ROADMAP"].bytes
    ELSE 1

FindNodes(g, q) ==
    LET ids == ByIdKey({id \in g.nodes : id.spec \in q.specs /\ KindOf(id) \in q.kinds})
    IN  [i \in DOMAIN ids |-> Row(ids[i], IdKey(ids[i]), NodeBytes(g, ids[i]))]

Incident(g, id, direction, types) ==
    {e \in g.edges : /\ e.type \in types
                     /\ \/ direction # "in" /\ e.from = id
                        \/ direction # "out" /\ e.to = id}

\* The key of an edge holds its offset; keys are compared as JSON texts.
EdgeRow(edge) ==
    LET key == EdgeKey(edge)
    IN  Row(edge, SubSeq(key, 1, 6) \o Padded(Digits(key[7])) \o <<key[8]>>, 1)

GroupKey(group) == IdKey(group.from) \o IdKey(group.to) \o <<Rank(Types, group.type)>>

GetEdges(g, q) ==
    LET edges == Incident(g, q.id, q.direction, q.types)
        group(e) == [from |-> e.from, to |-> e.to, type |-> e.type]
        groups == {group(e) : e \in edges}
        rows == Sorted(groups, [e \in groups |-> GroupKey(e)])
        list == ByEdgeKey(edges)
    IN  IF q.aggregate
        THEN [i \in DOMAIN rows |-> Row(rows[i], GroupKey(rows[i]), 1)]
        ELSE [i \in DOMAIN list |-> EdgeRow(list[i])]

DiagnosticRow(g) ==
    LET key == DiagnosticKey(g)
    IN  Row(g, SubSeq(key, 1, 3) \o Padded(Digits(key[4])), 1)

\* The diagnostics of a scope; of all specs, also the notice of the overflow.
Scoped(g, q) ==
    {x \in Range(g.diagnostics) : q.specs = Specs \/ (x # Overflow /\ SpecOf[x.doc] \in q.specs)}
Matched(g, q) == Within(g.diagnostics, {x \in Scoped(g, q) : Severity(x.code) \in q.severities})
Validation(g, q) == [i \in DOMAIN Matched(g, q) |-> DiagnosticRow(Matched(g, q)[i])]

\* The diagnostics operation filters as a validation does and gives no verdict.
RunDiagnostics(g, q) == Validation(g, q)

\* Mutant: the verdict counts what the filters leave.
VerdictOfMatched(g, q) ==
    IF \E x \in Range(Matched(g, q)) : Severity(x.code) = "ERROR" THEN "INVALID" ELSE "VALID"
Verdict(g, q) ==
    IF \E x \in Scoped(g, q) : Severity(x.code) = "ERROR" THEN "INVALID" ELSE "VALID"

\* The inventory: a row for each spec with a document.  An edge counts where it begins.
SpecsOf(g) == {SpecOf[d] : d \in g.documents}
InventoryOf(g, spec) ==
    LET found == Within(g.diagnostics, {x \in Range(g.diagnostics) : x # Overflow /\ SpecOf[x.doc] = spec})
        errors == Within(found, {x \in Range(found) : Severity(x.code) = "ERROR"})
    IN  [spec      |-> spec,
         valid     |-> errors = <<>>,
         documents |-> Cardinality({d \in g.documents : SpecOf[d] = spec}),
         nodes     |-> Cardinality({id \in g.nodes : id.spec = spec}),
         edges     |-> Cardinality({e \in g.edges : e.from.spec = spec}),
         errors    |-> Len(errors),
         warnings  |-> Len(found) - Len(errors)]

Inventory(g, q) ==
    LET specs == Within(SpecOrder, q.specs \cap SpecsOf(g))
    IN  [i \in DOMAIN specs |-> Row(InventoryOf(g, specs[i]), <<Rank(SpecOrder, specs[i])>>, 1)]

-----------------------------------------------------------------------------
(* Trace: a bounded breadth-first walk. *)

Other(edge, id) == IF edge.from = id THEN edge.to ELSE edge.from

\* One node of a level: its edges are followed unless enough nodes were visited.
Expand(g, q, state, id) ==
    LET new == {Other(e, id) : e \in Incident(g, id, q.direction, q.types)} \ state.visited
    IN  IF Cardinality(state.visited) >= q.maxVisited /\ id # q.id
        THEN [state EXCEPT !.frontier = @ \cup {id}]
        ELSE [state EXCEPT !.visited = @ \cup new, !.next = @ \cup new]

\* One level: its nodes in order; what they lead to is the next level.
Level(g, q, state) ==
    LET ids == ByIdKey(state.next)
        expanded[n \in 0 .. Len(ids)] ==
            IF n = 0 THEN [state EXCEPT !.next = {}] ELSE Expand(g, q, expanded[n - 1], ids[n])
        done == expanded[Len(ids)]
    IN  [done EXCEPT !.list = @ \o ByIdKey(done.next)]

Onward(q, state) == state.next # {} /\ Cardinality(state.visited) < q.maxVisited

\* The walk level by level; a queue that is left over joins the frontier.
Walk(g, q) ==
    LET walk[n \in 0 .. q.maxDepth] ==
            IF n = 0 THEN [visited |-> {q.id}, next |-> {q.id}, frontier |-> {}, list |-> <<q.id>>]
            ELSE IF Onward(q, walk[n - 1]) THEN Level(g, q, walk[n - 1]) ELSE walk[n - 1]
    IN  walk[q.maxDepth]

\* Mutant: the nodes that were not expanded are forgotten.
FrontierSkipped(w) == w.frontier
Frontier(w) == w.frontier \cup w.next

Trace(g, q) ==
    LET ids == Walk(g, q).list
    IN  [i \in DOMAIN ids |-> Row(ids[i], IdKey(ids[i]), 1)]

\* listTasks of extended.js: the tasks of a spec, or those of one requirement.  Its
\* pages have no byte budget.
ListTasks(g, q) ==
    LET requirements(task) == {e.to : e \in {f \in g.edges : /\ f.from = task
                                                            /\ f.type \in {"REFS", "COVERS", "IMPLEMENTS"}
                                                            /\ KindOf(f.to) \in Requirements}}
        tasks == {id \in g.nodes : /\ KindOf(id) = "TASK" /\ id.spec \in q.specs
                                   /\ q.requirement \subseteq requirements(id)}
        ids == ByIdKey(tasks)
    IN  [i \in DOMAIN ids |-> Row(ids[i], IdKey(ids[i]), 0)]

\* Mutant: the edges out of the spec are counted.
DependentsOut(g, spec) == {e.to : e \in {f \in g.edges : f.from.spec = spec /\ f.to.spec # spec}}
\* archivalProof: the edges into a spec from the others.
Dependents(g, spec) == {e.from : e \in {f \in g.edges : f.to.spec = spec /\ f.from.spec # spec}}

-----------------------------------------------------------------------------
(* Pages. *)

Listing(g, q) ==
    CASE q.op = "findNodes" -> FindNodes(g, q)
      [] q.op = "getEdges" -> GetEdges(g, q)
      [] q.op = "trace" -> Trace(g, q)
      [] q.op = "validation" -> Validation(g, q)
      [] q.op = "diagnostics" -> RunDiagnostics(g, q)
      [] q.op = "inventory" -> Inventory(g, q)
      [] q.op = "listTasks" -> ListTasks(g, q)

\* What a cursor is bound to besides the graph: the operation and its filters, not
\* the limit.  listTasks binds its operation alone.
Filters(q) == [q EXCEPT !.limit = 0]
Digest(q) == IF q.op = "listTasks" THEN [op |-> q.op] ELSE Filters(q)

NotAfter(k, l) == k = l \/ Precedes(k, l)
First(S, n) == IF S = {} THEN n ELSE CHOOSE i \in S : \A j \in S : i <= j

\* Mutant: the cursor's own row is served again.
ResumeAt(rows, q, c) ==
    IF c = Start THEN 1
    ELSE IF q.op = "listTasks" THEN c.index
    ELSE First({i \in DOMAIN rows : ~Precedes(rows[i].key, c.key)}, Len(rows) + 1)
\* Mutant: every page is the first.
ResumeAtStart(rows, q, c) == 1
\* Rows are skipped from the start of the list while their key is not after the
\* cursor's; listTasks goes by the index.
Resume(rows, q, c) ==
    IF c = Start THEN 1
    ELSE IF q.op = "listTasks" THEN c.index + 1
    ELSE First({i \in DOMAIN rows : ~NotAfter(rows[i].key, c.key)}, Len(rows) + 1)

\* A page of n rows from the given one fits the limit and the byte budget.
Bytes(rows, from, n) == FoldLeft(LAMBDA sum, row : sum + row.size, 0, SubSeq(rows, from, from + n - 1))
Fits(rows, from, n, limit) ==
    n = 0 \/ (n <= limit /\ from + n - 1 <= Len(rows) /\ Bytes(rows, from, n) <= PageBytes)

\* paginate: a page that ends before the list has a cursor, unless nothing fits.
PageOf(g, q, rows, from, size) ==
    LET last == from + size - 1
    IN  [items |-> [i \in 1 .. size |-> rows[from + i - 1].item],
         more  |-> last < Len(rows),
         next  |-> IF last < Len(rows) /\ size > 0
                   THEN [fingerprint |-> g.fingerprint, digest |-> Digest(q),
                         key |-> rows[last].key, index |-> last]
                   ELSE Start]
PageFrom(g, q, rows, from) ==
    PageOf(g, q, rows, from,
           CHOOSE n \in 0 .. q.limit : Fits(rows, from, n, q.limit) /\ ~Fits(rows, from, n + 1, q.limit))
Page(g, q, c, rows) == PageFrom(g, q, rows, Resume(rows, q, c))

Stale(g, q, c) == c # Start /\ (c.fingerprint # g.fingerprint \/ c.digest # Digest(q))

\* A node must exist, and the specs of a validation must; other lists are empty then.
Found(g, q) ==
    /\ q.op \in {"getEdges", "trace"} => q.id \in g.nodes
    /\ q.op = "validation" /\ q.specs # Specs => q.specs \subseteq SpecsOf(g)

-----------------------------------------------------------------------------
(* The client and the service. *)

\* ensure: the graph is built by the first query, and kept until a refresh, as is the
\* refusal of the reader.
Settle(f) == IF Readable(f) THEN BuildKernelGraph(f) ELSE Unreadable
Ensured == IF graph = NoGraph THEN Settle(files) ELSE graph

Refusal(g, q, c) ==
    IF g = Unreadable THEN "UNREADABLE"
    ELSE IF ~Found(g, q) THEN "NOT_FOUND"
    ELSE IF Stale(g, q, c) THEN "STALE_CURSOR"
    ELSE "none"

\* The rows of a page are added to what was received.
Serve(c, rows, page) ==
    /\ seen' = (IF c = Start THEN <<>> ELSE seen) \o page.items
    /\ due' = IF c = Start THEN rows ELSE due
    /\ cursor' = page.next
    /\ reply' = IF page.next # Start THEN "more" ELSE IF page.more THEN "cut" ELSE "done"

\* executeQuery.
Answer(q, c) ==
    \E g \in {Ensured} :
        /\ graph' = g
        /\ query' = q
        /\ \/ /\ Refusal(g, q, c) # "none"
              /\ reply' = Refusal(g, q, c)
              /\ seen' = <<>> /\ due' = <<>> /\ cursor' = Start
           \/ /\ Refusal(g, q, c) = "none"
              /\ \E rows \in {Listing(g, Filters(q))} : Serve(c, rows, Page(g, q, c, rows))
        /\ UNCHANGED <<files, archived, patches, edits>>

Ask(q) == reply = "idle" /\ Answer(q, Start)

\* The cursor is sent with the same query, or with another of the same operation.
Going == reply = "more" /\ Len(seen) < MaxSeen
Follow(q) == Going /\ q.op = query.op /\ Answer(q, cursor)

\* A client without a cursor forgets what it received.
Forget == query' = NoQuery /\ cursor' = Start /\ seen' = <<>> /\ due' = <<>> /\ reply' = "idle"
Pause == IF reply = "more" THEN UNCHANGED client ELSE Forget
Leave == reply \notin {"idle", "more"} /\ Forget /\ UNCHANGED <<files, graph, archived, patches, edits>>

Edit(d) ==
    /\ edits < MaxEdits
    /\ edits' = edits + 1
    /\ \E v \in Variants[d] : v # files[d] /\ files' = [files EXCEPT ![d] = v]
    /\ Pause
    /\ UNCHANGED <<graph, archived, patches>>

\* refresh and the read that follows it; a patch begins with it, and a refused one ends.
Refresh ==
    /\ graph # NoGraph
    /\ graph' = Settle(files)
    /\ Pause
    /\ UNCHANGED <<files, archived, patches, edits>>

\* What a patch may not add to the diagnostics of the corpus: a finding is known by
\* its code, its document and what it is about.
DefinitionIntegrityCodes == {"MALFORMED_HEADING", "DUPLICATE_DEFINITION"}
About(f, x) == IF x.code = "DUPLICATE_DEFINITION" THEN f[x.doc].items[x.at].local ELSE "heading"

\* Mutant: the findings of a document are counted by their code.
FindingOfDocument(f, x) == [code |-> x.code, doc |-> x.doc]
Finding(f, x) == [code |-> x.code, doc |-> x.doc, about |-> About(f, x)]
Times(f, list, k) ==
    Cardinality({i \in DOMAIN list : list[i].code \in DefinitionIntegrityCodes /\ Finding(f, list[i]) = k})

\* The graph of the outcome must be valid and have no finding more often than before.
Compiles(before, after) ==
    LET old == BuildKernelGraph(before).diagnostics
        new == BuildKernelGraph(after).diagnostics
    IN  \A i \in DOMAIN new :
            /\ Severity(new[i].code) # "ERROR"
            /\ new[i].code \in DefinitionIntegrityCodes =>
                   LET k == Finding(after, new[i]) IN Times(after, new, k) <= Times(before, old, k)

\* A change that was committed, and the refresh after it.
Apply(after) ==
    /\ patches' = patches + 1
    /\ files' = after
    /\ graph' = Settle(after)
    /\ Pause
    /\ UNCHANGED edits

Writable == patches < MaxPatches /\ Readable(files)

Patch(d) ==
    /\ Writable
    /\ \E v \in Variants[d] \ {files[d]} :
           LET after == [files EXCEPT ![d] = v]
           IN  Compiles(files, after) /\ Apply(after)
    /\ UNCHANGED archived

\* createSpec: every document of a spec without a directory, each with a title only.
Skeleton == [bytes |-> 1, items |-> <<>>]
CreateSpec(spec) ==
    LET after == [d \in Docs |-> IF SpecOf[d] = spec THEN Skeleton ELSE files[d]]
    IN  /\ Writable
        /\ \A d \in Present(files) : SpecOf[d] # spec
        /\ Compiles(files, after) /\ Apply(after)
        /\ archived' = archived \ {spec}

\* removeEntityBlock: a definition goes with all up to the next heading of the first
\* two levels, which the definition of a criterion need not be; a scenario, with all
\* up to the next one.
WithoutBlock(items, at) ==
    LET end == First({i \in at + 1 .. Len(items) : items[i].is # "ref" /\ items[i].level <= 2}, Len(items) + 1)
    IN  SubSeq(items, 1, at - 1) \o SubSeq(items, end, Len(items))

\* deleteEntity; only by force, when edges meet the entity.
DeleteEntity(spec) ==
    LET fresh == BuildKernelGraph(files)
    IN  /\ Writable
        /\ \E id \in {n \in fresh.nodes : n.spec = spec /\ KindOf(n) \notin {"DOCUMENT", "ROADMAP"}},
              force \in BOOLEAN :
               /\ force \/ \A e \in fresh.edges : id \notin {e.from, e.to}
               /\ \E p \in Groups(files, fresh.accepted)[id] :
                      LET after == [files EXCEPT ![p[1]].items = WithoutBlock(@, p[2])]
                      IN  Compiles(files, after) /\ Apply(after)
        /\ UNCHANGED archived

Without(f, spec) == [d \in Docs |-> IF SpecOf[d] = spec THEN Absent ELSE f[d]]
Archive(spec) ==
    LET fresh == BuildKernelGraph(files)
    IN  /\ Writable
        /\ \E id \in fresh.nodes : id.spec = spec
        /\ Dependents(fresh, spec) = {}
        /\ Apply(Without(files, spec))
        /\ archived' = archived \cup {spec}

Init ==
    /\ files \in Corpora
    /\ graph = NoGraph /\ query = NoQuery /\ cursor = Start
    /\ seen = <<>> /\ due = <<>> /\ reply = "idle" /\ archived = {} /\ patches = 0 /\ edits = 0

Next ==
    \/ \E q \in Lists : Ask(q) \/ Follow(q)
    \/ \E d \in Docs : Edit(d) \/ Patch(d)
    \/ \E s \in Specs : Archive(s) \/ CreateSpec(s) \/ DeleteEntity(s)
    \/ Refresh \/ Leave

Spec == Init /\ [][Next]_vars

\* A client that has a cursor goes on with the query it made.  This is weak fairness
\* of Follow(query), spelled out, as Going is when that is enabled.
FairSpec == Spec /\ ([]<>~Going \/ []<><<Follow(query)>>_vars)

-----------------------------------------------------------------------------
(* Properties. *)

\* The variables have their types.
TypeOK ==
    /\ \A d \in Docs : \/ files[d] = Absent
                         \/ \E v \in Variants[d] : Range(files[d].items) \subseteq Range(v.items)
    /\ Loaded(graph) => /\ graph.accepted = graph.documents
                        /\ \A e \in graph.edges : {e.from, e.to} \subseteq graph.nodes
                        /\ Len(graph.diagnostics) <= MaxDiagnostics
    /\ query \in Lists \cup {NoQuery}
    /\ reply \in {"idle", "more", "done", "cut", "STALE_CURSOR", "NOT_FOUND", "UNREADABLE"}
    /\ (cursor # Start) = (reply = "more")
    /\ archived \subseteq Specs
    /\ patches \in 0 .. MaxPatches /\ edits \in 0 .. MaxEdits

InKeyOrder(rows) == \A i \in 1 .. Len(rows) - 1 : Precedes(rows[i].key, rows[i + 1].key)

\* A client that follows the cursors of a list receives its items one after the
\* other, none twice and none left out, up to the last, however documents and the
\* cached graph change in between: otherwise it is refused or told that the list is
\* cut.  (paginate)
ListedAll ==
    LET items == [i \in DOMAIN due |-> due[i].item]
    IN  /\ reply \in {"more", "done", "cut"} => IsPrefix(seen, items)
        /\ reply = "done" => seen = items

\* The same for the lists whose rows are in the order of the cursors' keys.
ListedOnce == InKeyOrder(due) => ListedAll

\* Following cursors over such a list comes to an end.
ChainEnds == (reply = "more" /\ InKeyOrder(due)) ~> (reply # "more")

\* A trace visits what its depth reaches, all of it unless the number of visits ends
\* it, and every visited node with a neighbour that was not visited is on the
\* frontier.  (runTrace)
Neighbours(g, q, ids) ==
    UNION {{Other(e, id) : e \in Incident(g, id, q.direction, q.types)} : id \in ids}
Reach(g, q) ==
    LET reach[n \in 0 .. q.maxDepth] ==
            IF n = 0 THEN {q.id} ELSE reach[n - 1] \cup Neighbours(g, q, reach[n - 1])
    IN  reach[q.maxDepth]
TraceCovers ==
    \A q \in Lists : (q.op = "trace" /\ Loaded(graph) /\ query = q /\ q.id \in graph.nodes) =>
        LET w == Walk(graph, q)
        IN  /\ w.visited \subseteq Reach(graph, q)
            /\ Cardinality(w.visited) < q.maxVisited => w.visited = Reach(graph, q)
            /\ \A id \in w.visited :
                   id \in Frontier(w) \/ Neighbours(graph, q, {id}) \subseteq w.visited

\* A scope of specs (all of them stand for the corpus) is called valid only if no
\* scenario of theirs was rejected, whatever the filters hide, unless errors were
\* cut off.  (runValidation)
VerdictIsWhole ==
    \A q \in Lists :
        (/\ q.op = "validation" /\ query = q /\ Loaded(graph)
         /\ Verdict(graph, q) = "VALID"
         /\ q.specs = Specs \/ Len(graph.diagnostics) < MaxDiagnostics) =>
        \A d \in graph.documents :
            SpecOf[d] \in q.specs /\ DocumentKind[d] = "FEATURE" => Places(graph.fingerprint, {d}, "bad") = {}

\* What goes through the service leaves a corpus in order as it found it: the reader
\* does not refuse the outcome, no scenario of it is rejected, and no definition is
\* ambiguous.  (ProposalCompiler.compile against readRepositorySpecs)  A duplicate
\* that the limit on diagnostics cuts off is not seen.
StaysInOrder ==
    [][(/\ patches' # patches /\ InOrder(files)
        /\ ~(Loaded(graph') /\ Overflow \in Range(graph'.diagnostics))) => InOrder(files')]_vars

\* A patch never makes a definition ambiguous: what the corpus still defines after
\* it and had a node before has one after, also in a corpus that was not in order.
PatchKeepsDefinitions ==
    [][(patches' # patches /\ Overflow \notin Range(graph'.diagnostics)) =>
           LET before == Groups(files, Present(files))
               after == Groups(files', Present(files'))
           IN  Elected(before) \cap DOMAIN after \subseteq Elected(after)]_vars

\* An archival loses no edge that another spec states: nothing there ends at what is
\* gone.  (archivalReferences)
ArchiveBreaksNothing ==
    [][archived' # archived =>
           {e \in BuildKernelGraph(files).edges : SpecOf[e.id[1]] \notin archived'}
               \subseteq graph'.edges]_vars

\* Changing one spec leaves the edges among the others as they were.
EdgesAmong(g, specs) ==
    {e \in g.edges : {SpecOf[e.id[1]], e.from.spec, e.to.spec} \subseteq specs}
StayLocal ==
    (Loaded(graph) /\ Loaded(graph')) =>
        LET others == {s \in Specs : \A d \in Docs :
                          SpecOf[d] = s => graph.fingerprint[d] = graph'.fingerprint[d]}
        IN  EdgesAmong(graph, others) = EdgesAmong(graph', others)
EditsStayLocal == [][StayLocal]_vars
=============================================================================
