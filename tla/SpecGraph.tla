------------------------------ MODULE SpecGraph ------------------------------
(***************************************************************************)
(* The kernel's graph of a corpus (graph/build.js, graph/resolve-edges.js):   *)
(* which documents are accepted, which definitions are elected, and what      *)
(* becomes of every reference.                                               *)
(*                                                                         *)
(* A document is a number of bytes and a sequence of items in the order of    *)
(* their offsets: definitions and rejected ones, which are headings of some    *)
(* level or scenarios (of level 1), other headings, and references.  A        *)
(* definition of a feature file is a scenario; the references that follow it  *)
(* are its tags and steps.  An identity is a spec and a local ID; the         *)
(* generated identity of a document has the document as its local ID.         *)
(* FILE nodes are left out, as no edge meets them, and so are headings and    *)
(* links.                                                                    *)
(***************************************************************************)
EXTENDS Integers, Sequences, FiniteSets, Functions

CONSTANTS
    SpecOrder,      \* the spec slugs, sorted; none is a prefix of another
    PathOrder,      \* the documents, sorted by path
    LocalOrder,     \* local IDs and documents, sorted as strings
    SpecOf,         \* the spec of a document
    DocumentKind,   \* "FEATURE", "ROADMAP" (that of a roadmap spec) or another kind of Markdown
    NodeKind,       \* the kind of a local ID
    ParentOf,       \* the local ID of the parent of an acceptance criterion
    Offset,         \* the offset of the i-th item of a document
    MaxBytes,       \* maxBytesPerDocument
    MaxAggregate,   \* maxAggregateBytes
    MaxDiagnostics  \* maxDiagnostics

Specs == Range(SpecOrder)
Docs == Range(PathOrder)
Locals == DOMAIN NodeKind
Absent == [bytes |-> 0, items |-> <<>>]   \* no such file

Listed(order) == order \in Seq(Range(order)) /\ IsInjective(order)
ASSUME OrdersAssumption ==
    /\ Listed(SpecOrder) /\ Listed(PathOrder) /\ Listed(LocalOrder)
    /\ Offset \in Seq(Nat) /\ IsInjective(Offset)
ASSUME LocalsAssumption == "ROADMAP" \in Range(LocalOrder) /\ Locals \cup Docs \subseteq Range(LocalOrder)
ASSUME DocsAssumption == SpecOf \in [Docs -> Specs] /\ Docs \cap Locals = {} /\ {"none", "ROADMAP"} \cap (Docs \cup Locals) = {}
ASSUME LimitsAssumption == MaxBytes \in Nat /\ MaxAggregate \in Nat /\ MaxDiagnostics \in Nat \ {0, 1}

Types == <<"CONTAINS", "COVERS", "DECLARES", "DEPENDS_ON", "DOCUMENTS", "IMPLEMENTS", "REFS", "TESTED_BY">>
Items ==
    [is : {"def"}, local : Locals, level : Nat]
        \cup [is : {"bad", "heading"}, level : Nat]
        \cup [is : {"ref"}, target : [spec : STRING, local : STRING], type : Range(Types)]
Documents == {x \in [bytes : Nat, items : Seq(Items)] : Len(x.items) <= Len(Offset)}
Ids == [spec : Specs, local : Locals \cup Docs \cup {"ROADMAP"}]

Rank(order, x) == CHOOSE i \in DOMAIN order : order[i] = x
Identity(spec, local) == [spec |-> spec, local |-> local]
IdKey(id) == <<Rank(SpecOrder, id.spec), Rank(LocalOrder, id.local)>>

\* Lexicographic order of tuples of numbers.
Precedes(k, l) == \E i \in DOMAIN k : k[i] < l[i] /\ \A j \in 1 .. i - 1 : k[j] = l[j]

Present(files) == {d \in Docs : files[d] # Absent}

\* The elements of a list that are in a set, in the order of the list.
Within(list, S) ==
    LET within[n \in 0 .. Len(list)] ==
            IF n = 0 THEN <<>>
            ELSE IF list[n] \in S THEN Append(within[n - 1], list[n]) ELSE within[n - 1]
    IN  within[Len(list)]

-----------------------------------------------------------------------------
(* Documents and definitions. *)

\* readRepositorySpecs: one document too large, or all of them together, and nothing
\* is read.
Readable(files) ==
    LET total[n \in 0 .. Len(PathOrder)] ==
            IF n = 0 THEN 0 ELSE total[n - 1] + files[PathOrder[n]].bytes
    IN  /\ \A d \in Docs : files[d].bytes <= MaxBytes
        /\ total[Len(PathOrder)] <= MaxAggregate

\* Mutant: any document is accepted that the aggregate has room for.
AdmitLarge(files, state, d) ==
    IF state.over \/ state.bytes + files[d].bytes > MaxAggregate
    THEN [state EXCEPT !.over = TRUE, !.refused = @ \cup {d}]
    ELSE [state EXCEPT !.bytes = @ + files[d].bytes, !.accepted = @ \cup {d}]
\* One document of the list after another: too large alone, or too large for what
\* is left of the aggregate, after which every document is refused.
Admit(files, state, d) ==
    LET over == state.over \/ state.bytes + files[d].bytes > MaxAggregate
    IN  IF files[d].bytes > MaxBytes
        THEN [state EXCEPT !.large = @ \cup {d}]
        ELSE IF over
        THEN [state EXCEPT !.over = TRUE, !.refused = @ \cup {d}]
        ELSE [state EXCEPT !.bytes = @ + files[d].bytes, !.accepted = @ \cup {d}]

Entries(files) ==
    LET admitted[n \in 0 .. Len(PathOrder)] ==
            IF n = 0 THEN [bytes |-> 0, over |-> FALSE, accepted |-> {}, large |-> {}, refused |-> {}]
            ELSE IF files[PathOrder[n]] = Absent THEN admitted[n - 1]
            ELSE Admit(files, admitted[n - 1], PathOrder[n])
    IN  admitted[Len(PathOrder)]

Places(files, docs, is) ==
    {p \in docs \X DOMAIN Offset :
        p[2] \in DOMAIN files[p[1]].items /\ files[p[1]].items[p[2]].is = is}

Item(files, p) == files[p[1]].items[p[2]]
Defined(files, p) == Identity(SpecOf[p[1]], Item(files, p).local)

\* groups: the places where an identity is defined.
Groups(files, docs) ==
    LET defs == Places(files, docs, "def")
    IN  [id \in {Defined(files, p) : p \in defs} |-> {p \in defs : Defined(files, p) = id}]

\* Mutant: the candidates of all specs for a local ID are counted.
AmbiguousAnywhere(groups) ==
    {id \in DOMAIN groups : Cardinality({other \in DOMAIN groups : other.local = id.local}) >= 2}
\* No candidate of a group of two or more is elected.
Ambiguous(groups) == {id \in DOMAIN groups : Cardinality(groups[id]) >= 2}
Elected(groups) == DOMAIN groups \ Ambiguous(groups)

DocNode(d) == Identity(SpecOf[d], d)
RoadmapNode(d) == Identity(SpecOf[d], "ROADMAP")
Roadmaps(docs) == {d \in docs : DocumentKind[d] = "ROADMAP"}

Nodes(groups, docs) ==
    Elected(groups) \cup {DocNode(d) : d \in docs} \cup {RoadmapNode(d) : d \in Roadmaps(docs)}

KindOf(id) ==
    IF id.local \in Docs THEN "DOCUMENT"
    ELSE IF id.local = "ROADMAP" THEN "ROADMAP"
    ELSE NodeKind[id.local]

-----------------------------------------------------------------------------
(* References. *)

\* The last place before p that holds one of the given kinds of items.
Before(files, p, kinds) ==
    {i \in 1 .. p[2] - 1 : files[p[1]].items[i].is \in kinds}

\* sourceForOffset: the last definition before the reference, if it is elected.
SourceOf(files, nodes, p) ==
    LET before == Before(files, p, {"def"})
        last == CHOOSE i \in before : \A j \in before : j <= i
        source == Defined(files, <<p[1], last>>)
    IN  IF before # {} /\ source \in nodes THEN source ELSE DocNode(p[1])

\* A step or tag belongs to its scenario, elected or not.
ScenarioOf(files, p) ==
    LET before == Before(files, p, {"def", "bad"})
    IN  CHOOSE i \in before : \A j \in before : j <= i

Reference(p, what, source, target, type) ==
    [id |-> <<p[1], p[2], what>>, source |-> source, target |-> target, type |-> type]

\* What a document states itself: DECLARES of its first definitions of elected
\* identities, and its references; those of a rejected scenario are dropped.
References(files, docs, nodes) ==
    LET declared == {p \in Places(files, docs, "def") :
                        /\ DocumentKind[p[1]] # "FEATURE"
                        /\ Defined(files, p) \in nodes
                        /\ \A i \in Before(files, p, {"def"}) :
                               files[p[1]].items[i].local # Item(files, p).local}
        refs == Places(files, docs, "ref")
        markdown == {p \in refs : DocumentKind[p[1]] # "FEATURE"}
        tagged == {p \in refs \ markdown : files[p[1]].items[ScenarioOf(files, p)].is = "def"}
    IN  {Reference(p, "declares", DocNode(p[1]), Defined(files, p), "DECLARES") : p \in declared}
        \cup {Reference(p, "ref", SourceOf(files, nodes, p), Item(files, p).target, Item(files, p).type) :
                 p \in markdown}
        \cup {Reference(p, "ref", Defined(files, <<p[1], ScenarioOf(files, p)>>),
                        Item(files, p).target, Item(files, p).type) : p \in tagged}

Requirements == {"FUNCTIONAL_REQUIREMENT", "NON_FUNCTIONAL_REQUIREMENT"}
EndpointAllowed(type, from, to) ==
    \/ type = "REFS"
    \/ type = "COVERS" /\ from \in {"ACCEPTANCE_CRITERION", "USE_CASE", "USER_STORY"} /\ to \in Requirements
    \/ type = "TESTED_BY" /\ from \in Requirements \cup {"ACCEPTANCE_CRITERION"} /\ to = "SCENARIO"
    \/ type = "IMPLEMENTS" /\ from \in {"TASK", "FILE_CHANGE", "FILE"}
                           /\ to \in Requirements \cup {"ACCEPTANCE_CRITERION"}
    \/ type = "DEPENDS_ON" /\ from = "TASK" /\ to = "TASK"
    \/ type = "DOCUMENTS" /\ from \in {"RESEARCH_FINDING", "DECISION", "FILE_CHANGE", "FIXTURE", "SCHEMA_ENTITY"}
                          /\ to # "DOCUMENT"
    \/ type = "DECLARES" /\ from = "DOCUMENT" /\ to # "DOCUMENT"
    \/ type = "CONTAINS" /\ from = "ROADMAP" /\ to \notin {"ROADMAP", "DOCUMENT"}

\* The reason why a reference stays unresolved, or "RESOLVED".  A bare target has
\* the spec "own".  Generated identities have no group: nobody can refer to them.
TargetOf(ref) ==
    IF ref.target.spec = "own" THEN Identity(SpecOf[ref.id[1]], ref.target.local) ELSE ref.target

\* A scenario names what it tests, in a tag that cannot be qualified; the edge goes
\* from the requirement.
Flipped(ref) ==
    ref.type = "TESTED_BY" /\ KindOf(ref.source) = "SCENARIO" /\ KindOf(TargetOf(ref)) # "SCENARIO"
From(ref) == IF Flipped(ref) THEN TargetOf(ref) ELSE ref.source
To(ref) == IF Flipped(ref) THEN ref.source ELSE TargetOf(ref)

ResolveReference(ref, groups, nodes) ==
    LET target == TargetOf(ref)
        foreign == {id \in DOMAIN groups : id.local = target.local}
    IN  CASE target.local \notin Locals \cup Docs -> "MALFORMED_TARGET"
          [] ref.target.spec = "own" /\ target \notin DOMAIN groups /\ foreign # {} -> "UNQUALIFIED_CROSS_SPEC"
          [] target \notin DOMAIN groups -> "MISSING_TARGET"
          [] target \in Ambiguous(groups) -> "AMBIGUOUS_TARGET"
          [] ref.source \notin nodes -> "REJECTED_SOURCE"
          [] ~EndpointAllowed(ref.type, KindOf(From(ref)), KindOf(To(ref))) -> "FORBIDDEN_ENDPOINT"
          [] OTHER -> "RESOLVED"

Edge(ref) == [id |-> ref.id, from |-> From(ref), to |-> To(ref), type |-> ref.type]

\* The aggregate of a roadmap spec is declared by its document, without resolution.
RoadmapEdges(docs) ==
    {[id |-> <<d, 0, "roadmap">>, from |-> DocNode(d), to |-> RoadmapNode(d), type |-> "DECLARES"] :
        d \in Roadmaps(docs)}

At(i) == IF i = 0 THEN 0 ELSE Offset[i]
EdgeKey(edge) ==
    IdKey(edge.from) \o IdKey(edge.to)
        \o <<Rank(Types, edge.type), Rank(PathOrder, edge.id[1]), At(edge.id[2]),
             IF edge.id[3] = "ref" THEN 1 ELSE 0>>

-----------------------------------------------------------------------------
(* Diagnostics. *)

Codes == <<"AMBIGUOUS_REFERENCE", "BROKEN_REFERENCE", "CORPUS_LIMIT_EXCEEDED", "DIAGNOSTIC_LIMIT_REACHED",
           "DUPLICATE_DEFINITION", "FILE_TOO_LARGE", "FORBIDDEN_EDGE_ENDPOINT", "INVALID_AC_PARENT",
           "MALFORMED_HEADING", "MALFORMED_REFERENCE", "MISSING_SCENARIO_ID", "UNQUALIFIED_CROSS_SPEC_REFERENCE">>
Errors == {"CORPUS_LIMIT_EXCEEDED", "FILE_TOO_LARGE", "MISSING_SCENARIO_ID"}
Severity(code) == IF code \in Errors THEN "ERROR" ELSE "WARNING"

CodeFor(reason) ==
    CASE reason = "MALFORMED_TARGET" -> "MALFORMED_REFERENCE"
      [] reason = "UNQUALIFIED_CROSS_SPEC" -> "UNQUALIFIED_CROSS_SPEC_REFERENCE"
      [] reason \in {"MISSING_TARGET", "REJECTED_SOURCE"} -> "BROKEN_REFERENCE"
      [] reason = "AMBIGUOUS_TARGET" -> "AMBIGUOUS_REFERENCE"
      [] reason = "FORBIDDEN_ENDPOINT" -> "FORBIDDEN_EDGE_ENDPOINT"

Diagnostic(code, d, i) == [code |-> code, doc |-> d, at |-> i]
Overflow == [code |-> "DIAGNOSTIC_LIMIT_REACHED", doc |-> "none", at |-> 0]
DiagnosticKey(g) ==
    <<IF Severity(g.code) = "ERROR" THEN 0 ELSE 1, Rank(Codes, g.code)>>
        \o IF g = Overflow THEN <<Len(PathOrder) + 1, 0>>
           ELSE <<Rank(PathOrder, g.doc), At(g.at)>>

\* The members of a set in the order of their keys.
Sorted(S, key) ==
    LET placed == {[at |-> 1 + Cardinality({y \in S : Precedes(key[y], key[x])}), member |-> x] : x \in S}
    IN  [i \in 1 .. Cardinality(S) |-> (CHOOSE p \in placed : p.at = i).member]

ByIdKey(S) == Sorted(S, [id \in S |-> IdKey(id)])
ByEdgeKey(S) == Sorted(S, [e \in S |-> EdgeKey(e)])
ByDiagnosticKey(S) == Sorted(S, [x \in S |-> DiagnosticKey(x)])

\* The first of a group by path and offset.
Primary(places) ==
    CHOOSE p \in places : \A q \in places :
        q = p \/ Precedes(<<Rank(PathOrder, p[1]), p[2]>>, <<Rank(PathOrder, q[1]), q[2]>>)

Diagnostics(files, entries, groups, nodes, refs) ==
    LET rejected == Places(files, entries.accepted, "bad")
        primaries == {Primary(groups[id]) : id \in Ambiguous(groups)}
        orphans == {id \in Elected(groups) :
                       /\ KindOf(id) = "ACCEPTANCE_CRITERION"
                       /\ Identity(id.spec, ParentOf[id.local]) \notin nodes}
        unresolved == {r \in refs : ResolveReference(r, groups, nodes) # "RESOLVED"}
    IN  {Diagnostic("FILE_TOO_LARGE", d, 0) : d \in entries.large}
        \cup {Diagnostic("CORPUS_LIMIT_EXCEEDED", d, 0) : d \in entries.refused}
        \cup {Diagnostic(IF DocumentKind[p[1]] = "FEATURE" THEN "MISSING_SCENARIO_ID" ELSE "MALFORMED_HEADING",
                         p[1], p[2]) : p \in rejected}
        \cup {Diagnostic("DUPLICATE_DEFINITION", p[1], p[2]) : p \in primaries}
        \cup {Diagnostic("INVALID_AC_PARENT", Primary(groups[id])[1], Primary(groups[id])[2]) : id \in orphans}
        \cup {Diagnostic(CodeFor(ResolveReference(r, groups, nodes)), r.id[1], r.id[2]) : r \in unresolved}

\* Mutant: the notice of the overflow comes on top of the limit.
CappedLate(list) ==
    IF Len(list) <= MaxDiagnostics THEN list
    ELSE Append(SubSeq(list, 1, MaxDiagnostics), Overflow)
\* Past the limit the last diagnostic gives way to the notice of the overflow.
Capped(list) ==
    IF Len(list) <= MaxDiagnostics THEN list
    ELSE Append(SubSeq(list, 1, MaxDiagnostics - 1), Overflow)

\* The fingerprint covers the hashes of all documents that were read, in the order of
\* their paths, which here is what the files hold.
GraphOf(files, entries, groups, nodes, refs) ==
    LET resolved == {r \in refs : ResolveReference(r, groups, nodes) = "RESOLVED"}
    IN  [fingerprint |-> files,
         documents   |-> Present(files),
         accepted    |-> entries.accepted,
         nodes       |-> nodes,
         edges       |-> {Edge(r) : r \in resolved} \cup RoadmapEdges(entries.accepted),
         diagnostics |-> Capped(ByDiagnosticKey(Diagnostics(files, entries, groups, nodes, refs)))]

BuildKernelGraph(files) ==
    LET entries == Entries(files)
        docs == entries.accepted
        groups == Groups(files, docs)
        nodes == Nodes(groups, docs)
    IN  GraphOf(files, entries, groups, nodes, References(files, docs, nodes))
=============================================================================
