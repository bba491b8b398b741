-------------------------- MODULE SpecQueriesProofs ---------------------------
(***************************************************************************)
(* What SpecQueries keeps for any specs, documents, variants and limits.        *)
(*                                                                         *)
(* The inductive invariant is Basis: the documents hold items of their         *)
(* variants (FilesOK), the cached graph is the graph of some such corpus that  *)
(* the reader took (GraphOK), and the client has a cursor exactly between two   *)
(* pages (ClientOK).  The type invariant, VerdictIsWhole and TraceCovers        *)
(* follow from it without a look at the steps; the action properties follow    *)
(* from it and from what compiles, as every graph the steps compare is that of  *)
(* a corpus.  ListedOnce needs ClientServed too: the cursor stands for a graph  *)
(* of which the list is the answer, and for the rows that were received.       *)
(***************************************************************************)
EXTENDS SpecQueries, SpecGraphProofs, SequenceTheorems

\* What a document may hold in the course of the run.
Contents(d) ==
    {x \in Documents : x = Absent \/ \E v \in Variants[d] : Range(x.items) \subseteq Range(v.items)}
FilesOK(f) == f = [d \in Docs |-> f[d]] /\ \A d \in Docs : f[d] \in Contents(d)
GraphOK(g) == Loaded(g) => /\ FilesOK(g.fingerprint) /\ Readable(g.fingerprint)
                           /\ g = BuildKernelGraph(g.fingerprint)

\* The files are a corpus.
LEMMA FilesCorpus == ASSUME NEW f, FilesOK(f) PROVE Corpus(f)
  BY DEF FilesOK, Corpus, Contents

\* An absent document and a new one are contents,
LEMMA EmptyContents == ASSUME NEW d \in Docs PROVE Absent \in Contents(d) /\ Skeleton \in Contents(d)
  <1>1. <<>> \in Seq(Items) /\ Len(<<>>) = 0 /\ Range(<<>>) = {} /\ 0 <= Len(Offset)
    BY OffsetsListed DEF Range
  <1>2. Absent \in Documents /\ Skeleton \in Documents
    BY <1>1 DEF Documents, Absent, Skeleton
  <1>3. Variants[d] # {}
    BY VariantsAssumption
  <1> QED BY <1>1, <1>2, <1>3 DEF Contents, Skeleton

\* as are the variants.
LEMMA VariantContents == ASSUME NEW d \in Docs, NEW v \in Variants[d] PROVE v \in Contents(d)
  BY VariantsAssumption DEF Contents

\* The first of some numbers of a range, or the number past it.
LEMMA FirstAfter ==
    ASSUME NEW n \in Nat, NEW from \in Nat, from <= n + 1, NEW S \in SUBSET (from .. n)
    PROVE  First(S, n + 1) \in from .. n + 1 /\ (S # {} => First(S, n + 1) \in S /\ \A j \in S : First(S, n + 1) <= j)
  <1>1. CASE S = {}
    BY <1>1 DEF First
  <1>2. CASE S # {}
    <2>1. S \in SUBSET Nat
      OBVIOUS
    <2>2. \E x \in S : \A y \in S : x <= y
      BY <1>2, <2>1, Least
    <2>3. First(S, n + 1) \in S /\ \A j \in S : First(S, n + 1) <= j
      BY <1>2, <2>2 DEF First
    <2>4. First(S, n + 1) \in from .. n
      BY <2>3
    <2>5. from .. n \subseteq from .. n + 1
      OBVIOUS
    <2> QED BY <2>3, <2>4, <2>5
  <1> QED BY <1>1, <1>2

\* A part of a list.
LEMMA SubSequence ==
    ASSUME NEW S, NEW list \in Seq(S), NEW from \in Nat, NEW to \in Nat, from >= 1, to <= Len(list), from <= to + 1,
           NEW b, b = SubSeq(list, from, to)
    PROVE  b \in Seq(S) /\ Len(b) = to - from + 1 /\ \A i \in 1 .. to - from + 1 : b[i] = list[from + i - 1]
  <1>1. \A i \in from .. to : list[i] \in S
    OBVIOUS
  <1>2. from \in Int /\ to \in Int
    OBVIOUS
  <1>3. /\ SubSeq(list, from, to) \in Seq(S)
        /\ Len(SubSeq(list, from, to)) = IF from <= to THEN to - from + 1 ELSE 0
        /\ \A i \in 1 .. to - from + 1 : SubSeq(list, from, to)[i] = list[from + i - 1]
    BY <1>1, <1>2, SubSeqProperties
  <1>4. /\ b \in Seq(S) /\ Len(b) = (IF from <= to THEN to - from + 1 ELSE 0)
        /\ \A i \in 1 .. to - from + 1 : b[i] = list[from + i - 1]
    BY <1>3, Zenon
  <1> QED BY <1>4

\* c is the list a followed by the list b.
Chained(a, b, c) ==
    /\ Len(c) = Len(a) + Len(b) /\ DOMAIN c = 1 .. Len(a) + Len(b)
    /\ \A i \in 1 .. Len(a) + Len(b) : c[i] = IF i <= Len(a) THEN a[i] ELSE b[i - Len(a)]

\* Two lists one after the other.
LEMMA Concatenated ==
    ASSUME NEW S, NEW a \in Seq(S), NEW b \in Seq(S)
    PROVE  Joined(a, b) \in Seq(S) /\ Chained(a, b, Joined(a, b))
  <1>1. /\ a \o b \in Seq(S) /\ Len(a \o b) = Len(a) + Len(b)
        /\ \A i \in 1 .. Len(a) + Len(b) : (a \o b)[i] = IF i <= Len(a) THEN a[i] ELSE b[i - Len(a)]
    BY ConcatProperties, Zenon
  <1> DEFINE c == Joined(a, b)
  <1>2. /\ c \in Seq(S) /\ Len(c) = Len(a) + Len(b)
        /\ \A i \in 1 .. Len(a) + Len(b) : c[i] = IF i <= Len(a) THEN a[i] ELSE b[i - Len(a)]
    BY <1>1, Zenon DEF Joined
  <1> HIDE DEF c
  <1>3. DOMAIN c = 1 .. Len(a) + Len(b)
    BY <1>2
  <1>4. Chained(a, b, c)
    BY <1>2, <1>3, Zenon DEF Chained
  <1> QED BY <1>2, <1>4, Zenon DEF c

\* What is left of the items without a block are items of the document.
LEMMA WithoutBlockTypes ==
    ASSUME NEW items \in Seq(Items), NEW at \in DOMAIN items
    PROVE  /\ WithoutBlock(items, at) \in Seq(Items) /\ Len(WithoutBlock(items, at)) <= Len(items)
           /\ Range(WithoutBlock(items, at)) \subseteq Range(items)
  <1>1. PICK N \in Nat : N = Len(items)
    OBVIOUS
  <1>2. at \in 1 .. N /\ DOMAIN items = 1 .. N
    BY <1>1
  <1>3. PICK end \in at + 1 .. N + 1 :
            end = First({i \in at + 1 .. N : items[i].is # "ref" /\ items[i].level <= 2}, N + 1)
    <2>1. PICK S \in SUBSET (at + 1 .. N) : S = {i \in at + 1 .. N : items[i].is # "ref" /\ items[i].level <= 2}
      OBVIOUS
    <2>2. at + 1 \in Nat /\ at + 1 <= N + 1
      BY <1>2
    <2>3. First(S, N + 1) \in at + 1 .. N + 1
      BY <2>2, FirstAfter
    <2> QED BY <2>1, <2>3
  <1>4. WithoutBlock(items, at) = SubSeq(items, 1, at - 1) \o SubSeq(items, end, N)
    BY <1>1, <1>3 DEF WithoutBlock
  <1>5. PICK a : a = SubSeq(items, 1, at - 1)
    OBVIOUS
  <1>6. PICK b : b = SubSeq(items, end, N)
    OBVIOUS
  <1>7. a \in Seq(Items) /\ Len(a) = at - 1 /\ \A i \in 1 .. at - 1 : a[i] = items[i]
    <2>1. at - 1 \in Nat /\ 1 \in Nat /\ 1 >= 1 /\ at - 1 <= Len(items) /\ 1 <= (at - 1) + 1
      BY <1>1, <1>2
    <2>2. a \in Seq(Items) /\ Len(a) = at - 1 - 1 + 1 /\ \A i \in 1 .. at - 1 - 1 + 1 : a[i] = items[1 + i - 1]
      BY <1>5, <2>1, SubSequence
    <2> QED BY <1>2, <2>2
  <1>8. b \in Seq(Items) /\ Len(b) = N - end + 1 /\ \A i \in 1 .. N - end + 1 : b[i] = items[end + i - 1]
    <2>1. end \in Nat /\ N \in Nat /\ end >= 1 /\ N <= Len(items) /\ end <= N + 1
      BY <1>1, <1>2, <1>3
    <2> QED BY <1>6, <2>1, SubSequence
  <1>9. PICK c : c = a \o b
    OBVIOUS
  <1>10. c \in Seq(Items) /\ Len(c) = (at - 1) + (N - end + 1) /\ DOMAIN c = 1 .. Len(c)
         /\ \A i \in 1 .. Len(c) : c[i] = IF i <= at - 1 THEN a[i] ELSE b[i - (at - 1)]
    <2>1. c = Joined(a, b) /\ a \in Seq(Items) /\ b \in Seq(Items)
      BY <1>7, <1>8, <1>9, Zenon DEF Joined
    <2>2. c \in Seq(Items) /\ Chained(a, b, c)
      BY <2>1, Concatenated
    <2> QED BY <1>7, <1>8, <2>2, Zenon DEF Chained
  <1>11. Len(c) <= N
    BY <1>2, <1>3, <1>10
  <1>12. \A i \in 1 .. Len(c) : \E j \in 1 .. N : c[i] = items[j]
    <2> TAKE i \in 1 .. Len(c)
    <2>1. CASE i <= at - 1
      <3>1. i \in 1 .. at - 1 /\ i \in 1 .. N
        BY <1>2, <2>1
      <3> QED BY <1>7, <1>10, <2>1, <3>1
    <2>2. CASE ~(i <= at - 1)
      <3>1. i - (at - 1) \in 1 .. N - end + 1 /\ end + (i - (at - 1)) - 1 \in 1 .. N
        BY <1>2, <1>3, <1>10, <2>2
      <3> QED BY <1>8, <1>10, <2>2, <3>1
    <2> QED BY <2>1, <2>2
  <1>13. Range(c) \subseteq Range(items)
    <2>1. Range(c) = {c[i] : i \in 1 .. Len(c)} /\ Range(items) = {items[i] : i \in 1 .. N}
      BY <1>2, <1>10, Zenon DEF Range
    <2> QED BY <1>12, <2>1, Zenon
  <1>14. WithoutBlock(items, at) = c
    BY <1>4, <1>5, <1>6, <1>9
  <1> QED BY <1>1, <1>10, <1>11, <1>13, <1>14

\* A document without a block is a content of it.
LEMMA DeletedContents ==
    ASSUME NEW d \in Docs, NEW x \in Contents(d), NEW at \in DOMAIN x.items
    PROVE  [x EXCEPT !.items = WithoutBlock(@, at)] \in Contents(d)
  <1>1. x \in Documents /\ x.bytes \in Nat /\ x.items \in Seq(Items) /\ Len(x.items) <= Len(Offset)
    BY DEF Contents, Documents
  <1>2. PICK w : w = WithoutBlock(x.items, at)
    OBVIOUS
  <1>3. w \in Seq(Items) /\ Len(w) <= Len(x.items) /\ Range(w) \subseteq Range(x.items)
    BY <1>1, <1>2, WithoutBlockTypes
  <1>4. PICK y : y = [x EXCEPT !.items = w]
    OBVIOUS
  <1>5. y.bytes = x.bytes /\ y.items = w /\ y \in [bytes : Nat, items : Seq(Items)]
    BY <1>1, <1>3, <1>4 DEF Documents
  <1>6. y \in Documents
    <2>1. Len(w) <= Len(Offset)
      BY <1>1, <1>3, OffsetsListed
    <2> QED BY <1>5, <2>1 DEF Documents
  <1>7. x = Absent => Range(w) = {}
    BY <1>3 DEF Absent, Range
  <1>8. y \in Contents(d)
    <2>1. CASE x = Absent
      <3>1. Variants[d] # {}
        BY VariantsAssumption
      <3> QED BY <1>5, <1>6, <1>7, <2>1, <3>1 DEF Contents
    <2>2. CASE x # Absent
      <3>1. PICK v \in Variants[d] : Range(x.items) \subseteq Range(v.items)
        BY <2>2 DEF Contents
      <3> QED BY <1>3, <1>5, <1>6, <3>1 DEF Contents
    <2> QED BY <2>1, <2>2
  <1> QED BY <1>2, <1>4, <1>8

\* The files after each kind of change are files of the same documents.
LEMMA ReplacedOK ==
    ASSUME NEW f, FilesOK(f), NEW d \in Docs, NEW x \in Contents(d) PROVE FilesOK([f EXCEPT ![d] = x])
  <1>1. PICK h : h = [f EXCEPT ![d] = x]
    OBVIOUS
  <1>2. DOMAIN f = Docs
    BY DEF FilesOK
  <1>3. h = [c \in Docs |-> IF c = d THEN x ELSE f[c]]
    BY <1>1, <1>2
  <1>4. FilesOK(h)
    BY <1>3 DEF FilesOK
  <1> QED BY <1>1, <1>4

LEMMA DeletedOK ==
    ASSUME NEW f, FilesOK(f), NEW d \in Docs, NEW at \in DOMAIN f[d].items
    PROVE  FilesOK([f EXCEPT ![d].items = WithoutBlock(@, at)])
  <1>1. PICK x \in Contents(d) : x = f[d]
    BY DEF FilesOK
  <1>2. PICK y \in Contents(d) : y = [x EXCEPT !.items = WithoutBlock(@, at)]
    BY <1>1, DeletedContents
  <1>3. [f EXCEPT ![d].items = WithoutBlock(@, at)] = [f EXCEPT ![d] = y]
    BY <1>1, <1>2 DEF FilesOK
  <1> QED BY <1>3, ReplacedOK

LEMMA CreatedOK ==
    ASSUME NEW f, FilesOK(f), NEW spec
    PROVE  /\ FilesOK([d \in Docs |-> IF SpecOf[d] = spec THEN Skeleton ELSE f[d]])
           /\ FilesOK(Without(f, spec))
  <1>1. \A d \in Docs : Absent \in Contents(d) /\ Skeleton \in Contents(d)
    BY EmptyContents
  <1>2. \A d \in Docs : f[d] \in Contents(d)
    BY DEF FilesOK
  <1> QED BY <1>1, <1>2 DEF FilesOK, Without

\* What is cached is nothing, a refusal, or the graph of a corpus.
LEMMA SettledOK == ASSUME NEW f, FilesOK(f) PROVE GraphOK(Settle(f))
  <1>1. CASE Readable(f)
    <2>1. Settle(f) = BuildKernelGraph(f)
      BY <1>1 DEF Settle
    <2>2. BuildKernelGraph(f).fingerprint = f
      BY Built
    <2> QED BY <1>1, <2>1, <2>2 DEF GraphOK
  <1>2. CASE ~Readable(f)
    BY <1>2 DEF Settle, GraphOK, Loaded
  <1> QED BY <1>1, <1>2

\* A graph is a loaded one.
LEMMA BuiltLoaded == ASSUME NEW f PROVE Loaded(BuildKernelGraph(f))
  <1>1. BuildKernelGraph(f) = GraphOf(f, Entries(f), GroupsOf(f), NodesOf(f), RefsOf(f))
    BY DEF BuildKernelGraph, GroupsOf, NodesOf, RefsOf, Accepted
  <1>2. DOMAIN BuildKernelGraph(f) = {"fingerprint", "documents", "accepted", "nodes", "edges", "diagnostics"}
    BY <1>1 DEF GraphOf
  <1>3. "state" \in DOMAIN NoGraph /\ "state" \in DOMAIN Unreadable
    BY DEF NoGraph, Unreadable
  <1>4. "state" \notin DOMAIN BuildKernelGraph(f)
    BY <1>2
  <1> QED BY <1>3, <1>4 DEF Loaded

\* What every loaded graph has.
LEMMA LoadedGraph ==
    ASSUME NEW g, GraphOK(g), Loaded(g)
    PROVE  /\ Corpus(g.fingerprint) /\ Readable(g.fingerprint) /\ g = BuildKernelGraph(g.fingerprint)
           /\ g.documents = Present(g.fingerprint) /\ g.accepted = Present(g.fingerprint)
           /\ Accepted(g.fingerprint) = Present(g.fingerprint)
           /\ g.nodes = NodesOf(g.fingerprint) /\ g.edges = BuiltEdges(g.fingerprint)
           /\ \A e \in g.edges : EdgeShape(g.accepted, g.nodes, e)
           /\ g.nodes \in SUBSET Ids /\ IsFiniteSet(g.nodes) /\ IsFiniteSet(g.edges)
           /\ Len(g.diagnostics) <= MaxDiagnostics
  <1>1. PICK f : f = g.fingerprint
    OBVIOUS
  <1>2. FilesOK(f) /\ Readable(f) /\ g = BuildKernelGraph(f)
    BY <1>1 DEF GraphOK
  <1>3. Corpus(f)
    BY <1>2, FilesCorpus
  <1>4. Accepted(f) = Present(f)
    BY <1>2, <1>3, CorpusSized, ReadableEntered DEF Accepted
  <1>5. /\ g.documents = Present(f) /\ g.accepted = Accepted(f) /\ g.nodes = NodesOf(f) /\ g.edges = BuiltEdges(f)
    BY <1>2, Built
  <1>6. (\A e \in BuiltEdges(f) : EdgeShape(Accepted(f), NodesOf(f), e)) /\ IsFiniteSet(BuiltEdges(f))
    BY <1>3, BuiltEdgeTypes
  <1>7. NodesOf(f) \in SUBSET Ids /\ IsFiniteSet(NodesOf(f))
    BY <1>3, BuiltNodes
  <1>8. Len(g.diagnostics) <= MaxDiagnostics
    <2>1. PICK list : list = g.diagnostics
      OBVIOUS
    <2>2. list = BuildKernelGraph(f).diagnostics
      BY <1>2, <2>1
    <2> QED BY <1>3, <2>1, <2>2, BuiltDiagnostics
  <1> QED BY <1>1, <1>2, <1>3, <1>4, <1>5, <1>6, <1>7, <1>8

-----------------------------------------------------------------------------
ClientOK ==
    /\ query \in Lists \cup {NoQuery}
    /\ reply \in {"idle", "more", "done", "cut", "STALE_CURSOR", "NOT_FOUND", "UNREADABLE"}
    /\ (cursor # Start) = (reply = "more")
CountsOK == archived \subseteq Specs /\ patches \in 0 .. MaxPatches /\ edits \in 0 .. MaxEdits
Basis == FilesOK(files) /\ GraphOK(graph) /\ ClientOK /\ CountsOK

Bounds == MaxPatches \in Nat /\ MaxEdits \in Nat
\* The bounds are numbers.
LEMMA BoundsTypes == Bounds
  BY BoundsAssumption DEF Bounds

\* The invariant holds at first.
LEMMA InitialOK == Init => Basis
  <1> SUFFICES ASSUME Init PROVE Basis
    OBVIOUS
  <1>1. FilesOK(files)
    <2>1. files \in Corpora
      BY DEF Init
    <2>2. files = [d \in Docs |-> files[d]] /\ \A d \in Docs : files[d] \in Variants[d] \cup {Absent}
      BY <2>1, CorporaAssumption
    <2>3. \A d \in Docs : files[d] \in Contents(d)
      BY <2>2, EmptyContents, VariantContents
    <2> QED BY <2>2, <2>3 DEF FilesOK
  <1>2. GraphOK(graph)
    BY DEF Init, GraphOK, Loaded
  <1>3. ClientOK
    BY DEF Init, ClientOK
  <1>4. CountsOK
    BY BoundsTypes DEF Init, CountsOK, Bounds
  <1> QED BY <1>1, <1>2, <1>3, <1>4 DEF Basis

\* Where an entity that can be deleted is defined.
LEMMA DefinedAt ==
    ASSUME NEW f, FilesOK(f), NEW id \in BuildKernelGraph(f).nodes, KindOf(id) \notin {"DOCUMENT", "ROADMAP"},
           NEW p \in Groups(f, BuildKernelGraph(f).accepted)[id]
    PROVE  p[1] \in Docs /\ p[2] \in DOMAIN f[p[1]].items
  <1>1. PICK docs \in SUBSET Docs : docs = BuildKernelGraph(f).accepted /\ docs = Accepted(f)
    BY FilesCorpus, Built, BuiltNodes
  <1>2. id \in Nodes(Groups(f, docs), docs)
    BY <1>1, Built DEF NodesOf, GroupsOf
  <1>3. id \in DOMAIN Groups(f, docs)
    <2>1. \A d \in docs : KindOf(DocNode(d)) = "DOCUMENT" /\ KindOf(RoadmapNode(d)) = "ROADMAP"
      BY DocsAssumption DEF KindOf, DocNode, RoadmapNode, Identity
    <2> QED BY <1>2, <2>1 DEF Nodes, Elected, Roadmaps
  <1>4. p \in Places(f, docs, "def")
    BY <1>1, <1>3 DEF Groups
  <1> QED BY <1>4 DEF Places

\* The graph that answers a query.
LEMMA EnsuredOK == Basis => GraphOK(Ensured)
  BY SettledOK DEF Basis, Ensured

\* A page leaves a cursor or an end.
LEMMA ServedOK ==
    ASSUME NEW c, NEW rows, NEW page, Serve(c, rows, page)
    PROVE  reply' \in {"more", "done", "cut"} /\ (cursor' # Start) = (reply' = "more")
  BY DEF Serve

\* An answer keeps the invariant,
LEMMA AnsweredOK == ASSUME Basis, NEW q \in Lists, NEW c, Answer(q, c) PROVE Basis'
  <1>1. PICK g : /\ g = Ensured /\ graph' = g /\ query' = q
                 /\ \/ reply' = Refusal(g, q, c) /\ Refusal(g, q, c) # "none" /\ cursor' = Start
                    \/ \E rows : Serve(c, rows, Page(g, q, c, rows))
                 /\ UNCHANGED <<files, archived, patches, edits>>
    BY DEF Answer
  <1>2. GraphOK(graph')
    BY <1>1, EnsuredOK
  <1>3. ClientOK'
    <2>1. Refusal(g, q, c) \in {"UNREADABLE", "NOT_FOUND", "STALE_CURSOR", "none"}
      BY DEF Refusal
    <2>2. CASE \E rows : Serve(c, rows, Page(g, q, c, rows))
      <3>1. PICK rows : Serve(c, rows, Page(g, q, c, rows))
        BY <2>2
      <3>2. PICK page : page = Page(g, q, c, rows)
        OBVIOUS
      <3>3. Serve(c, rows, page)
        BY <3>1, <3>2
      <3>4. reply' \in {"more", "done", "cut"} /\ (cursor' # Start) = (reply' = "more")
        BY <3>3, ServedOK
      <3> QED BY <1>1, <3>4 DEF ClientOK
    <2>3. CASE reply' = Refusal(g, q, c) /\ Refusal(g, q, c) # "none" /\ cursor' = Start
      BY <1>1, <2>1, <2>3 DEF ClientOK
    <2> QED BY <1>1, <2>2, <2>3
  <1>4. FilesOK(files') /\ CountsOK'
    BY <1>1 DEF Basis, CountsOK
  <1> QED BY <1>2, <1>3, <1>4 DEF Basis

\* as does a client that waits,
LEMMA PausedOK == Basis /\ Pause => ClientOK'
  BY DEF Basis, ClientOK, Pause, Forget, client

\* a change through the service
LEMMA AppliedOK ==
    ASSUME Basis, Writable, NEW after, FilesOK(after), Apply(after), archived' \subseteq Specs PROVE Basis'
  <1>1. files' = after /\ graph' = Settle(after) /\ patches' = patches + 1 /\ edits' = edits /\ Pause
    BY DEF Apply
  <1>2. GraphOK(graph')
    BY <1>1, SettledOK
  <1>3. ClientOK'
    BY <1>1, PausedOK
  <1>4. CountsOK'
    BY <1>1, BoundsTypes DEF Basis, CountsOK, Writable, Bounds
  <1> QED BY <1>1, <1>2, <1>3, <1>4 DEF Basis

\* and one past it.
LEMMA EditedOK == ASSUME Basis, NEW d \in Docs, Edit(d) PROVE Basis'
  <1>1. PICK v \in Variants[d] : files' = [files EXCEPT ![d] = v]
    BY DEF Edit
  <1>2. FilesOK(files')
    BY <1>1, VariantContents, ReplacedOK DEF Basis
  <1>3. ClientOK'
    BY PausedOK DEF Edit
  <1>4. GraphOK(graph') /\ CountsOK'
    BY BoundsTypes DEF Edit, Basis, CountsOK, Bounds
  <1> QED BY <1>2, <1>3, <1>4 DEF Basis

\* A change through the service is the application of files of the same kind.
LEMMA ChangeIsApplied ==
    ASSUME Basis, (\E d \in Docs : Patch(d)) \/ \E s \in Specs : Archive(s) \/ CreateSpec(s) \/ DeleteEntity(s)
    PROVE  \E after : FilesOK(after) /\ Apply(after) /\ archived' \subseteq Specs /\ Writable
  <1>1. FilesOK(files) /\ archived \subseteq Specs
    BY DEF Basis, CountsOK
  <1>2. ASSUME NEW d \in Docs, Patch(d)
        PROVE  \E after : FilesOK(after) /\ Apply(after) /\ archived' \subseteq Specs /\ Writable
    <2>1. PICK v \in Variants[d] : Apply([files EXCEPT ![d] = v])
      BY <1>2 DEF Patch
    <2>2. FilesOK([files EXCEPT ![d] = v])
      BY <1>1, VariantContents, ReplacedOK
    <2> QED BY <1>1, <1>2, <2>1, <2>2 DEF Patch
  <1>3. ASSUME NEW s \in Specs, Archive(s)
        PROVE  \E after : FilesOK(after) /\ Apply(after) /\ archived' \subseteq Specs /\ Writable
    <2>1. Apply(Without(files, s)) /\ archived' = archived \cup {s} /\ Writable
      BY <1>3 DEF Archive
    <2>2. FilesOK(Without(files, s))
      BY <1>1, CreatedOK
    <2> QED BY <1>1, <2>1, <2>2
  <1>4. ASSUME NEW s \in Specs, CreateSpec(s)
        PROVE  \E after : FilesOK(after) /\ Apply(after) /\ archived' \subseteq Specs /\ Writable
    <2>1. PICK after : after = [d2 \in Docs |-> IF SpecOf[d2] = s THEN Skeleton ELSE files[d2]]
      OBVIOUS
    <2>2. Apply(after) /\ archived' = archived \ {s} /\ Writable
      BY <1>4, <2>1 DEF CreateSpec
    <2>3. FilesOK(after)
      BY <1>1, <2>1, CreatedOK
    <2> QED BY <1>1, <2>2, <2>3
  <1>5. ASSUME NEW s \in Specs, DeleteEntity(s)
        PROVE  \E after : FilesOK(after) /\ Apply(after) /\ archived' \subseteq Specs /\ Writable
    <2>1. PICK id \in BuildKernelGraph(files).nodes :
              /\ KindOf(id) \notin {"DOCUMENT", "ROADMAP"}
              /\ \E p \in Groups(files, BuildKernelGraph(files).accepted)[id] :
                     Apply([files EXCEPT ![p[1]].items = WithoutBlock(@, p[2])])
      BY <1>5 DEF DeleteEntity
    <2>2. PICK p \in Groups(files, BuildKernelGraph(files).accepted)[id] :
                     Apply([files EXCEPT ![p[1]].items = WithoutBlock(@, p[2])])
      BY <2>1
    <2>3. p[1] \in Docs /\ p[2] \in DOMAIN files[p[1]].items
      BY <1>1, <2>1, DefinedAt
    <2>4. FilesOK([files EXCEPT ![p[1]].items = WithoutBlock(@, p[2])])
      BY <1>1, <2>3, DeletedOK
    <2>5. Writable /\ archived' = archived
      BY <1>5 DEF DeleteEntity
    <2> QED BY <1>1, <2>2, <2>4, <2>5
  <1> QED BY <1>2, <1>3, <1>4, <1>5

\* Every step keeps the invariant.
LEMMA StepOK == Basis /\ [Next]_vars => Basis'
  <1> SUFFICES ASSUME Basis, [Next]_vars PROVE Basis'
    OBVIOUS
  <1>1. ASSUME NEW q \in Lists, Ask(q) PROVE Basis'
    BY <1>1, AnsweredOK DEF Ask
  <1>2. ASSUME NEW q \in Lists, Follow(q) PROVE Basis'
    BY <1>2, AnsweredOK DEF Follow
  <1>3. ASSUME NEW d \in Docs, Edit(d) PROVE Basis'
    BY <1>3, EditedOK
  <1>4. ASSUME (\E d \in Docs : Patch(d)) \/ \E s \in Specs : Archive(s) \/ CreateSpec(s) \/ DeleteEntity(s)
        PROVE  Basis'
    <2>1. PICK after : FilesOK(after) /\ Apply(after) /\ archived' \subseteq Specs /\ Writable
      BY <1>4, ChangeIsApplied
    <2> QED BY <2>1, AppliedOK
  <1>6. CASE Refresh
    <2>1. ClientOK'
      BY <1>6, PausedOK DEF Refresh
    <2>2. GraphOK(graph') /\ FilesOK(files') /\ CountsOK'
      BY <1>6, SettledOK DEF Refresh, Basis, CountsOK
    <2> QED BY <2>1, <2>2 DEF Basis
  <1>7. CASE Leave
    BY <1>7 DEF Leave, Forget, Basis, ClientOK, CountsOK
  <1>8. CASE UNCHANGED vars
    BY <1>8 DEF vars, Basis, ClientOK, CountsOK
  <1> QED BY <1>1, <1>2, <1>3, <1>4, <1>6, <1>7, <1>8 DEF Next

-----------------------------------------------------------------------------
\* The inductive invariant holds in every state.
LEMMA BasisAlways == Spec => []Basis
  BY InitialOK, StepOK, PTL DEF Spec

\* It implies the type invariant.
LEMMA TypesFollow == Basis => TypeOK
  <1> SUFFICES ASSUME Basis PROVE TypeOK
    OBVIOUS
  <1>1. \A d \in Docs : files[d] = Absent \/ \E v \in Variants[d] : Range(files[d].items) \subseteq Range(v.items)
    BY DEF Basis, FilesOK, Contents
  <1>2. ASSUME Loaded(graph)
        PROVE  /\ graph.accepted = graph.documents /\ \A e \in graph.edges : {e.from, e.to} \subseteq graph.nodes
               /\ Len(graph.diagnostics) <= MaxDiagnostics
    <2>1. PICK g : g = graph
      OBVIOUS
    <2>2. GraphOK(g) /\ Loaded(g)
      BY <1>2, <2>1 DEF Basis
    <2>3. /\ g.documents = Present(g.fingerprint) /\ g.accepted = Present(g.fingerprint)
          /\ \A e \in g.edges : EdgeShape(g.accepted, g.nodes, e)
          /\ Len(g.diagnostics) <= MaxDiagnostics
      BY <2>2, LoadedGraph
    <2> QED BY <2>1, <2>3 DEF EdgeShape
  <1> QED BY <1>1, <1>2 DEF TypeOK, Basis, ClientOK, CountsOK

\* The variables keep their types.
THEOREM QueryTypesAlways == Spec => []TypeOK
  BY BasisAlways, TypesFollow, PTL

\* A rejected scenario is a finding of the graph.
LEMMA RejectedFound ==
    ASSUME NEW f, NEW d \in Accepted(f), DocumentKind[d] = "FEATURE", NEW p \in Places(f, {d}, "bad")
    PROVE  \E x \in FoundIn(f) : x.doc = d /\ x.code = "MISSING_SCENARIO_ID" /\ x.at = p[2]
  <1>1. p \in Places(f, Accepted(f), "bad") /\ p[1] = d
    BY DEF Places
  <1>2. Diagnostic("MISSING_SCENARIO_ID", d, p[2]) \in FoundIn(f)
    BY <1>1 DEF FoundIn, Diagnostics, Accepted
  <1> QED BY <1>2 DEF Diagnostic

\* The verdict follows from the graph alone.
LEMMA VerdictHolds == Basis => VerdictIsWhole
  <1> SUFFICES ASSUME Basis, NEW q \in Lists, q.op = "validation", query = q, Loaded(graph),
                      Verdict(graph, q) = "VALID", q.specs = Specs \/ Len(graph.diagnostics) < MaxDiagnostics,
                      NEW d \in graph.documents, SpecOf[d] \in q.specs, DocumentKind[d] = "FEATURE",
                      NEW p \in Places(graph.fingerprint, {d}, "bad")
               PROVE  FALSE
    BY DEF VerdictIsWhole
  <1>1. PICK g : g = graph
    OBVIOUS
  <1>2. PICK f : f = g.fingerprint
    OBVIOUS
  <1>3. /\ Corpus(f) /\ g = BuildKernelGraph(f) /\ d \in Accepted(f) /\ p \in Places(f, {d}, "bad")
    <2>1. GraphOK(g) /\ Loaded(g)
      BY <1>1 DEF Basis
    <2>2. /\ Corpus(g.fingerprint) /\ g = BuildKernelGraph(g.fingerprint)
          /\ g.documents = Present(g.fingerprint) /\ Accepted(g.fingerprint) = Present(g.fingerprint)
      BY <2>1, LoadedGraph
    <2> QED BY <1>1, <1>2, <2>2
  <1>4. PICK x \in FoundIn(f) : x.doc = d /\ x.code = "MISSING_SCENARIO_ID"
    BY <1>3, RejectedFound
  <1>5. PICK list : list = g.diagnostics
    OBVIOUS
  <1>6. list = BuildKernelGraph(f).diagnostics
    BY <1>3, <1>5
  <1>7. /\ list \in Seq(FoundIn(f) \cup {Overflow}) /\ Len(list) <= MaxDiagnostics
        /\ Overflow \notin Range(list) \/ Len(list) < MaxDiagnostics =>
                 /\ Range(list) = FoundIn(f)
                 /\ \A i, j \in DOMAIN list : list[i] = list[j] => i = j
        /\ (\E y \in FoundIn(f) : Severity(y.code) = "ERROR") =>
                 \E i \in DOMAIN list : list[i] \in FoundIn(f) /\ Severity(list[i].code) = "ERROR"
    BY <1>3, <1>6, BuiltDiagnostics
  <1>8. Severity(x.code) = "ERROR"
    BY <1>4 DEF Severity, Errors
  <1>9. \A y \in Scoped(g, q) : Severity(y.code) # "ERROR"
    BY <1>1 DEF Verdict
  <1>10. CASE q.specs = Specs
    <2>1. PICK i \in DOMAIN list : Severity(list[i].code) = "ERROR"
      BY <1>7, <1>8
    <2>2. list[i] \in Scoped(g, q)
      BY <1>5, <1>10 DEF Scoped, Range
    <2> QED BY <1>9, <2>1, <2>2
  <1>11. CASE Len(graph.diagnostics) < MaxDiagnostics
    <2>1. Len(list) < MaxDiagnostics
      BY <1>1, <1>5, <1>11
    <2>2. x \in Range(list)
      BY <1>7, <2>1
    <2>3. x # Overflow
      BY <1>4 DEF Overflow
    <2>4. x \in Scoped(g, q)
      BY <1>1, <1>4, <1>5, <2>2, <2>3 DEF Scoped
    <2> QED BY <1>8, <1>9, <2>4
  <1> QED BY <1>10, <1>11

\* A scope of specs is called valid only if no scenario of theirs was rejected,
\* whatever the filters hide, unless errors were cut off.  (runValidation)
THEOREM VerdictsAreWhole == Spec => []VerdictIsWhole
  BY BasisAlways, VerdictHolds, PTL

-----------------------------------------------------------------------------
\* A graph without errors is that of a corpus that the reader takes, with no rejected
\* scenario.
LEMMA ErrorFree ==
    ASSUME NEW f, Corpus(f), NEW list, list = BuildKernelGraph(f).diagnostics,
           \A i \in DOMAIN list : Severity(list[i].code) # "ERROR"
    PROVE  Readable(f) /\ \A d \in Accepted(f) : DocumentKind[d] = "FEATURE" => Places(f, {d}, "bad") = {}
  <1>1. (\E x \in FoundIn(f) : Severity(x.code) = "ERROR") =>
            \E i \in DOMAIN list : list[i] \in FoundIn(f) /\ Severity(list[i].code) = "ERROR"
    BY BuiltDiagnostics
  <1>2. \A x \in FoundIn(f) : Severity(x.code) # "ERROR"
    BY <1>1
  <1>3. Entries(f).large = {}
    <2> SUFFICES ASSUME NEW d \in Entries(f).large PROVE FALSE
      OBVIOUS
    <2>1. Diagnostic("FILE_TOO_LARGE", d, 0) \in FoundIn(f)
      BY DEF FoundIn, Diagnostics
    <2>2. Severity(Diagnostic("FILE_TOO_LARGE", d, 0).code) = "ERROR"
      BY DEF Diagnostic, Severity, Errors
    <2> QED BY <1>2, <2>1, <2>2
  <1>4. Entries(f).refused = {}
    <2> SUFFICES ASSUME NEW d \in Entries(f).refused PROVE FALSE
      OBVIOUS
    <2>1. Diagnostic("CORPUS_LIMIT_EXCEEDED", d, 0) \in FoundIn(f)
      BY DEF FoundIn, Diagnostics
    <2>2. Severity(Diagnostic("CORPUS_LIMIT_EXCEEDED", d, 0).code) = "ERROR"
      BY DEF Diagnostic, Severity, Errors
    <2> QED BY <1>2, <2>1, <2>2
  <1>5. Readable(f)
    BY <1>3, <1>4, CorpusSized, EnteredReadable
  <1>6. ASSUME NEW d \in Accepted(f), DocumentKind[d] = "FEATURE", NEW p \in Places(f, {d}, "bad") PROVE FALSE
    <2>1. PICK x \in FoundIn(f) : x.code = "MISSING_SCENARIO_ID"
      BY <1>6, RejectedFound
    <2>2. Severity(x.code) = "ERROR"
      BY <2>1 DEF Severity, Errors
    <2> QED BY <1>2, <2>2
  <1> QED BY <1>5, <1>6

\* An ambiguous definition is a finding,
LEMMA AmbiguousFound ==
    ASSUME NEW f, Corpus(f), NEW id \in Ambiguous(GroupsOf(f))
    PROVE  \E x \in FoundIn(f) : /\ x.code = "DUPLICATE_DEFINITION" /\ x.doc \in Docs
                                 /\ SpecOf[x.doc] = id.spec /\ f[x.doc].items[x.at].local = id.local
  <1>1. id \in DOMAIN GroupsOf(f)
    BY DEF Ambiguous
  <1>2. /\ GroupsOf(f)[id] = {p \in Places(f, Accepted(f), "def") : Defined(f, p) = id}
        /\ GroupsOf(f)[id] # {} /\ GroupsOf(f)[id] \in SUBSET (Docs \X DOMAIN Offset)
    BY <1>1, BuiltGroups
  <1>3. PICK p \in GroupsOf(f)[id] : p = Primary(GroupsOf(f)[id])
    BY <1>2, PrimaryIn
  <1>4. Diagnostic("DUPLICATE_DEFINITION", p[1], p[2]) \in FoundIn(f)
    BY <1>3 DEF FoundIn, Diagnostics
  <1>5. Defined(f, p) = id /\ p[1] \in Docs
    BY <1>2, <1>3
  <1>6. SpecOf[p[1]] = id.spec /\ f[p[1]].items[p[2]].local = id.local
    BY <1>5 DEF Defined, Identity, Item
  <1> QED BY <1>4, <1>5, <1>6 DEF Diagnostic

\* and a finding of that kind an ambiguous definition.
LEMMA FoundAmbiguous ==
    ASSUME NEW f, Corpus(f), NEW x \in FoundIn(f), x.code = "DUPLICATE_DEFINITION"
    PROVE  \E id \in Ambiguous(GroupsOf(f)) : SpecOf[x.doc] = id.spec /\ f[x.doc].items[x.at].local = id.local
  <1>1. PICK id \in Ambiguous(GroupsOf(f)) :
            x = Diagnostic("DUPLICATE_DEFINITION", Primary(GroupsOf(f)[id])[1], Primary(GroupsOf(f)[id])[2])
    <2>1. \A r \in RefsOf(f) : ResolveReference(r, GroupsOf(f), NodesOf(f)) # "RESOLVED" =>
              CodeFor(ResolveReference(r, GroupsOf(f), NodesOf(f))) # "DUPLICATE_DEFINITION"
      BY ReasonCodes
    <2> QED BY <2>1 DEF FoundIn, Diagnostics, Diagnostic
  <1>2. id \in DOMAIN GroupsOf(f)
    BY DEF Ambiguous
  <1>3. /\ GroupsOf(f)[id] = {p \in Places(f, Accepted(f), "def") : Defined(f, p) = id}
        /\ GroupsOf(f)[id] # {} /\ GroupsOf(f)[id] \in SUBSET (Docs \X DOMAIN Offset)
    BY <1>2, BuiltGroups
  <1>4. PICK p \in GroupsOf(f)[id] : p = Primary(GroupsOf(f)[id])
    BY <1>3, PrimaryIn
  <1>5. Defined(f, p) = id /\ x.doc = p[1] /\ x.at = p[2]
    BY <1>1, <1>3, <1>4 DEF Diagnostic
  <1>6. SpecOf[p[1]] = id.spec /\ f[p[1]].items[p[2]].local = id.local
    BY <1>5 DEF Defined, Identity, Item
  <1> QED BY <1>5, <1>6

\* What compiles has no definition that is ambiguous and was not.
LEMMA CompiledAmbiguous ==
    ASSUME NEW before, Corpus(before), NEW after, Corpus(after), Compiles(before, after),
           Overflow \notin Range(BuildKernelGraph(after).diagnostics)
    PROVE  Ambiguous(GroupsOf(after)) \subseteq Ambiguous(GroupsOf(before))
  <1> SUFFICES ASSUME NEW id \in Ambiguous(GroupsOf(after)) PROVE id \in Ambiguous(GroupsOf(before))
    OBVIOUS
  <1>1. PICK old : old = BuildKernelGraph(before).diagnostics
    OBVIOUS
  <1>2. PICK new : new = BuildKernelGraph(after).diagnostics
    OBVIOUS
  <1>3. old \in Seq(FoundIn(before) \cup {Overflow})
    BY <1>1, BuiltDiagnostics
  <1>4. new \in Seq(FoundIn(after) \cup {Overflow}) /\ Range(new) = FoundIn(after)
    <2>1. Overflow \notin Range(new)
      BY <1>2
    <2>2. new \in Seq(FoundIn(after) \cup {Overflow})
      BY <1>2, BuiltDiagnostics
    <2>3. Overflow \notin Range(new) \/ Len(new) < MaxDiagnostics => Range(new) = FoundIn(after)
      BY <1>2, BuiltDiagnostics
    <2> QED BY <2>1, <2>2, <2>3
  <1>5. PICK x \in FoundIn(after) : /\ x.code = "DUPLICATE_DEFINITION" /\ x.doc \in Docs
                                    /\ SpecOf[x.doc] = id.spec /\ after[x.doc].items[x.at].local = id.local
    BY AmbiguousFound
  <1>6. PICK i \in DOMAIN new : new[i] = x
    BY <1>4 DEF Range
  <1>7. PICK k : k = Finding(after, x)
    OBVIOUS
  <1>8. x.code \in DefinitionIntegrityCodes
    BY <1>5 DEF DefinitionIntegrityCodes
  <1>9. Times(after, new, k) <= Times(before, old, k)
    BY <1>1, <1>2, <1>6, <1>7, <1>8 DEF Compiles
  <1> DEFINE N == {h \in DOMAIN new : new[h].code \in DefinitionIntegrityCodes /\ Finding(after, new[h]) = k}
             O == {h \in DOMAIN old : old[h].code \in DefinitionIntegrityCodes /\ Finding(before, old[h]) = k}
  <1>10. i \in N
    BY <1>6, <1>7, <1>8
  <1>11. IsFiniteSet(N) /\ IsFiniteSet(O)
    <2>1. DOMAIN new = 1 .. Len(new) /\ DOMAIN old = 1 .. Len(old) /\ Len(new) \in Int /\ Len(old) \in Int /\ 1 \in Int
      BY <1>3, <1>4
    <2>2. IsFiniteSet(DOMAIN new) /\ IsFiniteSet(DOMAIN old)
      BY <2>1, FS_Interval
    <2>3. N \subseteq DOMAIN new /\ O \subseteq DOMAIN old
      OBVIOUS
    <2> HIDE DEF N, O
    <2> QED BY <2>2, <2>3, FS_Subset
  <1>12. Cardinality(N) # 0 /\ Cardinality(N) \in Nat /\ Cardinality(O) \in Nat
    <2> HIDE DEF N, O
    <2> QED BY <1>10, <1>11, FS_CardinalityType, FS_EmptySet
  <1>13. Cardinality(N) <= Cardinality(O)
    BY <1>9 DEF Times
  <1>14. PICK j : j \in O
    <2>1. Cardinality(O) # 0
      <3> HIDE DEF N, O
      <3> QED BY <1>12, <1>13
    <2> HIDE DEF N, O
    <2> QED BY <2>1, FS_EmptySet
  <1>15. PICK y : y = old[j]
    OBVIOUS
  <1>16. y.code = "DUPLICATE_DEFINITION" /\ y.doc = x.doc /\ before[y.doc].items[y.at].local = id.local
    <2>1. Finding(before, y) = Finding(after, x)
      BY <1>7, <1>14, <1>15
    <2>2. y.code = x.code /\ y.doc = x.doc /\ About(before, y) = About(after, x)
      BY <2>1 DEF Finding
    <2> QED BY <1>5, <2>2 DEF About
  <1>17. y \in FoundIn(before)
    <2>1. y \in FoundIn(before) \cup {Overflow}
      BY <1>3, <1>14, <1>15
    <2> QED BY <1>16, <2>1 DEF Overflow
  <1>18. PICK other \in Ambiguous(GroupsOf(before)) :
             SpecOf[y.doc] = other.spec /\ before[y.doc].items[y.at].local = other.local
    BY <1>16, <1>17, FoundAmbiguous
  <1>19. id \in Ids /\ other \in Ids
    <2>1. id \in DOMAIN GroupsOf(after) /\ other \in DOMAIN GroupsOf(before)
      BY DEF Ambiguous
    <2>2. DOMAIN GroupsOf(after) \subseteq Ids
      BY BuiltGroups
    <2>3. DOMAIN GroupsOf(before) \subseteq Ids
      BY BuiltGroups
    <2> QED BY <2>1, <2>2, <2>3
  <1>20. id.spec = other.spec /\ id.local = other.local
    BY <1>5, <1>16, <1>18
  <1>21. id = other
    BY <1>19, <1>20 DEF Ids
  <1> QED BY <1>21

-----------------------------------------------------------------------------
\* What goes through the service.
Changed(after) ==
    /\ FilesOK(after) /\ files' = after /\ graph' = Settle(after) /\ Readable(files)
    /\ Compiles(files, after) \/ \E s \in Specs : after = Without(files, s)

\* A change through the service was compiled, or is an archival.
LEMMA ChangeCompiles == ASSUME Basis, [Next]_vars, patches' # patches PROVE \E after : Changed(after)
  <1>1. (\E d \in Docs : Patch(d)) \/ \E s \in Specs : Archive(s) \/ CreateSpec(s) \/ DeleteEntity(s)
    <2>1. \A q \in Lists : ~Ask(q) /\ ~Follow(q)
      BY DEF Ask, Follow, Answer
    <2>2. \A d \in Docs : ~Edit(d)
      BY DEF Edit
    <2>3. ~Refresh /\ ~Leave /\ ~UNCHANGED vars
      BY DEF Refresh, Leave, vars
    <2> QED BY <2>1, <2>2, <2>3 DEF Next
  <1>0. FilesOK(files)
    BY DEF Basis
  <1>2. ASSUME NEW d \in Docs, Patch(d) PROVE \E after : Changed(after)
    <2>1. PICK v \in Variants[d] : Compiles(files, [files EXCEPT ![d] = v]) /\ Apply([files EXCEPT ![d] = v])
      BY <1>2 DEF Patch
    <2>2. FilesOK([files EXCEPT ![d] = v])
      BY <1>0, VariantContents, ReplacedOK
    <2>3. PICK after : after = [files EXCEPT ![d] = v]
      OBVIOUS
    <2>4. Writable
      BY <1>2 DEF Patch
    <2>5. Changed(after)
      BY <2>1, <2>2, <2>3, <2>4 DEF Changed, Apply, Writable
    <2> QED BY <2>5
  <1>3. ASSUME NEW s \in Specs, Archive(s) PROVE \E after : Changed(after)
    <2>1. PICK after : after = Without(files, s)
      OBVIOUS
    <2>2. FilesOK(after)
      BY <1>0, <2>1, CreatedOK
    <2>3. Apply(after) /\ Writable
      BY <1>3, <2>1 DEF Archive
    <2>4. Changed(after)
      BY <2>1, <2>2, <2>3 DEF Changed, Apply, Writable
    <2> QED BY <2>4
  <1>4. ASSUME NEW s \in Specs, CreateSpec(s) PROVE \E after : Changed(after)
    <2>1. PICK after : after = [d \in Docs |-> IF SpecOf[d] = s THEN Skeleton ELSE files[d]]
      OBVIOUS
    <2>2. FilesOK(after)
      BY <1>0, <2>1, CreatedOK
    <2>3. Apply(after) /\ Writable /\ Compiles(files, after)
      BY <1>4, <2>1 DEF CreateSpec
    <2>4. Changed(after)
      BY <2>2, <2>3 DEF Changed, Apply, Writable
    <2> QED BY <2>4
  <1>5. ASSUME NEW s \in Specs, DeleteEntity(s) PROVE \E after : Changed(after)
    <2>1. PICK id \in BuildKernelGraph(files).nodes :
              /\ KindOf(id) \notin {"DOCUMENT", "ROADMAP"}
              /\ \E p \in Groups(files, BuildKernelGraph(files).accepted)[id] :
                     LET after == [files EXCEPT ![p[1]].items = WithoutBlock(@, p[2])]
                     IN  Compiles(files, after) /\ Apply(after)
      BY <1>5 DEF DeleteEntity
    <2>2. PICK p \in Groups(files, BuildKernelGraph(files).accepted)[id] :
                     LET after == [files EXCEPT ![p[1]].items = WithoutBlock(@, p[2])]
                     IN  Compiles(files, after) /\ Apply(after)
      BY <2>1
    <2>3. p[1] \in Docs /\ p[2] \in DOMAIN files[p[1]].items
      BY <1>0, <2>1, DefinedAt
    <2>4. FilesOK([files EXCEPT ![p[1]].items = WithoutBlock(@, p[2])])
      BY <1>0, <2>3, DeletedOK
    <2>5. PICK after : after = [files EXCEPT ![p[1]].items = WithoutBlock(@, p[2])]
      OBVIOUS
    <2>6. Writable
      BY <1>5 DEF DeleteEntity
    <2>7. Changed(after)
      BY <2>2, <2>4, <2>5, <2>6 DEF Changed, Apply, Writable
    <2> QED BY <2>7
  <1> QED BY <1>1, <1>2, <1>3, <1>4, <1>5

\* A set with two members.
LEMMA TwoMembers ==
    ASSUME NEW S, IsFiniteSet(S)
    PROVE  Cardinality(S) >= 2 <=> \E a, b \in S : a # b
  <1>1. ASSUME NEW a \in S, NEW b \in S, a # b PROVE Cardinality(S) >= 2
    <2>1. IsFiniteSet(S \ {a}) /\ Cardinality(S \ {a}) = Cardinality(S) - 1
      BY FS_RemoveElement
    <2>2. b \in S \ {a}
      BY <1>1
    <2>3. Cardinality(S \ {a}) # 0 /\ Cardinality(S \ {a}) \in Nat /\ Cardinality(S) \in Nat
      BY <2>1, <2>2, FS_CardinalityType, FS_EmptySet
    <2> QED BY <2>1, <2>3
  <1>2. ASSUME Cardinality(S) >= 2 PROVE \E a, b \in S : a # b
    <2>1. Cardinality(S) \in Nat /\ Cardinality(S) # 0
      BY <1>2, FS_CardinalityType
    <2>2. PICK a : a \in S
      BY <2>1, FS_EmptySet
    <2>3. IsFiniteSet(S \ {a}) /\ Cardinality(S \ {a}) = Cardinality(S) - 1
      BY <2>2, FS_RemoveElement
    <2>4. Cardinality(S \ {a}) # 0
      BY <1>2, <2>1, <2>3
    <2>5. PICK b : b \in S \ {a}
      BY <2>3, <2>4, FS_EmptySet
    <2> QED BY <2>2, <2>5
  <1> QED BY <1>1, <1>2

\* A definition is ambiguous if it stands in two places.
LEMMA AmbiguousPlaces ==
    ASSUME NEW f, Corpus(f), NEW id
    PROVE  id \in Ambiguous(GroupsOf(f)) <=>
               \E p, q \in Places(f, Accepted(f), "def") : p # q /\ Defined(f, p) = id /\ Defined(f, q) = id
  <1>1. ASSUME id \in DOMAIN GroupsOf(f)
        PROVE  Cardinality(GroupsOf(f)[id]) >= 2 <=>
                   \E p, q \in Places(f, Accepted(f), "def") : p # q /\ Defined(f, p) = id /\ Defined(f, q) = id
    <2>1. PICK S : S = GroupsOf(f)[id]
      OBVIOUS
    <2>2. IsFiniteSet(S) /\ S = {p \in Places(f, Accepted(f), "def") : Defined(f, p) = id}
      BY <1>1, <2>1, BuiltGroups
    <2>3. Cardinality(S) >= 2 <=> \E a, b \in S : a # b
      BY <2>2, TwoMembers
    <2> QED BY <2>1, <2>2, <2>3
  <1>2. \A p \in Places(f, Accepted(f), "def") : Defined(f, p) \in DOMAIN GroupsOf(f)
    BY BuiltGroups
  <1> QED BY <1>1, <1>2 DEF Ambiguous

\* An archival leaves the documents of the other specs as they are.
LEMMA WithoutGrows ==
    ASSUME NEW f, Corpus(f), NEW s
    PROVE  /\ Corpus(Without(f, s)) /\ Present(Without(f, s)) = {d \in Present(f) : SpecOf[d] # s}
           /\ \A d \in Present(Without(f, s)) : Without(f, s)[d] = f[d]
           /\ Readable(f) => Readable(Without(f, s))
  <1>1. PICK w : w = Without(f, s)
    OBVIOUS
  <1>2. \A d \in Docs : w[d] = IF SpecOf[d] = s THEN Absent ELSE f[d]
    BY <1>1 DEF Without
  <1>3. Absent \in Documents
    <2>1. <<>> \in Seq(Items) /\ Len(<<>>) = 0 /\ 0 <= Len(Offset)
      BY OffsetsListed
    <2> QED BY <2>1 DEF Documents, Absent
  <1>4. Corpus(w)
    BY <1>2, <1>3 DEF Corpus
  <1>5. Present(w) = {d \in Present(f) : SpecOf[d] # s} /\ \A d \in Present(w) : w[d] = f[d]
    BY <1>2 DEF Present
  <1>6. ASSUME Readable(f) PROVE Readable(w)
    <2>1. Sized(f) /\ Sized(w)
      BY <1>4, CorpusSized
    <2>2. PICK t : Totals(f, t)
      BY <2>1, TotalsExist
    <2>3. PICK u : Totals(w, u)
      BY <2>1, TotalsExist
    <2>4. PICK N \in Nat : N = Paths
      BY PathsListed
    <2>5. \A d \in Docs : w[d].bytes <= f[d].bytes /\ w[d].bytes \in Nat /\ f[d].bytes \in Nat
      <3> TAKE d \in Docs
      <3>1. w[d].bytes \in Nat /\ f[d].bytes \in Nat
        BY <2>1 DEF Sized
      <3>2. w[d].bytes = 0 \/ w[d].bytes = f[d].bytes
        BY <1>2 DEF Absent
      <3> QED BY <3>1, <3>2
    <2>6. /\ t \in [0 .. N -> Nat] /\ t[0] = 0 /\ u \in [0 .. N -> Nat] /\ u[0] = 0
          /\ \A n \in 1 .. N : t[n] = t[n - 1] + f[PathOrder[n]].bytes /\ u[n] = u[n - 1] + w[PathOrder[n]].bytes
      BY <2>2, <2>3, <2>4 DEF Totals
    <2> DEFINE P == {n \in 0 .. N : u[n] <= t[n]}
    <2>7. 0 \in P
      BY <2>6
    <2>8. ASSUME NEW n \in 1 .. N, n - 1 \in P PROVE n \in P
      <3>1. PathOrder[n] \in Docs
        BY <2>4, PathsListed
      <3>2. w[PathOrder[n]].bytes <= f[PathOrder[n]].bytes /\ w[PathOrder[n]].bytes \in Nat /\ f[PathOrder[n]].bytes \in Nat
        BY <2>5, <3>1
      <3>3. t[n - 1] \in Nat /\ u[n - 1] \in Nat /\ u[n - 1] <= t[n - 1]
        BY <2>6, <2>8
      <3>4. u[n] <= t[n]
        <4>1. t[n] = t[n - 1] + f[PathOrder[n]].bytes /\ u[n] = u[n - 1] + w[PathOrder[n]].bytes
          BY <2>6
        <4>2. PICK a \in Nat : a = f[PathOrder[n]].bytes
          BY <3>2
        <4>3. PICK b \in Nat : b = w[PathOrder[n]].bytes
          BY <3>2
        <4>4. b <= a
          BY <3>2, <4>2, <4>3
        <4> QED BY <3>3, <4>1, <4>2, <4>3, <4>4
      <3> QED BY <3>4
    <2>9. 0 .. N \subseteq P
      <3> HIDE DEF P
      <3> QED BY <2>7, <2>8, Upto
    <2>10. u[N] <= t[N]
      <3>1. N \in 0 .. N
        OBVIOUS
      <3> QED BY <2>9, <3>1
    <2>11. (\A d \in Docs : f[d].bytes <= MaxBytes) /\ t[N] <= MaxAggregate
      BY <1>6, <2>2, <2>4 DEF Totals
    <2>12. \A d \in Docs : w[d].bytes <= MaxBytes
      BY <2>5, <2>11, LimitsAssumption
    <2>13. u[N] <= MaxAggregate
      <3>1. u[N] \in Nat /\ t[N] \in Nat
        BY <2>6
      <3> QED BY <2>10, <2>11, <3>1, LimitsAssumption
    <2> QED BY <2>3, <2>4, <2>12, <2>13 DEF Totals
  <1> QED BY <1>1, <1>4, <1>5, <1>6

\* What the reader does not refuse is accepted.
LEMMA ReadableAccepted == ASSUME NEW f, Corpus(f), Readable(f) PROVE Accepted(f) = Present(f)
  BY CorpusSized, ReadableEntered DEF Accepted

\* A change through the service leaves what was ambiguous and makes nothing else so.
LEMMA ChangeKeepsDefinitions ==
    ASSUME Basis, NEW after, Changed(after), Loaded(graph') => Overflow \notin Range(graph'.diagnostics)
    PROVE  /\ Corpus(files) /\ Corpus(after) /\ Readable(files) /\ Readable(after)
           /\ Ambiguous(GroupsOf(after)) \subseteq Ambiguous(GroupsOf(files))
           /\ \/ \A d \in Accepted(after) : DocumentKind[d] = "FEATURE" => Places(after, {d}, "bad") = {}
              \/ \E s \in Specs : after = Without(files, s)
  <1>1. Corpus(files) /\ Corpus(after) /\ Readable(files) /\ graph' = Settle(after)
    BY FilesCorpus DEF Changed, Basis
  <1>2. CASE Compiles(files, after)
    <2>1. PICK list : list = BuildKernelGraph(after).diagnostics
      OBVIOUS
    <2>2. \A i \in DOMAIN list : Severity(list[i].code) # "ERROR"
      BY <1>2, <2>1 DEF Compiles
    <2>3. Readable(after) /\ \A d \in Accepted(after) : DocumentKind[d] = "FEATURE" => Places(after, {d}, "bad") = {}
      BY <1>1, <2>1, <2>2, ErrorFree
    <2>4. graph' = BuildKernelGraph(after)
      BY <1>1, <2>3 DEF Settle
    <2>5. Overflow \notin Range(BuildKernelGraph(after).diagnostics)
      BY <2>4, BuiltLoaded
    <2>6. Ambiguous(GroupsOf(after)) \subseteq Ambiguous(GroupsOf(files))
      BY <1>1, <1>2, <2>5, CompiledAmbiguous
    <2> QED BY <1>1, <2>3, <2>6
  <1>3. ASSUME NEW s \in Specs, after = Without(files, s)
        PROVE  Readable(after) /\ Ambiguous(GroupsOf(after)) \subseteq Ambiguous(GroupsOf(files))
    <2>1. /\ Present(after) = {d \in Present(files) : SpecOf[d] # s}
          /\ \A d \in Present(after) : after[d] = files[d]
          /\ Readable(after)
      BY <1>1, <1>3, WithoutGrows
    <2>2. Accepted(files) = Present(files) /\ Accepted(after) = Present(after)
      BY <1>1, <2>1, ReadableAccepted
    <2>3. \A p \in Places(after, Accepted(after), "def") :
              p \in Places(files, Accepted(files), "def") /\ Defined(after, p) = Defined(files, p)
      BY <2>1, <2>2 DEF Places, Defined, Item
    <2>4. ASSUME NEW id \in Ambiguous(GroupsOf(after)) PROVE id \in Ambiguous(GroupsOf(files))
      <3>1. \E p, q \in Places(after, Accepted(after), "def") : p # q /\ Defined(after, p) = id /\ Defined(after, q) = id
        BY <1>1, AmbiguousPlaces
      <3>2. \E p, q \in Places(files, Accepted(files), "def") : p # q /\ Defined(files, p) = id /\ Defined(files, q) = id
        BY <2>3, <3>1
      <3> QED BY <1>1, <3>2, AmbiguousPlaces
    <2> QED BY <2>1, <2>4
  <1> QED BY <1>1, <1>2, <1>3 DEF Changed

-----------------------------------------------------------------------------
OrderStep ==
    (/\ patches' # patches /\ InOrder(files)
     /\ ~(Loaded(graph') /\ Overflow \in Range(graph'.diagnostics))) => InOrder(files')
DefinitionsStep ==
    (patches' # patches /\ Overflow \notin Range(graph'.diagnostics)) =>
        LET before == Groups(files, Present(files))
            after == Groups(files', Present(files'))
        IN  Elected(before) \cap DOMAIN after \subseteq Elected(after)

\* The step of StaysInOrder.
LEMMA OrderKept == Basis /\ [Next]_vars => OrderStep
  <1> SUFFICES ASSUME Basis, [Next]_vars, patches' # patches, InOrder(files),
                      Loaded(graph') => Overflow \notin Range(graph'.diagnostics)
               PROVE  InOrder(files')
    BY DEF OrderStep
  <1>1. PICK after : Changed(after)
    BY ChangeCompiles
  <1>2. /\ Corpus(files) /\ Corpus(after) /\ Readable(files) /\ Readable(after)
        /\ Ambiguous(GroupsOf(after)) \subseteq Ambiguous(GroupsOf(files))
        /\ \/ \A d \in Accepted(after) : DocumentKind[d] = "FEATURE" => Places(after, {d}, "bad") = {}
           \/ \E s \in Specs : after = Without(files, s)
    BY <1>1, ChangeKeepsDefinitions
  <1>3. Accepted(files) = Present(files) /\ Accepted(after) = Present(after)
    BY <1>2, ReadableAccepted
  <1>4. ASSUME NEW p \in Places(after, Present(after), "def"), NEW q \in Places(after, Present(after), "def"),
               Defined(after, p) = Defined(after, q)
        PROVE  p = q
    <2> SUFFICES ASSUME p # q PROVE FALSE
      OBVIOUS
    <2>1. PICK id : id = Defined(after, p)
      OBVIOUS
    <2>2. id \in Ambiguous(GroupsOf(after))
      BY <1>2, <1>3, <1>4, <2>1, AmbiguousPlaces
    <2>3. id \in Ambiguous(GroupsOf(files))
      BY <1>2, <2>2
    <2>4. \E a, b \in Places(files, Accepted(files), "def") : a # b /\ Defined(files, a) = id /\ Defined(files, b) = id
      BY <1>2, <2>3, AmbiguousPlaces
    <2> QED BY <1>3, <2>4 DEF InOrder
  <1>5. ASSUME NEW d \in Docs, DocumentKind[d] = "FEATURE" PROVE Places(after, {d}, "bad") = {}
    <2>1. CASE d \notin Present(after)
      <3>1. after[d].items = <<>>
        BY <2>1 DEF Present, Absent
      <3> QED BY <3>1 DEF Places
    <2>2. CASE d \in Present(after) /\ \A c \in Accepted(after) : DocumentKind[c] = "FEATURE" => Places(after, {c}, "bad") = {}
      BY <1>3, <1>5, <2>2
    <2>3. ASSUME d \in Present(after), NEW s \in Specs, after = Without(files, s)
          PROVE  Places(after, {d}, "bad") = {}
      <3>1. after[d] = files[d]
        BY <1>2, <2>3, WithoutGrows
      <3>2. Places(files, {d}, "bad") = {}
        BY <1>5 DEF InOrder
      <3> QED BY <3>1, <3>2 DEF Places
    <2> QED BY <1>2, <2>1, <2>2, <2>3
  <1>6. InOrder(after)
    BY <1>2, <1>4, <1>5 DEF InOrder
  <1> QED BY <1>1, <1>6 DEF Changed

\* What goes through the service leaves a corpus in order as it found it.
THEOREM OrderAlwaysStays == Spec => StaysInOrder
  <1>1. Basis /\ [Next]_vars => [OrderStep]_vars
    BY OrderKept
  <1> QED BY <1>1, BasisAlways, PTL DEF Spec, StaysInOrder, OrderStep

\* The step of PatchKeepsDefinitions.
LEMMA DefinitionsKept == Basis /\ [Next]_vars => DefinitionsStep
  <1> SUFFICES ASSUME Basis, [Next]_vars, patches' # patches, Overflow \notin Range(graph'.diagnostics),
                      NEW id \in Elected(Groups(files, Present(files))),
                      id \in DOMAIN Groups(files', Present(files'))
               PROVE  id \in Elected(Groups(files', Present(files')))
    BY DEF DefinitionsStep
  <1>1. PICK after : Changed(after)
    BY ChangeCompiles
  <1>2. /\ Corpus(files) /\ Corpus(after) /\ Readable(files) /\ Readable(after)
        /\ Ambiguous(GroupsOf(after)) \subseteq Ambiguous(GroupsOf(files))
    BY <1>1, ChangeKeepsDefinitions
  <1>3. Accepted(files) = Present(files) /\ Accepted(after) = Present(after) /\ files' = after
    BY <1>1, <1>2, ReadableAccepted DEF Changed
  <1>4. id \in Elected(GroupsOf(files)) /\ id \in DOMAIN GroupsOf(after)
    BY <1>3 DEF GroupsOf
  <1>5. id \in Elected(GroupsOf(after))
    BY <1>2, <1>4 DEF Elected
  <1> QED BY <1>3, <1>5 DEF GroupsOf

\* A patch never makes a definition ambiguous.
THEOREM DefinitionsAlwaysKept == Spec => PatchKeepsDefinitions
  <1>1. Basis /\ [Next]_vars => [DefinitionsStep]_vars
    BY DefinitionsKept
  <1> QED BY <1>1, BasisAlways, PTL DEF Spec, PatchKeepsDefinitions, DefinitionsStep

-----------------------------------------------------------------------------
\* When a reference is resolved.
LEMMA ResolvedWhen ==
    ASSUME NEW r, NEW groups, NEW nodes
    PROVE  ResolveReference(r, groups, nodes) = "RESOLVED" <=>
               /\ TargetOf(r).local \in Locals \cup Docs
               /\ TargetOf(r) \in DOMAIN groups /\ TargetOf(r) \notin Ambiguous(groups) /\ r.source \in nodes
               /\ EndpointAllowed(r.type, KindOf(From(r)), KindOf(To(r)))
  <1>1. PICK allowed : allowed = EndpointAllowed(r.type, KindOf(From(r)), KindOf(To(r)))
    OBVIOUS
  <1>2. PICK t : t = TargetOf(r)
    OBVIOUS
  <1> QED BY <1>2 DEF ResolveReference

\* Two corpora that hold the same in the documents of some specs.
Same(f, h, S) ==
    /\ Corpus(f) /\ Corpus(h) /\ Accepted(f) = Present(f) /\ Accepted(h) = Present(h)
    /\ \A d \in Docs : SpecOf[d] \in S => f[d] = h[d]

\* Such corpora have the same places there,
LEMMA SamePlaces ==
    ASSUME NEW f, NEW h, NEW S, Same(f, h, S)
    PROVE  /\ \A d \in Docs : SpecOf[d] \in S => (d \in Accepted(f) <=> d \in Accepted(h)) /\ f[d] = h[d]
           /\ \A is : \A p \in Places(f, Accepted(f), is) : SpecOf[p[1]] \in S => p \in Places(h, Accepted(h), is)
           /\ \A p : p[1] \in Docs /\ SpecOf[p[1]] \in S => Defined(f, p) = Defined(h, p) /\ Item(f, p) = Item(h, p)
  <1>1. \A d \in Docs : SpecOf[d] \in S => (d \in Accepted(f) <=> d \in Accepted(h)) /\ f[d] = h[d]
    BY DEF Same, Present
  <1>2. Accepted(f) \subseteq Docs
    BY DEF Same, Present
  <1>3. ASSUME NEW is, NEW p \in Places(f, Accepted(f), is), SpecOf[p[1]] \in S PROVE p \in Places(h, Accepted(h), is)
    <2>1. /\ p \in Accepted(f) \X DOMAIN Offset /\ p[1] \in Accepted(f) /\ p[2] \in DOMAIN f[p[1]].items
          /\ f[p[1]].items[p[2]].is = is
      BY DEF Places
    <2>2. p[1] \in Accepted(h) /\ f[p[1]] = h[p[1]]
      BY <1>1, <1>2, <1>3, <2>1
    <2>3. p \in Accepted(h) \X DOMAIN Offset
      BY <2>1, <2>2
    <2> QED BY <2>1, <2>2, <2>3 DEF Places
  <1>4. \A p : p[1] \in Docs /\ SpecOf[p[1]] \in S => Defined(f, p) = Defined(h, p) /\ Item(f, p) = Item(h, p)
    BY <1>1 DEF Defined, Item
  <1> QED BY <1>1, <1>3, <1>4

\* both ways;
LEMMA SameSides == ASSUME NEW f, NEW h, NEW S, Same(f, h, S) PROVE Same(h, f, S)
  BY DEF Same

\* the same groups and ambiguous definitions
LEMMA SameAmbiguous ==
    ASSUME NEW f, NEW h, NEW S, Same(f, h, S), NEW id, id.spec \in S
    PROVE  /\ id \in DOMAIN GroupsOf(f) => id \in DOMAIN GroupsOf(h)
           /\ id \in Ambiguous(GroupsOf(f)) => id \in Ambiguous(GroupsOf(h))
  <1>0. Corpus(f) /\ Corpus(h) /\ Accepted(f) \in SUBSET Docs
    BY BuiltNodes DEF Same
  <1>1. \A p \in Places(f, Accepted(f), "def") : Defined(f, p) = id =>
            p \in Places(h, Accepted(h), "def") /\ Defined(h, p) = id
    <2> TAKE p \in Places(f, Accepted(f), "def")
    <2> HAVE Defined(f, p) = id
    <2>1. p[1] \in Docs
      BY <1>0 DEF Places
    <2>2. SpecOf[p[1]] \in S
      BY DEF Defined, Identity
    <2>3. p \in Places(h, Accepted(h), "def")
      BY <2>2, SamePlaces
    <2>4. Defined(f, p) = Defined(h, p)
      BY <2>1, <2>2, SamePlaces
    <2> QED BY <2>3, <2>4
  <1>2. ASSUME id \in DOMAIN GroupsOf(f) PROVE id \in DOMAIN GroupsOf(h)
    <2>1. GroupsOf(f)[id] # {} /\ GroupsOf(f)[id] = {p \in Places(f, Accepted(f), "def") : Defined(f, p) = id}
      BY <1>0, <1>2, BuiltGroups
    <2>2. PICK p \in Places(f, Accepted(f), "def") : Defined(f, p) = id
      BY <2>1
    <2>3. p \in Places(h, Accepted(h), "def") /\ Defined(h, p) = id
      BY <1>1, <2>2
    <2> QED BY <1>0, <2>3, BuiltGroups
  <1>3. ASSUME id \in Ambiguous(GroupsOf(f)) PROVE id \in Ambiguous(GroupsOf(h))
    <2>1. \E p, q \in Places(f, Accepted(f), "def") : p # q /\ Defined(f, p) = id /\ Defined(f, q) = id
      BY <1>0, <1>3, AmbiguousPlaces
    <2>2. \E p, q \in Places(h, Accepted(h), "def") : p # q /\ Defined(h, p) = id /\ Defined(h, q) = id
      BY <1>1, <2>1
    <2> QED BY <1>0, <2>2, AmbiguousPlaces
  <1> QED BY <1>2, <1>3

\* and the same nodes,
LEMMA SameNodes ==
    ASSUME NEW f, NEW h, NEW S, Same(f, h, S), NEW id, id.spec \in S, id \in NodesOf(f)
    PROVE  id \in NodesOf(h)
  <1>1. Accepted(f) \in SUBSET Docs
    BY BuiltNodes DEF Same
  <1>2. CASE id \in Elected(GroupsOf(f))
    <2>1. id \in DOMAIN GroupsOf(h)
      BY <1>2, SameAmbiguous DEF Elected
    <2>2. Same(h, f, S)
      BY SameSides
    <2>3. id \notin Ambiguous(GroupsOf(h))
      BY <1>2, <2>2, SameAmbiguous DEF Elected
    <2> QED BY <2>1, <2>3 DEF NodesOf, Nodes, Elected
  <1>3. ASSUME NEW d \in Accepted(f), id = DocNode(d) PROVE id \in NodesOf(h)
    <2>1. SpecOf[d] \in S /\ d \in Docs
      BY <1>1, <1>3 DEF DocNode, Identity
    <2>2. d \in Accepted(h)
      BY <2>1, SamePlaces
    <2> QED BY <1>3, <2>2 DEF NodesOf, Nodes
  <1>4. ASSUME NEW d \in Roadmaps(Accepted(f)), id = RoadmapNode(d) PROVE id \in NodesOf(h)
    <2>1. SpecOf[d] \in S /\ d \in Docs /\ d \in Accepted(f) /\ DocumentKind[d] = "ROADMAP"
      BY <1>1, <1>4 DEF RoadmapNode, Identity, Roadmaps
    <2>2. d \in Accepted(h)
      BY <2>1, SamePlaces
    <2>3. d \in Roadmaps(Accepted(h))
      BY <2>1, <2>2 DEF Roadmaps
    <2> QED BY <1>4, <2>3 DEF NodesOf, Nodes
  <1> QED BY <1>2, <1>3, <1>4 DEF NodesOf, Nodes

\* both ways.
LEMMA SameNodesBoth ==
    ASSUME NEW f, NEW h, NEW S, Same(f, h, S), NEW id, id.spec \in S
    PROVE  id \in NodesOf(f) <=> id \in NodesOf(h)
  <1>1. Same(h, f, S)
    BY SameSides
  <1>2. id \in NodesOf(f) => id \in NodesOf(h)
    BY SameNodes
  <1>3. id \in NodesOf(h) => id \in NodesOf(f)
    BY <1>1, SameNodes
  <1> QED BY <1>2, <1>3

-----------------------------------------------------------------------------
\* What is read at a place depends on its document.
LEMMA SameItems ==
    ASSUME NEW f, NEW h, NEW p, f[p[1]] = h[p[1]]
    PROVE  /\ \A kinds : Before(f, p, kinds) = Before(h, p, kinds)
           /\ Item(f, p) = Item(h, p) /\ Defined(f, p) = Defined(h, p)
           /\ ScenarioOf(f, p) = ScenarioOf(h, p)
           /\ \A i : Defined(f, <<p[1], i>>) = Defined(h, <<p[1], i>>)
  <1>1. \A kinds : Before(f, p, kinds) = Before(h, p, kinds)
    BY DEF Before
  <1>2. ScenarioOf(f, p) = ScenarioOf(h, p)
    BY <1>1 DEF ScenarioOf
  <1>3. \A i : <<p[1], i>>[1] = p[1] /\ <<p[1], i>>[2] = i
    OBVIOUS
  <1>4. \A i : Defined(f, <<p[1], i>>) = Defined(h, <<p[1], i>>)
    BY <1>3 DEF Defined, Item
  <1> QED BY <1>1, <1>2, <1>4 DEF Item, Defined

\* The source of a reference is in the spec of its document.
LEMMA SourceSpec ==
    ASSUME NEW f, NEW nodes, NEW p
    PROVE  /\ SourceOf(f, nodes, p).spec = SpecOf[p[1]]
           /\ \A i : Defined(f, <<p[1], i>>).spec = SpecOf[p[1]]
  <1>1. \A i : Defined(f, <<p[1], i>>).spec = SpecOf[p[1]]
    BY DEF Defined, Identity
  <1>2. DocNode(p[1]).spec = SpecOf[p[1]]
    BY DEF DocNode, Identity
  <1> QED BY <1>1, <1>2 DEF SourceOf

\* A reference has the same source in both corpora.
LEMMA SameSource ==
    ASSUME NEW f, NEW h, NEW S, Same(f, h, S), NEW p, p[1] \in Docs, SpecOf[p[1]] \in S
    PROVE  SourceOf(f, NodesOf(f), p) = SourceOf(h, NodesOf(h), p)
  <1>0. f[p[1]] = h[p[1]]
    BY DEF Same
  <1>1. PICK before : before = Before(f, p, {"def"})
    OBVIOUS
  <1>2. PICK last : last = CHOOSE i \in before : \A j \in before : j <= i
    OBVIOUS
  <1>3. PICK source : source = Defined(f, <<p[1], last>>)
    OBVIOUS
  <1>4. before = Before(h, p, {"def"}) /\ source = Defined(h, <<p[1], last>>)
    BY <1>0, <1>1, <1>3, SameItems
  <1>5. source.spec \in S
    BY <1>3, SourceSpec
  <1>6. source \in NodesOf(f) <=> source \in NodesOf(h)
    BY <1>5, SameNodesBoth
  <1>7. SourceOf(f, NodesOf(f), p) = IF before # {} /\ source \in NodesOf(f) THEN source ELSE DocNode(p[1])
    BY <1>1, <1>2, <1>3 DEF SourceOf
  <1>8. SourceOf(h, NodesOf(h), p) = IF before # {} /\ source \in NodesOf(h) THEN source ELSE DocNode(p[1])
    BY <1>2, <1>4 DEF SourceOf
  <1> QED BY <1>6, <1>7, <1>8

\* Where a reference comes from: its place, and what is stated there.
Declared(f, docs, nodes) ==
    {p \in Places(f, docs, "def") :
        /\ DocumentKind[p[1]] # "FEATURE"
        /\ Defined(f, p) \in nodes
        /\ \A i \in Before(f, p, {"def"}) : f[p[1]].items[i].local # Item(f, p).local}
Marked(f, docs) == {p \in Places(f, docs, "ref") : DocumentKind[p[1]] # "FEATURE"}
Tagged(f, docs) ==
    {p \in Places(f, docs, "ref") : /\ DocumentKind[p[1]] = "FEATURE"
                                    /\ f[p[1]].items[ScenarioOf(f, p)].is = "def"}

\* These are all references.
LEMMA ReferencesFrom ==
    ASSUME NEW f, NEW docs, NEW nodes, NEW r
    PROVE  r \in References(f, docs, nodes) <=>
               \/ \E p \in Declared(f, docs, nodes) : r = Reference(p, "declares", DocNode(p[1]), Defined(f, p), "DECLARES")
               \/ \E p \in Marked(f, docs) :
                      r = Reference(p, "ref", SourceOf(f, nodes, p), Item(f, p).target, Item(f, p).type)
               \/ \E p \in Tagged(f, docs) :
                      r = Reference(p, "ref", Defined(f, <<p[1], ScenarioOf(f, p)>>), Item(f, p).target, Item(f, p).type)
  <1>1. PICK refs : refs = Places(f, docs, "ref")
    OBVIOUS
  <1>2. PICK marked : marked = Marked(f, docs)
    OBVIOUS
  <1>3. PICK tagged : tagged = Tagged(f, docs)
    OBVIOUS
  <1>4. PICK declared : declared = Declared(f, docs, nodes)
    OBVIOUS
  <1>5. marked = {p \in refs : DocumentKind[p[1]] # "FEATURE"}
    BY <1>1, <1>2 DEF Marked
  <1>6. tagged = {p \in refs \ marked : f[p[1]].items[ScenarioOf(f, p)].is = "def"}
    BY <1>1, <1>3, <1>5 DEF Tagged
  <1>7. References(f, docs, nodes) =
          {Reference(p, "declares", DocNode(p[1]), Defined(f, p), "DECLARES") : p \in declared}
          \cup {Reference(p, "ref", SourceOf(f, nodes, p), Item(f, p).target, Item(f, p).type) : p \in marked}
          \cup {Reference(p, "ref", Defined(f, <<p[1], ScenarioOf(f, p)>>), Item(f, p).target, Item(f, p).type) :
                 p \in tagged}
    BY <1>1, <1>4, <1>5, <1>6, Zenon DEF References, Declared
  <1> QED BY <1>2, <1>3, <1>4, <1>7

\* A reference that is stated there is one of both corpora.
LEMMA SameReferences ==
    ASSUME NEW f, NEW h, NEW S, Same(f, h, S), NEW r \in RefsOf(f), SpecOf[r.id[1]] \in S
    PROVE  r \in RefsOf(h) /\ r.source.spec \in S
  <1>0. Accepted(f) \subseteq Docs /\ Accepted(h) \subseteq Docs
    BY DEF Same, Present
  <1>a. \A is : \A p \in Places(f, Accepted(f), is) : p[1] \in Docs
    BY <1>0 DEF Places
  <1>1. ASSUME NEW p \in Declared(f, Accepted(f), NodesOf(f)),
               r = Reference(p, "declares", DocNode(p[1]), Defined(f, p), "DECLARES")
        PROVE  r \in RefsOf(h) /\ r.source.spec \in S
    <2>1. p[1] \in Docs /\ SpecOf[p[1]] \in S /\ p \in Places(f, Accepted(f), "def")
      BY <1>1, <1>a DEF Declared, Reference
    <2>2. f[p[1]] = h[p[1]]
      BY <2>1 DEF Same
    <2>3. p \in Places(h, Accepted(h), "def")
      BY <2>1, SamePlaces
    <2>4. Defined(f, p) = Defined(h, p) /\ Item(f, p) = Item(h, p) /\ Before(f, p, {"def"}) = Before(h, p, {"def"})
      BY <2>2, SameItems
    <2>5. Defined(f, p).spec \in S
      BY <2>1 DEF Defined, Identity
    <2>6. Defined(h, p) \in NodesOf(h)
      BY <1>1, <2>4, <2>5, SameNodes DEF Declared
    <2>7. p \in Declared(h, Accepted(h), NodesOf(h))
      BY <1>1, <2>2, <2>3, <2>4, <2>6 DEF Declared
    <2>8. r \in RefsOf(h)
      BY <1>1, <2>4, <2>7, ReferencesFrom DEF RefsOf
    <2> QED BY <1>1, <2>1, <2>8 DEF Reference, DocNode, Identity
  <1>2. ASSUME NEW p \in Marked(f, Accepted(f)),
               r = Reference(p, "ref", SourceOf(f, NodesOf(f), p), Item(f, p).target, Item(f, p).type)
        PROVE  r \in RefsOf(h) /\ r.source.spec \in S
    <2>1. p[1] \in Docs /\ SpecOf[p[1]] \in S /\ p \in Places(f, Accepted(f), "ref")
      BY <1>2, <1>a DEF Marked, Reference
    <2>2. f[p[1]] = h[p[1]]
      BY <2>1 DEF Same
    <2>3. p \in Places(h, Accepted(h), "ref")
      BY <2>1, SamePlaces
    <2>4. Item(f, p) = Item(h, p)
      BY <2>2, SameItems
    <2>5. SourceOf(f, NodesOf(f), p) = SourceOf(h, NodesOf(h), p)
      BY <2>1, SameSource
    <2>6. p \in Marked(h, Accepted(h))
      BY <1>2, <2>3 DEF Marked
    <2>7. r = Reference(p, "ref", SourceOf(h, NodesOf(h), p), Item(h, p).target, Item(h, p).type)
      BY <1>2, <2>4, <2>5
    <2>8. r \in RefsOf(h)
      BY <2>6, <2>7, ReferencesFrom DEF RefsOf
    <2>9. r.source = SourceOf(f, NodesOf(f), p)
      BY <1>2 DEF Reference
    <2> QED BY <2>1, <2>8, <2>9, SourceSpec
  <1>3. ASSUME NEW p \in Tagged(f, Accepted(f)),
               r = Reference(p, "ref", Defined(f, <<p[1], ScenarioOf(f, p)>>), Item(f, p).target, Item(f, p).type)
        PROVE  r \in RefsOf(h) /\ r.source.spec \in S
    <2>1. p[1] \in Docs /\ SpecOf[p[1]] \in S /\ p \in Places(f, Accepted(f), "ref")
      BY <1>3, <1>a DEF Tagged, Reference
    <2>2. f[p[1]] = h[p[1]]
      BY <2>1 DEF Same
    <2>3. p \in Places(h, Accepted(h), "ref")
      BY <2>1, SamePlaces
    <2>4. Item(f, p) = Item(h, p) /\ ScenarioOf(f, p) = ScenarioOf(h, p)
          /\ Defined(f, <<p[1], ScenarioOf(f, p)>>) = Defined(h, <<p[1], ScenarioOf(h, p)>>)
      BY <2>2, SameItems
    <2>6. p \in Tagged(h, Accepted(h))
      BY <1>3, <2>2, <2>3, <2>4 DEF Tagged
    <2>7. r = Reference(p, "ref", Defined(h, <<p[1], ScenarioOf(h, p)>>), Item(h, p).target, Item(h, p).type)
      BY <1>3, <2>4
    <2>8. r \in RefsOf(h)
      BY <2>6, <2>7, ReferencesFrom DEF RefsOf
    <2>9. r.source = Defined(f, <<p[1], ScenarioOf(f, p)>>)
      BY <1>3 DEF Reference
    <2>10. r.source.spec = SpecOf[p[1]]
      BY <2>9 DEF Defined, Identity
    <2> QED BY <2>1, <2>8, <2>10
  <1> QED BY <1>1, <1>2, <1>3, ReferencesFrom DEF RefsOf

\* An edge among specs whose documents hold the same is an edge of both graphs.
LEMMA EdgeLocal ==
    ASSUME NEW f, NEW h, NEW S, Same(f, h, S), NEW e \in BuiltEdges(f),
           SpecOf[e.id[1]] \in S, e.from.spec \in S, e.to.spec \in S
    PROVE  e \in BuiltEdges(h)
  <1>0. Accepted(f) \subseteq Docs
    BY DEF Same, Present
  <1>1. ASSUME NEW d \in Roadmaps(Accepted(f)),
               e = [id |-> <<d, 0, "roadmap">>, from |-> DocNode(d), to |-> RoadmapNode(d), type |-> "DECLARES"]
        PROVE  e \in BuiltEdges(h)
    <2>1. d \in Docs /\ SpecOf[d] \in S /\ d \in Accepted(f)
      BY <1>0, <1>1 DEF Roadmaps, DocNode, Identity
    <2>2. d \in Roadmaps(Accepted(h))
      BY <1>1, <2>1, SamePlaces DEF Roadmaps
    <2> QED BY <1>1, <2>2 DEF BuiltEdges, EdgesOf, RoadmapEdges
  <1>2. ASSUME NEW r \in RefsOf(f), ResolveReference(r, GroupsOf(f), NodesOf(f)) = "RESOLVED", e = Edge(r)
        PROVE  e \in BuiltEdges(h)
    <2>1. e.id = r.id /\ e.from = From(r) /\ e.to = To(r)
      BY <1>2 DEF Edge
    <2>2. r \in RefsOf(h) /\ r.source.spec \in S
      BY <2>1, SameReferences
    <2>3. TargetOf(r).spec \in S
      BY <2>1, <2>2 DEF From, To
    <2>4. r.source \in NodesOf(h)
      BY <1>2, <2>2, ResolvedWhen, SameNodes
    <2>5. TargetOf(r) \in DOMAIN GroupsOf(h)
      BY <1>2, <2>3, ResolvedWhen, SameAmbiguous
    <2>6. TargetOf(r) \notin Ambiguous(GroupsOf(h))
      BY <1>2, <2>3, ResolvedWhen, SameAmbiguous, SameSides
    <2>7. ResolveReference(r, GroupsOf(h), NodesOf(h)) = "RESOLVED"
      BY <1>2, <2>4, <2>5, <2>6, ResolvedWhen
    <2> QED BY <1>2, <2>2, <2>7 DEF BuiltEdges, EdgesOf
  <1>3. \/ \E d \in Roadmaps(Accepted(f)) :
               e = [id |-> <<d, 0, "roadmap">>, from |-> DocNode(d), to |-> RoadmapNode(d), type |-> "DECLARES"]
        \/ \E r \in RefsOf(f) : ResolveReference(r, GroupsOf(f), NodesOf(f)) = "RESOLVED" /\ e = Edge(r)
    BY DEF BuiltEdges, EdgesOf, RoadmapEdges
  <1> QED BY <1>1, <1>2, <1>3

\* The step of EditsStayLocal.
LEMMA LocalKept == Basis /\ Basis' => StayLocal
  <1> SUFFICES ASSUME Basis, Basis', Loaded(graph), Loaded(graph')
               PROVE  LET others == {s \in Specs : \A d \in Docs :
                                        SpecOf[d] = s => graph.fingerprint[d] = graph'.fingerprint[d]}
                      IN  EdgesAmong(graph, others) = EdgesAmong(graph', others)
    BY DEF StayLocal
  <1>1. PICK g : g = graph
    OBVIOUS
  <1>2. PICK k : k = graph'
    OBVIOUS
  <1>3. GraphOK(g) /\ Loaded(g) /\ GraphOK(k) /\ Loaded(k)
    BY <1>1, <1>2 DEF Basis
  <1>4. PICK f : f = g.fingerprint
    OBVIOUS
  <1>5. PICK h : h = k.fingerprint
    OBVIOUS
  <1>6. PICK S : S = {s \in Specs : \A d \in Docs : SpecOf[d] = s => f[d] = h[d]}
    OBVIOUS
  <1>7. /\ Corpus(f) /\ Corpus(h) /\ Accepted(f) = Present(f) /\ Accepted(h) = Present(h)
        /\ g.edges = BuiltEdges(f) /\ k.edges = BuiltEdges(h)
    BY <1>3, <1>4, <1>5, LoadedGraph
  <1>8. Same(f, h, S) /\ Same(h, f, S)
    BY <1>6, <1>7 DEF Same
  <1>9. EdgesAmong(g, S) \subseteq EdgesAmong(k, S)
    BY <1>7, <1>8, EdgeLocal DEF EdgesAmong
  <1>10. EdgesAmong(k, S) \subseteq EdgesAmong(g, S)
    BY <1>7, <1>8, EdgeLocal DEF EdgesAmong
  <1>11. EdgesAmong(graph, S) = EdgesAmong(graph', S)
    BY <1>1, <1>2, <1>9, <1>10, Zenon
  <1>12. S = {s \in Specs : \A d \in Docs : SpecOf[d] = s => graph.fingerprint[d] = graph'.fingerprint[d]}
    BY <1>1, <1>2, <1>4, <1>5, <1>6
  <1> QED BY <1>11, <1>12, Zenon

\* Changing one spec leaves the edges among the others as they were.
THEOREM EditsAlwaysStayLocal == Spec => EditsStayLocal
  <1>1. Basis /\ Basis' => [StayLocal]_vars
    BY LocalKept
  <1> QED BY <1>1, BasisAlways, PTL DEF EditsStayLocal

-----------------------------------------------------------------------------
\* The last of some numbers.
LEMMA Greatest ==
    ASSUME NEW n \in Nat, NEW S \in SUBSET (1 .. n), S # {},
           NEW last, last = CHOOSE i \in S : \A j \in S : j <= i
    PROVE  last \in S
  <1>1. PICK T : T = {n - j : j \in S}
    OBVIOUS
  <1>2. T \in SUBSET Nat /\ T # {}
    <2>1. \A j \in S : j \in 1 .. n /\ n - j \in Nat
      OBVIOUS
    <2>2. T # {}
      BY <1>1
    <2> QED BY <1>1, <2>1, <2>2
  <1>3. PICK t \in T : \A u \in T : t <= u
    BY <1>2, Least
  <1>4. PICK i \in S : t = n - i
    BY <1>1
  <1>5. \A j \in S : j <= i
    BY <1>1, <1>3, <1>4
  <1> QED BY <1>5

\* A node is of a spec with a document.
LEMMA NodeSpec ==
    ASSUME NEW f, Corpus(f), NEW id \in NodesOf(f) PROVE \E d \in Accepted(f) : SpecOf[d] = id.spec
  <1>1. CASE id \in DOMAIN GroupsOf(f)
    <2>1. GroupsOf(f)[id] # {} /\ GroupsOf(f)[id] = {p \in Places(f, Accepted(f), "def") : Defined(f, p) = id}
      BY <1>1, BuiltGroups
    <2>2. PICK p \in Places(f, Accepted(f), "def") : Defined(f, p) = id
      BY <2>1
    <2> QED BY <2>2 DEF Places, Defined, Identity
  <1>2. ASSUME NEW d \in Accepted(f), id = DocNode(d) PROVE SpecOf[d] = id.spec
    BY <1>2 DEF DocNode, Identity
  <1>3. ASSUME NEW d \in Roadmaps(Accepted(f)), id = RoadmapNode(d) PROVE d \in Accepted(f) /\ SpecOf[d] = id.spec
    BY <1>3 DEF RoadmapNode, Identity, Roadmaps
  <1> QED BY <1>1, <1>2, <1>3 DEF NodesOf, Nodes, Elected

\* Scenarios and their tags, in what a document may hold.
LEMMA ContentTags ==
    ASSUME NEW f, FilesOK(f), NEW d \in Docs, NEW i \in DOMAIN f[d].items, NEW x, x = f[d].items[i]
    PROVE  /\ x.is = "def" /\ NodeKind[x.local] = "SCENARIO" => DocumentKind[d] = "FEATURE"
           /\ x.is = "ref" /\ x.type = "TESTED_BY" /\ DocumentKind[d] = "FEATURE" => x.target.spec = "own"
  <1>1. f[d] \in Contents(d)
    BY DEF FilesOK
  <1>2. CASE f[d] = Absent
    <2>1. DOMAIN f[d].items = {}
      BY <1>2 DEF Absent
    <2> QED BY <2>1
  <1>3. ASSUME NEW v \in Variants[d], Range(f[d].items) \subseteq Range(v.items)
        PROVE  /\ x.is = "def" /\ NodeKind[x.local] = "SCENARIO" => DocumentKind[d] = "FEATURE"
               /\ x.is = "ref" /\ x.type = "TESTED_BY" /\ DocumentKind[d] = "FEATURE" => x.target.spec = "own"
    <2>1. x \in Range(v.items)
      BY <1>3 DEF Range
    <2> QED BY <2>1, TagsAssumption
  <1> QED BY <1>1, <1>2, <1>3 DEF Contents

\* The edge of a flipped reference stays in the spec that states it.
LEMMA FlippedStays ==
    ASSUME NEW f, FilesOK(f), NEW r \in RefsOf(f), Flipped(r)
    PROVE  TargetOf(r).spec = SpecOf[r.id[1]]
  <1>0. Corpus(f) /\ Accepted(f) \in SUBSET Docs
    BY FilesCorpus, BuiltNodes
  <1>a. \A is : \A p \in Places(f, Accepted(f), is) :
            p[1] \in Docs /\ p[2] \in DOMAIN f[p[1]].items /\ f[p[1]].items[p[2]].is = is
    BY <1>0 DEF Places
  <1>b. r.type = "TESTED_BY" /\ KindOf(r.source) = "SCENARIO"
    BY DEF Flipped
  <1>1. ASSUME NEW p \in Declared(f, Accepted(f), NodesOf(f)), r = Reference(p, "declares", DocNode(p[1]), Defined(f, p), "DECLARES")
        PROVE  FALSE
    BY <1>1, <1>b DEF Reference
  <1>2. ASSUME NEW p \in Marked(f, Accepted(f)),
               r = Reference(p, "ref", SourceOf(f, NodesOf(f), p), Item(f, p).target, Item(f, p).type)
        PROVE  FALSE
    <2>1. p[1] \in Docs /\ DocumentKind[p[1]] # "FEATURE" /\ p[2] \in DOMAIN f[p[1]].items
      BY <1>a DEF Marked
    <2>2. r.source = SourceOf(f, NodesOf(f), p)
      BY <1>2 DEF Reference
    <2>3. PICK before : before = Before(f, p, {"def"})
      OBVIOUS
    <2>4. PICK last : last = CHOOSE i \in before : \A j \in before : j <= i
      OBVIOUS
    <2>5. SourceOf(f, NodesOf(f), p) =
              IF before # {} /\ Defined(f, <<p[1], last>>) \in NodesOf(f)
              THEN Defined(f, <<p[1], last>>) ELSE DocNode(p[1])
      BY <2>3, <2>4 DEF SourceOf
    <2>6. KindOf(DocNode(p[1])) = "DOCUMENT"
      BY <2>1 DEF KindOf, DocNode, Identity
    <2>7. before # {} /\ r.source = Defined(f, <<p[1], last>>)
      BY <1>b, <2>2, <2>5, <2>6
    <2>8. \E n \in Nat : before \in SUBSET (1 .. n)
      <3>1. f[p[1]].items \in Seq(Items) /\ p[2] \in Nat
        BY <1>0, <2>1 DEF Corpus, Documents
      <3>2. before \in SUBSET (1 .. p[2] - 1)
        BY <2>3 DEF Before
      <3>3. p[2] - 1 \in Nat
        BY <2>1, <3>1
      <3> QED BY <3>2, <3>3
    <2>9. last \in before
      BY <2>4, <2>7, <2>8, Greatest
    <2>10. last \in DOMAIN f[p[1]].items /\ f[p[1]].items[last].is = "def"
      <3>1. f[p[1]].items \in Seq(Items)
        BY <1>0, <2>1 DEF Corpus, Documents
      <3>2. last \in 1 .. p[2] - 1 /\ f[p[1]].items[last].is = "def"
        BY <2>3, <2>9 DEF Before
      <3> QED BY <2>1, <3>1, <3>2
    <2>11. PICK x : x = f[p[1]].items[last]
      OBVIOUS
    <2>12. r.source.local = x.local /\ x.is = "def"
      BY <2>7, <2>10, <2>11 DEF Defined, Item, Identity
    <2>13. x.local \in Locals
      BY <1>0, <2>1, <2>10, <2>11, <2>12 DEF Corpus, Documents, Items
    <2>14. NodeKind[x.local] = "SCENARIO"
      BY <1>b, <2>12, <2>13, DocsAssumption DEF KindOf
    <2> QED BY <2>1, <2>10, <2>11, <2>12, <2>14, ContentTags
  <1>3. ASSUME NEW p \in Tagged(f, Accepted(f)),
               r = Reference(p, "ref", Defined(f, <<p[1], ScenarioOf(f, p)>>), Item(f, p).target, Item(f, p).type)
        PROVE  TargetOf(r).spec = SpecOf[r.id[1]]
    <2>1. p[1] \in Docs /\ DocumentKind[p[1]] = "FEATURE" /\ p[2] \in DOMAIN f[p[1]].items
          /\ f[p[1]].items[p[2]].is = "ref"
      BY <1>a DEF Tagged
    <2>2. PICK x : x = f[p[1]].items[p[2]]
      OBVIOUS
    <2>3. x.is = "ref" /\ r.target = x.target /\ x.type = "TESTED_BY" /\ r.id[1] = p[1]
      BY <1>3, <1>b, <2>1, <2>2 DEF Reference, Item
    <2>4. x.target.spec = "own"
      BY <2>1, <2>2, <2>3, ContentTags
    <2> QED BY <2>3, <2>4 DEF TargetOf, Identity
  <1> QED BY <1>1, <1>2, <1>3, ReferencesFrom DEF RefsOf

\* The source of a reference is in the spec that states it.
LEMMA ReferenceSource ==
    ASSUME NEW f, NEW r \in RefsOf(f) PROVE r.source.spec = SpecOf[r.id[1]]
  <1>1. ASSUME NEW p \in Declared(f, Accepted(f), NodesOf(f)),
               r = Reference(p, "declares", DocNode(p[1]), Defined(f, p), "DECLARES")
        PROVE  r.source.spec = SpecOf[r.id[1]]
    BY <1>1 DEF Reference, DocNode, Identity
  <1>2. ASSUME NEW p \in Marked(f, Accepted(f)),
               r = Reference(p, "ref", SourceOf(f, NodesOf(f), p), Item(f, p).target, Item(f, p).type)
        PROVE  r.source.spec = SpecOf[r.id[1]]
    <2>1. r.source = SourceOf(f, NodesOf(f), p) /\ r.id[1] = p[1]
      BY <1>2 DEF Reference
    <2> QED BY <2>1, SourceSpec
  <1>3. ASSUME NEW p \in Tagged(f, Accepted(f)),
               r = Reference(p, "ref", Defined(f, <<p[1], ScenarioOf(f, p)>>), Item(f, p).target, Item(f, p).type)
        PROVE  r.source.spec = SpecOf[r.id[1]]
    <2>1. r.source = Defined(f, <<p[1], ScenarioOf(f, p)>>) /\ r.id[1] = p[1]
      BY <1>3 DEF Reference
    <2> QED BY <2>1 DEF Defined, Identity
  <1> QED BY <1>1, <1>2, <1>3, ReferencesFrom DEF RefsOf

\* An edge that a document of another spec states, when no edge of the others ends in
\* the spec, does not meet it.
LEMMA EdgeOutside ==
    ASSUME NEW f, FilesOK(f), NEW s, NEW e \in BuiltEdges(f), SpecOf[e.id[1]] # s,
           \A k \in BuiltEdges(f) : k.to.spec = s => k.from.spec = s
    PROVE  e.from.spec # s /\ e.to.spec # s
  <1>1. ASSUME NEW d \in Roadmaps(Accepted(f)),
               e = [id |-> <<d, 0, "roadmap">>, from |-> DocNode(d), to |-> RoadmapNode(d), type |-> "DECLARES"]
        PROVE  e.from.spec # s /\ e.to.spec # s
    BY <1>1 DEF DocNode, RoadmapNode, Identity
  <1>2. ASSUME NEW r \in RefsOf(f), e = Edge(r) PROVE e.from.spec # s /\ e.to.spec # s
    <2>1. e.id = r.id /\ e.from = From(r) /\ e.to = To(r)
      BY <1>2 DEF Edge
    <2>2. r.source.spec = SpecOf[r.id[1]]
      BY ReferenceSource
    <2>3. CASE Flipped(r)
      <3>1. TargetOf(r).spec = SpecOf[r.id[1]]
        BY <2>3, FlippedStays
      <3> QED BY <2>1, <2>2, <3>1 DEF From, To
    <2>4. CASE ~Flipped(r)
      <3>1. e.from = r.source
        BY <2>1, <2>4 DEF From
      <3>2. e.from.spec # s
        BY <2>1, <2>2, <3>1
      <3> QED BY <3>2
    <2> QED BY <2>3, <2>4
  <1>3. \/ \E d \in Roadmaps(Accepted(f)) :
               e = [id |-> <<d, 0, "roadmap">>, from |-> DocNode(d), to |-> RoadmapNode(d), type |-> "DECLARES"]
        \/ \E r \in RefsOf(f) : ResolveReference(r, GroupsOf(f), NodesOf(f)) = "RESOLVED" /\ e = Edge(r)
    BY DEF BuiltEdges, EdgesOf, RoadmapEdges
  <1> QED BY <1>1, <1>2, <1>3

\* What both kinds of change say of the edges.
LEMMA ChangeOutside ==
    ASSUME NEW f, FilesOK(f), NEW h, FilesOK(h), Readable(f), Readable(h), NEW s,
           \A d \in Docs : SpecOf[d] # s => f[d] = h[d],
           \A e \in BuiltEdges(f) : SpecOf[e.id[1]] # s => e.from.spec # s /\ e.to.spec # s
    PROVE  \A e \in BuiltEdges(f) : SpecOf[e.id[1]] # s => e \in BuiltEdges(h)
  <1> TAKE e \in BuiltEdges(f)
  <1> HAVE SpecOf[e.id[1]] # s
  <1>1. PICK S : S = {t : t \in {SpecOf[e.id[1]], e.from.spec, e.to.spec}}
    OBVIOUS
  <1>2. s \notin S
    BY <1>1
  <1>3. Corpus(f) /\ Corpus(h) /\ Accepted(f) = Present(f) /\ Accepted(h) = Present(h)
    BY FilesCorpus, ReadableAccepted
  <1>4. Same(f, h, S)
    BY <1>2, <1>3 DEF Same
  <1> QED BY <1>1, <1>4, EdgeLocal

-----------------------------------------------------------------------------
\* An archival, or the creation of a spec, keeps the edges that the other specs state.
Keeps(s) == \A e \in BuildKernelGraph(files).edges : SpecOf[e.id[1]] # s => e \in graph'.edges

\* The edges after a change.
LEMMA AppliedEdges ==
    ASSUME NEW after, Apply(after), Readable(after)
    PROVE  graph'.edges = BuiltEdges(after)
  <1>1. graph' = BuildKernelGraph(after)
    BY DEF Apply, Settle
  <1> QED BY <1>1, Built

\* An archival keeps the edges of the others,
LEMMA ArchiveKeeps == ASSUME Basis, NEW s \in Specs, Archive(s) PROVE Keeps(s)
  <1>1. PICK f : f = files
    OBVIOUS
  <1>2. PICK h : h = Without(f, s)
    OBVIOUS
  <1>3. FilesOK(f) /\ FilesOK(h) /\ Readable(f) /\ Apply(h) /\ Dependents(BuildKernelGraph(f), s) = {}
    BY <1>1, <1>2, CreatedOK DEF Basis, Archive, Writable
  <1>4. Readable(h) /\ \A d \in Docs : SpecOf[d] # s => f[d] = h[d]
    BY <1>2, <1>3, FilesCorpus, WithoutGrows DEF Without
  <1>5. BuildKernelGraph(f).edges = BuiltEdges(f) /\ graph'.edges = BuiltEdges(h)
    BY <1>3, <1>4, Built, AppliedEdges
  <1>6. \A k \in BuiltEdges(f) : k.to.spec = s => k.from.spec = s
    BY <1>3, <1>5 DEF Dependents
  <1>7. \A e \in BuiltEdges(f) : SpecOf[e.id[1]] # s => e.from.spec # s /\ e.to.spec # s
    BY <1>3, <1>6, EdgeOutside
  <1>8. \A e \in BuiltEdges(f) : SpecOf[e.id[1]] # s => e \in BuiltEdges(h)
    BY <1>3, <1>4, <1>7, ChangeOutside
  <1> QED BY <1>1, <1>5, <1>8 DEF Keeps

\* and so does the creation of a spec, which had none.
LEMMA CreateKeeps ==
    ASSUME Basis, NEW s \in Specs, CreateSpec(s)
    PROVE  Keeps(s) /\ \A e \in BuildKernelGraph(files).edges : SpecOf[e.id[1]] # s
  <1>1. PICK f : f = files
    OBVIOUS
  <1>2. PICK h : h = [d \in Docs |-> IF SpecOf[d] = s THEN Skeleton ELSE f[d]]
    OBVIOUS
  <1>3. FilesOK(f) /\ FilesOK(h) /\ Readable(f) /\ Apply(h) /\ Compiles(f, h)
        /\ \A d \in Present(f) : SpecOf[d] # s
    BY <1>1, <1>2, CreatedOK DEF Basis, CreateSpec, Writable
  <1>4. Readable(h)
    BY <1>3, FilesCorpus, ErrorFree DEF Compiles
  <1>5. \A d \in Docs : SpecOf[d] # s => f[d] = h[d]
    BY <1>2
  <1>6. BuildKernelGraph(f).edges = BuiltEdges(f) /\ graph'.edges = BuiltEdges(h)
    BY <1>3, <1>4, Built, AppliedEdges
  <1>7. Corpus(f) /\ Accepted(f) = Present(f)
    BY <1>3, FilesCorpus, ReadableAccepted
  <1>8. \A e \in BuiltEdges(f) : SpecOf[e.id[1]] # s /\ e.from.spec # s /\ e.to.spec # s
    <2> TAKE e \in BuiltEdges(f)
    <2>1. e.id[1] \in Accepted(f) /\ e.from \in NodesOf(f) /\ e.to \in NodesOf(f)
      BY <1>7, BuiltEdgeTypes DEF EdgeShape
    <2> QED BY <1>3, <1>7, <2>1, NodeSpec
  <1>9. \A e \in BuiltEdges(f) : SpecOf[e.id[1]] # s => e \in BuiltEdges(h)
    BY <1>3, <1>4, <1>5, <1>8, ChangeOutside
  <1> QED BY <1>1, <1>6, <1>8, <1>9 DEF Keeps

\* Only these two change the archive.
LEMMA ArchivedBy ==
    ASSUME [Next]_vars, archived' # archived
    PROVE  \E s \in Specs : \/ Archive(s) /\ archived' = archived \cup {s}
                            \/ CreateSpec(s) /\ archived' = archived \ {s}
  <1>1. ~UNCHANGED vars
    BY DEF vars
  <1>2. ~(\E q \in Lists : Ask(q) \/ Follow(q))
    BY DEF Ask, Follow, Answer
  <1>3. ~(\E d \in Docs : Edit(d) \/ Patch(d))
    BY DEF Edit, Patch
  <1>4. ~(\E s \in Specs : DeleteEntity(s))
    BY DEF DeleteEntity
  <1>5. ~Refresh /\ ~Leave
    BY DEF Refresh, Leave
  <1>6. \A s : Archive(s) => archived' = archived \cup {s}
    BY DEF Archive
  <1>7. \A s : CreateSpec(s) => archived' = archived \ {s}
    BY DEF CreateSpec
  <1> QED BY <1>1, <1>2, <1>3, <1>4, <1>5, <1>6, <1>7 DEF Next

ArchiveStep ==
    archived' # archived =>
        {e \in BuildKernelGraph(files).edges : SpecOf[e.id[1]] \notin archived'} \subseteq graph'.edges

\* The step of ArchiveBreaksNothing.
LEMMA ArchiveStepKept == Basis /\ [Next]_vars => ArchiveStep
  <1> SUFFICES ASSUME Basis, [Next]_vars, archived' # archived,
                      NEW e \in BuildKernelGraph(files).edges, SpecOf[e.id[1]] \notin archived'
               PROVE  e \in graph'.edges
    BY DEF ArchiveStep
  <1>1. PICK s \in Specs : \/ Archive(s) /\ archived' = archived \cup {s}
                           \/ CreateSpec(s) /\ archived' = archived \ {s}
    BY ArchivedBy
  <1>2. CASE Archive(s) /\ archived' = archived \cup {s}
    <2>1. SpecOf[e.id[1]] # s
      BY <1>2
    <2> QED BY <1>2, <2>1, ArchiveKeeps DEF Keeps
  <1>3. CASE CreateSpec(s)
    BY <1>3, CreateKeeps DEF Keeps
  <1> QED BY <1>1, <1>2, <1>3

\* An archival loses no edge that another spec states.
THEOREM ArchivesBreakNothing == Spec => ArchiveBreaksNothing
  <1>1. Basis /\ [Next]_vars => [ArchiveStep]_vars
    BY ArchiveStepKept
  <1> QED BY <1>1, BasisAlways, PTL DEF Spec, ArchiveBreaksNothing, ArchiveStep

-----------------------------------------------------------------------------
\* A list whose rows have keys of one length.
Keyed(rows, n, m) == rows = [i \in 1 .. n |-> rows[i]] /\ \A i \in 1 .. n : rows[i].key \in Keys(m)
Rows(rows) == \E n, m \in Nat : Keyed(rows, n, m)

\* The key of a row.
LEMMA RowField == ASSUME NEW item, NEW key, NEW size PROVE Row(item, key, size).key = key
  BY DEF Row

\* A set of identities is sorted.
LEMMA IdsSorted ==
    ASSUME NEW S \in SUBSET Ids, IsFiniteSet(S), NEW list, list = ByIdKey(S)
    PROVE  list \in Seq(S) /\ Range(list) = S
  <1>1. PICK key : key = [x \in S |-> IdKey(x)]
    OBVIOUS
  <1>2. key \in [S -> Keys(2)]
    BY <1>1, IdKeyTypes
  <1>3. IsInjective(key)
    BY <1>1, IdKeyTypes DEF IsInjective
  <1>4. 2 \in Nat
    OBVIOUS
  <1>5. Sorted(S, key) \in Seq(S) /\ Range(Sorted(S, key)) = S
    BY <1>2, <1>3, <1>4, SortedBy
  <1>6. list = Sorted(S, key)
    BY <1>1 DEF ByIdKey
  <1> QED BY <1>5, <1>6

\* A set of edges is sorted,
LEMMA EdgesSorted ==
    ASSUME NEW docs \in SUBSET Docs, NEW nodes \in SUBSET Ids, NEW S, IsFiniteSet(S),
           \A e \in S : EdgeShape(docs, nodes, e), NEW list, list = ByEdgeKey(S)
    PROVE  list \in Seq(S) /\ Range(list) = S
  <1>1. PICK key : key = [x \in S |-> EdgeKey(x)]
    OBVIOUS
  <1>2. key \in [S -> Keys(8)]
    BY <1>1, EdgeKeyTypes
  <1>3. IsInjective(key)
    <2>1. \A x, y \in S : EdgeKey(x) = EdgeKey(y) => x = y
      BY EdgeKeyInjective
    <2> QED BY <1>1, <2>1 DEF IsInjective
  <1>4. 8 \in Nat
    OBVIOUS
  <1>5. Sorted(S, key) \in Seq(S) /\ Range(Sorted(S, key)) = S
    BY <1>2, <1>3, <1>4, SortedBy
  <1>6. list = Sorted(S, key)
    BY <1>1 DEF ByEdgeKey
  <1> QED BY <1>5, <1>6

\* Lists whose rows carry the keys of identities.
LEMMA IdRows ==
    ASSUME NEW ids \in Seq(Ids), NEW rows, DOMAIN rows = DOMAIN ids, rows = [i \in DOMAIN ids |-> rows[i]],
           \A i \in DOMAIN ids : rows[i].key = IdKey(ids[i])
    PROVE  Rows(rows)
  <1>1. PICK n \in Nat : DOMAIN ids = 1 .. n
    OBVIOUS
  <1>2. \A i \in 1 .. n : rows[i].key \in Keys(2)
    BY <1>1, IdKeyTypes
  <1>3. 2 \in Nat /\ rows = [i \in 1 .. n |-> rows[i]]
    BY <1>1
  <1> QED BY <1>2, <1>3 DEF Rows, Keyed

\* A number as digits, and keys that hold some.
LEMMA DigitKeys == ASSUME NEW n \in Nat PROVE Padded(Digits(n)) \in Keys(3)
  <1>1. n % 10 \in Int /\ n \div 10 \in Int /\ n \div 100 \in Int /\ (n \div 10) % 10 \in Int
    OBVIOUS
  <1>2. PICK digits : digits = Digits(n)
    OBVIOUS
  <1>3. Len(digits) \in Nat /\ \A i \in 1 .. Len(digits) : digits[i] \in Int
    <2>1. PICK a \in Int, b \in Int, c \in Int, e \in Int :
              a = n % 10 /\ b = n \div 10 /\ c = n \div 100 /\ e = (n \div 10) % 10
      BY <1>1
    <2>2. <<n>> \in Seq(Int) /\ <<b, a>> \in Seq(Int) /\ <<c, e, a>> \in Seq(Int)
      OBVIOUS
    <2>3. digits \in Seq(Int)
      BY <1>2, <2>1, <2>2 DEF Digits
    <2> QED BY <2>3
  <1>4. \A i \in 1 .. 3 : (IF i <= Len(digits) THEN digits[i] ELSE -1) \in Int
    BY <1>3
  <1>5. Padded(digits) \in [1 .. 3 -> Int]
    BY <1>4 DEF Padded
  <1> QED BY <1>2, <1>5 DEF Keys

\* The beginning of a key is one,
LEMMA PartOfKey ==
    ASSUME NEW n \in Nat, NEW m \in 0 .. n, NEW key \in Keys(n) PROVE SubSeq(key, 1, m) \in Keys(m)
  <1>1. \A i \in 1 .. m : key[i] \in Int
    BY DEF Keys
  <1>2. 1 \in Int /\ m \in Int
    OBVIOUS
  <1>3. SubSeq(key, 1, m) \in Seq(Int) /\ Len(SubSeq(key, 1, m)) = IF 1 <= m THEN m - 1 + 1 ELSE 0
    BY <1>1, <1>2, SubSeqProperties
  <1>4. PICK s : s = SubSeq(key, 1, m)
    OBVIOUS
  <1>5. s \in Seq(Int) /\ Len(s) = m
    BY <1>3, <1>4
  <1>6. s \in [1 .. m -> Int]
    BY <1>5
  <1> QED BY <1>4, <1>6 DEF Keys

\* as is the key of the row of an edge
LEMMA EdgeRowKey ==
    ASSUME NEW docs \in SUBSET Docs, NEW nodes \in SUBSET Ids, NEW e, EdgeShape(docs, nodes, e)
    PROVE  EdgeRow(e).key \in Keys(10)
  <1>1. PICK key \in Keys(8) : key = EdgeKey(e) /\ key[7] \in Nat
    BY EdgeKeyTypes
  <1>2. PICK a \in Keys(6) : a = SubSeq(key, 1, 6)
    <2>1. 8 \in Nat /\ 6 \in 0 .. 8
      OBVIOUS
    <2> QED BY <2>1, PartOfKey
  <1>3. PICK b \in Keys(3) : b = Padded(Digits(key[7]))
    BY <1>1, DigitKeys
  <1>4. PICK c \in Keys(1) : c = <<key[8]>>
    <2>1. key[8] \in Int
      BY DEF Keys
    <2>2. PICK c : c = <<key[8]>>
      OBVIOUS
    <2>3. c \in Keys(1)
      BY <2>1, <2>2 DEF Keys
    <2> QED BY <2>2, <2>3
  <1>5. 6 \in Nat /\ 3 \in Nat /\ 9 \in Nat /\ 1 \in Nat /\ 6 + 3 = 9 /\ 9 + 1 = 10
    OBVIOUS
  <1>6. a \o b \in Keys(6 + 3)
    BY <1>5, ConcatKeys, Zenon
  <1>7. a \o b \in Keys(9)
    BY <1>5, <1>6, Zenon
  <1>8. (a \o b) \o c \in Keys(9 + 1)
    BY <1>5, <1>7, ConcatKeys, Zenon
  <1>9. EdgeRow(e).key = (a \o b) \o c
    <2>1. EdgeRow(e) = Row(e, (SubSeq(EdgeKey(e), 1, 6) \o Padded(Digits(EdgeKey(e)[7]))) \o <<EdgeKey(e)[8]>>, 1)
      BY Zenon DEF EdgeRow
    <2>2. SubSeq(EdgeKey(e), 1, 6) = a /\ Padded(Digits(EdgeKey(e)[7])) = b /\ <<EdgeKey(e)[8]>> = c
      BY <1>1, <1>2, <1>3, <1>4
    <2>3. PICK k : k = (a \o b) \o c
      OBVIOUS
    <2>4. EdgeRow(e) = Row(e, k, 1)
      BY <2>1, <2>2, <2>3, Zenon
    <2>5. EdgeRow(e).key = k
      BY <2>4, RowField
    <2> QED BY <2>3, <2>5, Zenon
  <1> QED BY <1>5, <1>8, <1>9, Zenon

\* or of a diagnostic.
LEMMA DiagnosticRowKey ==
    ASSUME NEW x \in DiagnosticType \cup {Overflow} PROVE DiagnosticRow(x).key \in Keys(6)
  <1>1. PICK key : key = DiagnosticKey(x)
    OBVIOUS
  <1>2. key \in Keys(4) /\ key[4] \in Nat
    <2>1. PICK a : a = <<IF Severity(x.code) = "ERROR" THEN 0 ELSE 1, Rank(Codes, x.code)>>
      OBVIOUS
    <2>2. PICK b : b = IF x = Overflow THEN <<Len(PathOrder) + 1, 0>> ELSE <<Rank(PathOrder, x.doc), At(x.at)>>
      OBVIOUS
    <2>3. x.code \in Range(Codes)
      BY CodesListed DEF DiagnosticType, Overflow
    <2>4. Rank(Codes, x.code) \in 1 .. 12
      BY <2>3, CodesListed, RankOf
    <2>5. a \in Keys(2)
      BY <2>1, <2>4 DEF Keys
    <2>6. b \in Keys(2) /\ b[2] \in Nat
      <3>1. CASE x = Overflow
        <4>1. Len(PathOrder) + 1 \in Int
          BY PathsListed DEF Paths
        <4> QED BY <2>2, <3>1, <4>1 DEF Keys
      <3>2. CASE x # Overflow
        <4>1. x.doc \in Docs /\ At(x.at) \in Nat
          BY <3>2, AtTypes DEF DiagnosticType
        <4>2. Rank(PathOrder, x.doc) \in Nat
          BY <4>1, OrdersAssumption, RankOfListed DEF Docs
        <4> QED BY <2>2, <3>2, <4>1, <4>2 DEF Keys
      <3> QED BY <3>1, <3>2
    <2>7. key = a \o b
      BY <1>1, <2>1, <2>2 DEF DiagnosticKey
    <2>8. 2 \in Nat /\ 2 + 2 = 4 /\ 2 \in 1 .. 2
      OBVIOUS
    <2>9. a \o b \in Keys(2 + 2) /\ \A i \in 1 .. 2 : (a \o b)[2 + i] = b[i]
      BY <2>5, <2>6, <2>8, ConcatKeys, Zenon
    <2>10. (a \o b)[2 + 2] = b[2]
      BY <2>8, <2>9, Zenon
    <2> QED BY <2>6, <2>7, <2>8, <2>9, <2>10, Zenon
  <1>3. PICK a \in Keys(3) : a = SubSeq(key, 1, 3)
    <2>1. 4 \in Nat /\ 3 \in 0 .. 4
      OBVIOUS
    <2> QED BY <1>2, <2>1, PartOfKey
  <1>4. PICK b \in Keys(3) : b = Padded(Digits(key[4]))
    BY <1>2, DigitKeys
  <1>5. 3 \in Nat /\ 3 + 3 = 6
    OBVIOUS
  <1>6. a \o b \in Keys(3 + 3)
    BY <1>5, ConcatKeys, Zenon
  <1>7. DiagnosticRow(x).key = a \o b
    <2>1. DiagnosticRow(x) = Row(x, SubSeq(DiagnosticKey(x), 1, 3) \o Padded(Digits(DiagnosticKey(x)[4])), 1)
      BY Zenon DEF DiagnosticRow
    <2>2. SubSeq(DiagnosticKey(x), 1, 3) = a /\ Padded(Digits(DiagnosticKey(x)[4])) = b
      BY <1>1, <1>3, <1>4
    <2>3. PICK k : k = a \o b
      OBVIOUS
    <2>4. DiagnosticRow(x) = Row(x, k, 1)
      BY <2>1, <2>2, <2>3, Zenon
    <2>5. DiagnosticRow(x).key = k
      BY <2>4, RowField
    <2> QED BY <2>3, <2>5, Zenon
  <1> QED BY <1>5, <1>6, <1>7, Zenon

-----------------------------------------------------------------------------
\* A list is finite, and so are the identities.
LEMMA FiniteListed == ASSUME NEW order, Listed(order) PROVE IsFiniteSet(Range(order))
  <1>1. PICK n \in Nat : n = Len(order) /\ DOMAIN order = 1 .. n
    BY DEF Listed
  <1>2. IsFiniteSet(1 .. n)
    <2>1. 1 \in Int /\ n \in Int
      OBVIOUS
    <2> QED BY <2>1, FS_Interval
  <1>3. IsFiniteSet({order[i] : i \in 1 .. n})
    BY <1>1, <1>2, FiniteImage
  <1>4. Range(order) = {order[i] : i \in 1 .. n}
    BY <1>1 DEF Range
  <1> QED BY <1>3, <1>4

\* There are finitely many identities.
LEMMA FiniteIds == IsFiniteSet(Ids)
  <1>1. IsFiniteSet(Range(SpecOrder) \X Range(LocalOrder))
    BY OrdersAssumption, FiniteListed, FS_Product
  <1>2. PICK S : S = Range(SpecOrder) \X Range(LocalOrder)
    OBVIOUS
  <1>3. PICK f : f = [p \in S |-> Identity(p[1], p[2])]
    OBVIOUS
  <1>4. IsFiniteSet({f[p] : p \in S})
    BY <1>1, <1>2, <1>3, FiniteImage
  <1>5. ASSUME NEW id \in Ids PROVE id \in {f[p] : p \in S}
    <2>1. id.spec \in Range(SpecOrder) /\ id = [spec |-> id.spec, local |-> id.local]
      BY DEF Ids, Specs
    <2>2. id.local \in Range(LocalOrder)
      BY LocalsAssumption DEF Ids
    <2>3. PICK a \in Range(SpecOrder) : a = id.spec
      BY <2>1
    <2>4. PICK b \in Range(LocalOrder) : b = id.local
      BY <2>2
    <2>5. <<a, b>> \in S /\ f[<<a, b>>] = Identity(a, b)
      BY <1>2, <1>3
    <2>6. Identity(a, b) = id
      BY <2>1, <2>3, <2>4 DEF Identity
    <2> QED BY <2>5, <2>6
  <1>6. Ids \in SUBSET {f[p] : p \in S}
    BY <1>5
  <1> QED BY <1>4, <1>6, FS_Subset

\* The states of a walk.
Walks == [visited : SUBSET Ids, next : SUBSET Ids, frontier : SUBSET Ids, list : Seq(Ids)]
Typed(g) == \A e \in g.edges : e.from \in Ids /\ e.to \in Ids
Near(g, q, id) == {Other(e, id) : e \in Incident(g, id, q.direction, q.types)}

\* The neighbours of a node are identities.
LEMMA NearTypes == ASSUME NEW g, Typed(g), NEW q, NEW id PROVE Near(g, q, id) \subseteq Ids
  BY DEF Typed, Near, Incident, Other

\* A node is put on the frontier, or its edges are followed.
Passed(q, s, id) == Cardinality(s.visited) >= q.maxVisited /\ id # q.id

Expanded(g, q, s, id, t) ==
    /\ t \in Walks /\ t.list = s.list
    /\ Passed(q, s, id) => t.visited = s.visited /\ t.next = s.next /\ t.frontier = s.frontier \cup {id}
    /\ ~Passed(q, s, id) => /\ t.visited = s.visited \cup Near(g, q, id) /\ t.frontier = s.frontier
                            /\ t.next = s.next \cup (Near(g, q, id) \ s.visited)

\* The expansion of a node.
LEMMA ExpandTypes ==
    ASSUME NEW g, Typed(g), NEW q, NEW s \in Walks, NEW id \in Ids, NEW t, t = Expand(g, q, s, id)
    PROVE  Expanded(g, q, s, id, t)
  <1>1. PICK near \in SUBSET Ids : near = Near(g, q, id)
    BY NearTypes
  <1>2. PICK passed : passed = Passed(q, s, id)
    OBVIOUS
  <1>3. t = IF passed THEN [s EXCEPT !.frontier = @ \cup {id}]
            ELSE [s EXCEPT !.visited = @ \cup (near \ s.visited), !.next = @ \cup (near \ s.visited)]
    BY <1>1, <1>2 DEF Expand, Near, Passed
  <1>4. CASE passed
    <2>1. t = [s EXCEPT !.frontier = @ \cup {id}]
      BY <1>3, <1>4
    <2>2. t \in Walks
      BY <2>1 DEF Walks
    <2>3. t.list = s.list /\ t.visited = s.visited /\ t.next = s.next /\ t.frontier = s.frontier \cup {id}
      BY <2>1 DEF Walks
    <2> QED BY <1>2, <1>4, <2>2, <2>3 DEF Expanded
  <1>5. CASE ~passed
    <2>1. t = [s EXCEPT !.visited = @ \cup (near \ s.visited), !.next = @ \cup (near \ s.visited)]
      BY <1>3, <1>5
    <2>2. t \in Walks
      BY <2>1 DEF Walks
    <2>3. t.list = s.list /\ t.visited = s.visited \cup (near \ s.visited) /\ t.frontier = s.frontier
          /\ t.next = s.next \cup (near \ s.visited)
      BY <2>1 DEF Walks
    <2>4. t.visited = s.visited \cup near
      BY <2>3
    <2> QED BY <1>1, <1>2, <1>5, <2>2, <2>3, <2>4 DEF Expanded
  <1> QED BY <1>4, <1>5

\* Recursion, as one fact.
Unrolls(D, start, N, step) ==
    \E h \in [0 .. N -> D] : h[0] = start /\ \A n \in 1 .. N : h[n] = step[n][h[n - 1]]

\* A recursion, unrolled.
LEMMA Unrolled ==
    ASSUME NEW D, NEW start \in D, NEW N \in Nat, NEW step \in [1 .. N -> [D -> D]]
    PROVE  Unrolls(D, start, N, step)
  BY Recursion DEF Unrolls

\* A level, node by node.
Expanding(g, q, s, ids, n, x) ==
    /\ x \in [0 .. n -> Walks] /\ x[0] = [s EXCEPT !.next = {}]
    /\ \A k \in 1 .. n : x[k] = Expand(g, q, x[k - 1], ids[k])
    /\ Level(g, q, s) = [x[n] EXCEPT !.list = @ \o ByIdKey(x[n].next)]

\* The states between the nodes of a level exist.
LEMMA ExpandingExists ==
    ASSUME NEW g, Typed(g), NEW q, NEW s \in Walks, NEW ids, ids = ByIdKey(s.next),
           NEW N \in Nat, N = Len(ids), \A n \in 1 .. N : ids[n] \in Ids
    PROVE  \E x : Expanding(g, q, s, ids, N, x)
  <1>0. PICK init \in Walks : init = [s EXCEPT !.next = {}]
    <2>1. [s EXCEPT !.next = {}] \in Walks
      BY DEF Walks
    <2> QED BY <2>1
  <1>2. \A n \in 1 .. N : ids[n] \in Ids
    OBVIOUS
  <1> DEFINE Good(F) == F = [n \in 0 .. N |-> IF n = 0 THEN init ELSE Expand(g, q, F[n - 1], ids[n])]
             C == CHOOSE F : Good(F)
  <1>3. Level(g, q, s) = [C[N] EXCEPT !.list = @ \o ByIdKey(C[N].next)]
    BY <1>0 DEF Level
  <1>a. PICK D : D = Walks
    OBVIOUS
  <1>b. \A n \in 1 .. N : \A x \in D : Expand(g, q, x, ids[n]) \in D
    BY <1>2, <1>a, ExpandTypes DEF Expanded
  <1>c. init \in D
    BY <1>a
  <1>4. PICK step \in [1 .. N -> [D -> D]] :
            \A n \in 1 .. N : \A x \in D : step[n][x] = Expand(g, q, x, ids[n])
    <2>1. [n \in 1 .. N |-> [x \in D |-> Expand(g, q, x, ids[n])]] \in [1 .. N -> [D -> D]]
      BY <1>b
    <2> QED BY <2>1
  <1>5. PICK h \in [0 .. N -> D] : h[0] = init /\ \A n \in 1 .. N : h[n] = step[n][h[n - 1]]
    <2>1. PICK e \in D : e = init
      BY <1>c
    <2>2. Unrolls(D, e, N, step)
      BY Unrolled
    <2> QED BY <2>1, <2>2 DEF Unrolls
  <1>6. \A n \in 1 .. N : h[n] = Expand(g, q, h[n - 1], ids[n])
    BY <1>4, <1>5
  <1>7. Good(h)
    <2>1. \A n \in 0 .. N : h[n] = IF n = 0 THEN init ELSE Expand(g, q, h[n - 1], ids[n])
      <3> TAKE n \in 0 .. N
      <3>1. n = 0 \/ n \in 1 .. N
        OBVIOUS
      <3> QED BY <1>5, <1>6, <3>1
    <2> QED BY <2>1, Zenon
  <1>8. PICK F : F = C
    OBVIOUS
  <1>9. Good(F)
    <2> HIDE DEF Good
    <2> QED BY <1>7, <1>8
  <1>10. \A n \in 1 .. N : F[n] = Expand(g, q, F[n - 1], ids[n])
    <2> TAKE n \in 1 .. N
    <2>1. n \in 0 .. N /\ n # 0
      OBVIOUS
    <2> QED BY <1>9, <2>1, Zenon
  <1>11. F[0] = init
    BY <1>9
  <1>12. \A n \in 0 .. N : F[n] \in D
    <2> DEFINE P == {n \in 0 .. N : F[n] \in D}
    <2>1. 0 \in P
      BY <1>c, <1>11
    <2>2. ASSUME NEW n \in 1 .. N, n - 1 \in P PROVE n \in P
      <3>1. F[n - 1] \in D
        BY <2>2
      <3>2. F[n] \in D
        BY <1>b, <1>10, <3>1
      <3> QED BY <3>2
    <2>3. 0 .. N \subseteq P
      <3> HIDE DEF P
      <3> QED BY <2>1, <2>2, Upto
    <2> QED BY <2>3
  <1>13. F \in [0 .. N -> D]
    BY <1>9, <1>12, Zenon
  <1>14. Level(g, q, s) = [F[N] EXCEPT !.list = @ \o ByIdKey(F[N].next)]
    BY <1>3, <1>8, Zenon
  <1> HIDE DEF C, Good
  <1>15. Expanding(g, q, s, ids, N, F)
    BY <1>0, <1>a, <1>10, <1>11, <1>13, <1>14 DEF Expanding
  <1> QED BY <1>15

-----------------------------------------------------------------------------
\* What the expansion of some nodes of a level has made of its state.
Spread(g, q, s, done, t) ==
    /\ t \in Walks /\ t.list = s.list
    /\ s.visited \subseteq t.visited /\ t.next \subseteq t.visited /\ t.visited \ t.next \subseteq s.visited
    /\ \A id \in t.visited : id \in s.visited \/ \E from \in s.next : id \in Near(g, q, from)
    /\ s.frontier \subseteq t.frontier /\ t.frontier \subseteq t.visited
    /\ \A id \in done : id \in t.frontier \/ Near(g, q, id) \subseteq t.visited
    /\ Cardinality(t.visited) < q.maxVisited => \A id \in done : Near(g, q, id) \subseteq t.visited

\* Who visited less counts less.
LEMMA FewerVisited ==
    ASSUME NEW a \in SUBSET Ids, NEW b \in SUBSET Ids, a \subseteq b
    PROVE  Cardinality(a) \in Nat /\ Cardinality(b) \in Nat /\ Cardinality(a) <= Cardinality(b)
  <1>1. IsFiniteSet(a) /\ IsFiniteSet(b)
    BY FiniteIds, FS_Subset
  <1>2. a \in SUBSET b
    OBVIOUS
  <1> QED BY <1>1, <1>2, FS_CardinalityType, FS_Subset

\* One more node of a level.
LEMMA SpreadOn ==
    ASSUME NEW g, Typed(g), NEW q, q.maxVisited \in Nat, NEW s \in Walks, s.next \subseteq s.visited,
           NEW done, NEW t, Spread(g, q, s, done, t), NEW id \in s.next, NEW u, u = Expand(g, q, t, id)
    PROVE  Spread(g, q, s, done \cup {id}, u)
  <1>e. Expanded(g, q, t, id, u)
    <2>1. t \in Walks /\ id \in Ids
      BY DEF Spread, Walks
    <2> QED BY <2>1, ExpandTypes
  <1>0. t \in Walks /\ id \in Ids /\ id \in t.visited
    BY DEF Spread, Walks
  <1>1. CASE Passed(q, t, id)
    <2>1. u \in Walks /\ u.list = t.list /\ u.visited = t.visited /\ u.next = t.next
          /\ u.frontier = t.frontier \cup {id}
      BY <1>e, <1>1 DEF Expanded
    <2>2. ~(Cardinality(u.visited) < q.maxVisited)
      <3>1. Cardinality(t.visited) \in Nat
        BY <1>0, FewerVisited DEF Walks
      <3> QED BY <1>1, <2>1, <3>1 DEF Passed
    <2>3. /\ u.list = s.list /\ s.visited \subseteq u.visited /\ u.next \subseteq u.visited
          /\ u.visited \ u.next \subseteq s.visited
          /\ \A n \in u.visited : n \in s.visited \/ \E from \in s.next : n \in Near(g, q, from)
      BY <2>1 DEF Spread
    <2>4. s.frontier \subseteq u.frontier /\ u.frontier \subseteq u.visited
      BY <1>0, <2>1 DEF Spread
    <2>5. \A n \in done \cup {id} : n \in u.frontier \/ Near(g, q, n) \subseteq u.visited
      BY <2>1 DEF Spread
    <2> QED BY <2>1, <2>2, <2>3, <2>4, <2>5 DEF Spread
  <1>2. CASE ~Passed(q, t, id)
    <2>1. u \in Walks /\ u.list = t.list /\ u.frontier = t.frontier /\ u.visited = t.visited \cup Near(g, q, id)
          /\ u.next = t.next \cup (Near(g, q, id) \ t.visited)
      BY <1>e, <1>2 DEF Expanded
    <2>2. Cardinality(u.visited) < q.maxVisited => Cardinality(t.visited) < q.maxVisited
      <3>1. t.visited \in SUBSET Ids /\ u.visited \in SUBSET Ids /\ t.visited \subseteq u.visited
        BY <1>0, <2>1 DEF Walks
      <3>2. Cardinality(t.visited) \in Nat /\ Cardinality(u.visited) \in Nat
            /\ Cardinality(t.visited) <= Cardinality(u.visited)
        BY <3>1, FewerVisited
      <3> QED BY <3>2
    <2>3. /\ u.list = s.list /\ s.visited \subseteq u.visited /\ u.next \subseteq u.visited
          /\ u.visited \ u.next \subseteq s.visited
      BY <2>1 DEF Spread
    <2>4. \A n \in u.visited : n \in s.visited \/ \E from \in s.next : n \in Near(g, q, from)
      BY <2>1 DEF Spread
    <2>5. s.frontier \subseteq u.frontier /\ u.frontier \subseteq u.visited
      BY <2>1 DEF Spread
    <2>6. \A n \in done \cup {id} : n \in u.frontier \/ Near(g, q, n) \subseteq u.visited
      <3>1. \A n \in done : n \in t.frontier \/ Near(g, q, n) \subseteq t.visited
        BY DEF Spread
      <3> QED BY <2>1, <3>1
    <2>7. Cardinality(u.visited) < q.maxVisited => \A n \in done \cup {id} : Near(g, q, n) \subseteq u.visited
      <3> HAVE Cardinality(u.visited) < q.maxVisited
      <3>1. \A n \in done : Near(g, q, n) \subseteq t.visited
        BY <2>2 DEF Spread
      <3> QED BY <2>1, <3>1
    <2> QED BY <2>1, <2>3, <2>4, <2>5, <2>6, <2>7 DEF Spread
  <1> QED BY <1>1, <1>2

Levelled(g, q, s, t) ==
    Spread(g, q, s, s.next, t) /\ Level(g, q, s) = [t EXCEPT !.list = @ \o ByIdKey(t.next)]

\* A whole level,
LEMMA LevelSpreads ==
    ASSUME NEW g, Typed(g), NEW q, q.maxVisited \in Nat, NEW s \in Walks, s.next \subseteq s.visited,
           s.frontier \subseteq s.visited
    PROVE  \E t : Levelled(g, q, s, t)
  <1>1. PICK ids : ids = ByIdKey(s.next)
    OBVIOUS
  <1>2. s.next \in SUBSET Ids /\ IsFiniteSet(s.next)
    BY FiniteIds, FS_Subset DEF Walks
  <1>3. ids \in Seq(s.next) /\ Range(ids) = s.next
    BY <1>1, <1>2, IdsSorted
  <1>4. PICK N \in Nat : N = Len(ids) /\ DOMAIN ids = 1 .. N
    BY <1>3
  <1>5. \A n \in 1 .. N : ids[n] \in s.next /\ ids[n] \in Ids
    BY <1>2, <1>3, <1>4
  <1>6. PICK x : Expanding(g, q, s, ids, N, x)
    BY <1>1, <1>4, <1>5, ExpandingExists
  <1>7. PICK first : first = [s EXCEPT !.next = {}]
    OBVIOUS
  <1>8. first \in Walks /\ first.visited = s.visited /\ first.next = {} /\ first.frontier = s.frontier
        /\ first.list = s.list
    BY <1>7 DEF Walks
  <1>9. Spread(g, q, s, {}, first)
    BY <1>8 DEF Spread
  <1> DEFINE Done(n) == {ids[i] : i \in 1 .. n}
             P == {n \in 0 .. N : Spread(g, q, s, Done(n), x[n])}
  <1>10. 0 \in P
    <2>1. x[0] = first
      BY <1>6, <1>7 DEF Expanding
    <2>2. Done(0) = {}
      OBVIOUS
    <2> HIDE DEF Done
    <2>3. Spread(g, q, s, Done(0), x[0])
      BY <1>9, <2>1, <2>2, Zenon
    <2> QED BY <1>4, <2>3
  <1>11. ASSUME NEW n \in 1 .. N, n - 1 \in P PROVE n \in P
    <2>1. Spread(g, q, s, Done(n - 1), x[n - 1])
      BY <1>11
    <2>2. x[n] = Expand(g, q, x[n - 1], ids[n]) /\ ids[n] \in s.next
      BY <1>5, <1>6 DEF Expanding
    <2>3. Done(n) = Done(n - 1) \cup {ids[n]}
      <3>1. 1 .. n = (1 .. n - 1) \cup {n}
        OBVIOUS
      <3> QED BY <3>1
    <2> HIDE DEF Done
    <2>4. Spread(g, q, s, Done(n - 1) \cup {ids[n]}, x[n])
      BY <2>1, <2>2, SpreadOn
    <2>5. Spread(g, q, s, Done(n), x[n])
      BY <2>3, <2>4, Zenon
    <2> QED BY <2>5
  <1>12. N \in P
    <2> HIDE DEF P
    <2>1. 0 .. N \subseteq P
      BY <1>10, <1>11, Upto
    <2> QED BY <2>1
  <1>13. Done(N) = s.next
    BY <1>3, <1>4 DEF Range
  <1>14. Spread(g, q, s, s.next, x[N])
    <2> HIDE DEF Done
    <2> QED BY <1>12, <1>13
  <1>15. Level(g, q, s) = [x[N] EXCEPT !.list = @ \o ByIdKey(x[N].next)]
    BY <1>6 DEF Expanding
  <1> HIDE DEF P, Done
  <1>16. PICK t : t = x[N]
    OBVIOUS
  <1>17. Levelled(g, q, s, t)
    BY <1>14, <1>15, <1>16, Zenon DEF Levelled
  <1> QED BY <1>17

\* and the state it leaves.
LEMMA LevelOK ==
    ASSUME NEW g, Typed(g), NEW q, q.maxVisited \in Nat, NEW s \in Walks, s.next \subseteq s.visited,
           s.frontier \subseteq s.visited, NEW u, u = Level(g, q, s)
    PROVE  \E t : /\ Spread(g, q, s, s.next, t) /\ u \in Walks
                  /\ u.visited = t.visited /\ u.next = t.next /\ u.frontier = t.frontier
  <1>0. PICK t : Levelled(g, q, s, t)
    BY LevelSpreads
  <1>1. Spread(g, q, s, s.next, t) /\ u = [t EXCEPT !.list = @ \o ByIdKey(t.next)]
    BY <1>0, Zenon DEF Levelled
  <1>2. t \in Walks /\ t.next \in SUBSET Ids /\ IsFiniteSet(t.next)
    BY <1>1, FiniteIds, FS_Subset DEF Spread, Walks
  <1>3. PICK more : more = ByIdKey(t.next)
    OBVIOUS
  <1>4. more \in Seq(t.next)
    BY <1>2, <1>3, IdsSorted
  <1>5. more \in Seq(Ids) /\ t.list \in Seq(Ids)
    BY <1>2, <1>4 DEF Walks
  <1>6. PICK list : list = Joined(t.list, more)
    OBVIOUS
  <1>7. list \in Seq(Ids)
    BY <1>5, <1>6, Concatenated
  <1>8. u = [t EXCEPT !.list = list]
    <2>1. u = [t EXCEPT !.list = t.list \o ByIdKey(t.next)]
      BY <1>1, Zenon
    <2>2. list = t.list \o ByIdKey(t.next)
      BY <1>3, <1>6, Zenon DEF Joined
    <2> QED BY <2>1, <2>2, Zenon
  <1>9. u \in Walks /\ u.visited = t.visited /\ u.next = t.next /\ u.frontier = t.frontier
    BY <1>2, <1>7, <1>8 DEF Walks
  <1> QED BY <1>1, <1>9

-----------------------------------------------------------------------------
\* What holds of a walk after each level.
States == {w \in Walks : w.next \subseteq w.visited /\ w.frontier \subseteq w.visited}

\* A level leads from a state of a walk to another.
LEMMA LevelStates ==
    ASSUME NEW g, Typed(g), NEW q, q.maxVisited \in Nat, NEW s \in States PROVE Level(g, q, s) \in States
  <1>1. PICK u : u = Level(g, q, s)
    OBVIOUS
  <1>2. s \in Walks /\ s.next \subseteq s.visited /\ s.frontier \subseteq s.visited
    BY DEF States
  <1>3. PICK t : /\ Spread(g, q, s, s.next, t) /\ u \in Walks
                 /\ u.visited = t.visited /\ u.next = t.next /\ u.frontier = t.frontier
    BY <1>1, <1>2, LevelOK
  <1> QED BY <1>1, <1>3 DEF Spread, States

Begin(q) == [visited |-> {q.id}, next |-> {q.id}, frontier |-> {}, list |-> <<q.id>>]
Stepped(g, q, s) == IF Onward(q, s) THEN Level(g, q, s) ELSE s
Walking(g, q, N, x) ==
    /\ x \in [0 .. N -> States] /\ x[0] = Begin(q)
    /\ \A k \in 1 .. N : x[k] = Stepped(g, q, x[k - 1])
    /\ Walk(g, q) = x[N]

\* The states between the levels of a walk exist,
LEMMA WalkingExists ==
    ASSUME NEW g, Typed(g), NEW q, q.maxVisited \in Nat, q.id \in Ids, NEW N \in Nat, N = q.maxDepth
    PROVE  \E x : Walking(g, q, N, x)
  <1>0. PICK init \in States : init = Begin(q)
    <2>1. <<q.id>> \in Seq(Ids)
      OBVIOUS
    <2>2. Begin(q) \in States
      BY <2>1 DEF Begin, States, Walks
    <2> QED BY <2>2
  <1> DEFINE Good(F) == F = [n \in 0 .. N |-> IF n = 0 THEN init ELSE IF Onward(q, F[n - 1]) THEN Level(g, q, F[n - 1]) ELSE F[n - 1]]
             C == CHOOSE F : Good(F)
  <1>3. Walk(g, q) = C[N]
    BY <1>0 DEF Walk, Begin
  <1>a. PICK D : D = States
    OBVIOUS
  <1>b. \A x \in D : Stepped(g, q, x) \in D
    <2>1. \A x \in States : Level(g, q, x) \in States
      BY LevelStates
    <2> QED BY <1>a, <2>1 DEF Stepped
  <1>4. PICK step \in [1 .. N -> [D -> D]] : \A n \in 1 .. N : \A x \in D : step[n][x] = Stepped(g, q, x)
    <2>1. [n \in 1 .. N |-> [x \in D |-> Stepped(g, q, x)]] \in [1 .. N -> [D -> D]]
      BY <1>b
    <2> QED BY <2>1
  <1>5. PICK h \in [0 .. N -> D] : h[0] = init /\ \A n \in 1 .. N : h[n] = step[n][h[n - 1]]
    <2>1. PICK e \in D : e = init
      BY <1>a
    <2>2. Unrolls(D, e, N, step)
      BY Unrolled
    <2> QED BY <2>1, <2>2 DEF Unrolls
  <1>6. ASSUME NEW n \in 1 .. N PROVE h[n] = Stepped(g, q, h[n - 1])
    <2>1. n - 1 \in 0 .. N
      OBVIOUS
    <2>2. PICK x \in D : x = h[n - 1]
      BY <1>5, <2>1
    <2>3. step[n][x] = Stepped(g, q, x)
      BY <1>4
    <2> QED BY <1>5, <2>2, <2>3, Zenon
  <1>7. Good(h)
    <2>1. \A n \in 0 .. N : h[n] = IF n = 0 THEN init ELSE Stepped(g, q, h[n - 1])
      <3> TAKE n \in 0 .. N
      <3>1. n = 0 \/ n \in 1 .. N
        OBVIOUS
      <3> QED BY <1>5, <1>6, <3>1
    <2> QED BY <2>1, Zenon DEF Stepped
  <1>8. PICK F : F = C
    OBVIOUS
  <1>9. Good(F)
    <2> HIDE DEF Good
    <2> QED BY <1>7, <1>8
  <1>10. \A n \in 1 .. N : F[n] = Stepped(g, q, F[n - 1])
    <2> TAKE n \in 1 .. N
    <2>1. n \in 0 .. N /\ n # 0
      OBVIOUS
    <2> QED BY <1>9, <2>1, Zenon DEF Stepped
  <1>11. F[0] = init
    BY <1>9
  <1>12. \A n \in 0 .. N : F[n] \in D
    <2> DEFINE P == {n \in 0 .. N : F[n] \in D}
    <2>1. 0 \in P
      BY <1>a, <1>11
    <2>2. ASSUME NEW n \in 1 .. N, n - 1 \in P PROVE n \in P
      <3>1. F[n - 1] \in D
        BY <2>2
      <3>2. F[n] \in D
        BY <1>b, <1>10, <3>1
      <3> QED BY <3>2
    <2>3. 0 .. N \subseteq P
      <3> HIDE DEF P
      <3> QED BY <2>1, <2>2, Upto
    <2> QED BY <2>3
  <1>13. F \in [0 .. N -> D]
    BY <1>9, <1>12, Zenon
  <1>14. Walk(g, q) = F[N]
    BY <1>3, <1>8, Zenon
  <1> HIDE DEF C, Good
  <1>15. Walking(g, q, N, F)
    BY <1>0, <1>a, <1>10, <1>11, <1>13, <1>14 DEF Walking
  <1> QED BY <1>15

\* What a number of steps reaches.
Reaching(g, q, N, r) ==
    /\ r \in [0 .. N -> SUBSET Ids] /\ r[0] = {q.id}
    /\ \A k \in 1 .. N : r[k] = r[k - 1] \cup Neighbours(g, q, r[k - 1])
    /\ Reach(g, q) = r[N]

\* as what is reached is made of neighbours
LEMMA NeighboursAre ==
    ASSUME NEW g, Typed(g), NEW q, NEW S
    PROVE  /\ Neighbours(g, q, S) = UNION {Near(g, q, id) : id \in S}
           /\ Neighbours(g, q, S) \subseteq Ids
  <1>1. Neighbours(g, q, S) = UNION {Near(g, q, id) : id \in S}
    BY DEF Neighbours, Near
  <1>2. \A id \in S : Near(g, q, id) \subseteq Ids
    BY NearTypes
  <1> QED BY <1>1, <1>2

\* and what a number of steps reaches exists.
LEMMA ReachingExists ==
    ASSUME NEW g, Typed(g), NEW q, q.id \in Ids, NEW N \in Nat, N = q.maxDepth
    PROVE  \E r : Reaching(g, q, N, r)
  <1>0. PICK init \in SUBSET Ids : init = {q.id}
    OBVIOUS
  <1> DEFINE Good(F) == F = [n \in 0 .. N |-> IF n = 0 THEN init ELSE F[n - 1] \cup Neighbours(g, q, F[n - 1])]
             C == CHOOSE F : Good(F)
  <1>3. Reach(g, q) = C[N]
    BY <1>0 DEF Reach
  <1>a. PICK D : D = SUBSET Ids
    OBVIOUS
  <1>b. \A x \in D : x \cup Neighbours(g, q, x) \in D
    BY <1>a, NeighboursAre
  <1>4. PICK step \in [1 .. N -> [D -> D]] : \A n \in 1 .. N : \A x \in D : step[n][x] = x \cup Neighbours(g, q, x)
    <2>1. [n \in 1 .. N |-> [x \in D |-> x \cup Neighbours(g, q, x)]] \in [1 .. N -> [D -> D]]
      BY <1>b
    <2> QED BY <2>1
  <1>5. PICK h \in [0 .. N -> D] : h[0] = init /\ \A n \in 1 .. N : h[n] = step[n][h[n - 1]]
    <2>1. PICK e \in D : e = init
      BY <1>a
    <2>2. Unrolls(D, e, N, step)
      BY Unrolled
    <2> QED BY <2>1, <2>2 DEF Unrolls
  <1>6. \A n \in 1 .. N : h[n] = h[n - 1] \cup Neighbours(g, q, h[n - 1])
    BY <1>4, <1>5
  <1>7. Good(h)
    <2>1. \A n \in 0 .. N : h[n] = IF n = 0 THEN init ELSE h[n - 1] \cup Neighbours(g, q, h[n - 1])
      <3> TAKE n \in 0 .. N
      <3>1. n = 0 \/ n \in 1 .. N
        OBVIOUS
      <3> QED BY <1>5, <1>6, <3>1
    <2> QED BY <2>1, Zenon
  <1>8. PICK F : F = C
    OBVIOUS
  <1>9. Good(F)
    <2> HIDE DEF Good
    <2> QED BY <1>7, <1>8
  <1>10. \A n \in 1 .. N : F[n] = F[n - 1] \cup Neighbours(g, q, F[n - 1])
    <2> TAKE n \in 1 .. N
    <2>1. n \in 0 .. N /\ n # 0
      OBVIOUS
    <2> QED BY <1>9, <2>1, Zenon
  <1>11. F[0] = init
    BY <1>9
  <1>12. \A n \in 0 .. N : F[n] \in D
    <2> DEFINE P == {n \in 0 .. N : F[n] \in D}
    <2>1. 0 \in P
      BY <1>a, <1>11
    <2>2. ASSUME NEW n \in 1 .. N, n - 1 \in P PROVE n \in P
      <3>1. F[n - 1] \in D
        BY <2>2
      <3>2. F[n] \in D
        BY <1>b, <1>10, <3>1
      <3> QED BY <3>2
    <2>3. 0 .. N \subseteq P
      <3> HIDE DEF P
      <3> QED BY <2>1, <2>2, Upto
    <2> QED BY <2>3
  <1>13. F \in [0 .. N -> D]
    BY <1>9, <1>12, Zenon
  <1>14. Reach(g, q) = F[N]
    BY <1>3, <1>8, Zenon
  <1> HIDE DEF C, Good
  <1>15. Reaching(g, q, N, F)
    BY <1>0, <1>a, <1>10, <1>11, <1>13, <1>14 DEF Reaching
  <1> QED BY <1>15

\* A walk against what as many steps reach.
Covered(g, q, s, reach) ==
    /\ s.visited \subseteq reach
    /\ \A id \in s.visited : id \in s.frontier \cup s.next \/ Near(g, q, id) \subseteq s.visited
    /\ Cardinality(s.visited) < q.maxVisited =>
           s.visited = reach /\ \A id \in s.visited \ s.next : Near(g, q, id) \subseteq s.visited

\* One more level against one more step.
LEMMA CoveredOn ==
    ASSUME NEW g, Typed(g), NEW q, q.maxVisited \in Nat, NEW s \in States, NEW reach \in SUBSET Ids,
           Covered(g, q, s, reach), NEW u, u = Stepped(g, q, s)
    PROVE  Covered(g, q, u, reach \cup Neighbours(g, q, reach))
  <1>1. PICK more : more = Neighbours(g, q, reach)
    OBVIOUS
  <1>2. \A id \in reach : Near(g, q, id) \subseteq more
    BY <1>1, NeighboursAre
  <1>3. \A x \in more : \E id \in reach : x \in Near(g, q, id)
    BY <1>1, NeighboursAre
  <1>4. CASE Onward(q, s)
    <2>1. s \in Walks /\ s.next \subseteq s.visited /\ s.frontier \subseteq s.visited /\ u = Level(g, q, s)
      BY <1>4 DEF States, Stepped
    <2>2. PICK t : /\ Spread(g, q, s, s.next, t) /\ u \in Walks
                   /\ u.visited = t.visited /\ u.next = t.next /\ u.frontier = t.frontier
      BY <2>1, LevelOK
    <2>3. u.visited \subseteq reach \cup more
      <3>1. \A id \in u.visited : id \in s.visited \/ \E from \in s.next : id \in Near(g, q, from)
        BY <2>2 DEF Spread
      <3>2. s.visited \subseteq reach
        BY DEF Covered
      <3> QED BY <1>2, <2>1, <3>1, <3>2
    <2>4. \A id \in u.visited : id \in u.frontier \cup u.next \/ Near(g, q, id) \subseteq u.visited
      <3>1. \A id \in s.visited : id \in s.frontier \cup s.next \/ Near(g, q, id) \subseteq s.visited
        BY DEF Covered
      <3>2. /\ s.visited \subseteq u.visited /\ u.visited \ u.next \subseteq s.visited /\ s.frontier \subseteq u.frontier
            /\ \A id \in s.next : id \in u.frontier \/ Near(g, q, id) \subseteq u.visited
        BY <2>2 DEF Spread
      <3> QED BY <3>1, <3>2
    <2>5. ASSUME Cardinality(u.visited) < q.maxVisited
          PROVE  u.visited = reach \cup more /\ \A id \in u.visited \ u.next : Near(g, q, id) \subseteq u.visited
      <3>1. s.visited \subseteq u.visited /\ s.visited \in SUBSET Ids /\ u.visited \in SUBSET Ids
        BY <2>1, <2>2 DEF Spread, Walks
      <3>2. Cardinality(s.visited) < q.maxVisited
        <4>1. Cardinality(s.visited) \in Nat /\ Cardinality(u.visited) \in Nat
              /\ Cardinality(s.visited) <= Cardinality(u.visited)
          BY <3>1, FewerVisited
        <4> QED BY <2>5, <4>1
      <3>3. s.visited = reach /\ \A id \in s.visited \ s.next : Near(g, q, id) \subseteq s.visited
        BY <3>2 DEF Covered
      <3>4. \A id \in s.next : Near(g, q, id) \subseteq u.visited
        BY <2>2, <2>5 DEF Spread
      <3>5. \A id \in s.visited : Near(g, q, id) \subseteq u.visited
        BY <3>1, <3>3, <3>4
      <3>6. more \subseteq u.visited
        BY <1>3, <3>3, <3>5
      <3>7. u.visited \ u.next \subseteq s.visited
        BY <2>2 DEF Spread
      <3> QED BY <2>3, <3>1, <3>3, <3>5, <3>6, <3>7
    <2>6. Covered(g, q, u, reach \cup more)
      BY <2>3, <2>4, <2>5 DEF Covered
    <2> QED BY <1>1, <2>6
  <1>5. CASE ~Onward(q, s)
    <2>1. u = s
      BY <1>5 DEF Stepped
    <2>2. ASSUME Cardinality(s.visited) < q.maxVisited
          PROVE  s.visited = reach \cup more /\ \A id \in s.visited \ s.next : Near(g, q, id) \subseteq s.visited
      <3>1. s.next = {}
        BY <1>5, <2>2 DEF Onward
      <3>2. s.visited = reach /\ \A id \in s.visited \ s.next : Near(g, q, id) \subseteq s.visited
        BY <2>2 DEF Covered
      <3>3. more \subseteq s.visited
        BY <1>3, <3>1, <3>2
      <3> QED BY <3>2, <3>3
    <2>3. s.visited \subseteq reach \cup more
      BY DEF Covered
    <2>4. \A id \in s.visited : id \in s.frontier \cup s.next \/ Near(g, q, id) \subseteq s.visited
      BY DEF Covered
    <2>5. Covered(g, q, s, reach \cup more)
      BY <2>2, <2>3, <2>4 DEF Covered
    <2> QED BY <1>1, <2>1, <2>5
  <1> QED BY <1>4, <1>5

\* The whole walk.
LEMMA WalkCovers ==
    ASSUME NEW g, Typed(g), NEW q, q.maxVisited \in Nat, q.maxDepth \in Nat, q.id \in Ids
    PROVE  Covered(g, q, Walk(g, q), Reach(g, q))
  <1>1. PICK N \in Nat : N = q.maxDepth
    OBVIOUS
  <1>2. PICK x : Walking(g, q, N, x)
    BY <1>1, WalkingExists
  <1>3. PICK r : Reaching(g, q, N, r)
    BY <1>1, ReachingExists
  <1> DEFINE P == {n \in 0 .. N : Covered(g, q, x[n], r[n])}
  <1>4. 0 \in P
    <2>1. x[0].visited = {q.id} /\ x[0].next = {q.id} /\ r[0] = {q.id}
      BY <1>2, <1>3 DEF Walking, Reaching, Begin
    <2>2. Covered(g, q, x[0], r[0])
      BY <2>1 DEF Covered
    <2> QED BY <1>1, <2>2
  <1>5. ASSUME NEW n \in 1 .. N, n - 1 \in P PROVE n \in P
    <2>1. n - 1 \in 0 .. N /\ Covered(g, q, x[n - 1], r[n - 1])
      BY <1>5
    <2>2. x[n - 1] \in States /\ r[n - 1] \in SUBSET Ids
      BY <1>2, <1>3, <2>1 DEF Walking, Reaching
    <2>3. x[n] = Stepped(g, q, x[n - 1]) /\ r[n] = r[n - 1] \cup Neighbours(g, q, r[n - 1])
      BY <1>2, <1>3 DEF Walking, Reaching
    <2>4. Covered(g, q, x[n], r[n - 1] \cup Neighbours(g, q, r[n - 1]))
      BY <2>1, <2>2, <2>3, CoveredOn
    <2>5. Covered(g, q, x[n], r[n])
      BY <2>3, <2>4, Zenon
    <2> QED BY <2>5
  <1>6. N \in P
    <2> HIDE DEF P
    <2>1. 0 .. N \subseteq P
      BY <1>4, <1>5, Upto
    <2> QED BY <2>1
  <1>7. Walk(g, q) = x[N] /\ Reach(g, q) = r[N]
    BY <1>2, <1>3 DEF Walking, Reaching
  <1> QED BY <1>6, <1>7, Zenon

\* What a trace asks for.
LEMMA TraceQuery ==
    ASSUME NEW q \in Lists, q.op = "trace" PROVE q.id \in Ids /\ q.maxDepth \in Nat /\ q.maxVisited \in Nat
  <1>1. q \in Queries
    BY ListsAssumption
  <1> QED BY <1>1 DEF Queries

\* The walk depends on the graph alone.
LEMMA TracesHold == Basis => TraceCovers
  <1> SUFFICES ASSUME Basis, NEW q \in Lists, q.op = "trace", Loaded(graph), query = q, q.id \in graph.nodes
               PROVE  LET w == Walk(graph, q)
                      IN  /\ w.visited \subseteq Reach(graph, q)
                          /\ Cardinality(w.visited) < q.maxVisited => w.visited = Reach(graph, q)
                          /\ \A id \in w.visited :
                                 id \in Frontier(w) \/ Neighbours(graph, q, {id}) \subseteq w.visited
    BY DEF TraceCovers
  <1>1. PICK g : g = graph
    OBVIOUS
  <1>2. GraphOK(g) /\ Loaded(g)
    BY <1>1 DEF Basis
  <1>3. Typed(g)
    <2>1. g.nodes \in SUBSET Ids /\ \A e \in g.edges : EdgeShape(g.accepted, g.nodes, e)
      BY <1>2, LoadedGraph
    <2> QED BY <2>1 DEF EdgeShape, Typed
  <1>4. q.id \in Ids /\ q.maxDepth \in Nat /\ q.maxVisited \in Nat
    BY TraceQuery
  <1>5. PICK w : w = Walk(g, q)
    OBVIOUS
  <1>6. Covered(g, q, w, Reach(g, q))
    BY <1>3, <1>4, <1>5, WalkCovers
  <1>7. ASSUME NEW id \in w.visited PROVE Neighbours(g, q, {id}) = Near(g, q, id)
    BY Zenon DEF Neighbours, Near
  <1>8. \A id \in w.visited : id \in Frontier(w) \/ Neighbours(g, q, {id}) \subseteq w.visited
    BY <1>6, <1>7 DEF Covered, Frontier
  <1>9. w.visited \subseteq Reach(g, q) /\ (Cardinality(w.visited) < q.maxVisited => w.visited = Reach(g, q))
    BY <1>6 DEF Covered
  <1> QED BY <1>1, <1>5, <1>8, <1>9, Zenon

\* A trace visits what its depth reaches, all of it unless the number of visits ends
\* it, and shows on its frontier where it stopped (runTrace): the walk after each
\* level against what as many steps reach.
THEOREM TracesAlwaysCover == Spec => []TraceCovers
  BY BasisAlways, TracesHold, PTL

-----------------------------------------------------------------------------
\* A list whose rows are made from those of another one.
LEMMA KeyedRows ==
    ASSUME NEW S, NEW list \in Seq(S), NEW m \in Nat, NEW rows, DOMAIN rows = DOMAIN list,
           rows = [i \in DOMAIN list |-> rows[i]], \A i \in DOMAIN list : rows[i].key \in Keys(m)
    PROVE  Rows(rows)
  <1>1. PICK n \in Nat : DOMAIN list = 1 .. n
    OBVIOUS
  <1>2. rows = [i \in 1 .. n |-> rows[i]] /\ \A i \in 1 .. n : rows[i].key \in Keys(m)
    BY <1>1
  <1> QED BY <1>2 DEF Rows, Keyed

\* The groups of edges.
GroupOf(e) == [from |-> e.from, to |-> e.to, type |-> e.type]

\* Groups have keys of five numbers,
LEMMA GroupKeyTypes ==
    ASSUME NEW docs \in SUBSET Docs, NEW nodes \in SUBSET Ids, NEW e, EdgeShape(docs, nodes, e)
    PROVE  /\ GroupKey(GroupOf(e)) = Joined(IdKey(e.from) \o IdKey(e.to), <<Rank(Types, e.type)>>)
           /\ <<Rank(Types, e.type)>> \in Keys(1)
           /\ GroupKey(GroupOf(e)) \in Keys(5)
  <1>1. GroupKey(GroupOf(e)) = (IdKey(e.from) \o IdKey(e.to)) \o <<Rank(Types, e.type)>>
    BY DEF GroupKey, GroupOf
  <1>2. PICK a \in Keys(4) : a = IdKey(e.from) \o IdKey(e.to)
    BY EdgeKeyTypes
  <1>3. PICK b \in Keys(1) : b = <<Rank(Types, e.type)>>
    <2>1. Rank(Types, e.type) \in Nat
      BY StatedTypes
    <2>2. PICK b : b = <<Rank(Types, e.type)>>
      OBVIOUS
    <2>3. b \in Keys(1)
      BY <2>1, <2>2 DEF Keys
    <2> QED BY <2>2, <2>3
  <1>4. 4 \in Nat /\ 1 \in Nat /\ 4 + 1 = 5
    OBVIOUS
  <1>5. a \o b \in Keys(4 + 1)
    BY <1>4, ConcatKeys, Zenon
  <1>6. a \o b \in Keys(5)
    BY <1>4, <1>5, Zenon
  <1>7. GroupKey(GroupOf(e)) = a \o b
    BY <1>1, <1>2, <1>3, Zenon
  <1> QED BY <1>1, <1>3, <1>6, <1>7, Zenon DEF Joined

\* and no two have the same.
LEMMA GroupKeyInjective ==
    ASSUME NEW docs \in SUBSET Docs, NEW nodes \in SUBSET Ids,
           NEW e, EdgeShape(docs, nodes, e), NEW d, EdgeShape(docs, nodes, d),
           GroupKey(GroupOf(e)) = GroupKey(GroupOf(d))
    PROVE  GroupOf(e) = GroupOf(d)
  <1>1. IdKey(e.from) \o IdKey(e.to) = IdKey(d.from) \o IdKey(d.to) /\ <<Rank(Types, e.type)>> = <<Rank(Types, d.type)>>
    <2>1. PICK a \in Keys(4) : a = IdKey(e.from) \o IdKey(e.to)
      BY EdgeKeyTypes
    <2>2. PICK b \in Keys(1) : b = <<Rank(Types, e.type)>>
      BY GroupKeyTypes
    <2>3. PICK c \in Keys(4) : c = IdKey(d.from) \o IdKey(d.to)
      BY EdgeKeyTypes
    <2>4. PICK h \in Keys(1) : h = <<Rank(Types, d.type)>>
      BY GroupKeyTypes
    <2>5. Joined(a, b) = Joined(c, h)
      <3>1. GroupKey(GroupOf(e)) = Joined(IdKey(e.from) \o IdKey(e.to), <<Rank(Types, e.type)>>)
        BY GroupKeyTypes
      <3>2. GroupKey(GroupOf(d)) = Joined(IdKey(d.from) \o IdKey(d.to), <<Rank(Types, d.type)>>)
        BY GroupKeyTypes
      <3> QED BY <2>1, <2>2, <2>3, <2>4, <3>1, <3>2, Zenon
    <2>6. 1 \in Nat /\ 4 \in Nat
      OBVIOUS
    <2>7. a = c /\ b = h
      BY <2>5, <2>6, JoinedInjective
    <2> QED BY <2>1, <2>2, <2>3, <2>4, <2>7, Zenon
  <1>2. IdKey(e.from) = IdKey(d.from) /\ IdKey(e.to) = IdKey(d.to)
    <2>1. PICK a \in Keys(2) : a = IdKey(e.from)
      BY EdgeKeyTypes
    <2>2. PICK b \in Keys(2) : b = IdKey(e.to)
      BY EdgeKeyTypes
    <2>3. PICK c \in Keys(2) : c = IdKey(d.from)
      BY EdgeKeyTypes
    <2>4. PICK h \in Keys(2) : h = IdKey(d.to)
      BY EdgeKeyTypes
    <2>5. a \o b = c \o h
      BY <1>1, <2>1, <2>2, <2>3, <2>4, Zenon
    <2>6. 2 \in Nat /\ Joined(a, b) = Joined(c, h)
      BY <2>5, Zenon DEF Joined
    <2>7. a = c /\ b = h
      BY <2>6, JoinedInjective
    <2> QED BY <2>1, <2>2, <2>3, <2>4, <2>7, Zenon
  <1>3. e.from = d.from /\ e.to = d.to
    <2>1. e.from \in Ids /\ e.to \in Ids /\ d.from \in Ids /\ d.to \in Ids
      BY DEF EdgeShape
    <2> QED BY <1>2, <2>1, IdKeyTypes
  <1>4. e.type = d.type
    <2>1. Rank(Types, e.type) = Rank(Types, d.type)
      BY <1>1
    <2> QED BY <2>1, StatedTypes
  <1> QED BY <1>3, <1>4 DEF GroupOf

\* The groups are sorted.
LEMMA GroupsSorted ==
    ASSUME NEW docs \in SUBSET Docs, NEW nodes \in SUBSET Ids, NEW edges, IsFiniteSet(edges),
           \A e \in edges : EdgeShape(docs, nodes, e), NEW groups, groups = {GroupOf(e) : e \in edges},
           NEW list, list = Sorted(groups, [x \in groups |-> GroupKey(x)])
    PROVE  list \in Seq(groups) /\ \A x \in groups : GroupKey(x) \in Keys(5)
  <1>1. \A x \in groups : GroupKey(x) \in Keys(5)
    BY GroupKeyTypes
  <1>2. \A x, y \in groups : GroupKey(x) = GroupKey(y) => x = y
    BY GroupKeyInjective
  <1>3. IsFiniteSet(groups)
    <2>1. PICK f : f = [e \in edges |-> GroupOf(e)]
      OBVIOUS
    <2>2. IsFiniteSet({f[e] : e \in edges})
      BY <2>1, FiniteImage
    <2>3. {f[e] : e \in edges} = groups
      BY <2>1
    <2> QED BY <2>2, <2>3
  <1>4. PICK key : key = [x \in groups |-> GroupKey(x)]
    OBVIOUS
  <1>5. key \in [groups -> Keys(5)] /\ IsInjective(key)
    BY <1>1, <1>2, <1>4 DEF IsInjective
  <1>6. 5 \in Nat
    OBVIOUS
  <1>7. Sorted(groups, key) \in Seq(groups)
    BY <1>3, <1>5, <1>6, SortedBy
  <1> QED BY <1>1, <1>4, <1>7

-----------------------------------------------------------------------------
\* The lists a query asks for have such rows.
LEMMA FindNodesRows ==
    ASSUME NEW g, GraphOK(g), Loaded(g), NEW q, NEW rows, rows = FindNodes(g, q) PROVE Rows(rows)
  <1>1. PICK S : S = {id \in g.nodes : id.spec \in q.specs /\ KindOf(id) \in q.kinds}
    OBVIOUS
  <1>2. S \in SUBSET Ids /\ IsFiniteSet(S)
    <2>1. g.nodes \in SUBSET Ids
      BY LoadedGraph
    <2>2. S \in SUBSET Ids
      BY <1>1, <2>1
    <2> QED BY <2>2, FiniteIds, FS_Subset
  <1>3. PICK ids : ids = ByIdKey(S)
    OBVIOUS
  <1>4. ids \in Seq(Ids)
    <2>1. ids \in Seq(S)
      BY <1>2, <1>3, IdsSorted
    <2> QED BY <1>2, <2>1
  <1>5. rows = [i \in DOMAIN ids |-> Row(ids[i], IdKey(ids[i]), NodeBytes(g, ids[i]))]
    BY <1>1, <1>3 DEF FindNodes
  <1>6. DOMAIN rows = DOMAIN ids /\ rows = [i \in DOMAIN ids |-> rows[i]]
    BY <1>5
  <1>7. \A i \in DOMAIN ids : rows[i].key = IdKey(ids[i])
    BY <1>5, RowField
  <1> QED BY <1>4, <1>6, <1>7, IdRows

\* Edges, and groups of them.
LEMMA GetEdgesRows ==
    ASSUME NEW g, GraphOK(g), Loaded(g), NEW q, NEW rows, rows = GetEdges(g, q) PROVE Rows(rows)
  <1>1. PICK edges : edges = Incident(g, q.id, q.direction, q.types)
    OBVIOUS
  <1>2. PICK docs \in SUBSET Docs, nodes \in SUBSET Ids :
            IsFiniteSet(edges) /\ \A e \in edges : EdgeShape(docs, nodes, e)
    <2>1. edges \in SUBSET g.edges
      BY <1>1 DEF Incident
    <2>2. /\ \A e \in g.edges : EdgeShape(g.accepted, g.nodes, e)
          /\ g.nodes \in SUBSET Ids /\ IsFiniteSet(g.edges) /\ g.accepted = Present(g.fingerprint)
      BY LoadedGraph
    <2>3. g.accepted \in SUBSET Docs
      BY <2>2 DEF Present
    <2>4. IsFiniteSet(edges)
      BY <2>1, <2>2, FS_Subset
    <2> QED BY <2>1, <2>2, <2>3, <2>4
  <1>3. CASE q.aggregate
    <2>1. PICK groups : groups = {GroupOf(e) : e \in edges}
      OBVIOUS
    <2>2. PICK list : list = Sorted(groups, [x \in groups |-> GroupKey(x)])
      OBVIOUS
    <2>3. list \in Seq(groups) /\ \A x \in groups : GroupKey(x) \in Keys(5)
      BY <1>2, <2>1, <2>2, GroupsSorted
    <2>4. rows = [i \in DOMAIN list |-> Row(list[i], GroupKey(list[i]), 1)]
      BY <1>1, <1>3, <2>1, <2>2 DEF GetEdges, GroupOf
    <2>5. DOMAIN rows = DOMAIN list /\ rows = [i \in DOMAIN list |-> rows[i]]
      BY <2>4
    <2>6. \A i \in DOMAIN list : list[i] \in groups
      BY <2>3
    <2>7. \A i \in DOMAIN list : rows[i].key \in Keys(5)
      BY <2>3, <2>4, <2>6, RowField
    <2>8. 5 \in Nat
      OBVIOUS
    <2> QED BY <2>3, <2>5, <2>7, <2>8, KeyedRows
  <1>4. CASE ~q.aggregate
    <2>1. PICK list : list = ByEdgeKey(edges)
      OBVIOUS
    <2>2. list \in Seq(edges)
      BY <1>2, <2>1, EdgesSorted
    <2>3. rows = [i \in DOMAIN list |-> EdgeRow(list[i])]
      BY <1>1, <1>4, <2>1 DEF GetEdges
    <2>4. DOMAIN rows = DOMAIN list /\ rows = [i \in DOMAIN list |-> rows[i]]
      BY <2>3
    <2>5. \A i \in DOMAIN list : list[i] \in edges
      BY <2>2
    <2>6. \A i \in DOMAIN list : rows[i].key \in Keys(10)
      BY <1>2, <2>3, <2>5, EdgeRowKey
    <2>7. 10 \in Nat
      OBVIOUS
    <2> QED BY <2>2, <2>4, <2>6, <2>7, KeyedRows
  <1> QED BY <1>3, <1>4

\* The edges of a graph join identities.
LEMMA GraphTyped == ASSUME NEW g, GraphOK(g), Loaded(g) PROVE Typed(g)
  <1>1. g.nodes \in SUBSET Ids /\ \A e \in g.edges : EdgeShape(g.accepted, g.nodes, e)
    BY LoadedGraph
  <1> QED BY <1>1 DEF EdgeShape, Typed

\* The nodes of a trace.
LEMMA TraceRows ==
    ASSUME NEW g, GraphOK(g), Loaded(g), NEW q, q.maxVisited \in Nat, q.maxDepth \in Nat, q.id \in Ids,
           NEW rows, rows = Trace(g, q)
    PROVE  Rows(rows)
  <1>1. PICK N \in Nat : N = q.maxDepth
    OBVIOUS
  <1>2. PICK x : Walking(g, q, N, x)
    BY <1>1, GraphTyped, WalkingExists
  <1>3. PICK ids : ids = Walk(g, q).list
    OBVIOUS
  <1>4. ids \in Seq(Ids)
    <2>1. x[N] \in States /\ Walk(g, q) = x[N]
      BY <1>2 DEF Walking
    <2>2. x[N] \in Walks
      BY <2>1 DEF States
    <2>3. x[N].list \in Seq(Ids)
      BY <2>2 DEF Walks
    <2> QED BY <1>3, <2>1, <2>3
  <1>5. rows = [i \in DOMAIN ids |-> Row(ids[i], IdKey(ids[i]), 1)]
    BY <1>3 DEF Trace
  <1>6. DOMAIN rows = DOMAIN ids /\ rows = [i \in DOMAIN ids |-> rows[i]]
    BY <1>5
  <1>7. \A i \in DOMAIN ids : rows[i].key = IdKey(ids[i])
    BY <1>5, RowField
  <1> QED BY <1>4, <1>6, <1>7, IdRows

\* Diagnostics, of a validation or not.
LEMMA ValidationRows ==
    ASSUME NEW g, GraphOK(g), Loaded(g), NEW q, NEW rows, rows = Validation(g, q) PROVE Rows(rows)
  <1>1. PICK S : S = {x \in Scoped(g, q) : Severity(x.code) \in q.severities}
    OBVIOUS
  <1>2. PICK found : found = g.diagnostics
    OBVIOUS
  <1>3. PICK D : D = DiagnosticType \cup {Overflow}
    OBVIOUS
  <1>4. found \in Seq(D)
    <2>1. PICK f : f = g.fingerprint
      OBVIOUS
    <2>2. Corpus(f) /\ found = BuildKernelGraph(f).diagnostics
      BY <1>2, <2>1, LoadedGraph
    <2>3. found \in Seq(FoundIn(f) \cup {Overflow})
      BY <2>2, BuiltDiagnostics
    <2>4. FoundIn(f) \cup {Overflow} \subseteq D
      BY <1>3, <2>2, FoundTypes
    <2> QED BY <2>3, <2>4
  <1>5. PICK list : list = Within(found, S)
    OBVIOUS
  <1>6. list \in Seq(D)
    <2>1. list \in Seq(D \cap S)
      BY <1>4, <1>5, WithinTypes
    <2> QED BY <2>1
  <1>7. rows = [i \in DOMAIN list |-> DiagnosticRow(list[i])]
    BY <1>1, <1>2, <1>5 DEF Validation, Matched
  <1>8. DOMAIN rows = DOMAIN list /\ rows = [i \in DOMAIN list |-> rows[i]]
    BY <1>7
  <1>9. \A i \in DOMAIN list : list[i] \in D
    BY <1>6
  <1>10. \A i \in DOMAIN list : rows[i].key \in Keys(6)
    BY <1>3, <1>7, <1>9, DiagnosticRowKey
  <1>11. 6 \in Nat
    OBVIOUS
  <1> QED BY <1>6, <1>8, <1>10, <1>11, KeyedRows

\* The rows of specs.
LEMMA InventoryRows == ASSUME NEW g, NEW q, NEW rows, rows = Inventory(g, q) PROVE Rows(rows)
  <1>1. PICK L : L = Range(SpecOrder)
    OBVIOUS
  <1>2. PICK list : list = Within(SpecOrder, q.specs \cap SpecsOf(g))
    OBVIOUS
  <1>3. list \in Seq(L)
    <2>1. SpecOrder \in Seq(L)
      BY <1>1, OrdersAssumption DEF Listed
    <2>2. list \in Seq(L \cap (q.specs \cap SpecsOf(g)))
      BY <1>2, <2>1, WithinTypes
    <2> QED BY <2>2
  <1>4. rows = [i \in DOMAIN list |-> Row(InventoryOf(g, list[i]), <<Rank(SpecOrder, list[i])>>, 1)]
    BY <1>2 DEF Inventory
  <1>5. DOMAIN rows = DOMAIN list /\ rows = [i \in DOMAIN list |-> rows[i]]
    BY <1>4
  <1>6. ASSUME NEW i \in DOMAIN list PROVE rows[i].key \in Keys(1)
    <2>1. list[i] \in Range(SpecOrder)
      BY <1>1, <1>3
    <2>2. Rank(SpecOrder, list[i]) \in Nat
      BY <2>1, OrdersAssumption, RankOfListed
    <2>3. PICK k : k = <<Rank(SpecOrder, list[i])>>
      OBVIOUS
    <2>4. k \in Keys(1)
      BY <2>2, <2>3 DEF Keys
    <2>5. rows[i].key = k
      BY <1>4, <2>3, RowField
    <2> QED BY <2>4, <2>5
  <1>7. 1 \in Nat
    OBVIOUS
  <1> QED BY <1>3, <1>5, <1>6, <1>7, KeyedRows

\* The tasks.
LEMMA TasksRows ==
    ASSUME NEW g, GraphOK(g), Loaded(g), NEW q, NEW rows, rows = ListTasks(g, q) PROVE Rows(rows)
  <1>1. PICK S : S = {id \in g.nodes : /\ KindOf(id) = "TASK" /\ id.spec \in q.specs
                                       /\ q.requirement \subseteq
                                             {e.to : e \in {f \in g.edges : /\ f.from = id
                                                            /\ f.type \in {"REFS", "COVERS", "IMPLEMENTS"}
                                                            /\ KindOf(f.to) \in Requirements}}}
    OBVIOUS
  <1>2. S \in SUBSET Ids /\ IsFiniteSet(S)
    <2>1. g.nodes \in SUBSET Ids
      BY LoadedGraph
    <2>2. S \subseteq g.nodes
      BY <1>1, Zenon
    <2>3. S \in SUBSET Ids
      BY <2>1, <2>2
    <2> QED BY <2>3, FiniteIds, FS_Subset
  <1>3. PICK ids : ids = ByIdKey(S)
    OBVIOUS
  <1>4. ids \in Seq(Ids)
    <2>1. ids \in Seq(S)
      BY <1>2, <1>3, IdsSorted
    <2> QED BY <1>2, <2>1
  <1>5. rows = [i \in DOMAIN ids |-> Row(ids[i], IdKey(ids[i]), 0)]
    BY <1>1, <1>3, Zenon DEF ListTasks
  <1>6. DOMAIN rows = DOMAIN ids /\ rows = [i \in DOMAIN ids |-> rows[i]]
    BY <1>5
  <1>7. \A i \in DOMAIN ids : rows[i].key = IdKey(ids[i])
    BY <1>5, RowField
  <1> QED BY <1>4, <1>6, <1>7, IdRows

\* Every list a query asks for.
LEMMA ListingRows ==
    ASSUME NEW g, GraphOK(g), Loaded(g), NEW q \in Queries, NEW rows, rows = Listing(g, q) PROVE Rows(rows)
  <1>1. q.op \in {"findNodes", "getEdges", "trace", "validation", "diagnostics", "inventory", "listTasks"}
    BY DEF Queries
  <1>2. q.op = "trace" => q.maxVisited \in Nat /\ q.maxDepth \in Nat /\ q.id \in Ids
    BY DEF Queries
  <1>3. CASE q.op = "findNodes"
    BY <1>3, FindNodesRows DEF Listing
  <1>4. CASE q.op = "getEdges"
    BY <1>4, GetEdgesRows DEF Listing
  <1>5. CASE q.op = "trace"
    BY <1>2, <1>5, TraceRows DEF Listing
  <1>6. CASE q.op \in {"validation", "diagnostics"}
    <2>1. rows = Validation(g, q)
      BY <1>6 DEF Listing, RunDiagnostics
    <2> QED BY <2>1, ValidationRows
  <1>7. CASE q.op = "inventory"
    BY <1>7, InventoryRows DEF Listing
  <1>8. CASE q.op = "listTasks"
    BY <1>8, TasksRows DEF Listing
  <1> QED BY <1>1, <1>3, <1>4, <1>5, <1>6, <1>7, <1>8

\* The filters of a query, and its limit.
LEMMA FiltersTypes ==
    ASSUME NEW q \in Lists PROVE Filters(q) \in Queries /\ q.limit \in Nat
  <1>1. q \in Queries
    BY ListsAssumption
  <1>2. q.limit \in Nat
    BY <1>1 DEF Queries
  <1>3. Filters(q) \in Queries
    BY <1>1 DEF Filters, Queries
  <1> QED BY <1>2, <1>3

-----------------------------------------------------------------------------
\* Rows are numbered.
LEMMA RowsListed ==
    ASSUME NEW rows, Rows(rows)
    PROVE  \E N \in Nat : \E m \in Nat : Len(rows) = N /\ DOMAIN rows = 1 .. N /\ Keyed(rows, N, m)
  <1>1. PICK N \in Nat, m \in Nat : Keyed(rows, N, m)
    BY DEF Rows
  <1>2. DOMAIN rows = 1 .. N
    BY <1>1 DEF Keyed
  <1>3. PICK R : R = {rows[i] : i \in 1 .. N}
    OBVIOUS
  <1>4. rows \in [1 .. N -> R]
    BY <1>1, <1>3 DEF Keyed
  <1>5. rows \in Seq(R)
    BY <1>4
  <1>6. Len(rows) = N
    BY <1>2, <1>5
  <1> QED BY <1>1, <1>2, <1>6

\* Rows that follow each other in order are ordered.
LEMMA RowsOrdered ==
    ASSUME NEW N \in Nat, NEW m \in Nat, NEW rows, Keyed(rows, N, m), Len(rows) = N, InKeyOrder(rows),
           NEW i \in 1 .. N, NEW j \in 1 .. N, i < j
    PROVE  Precedes(rows[i].key, rows[j].key)
  <1> DEFINE P == {n \in 0 .. N : \A a, b \in 1 .. n : a < b => Precedes(rows[a].key, rows[b].key)}
  <1>1. 0 \in P
    OBVIOUS
  <1>2. ASSUME NEW n \in 1 .. N, n - 1 \in P PROVE n \in P
    <2>1. \A a, b \in 1 .. n - 1 : a < b => Precedes(rows[a].key, rows[b].key)
      BY <1>2
    <2>2. ASSUME NEW a \in 1 .. n - 1 PROVE Precedes(rows[a].key, rows[n].key)
      <3>1. n - 1 \in 1 .. N - 1 /\ n - 1 + 1 = n /\ a \in 1 .. N /\ n - 1 \in 1 .. N
        OBVIOUS
      <3>2. Precedes(rows[n - 1].key, rows[n].key)
        BY <3>1 DEF InKeyOrder
      <3>3. CASE a = n - 1
        BY <3>2, <3>3
      <3>4. CASE a < n - 1
        <4>1. Precedes(rows[a].key, rows[n - 1].key)
          BY <2>1, <3>1, <3>4
        <4>2. rows[a].key \in Keys(m) /\ rows[n - 1].key \in Keys(m) /\ rows[n].key \in Keys(m)
          BY <3>1 DEF Keyed
        <4> QED BY <3>2, <4>1, <4>2, PrecedesTransitive
      <3> QED BY <3>3, <3>4
    <2>3. ASSUME NEW a \in 1 .. n, NEW b \in 1 .. n, a < b PROVE Precedes(rows[a].key, rows[b].key)
      <3>1. a \in 1 .. n - 1 /\ (b = n \/ b \in 1 .. n - 1)
        BY <2>3
      <3> QED BY <2>1, <2>2, <2>3, <3>1
    <2> QED BY <2>3
  <1>3. N \in P
    <2> HIDE DEF P
    <2>1. 0 .. N \subseteq P
      BY <1>1, <1>2, Upto
    <2> QED BY <2>1
  <1> QED BY <1>3

\* The next page begins where the cursor left off.
LEMMA ResumeNext ==
    ASSUME NEW rows, Rows(rows), InKeyOrder(rows), NEW q, NEW c, c # Start,
           NEW n \in 1 .. Len(rows) - 1, c.key = rows[n].key, c.index = n
    PROVE  Resume(rows, q, c) = n + 1
  <1>0. CASE q.op = "listTasks"
    BY <1>0 DEF Resume
  <1>1. CASE q.op # "listTasks"
    <2>1. PICK N \in Nat, m \in Nat : Len(rows) = N /\ DOMAIN rows = 1 .. N /\ Keyed(rows, N, m)
      BY RowsListed
    <2>2. n \in 1 .. N /\ n + 1 \in 1 .. N
      BY <2>1
    <2>3. PICK S : S = {i \in DOMAIN rows : ~NotAfter(rows[i].key, c.key)}
      OBVIOUS
    <2>4. \A i \in S : i \in n + 1 .. N
      <3>1. \A i \in 1 .. N : i < n => Precedes(rows[i].key, rows[n].key)
        BY <2>1, <2>2, RowsOrdered
      <3> QED BY <2>1, <2>3, <3>1 DEF NotAfter
    <2>5. n + 1 \in S
      <3>1. PICK k : k = rows[n].key
        OBVIOUS
      <3>2. PICK l : l = rows[n + 1].key
        OBVIOUS
      <3>3. k \in Keys(m) /\ l \in Keys(m)
        BY <2>1, <2>2, <3>1, <3>2 DEF Keyed
      <3>4. Precedes(k, l)
        BY <2>1, <2>2, <3>1, <3>2, RowsOrdered
      <3>5. k # l /\ ~Precedes(l, k)
        BY <3>3, <3>4, PrecedesStrict
      <3> QED BY <2>1, <2>2, <2>3, <3>1, <3>2, <3>5 DEF NotAfter
    <2>6. First(S, N + 1) = n + 1
      <3>1. \A i \in S : n + 1 <= i
        BY <2>4
      <3>2. \A i \in S : (\A j \in S : i <= j) => i = n + 1
        BY <2>2, <2>4, <2>5
      <3>3. S # {}
        BY <2>5
      <3> QED BY <2>5, <3>1, <3>2, <3>3 DEF First
    <2> QED BY <1>1, <2>1, <2>3, <2>6 DEF Resume
  <1> QED BY <1>0, <1>1

\* A page has a size, and it does not reach past the list.
LEMMA PageSize ==
    ASSUME NEW rows, NEW from \in Nat, from >= 1, Len(rows) \in Nat, from <= Len(rows) + 1, NEW limit \in Nat, NEW size,
           size = CHOOSE n \in 0 .. limit : Fits(rows, from, n, limit) /\ ~Fits(rows, from, n + 1, limit)
    PROVE  size \in Nat /\ from + size - 1 <= Len(rows)
  <1>1. PICK T : T = {n \in 0 .. limit + 1 : ~Fits(rows, from, n, limit)}
    OBVIOUS
  <1>2. limit + 1 \in T
    BY <1>1 DEF Fits
  <1>3. 0 \notin T
    BY <1>1 DEF Fits
  <1>4. T \in SUBSET Nat /\ T # {}
    BY <1>1, <1>2
  <1>5. PICK n \in T : \A y \in T : n <= y
    BY <1>4, Least
  <1>6. n - 1 \in 0 .. limit /\ n - 1 \notin T /\ n - 1 + 1 = n
    BY <1>1, <1>3, <1>5
  <1>7. Fits(rows, from, n - 1, limit) /\ ~Fits(rows, from, n - 1 + 1, limit)
    <2>1. Fits(rows, from, n - 1, limit)
      BY <1>1, <1>6
    <2>2. ~Fits(rows, from, n, limit)
      BY <1>1, <1>5
    <2> QED BY <1>6, <2>1, <2>2, Zenon
  <1>8. size \in 0 .. limit /\ Fits(rows, from, size, limit)
    BY <1>6, <1>7
  <1>9. size \in Nat
    BY <1>8
  <1>10. size = 0 \/ from + size - 1 <= Len(rows)
    BY <1>8, Zenon DEF Fits
  <1>11. PICK N \in Nat : N = Len(rows)
    OBVIOUS
  <1>12. PICK k \in Nat : k = size
    BY <1>9
  <1>13. (k = 0 \/ from + k - 1 <= N) /\ from <= N + 1
    BY <1>10, <1>11, <1>12
  <1>14. from + k - 1 <= N
    BY <1>13
  <1> QED BY <1>11, <1>12, <1>14

\* The first items of a list.
Received(s, rows, n) == s = [i \in 1 .. n |-> rows[i].item]

Onto(g, q, rows, n, page, t) ==
    /\ Received(t, rows, n)
    /\ page.next # Start => /\ n \in 1 .. Len(rows) - 1
                            /\ page.next = [fingerprint |-> g.fingerprint, digest |-> Digest(q), key |-> rows[n].key, index |-> n]
    /\ page.next = Start /\ ~page.more => n = Len(rows)

LEMMA PageServed ==
    ASSUME NEW rows, Rows(rows), NEW g, NEW q, q.limit \in Nat, NEW k \in 0 .. Len(rows), NEW s, Received(s, rows, k),
           NEW page, page = PageFrom(g, q, rows, k + 1), NEW t, t = Joined(s, page.items)
    PROVE  \E n \in 0 .. Len(rows) : Onto(g, q, rows, n, page, t)
  <1>1. PICK N \in Nat, m \in Nat : Len(rows) = N /\ DOMAIN rows = 1 .. N /\ Keyed(rows, N, m)
    BY RowsListed
  <1>2. PICK size : size = CHOOSE n \in 0 .. q.limit : Fits(rows, k + 1, n, q.limit) /\ ~Fits(rows, k + 1, n + 1, q.limit)
    OBVIOUS
  <1>3. size \in Nat /\ k + 1 + size - 1 <= N
    <2>1. k + 1 \in Nat /\ k + 1 >= 1 /\ Len(rows) \in Nat /\ k + 1 <= Len(rows) + 1
      BY <1>1
    <2>2. PICK limit \in Nat : limit = q.limit
      OBVIOUS
    <2>3. PICK from \in Nat : from = k + 1
      BY <2>1
    <2>4. size = CHOOSE n \in 0 .. limit : Fits(rows, from, n, limit) /\ ~Fits(rows, from, n + 1, limit)
      BY <1>2, <2>2, <2>3
    <2>5. size \in Nat /\ from + size - 1 <= Len(rows)
      BY <2>1, <2>3, <2>4, PageSize
    <2> QED BY <1>1, <2>3, <2>5
  <1>4. page = PageOf(g, q, rows, k + 1, size)
    BY <1>2 DEF PageFrom
  <1>5. PICK n \in 0 .. N : n = k + size
    BY <1>1, <1>3
  <1>6. k + 1 + size - 1 = n /\ k \in Nat /\ k <= n
    BY <1>1, <1>3, <1>5
  <1>7. /\ page.items = [i \in 1 .. size |-> rows[k + 1 + i - 1].item]
        /\ page.more = (n < N)
        /\ page.next = IF n < N /\ size > 0
                       THEN [fingerprint |-> g.fingerprint, digest |-> Digest(q), key |-> rows[n].key, index |-> n]
                       ELSE Start
    <2>1. page = [items |-> [i \in 1 .. size |-> rows[k + 1 + i - 1].item],
                  more  |-> n < N,
                  next  |-> IF n < N /\ size > 0
                            THEN [fingerprint |-> g.fingerprint, digest |-> Digest(q), key |-> rows[n].key, index |-> n]
                            ELSE Start]
      BY <1>1, <1>4, <1>6, Zenon DEF PageOf
    <2>2. PICK next : next = IF n < N /\ size > 0
                             THEN [fingerprint |-> g.fingerprint, digest |-> Digest(q), key |-> rows[n].key, index |-> n]
                             ELSE Start
      OBVIOUS
    <2>3. PICK items : items = [i \in 1 .. size |-> rows[k + 1 + i - 1].item]
      OBVIOUS
    <2>4. PICK more : more = (n < N)
      OBVIOUS
    <2>5. page = [items |-> items, more |-> more, next |-> next]
      BY <2>1, <2>2, <2>3, <2>4, Zenon
    <2>6. page.items = items /\ page.more = more /\ page.next = next
      BY <2>5
    <2> QED BY <2>2, <2>3, <2>4, <2>6, Zenon
  <1>8. PICK S : S = {rows[i].item : i \in 1 .. N}
    OBVIOUS
  <1>9. s \in Seq(S) /\ Len(s) = k /\ \A i \in 1 .. k : s[i] = rows[i].item
    <2>1. s = [i \in 1 .. k |-> rows[i].item] /\ \A i \in 1 .. k : rows[i].item \in S
      BY <1>1, <1>8 DEF Received
    <2>2. s \in [1 .. k -> S]
      BY <2>1
    <2> QED BY <1>6, <2>1, <2>2
  <1>10. PICK items : items = page.items
    OBVIOUS
  <1>11. items \in Seq(S) /\ Len(items) = size /\ \A i \in 1 .. size : items[i] = rows[k + i].item
    <2>1. \A i \in 1 .. size : k + 1 + i - 1 = k + i /\ k + i \in 1 .. N
      BY <1>3, <1>5, <1>6
    <2>2. \A i \in 1 .. size : items[i] = rows[k + i].item /\ items[i] \in S
      BY <1>7, <1>8, <1>10, <2>1
    <2>3. items = [i \in 1 .. size |-> items[i]]
      BY <1>7, <1>10
    <2>4. items \in [1 .. size -> S]
      BY <2>2, <2>3
    <2> QED BY <1>3, <2>2, <2>4
  <1>12. t \in Seq(S) /\ Chained(s, items, t)
    BY <1>9, <1>10, <1>11, Concatenated
  <1>13. Received(t, rows, n)
    <2>1. DOMAIN t = 1 .. n
      BY <1>5, <1>9, <1>11, <1>12 DEF Chained
    <2>2. ASSUME NEW i \in 1 .. n PROVE t[i] = rows[i].item
      <3>1. i \in 1 .. Len(s) + Len(items)
        BY <1>5, <1>9, <1>11
      <3>2. t[i] = IF i <= Len(s) THEN s[i] ELSE items[i - Len(s)]
        BY <1>12, <3>1 DEF Chained
      <3>3. CASE i <= k
        BY <1>9, <3>2, <3>3
      <3>4. CASE ~(i <= k)
        <4>1. i - k \in 1 .. size /\ k + (i - k) = i
          BY <1>3, <1>5, <1>6, <3>4
        <4>2. t[i] = items[i - k]
          BY <1>9, <3>2, <3>4
        <4>3. items[i - k] = rows[k + (i - k)].item
          BY <1>11, <4>1
        <4> QED BY <4>1, <4>2, <4>3, Zenon
      <3> QED BY <3>3, <3>4
    <2>3. t = [i \in 1 .. n |-> t[i]]
      BY <1>12, <2>1
    <2> QED BY <2>2, <2>3 DEF Received
  <1>14. page.next # Start => /\ n \in 1 .. N - 1
                              /\ page.next = [fingerprint |-> g.fingerprint, digest |-> Digest(q), key |-> rows[n].key, index |-> n]
    <2>1. n < N /\ size > 0 => n \in 1 .. N - 1
      BY <1>3, <1>5, <1>6
    <2> QED BY <1>7, <2>1
  <1>15. page.next = Start /\ ~page.more => n = N
    <2>1. page.next = Start /\ ~page.more => ~(n < N)
      BY <1>7, Zenon
    <2> QED BY <1>5, <2>1
  <1>16. Onto(g, q, rows, n, page, t)
    BY <1>1, <1>13, <1>14, <1>15 DEF Onto
  <1> QED BY <1>1, <1>5, <1>16

-----------------------------------------------------------------------------
\* The cursor of listTasks binds its operation alone: the client keeps to one filter.
TasksAgree == \A p, q \in Lists : p.op = "listTasks" /\ q.op = "listTasks" => Filters(p) = Filters(q)

\* What a cursor stands for.
Following(g, q, c, s, d) ==
    /\ GraphOK(g) /\ Loaded(g) /\ q \in Lists
    /\ c.fingerprint = g.fingerprint /\ c.digest = Digest(q) /\ d = Listing(g, Filters(q))
    /\ InKeyOrder(d) => c.index \in 1 .. Len(d) - 1 /\ c.key = d[c.index].key /\ Received(s, d, c.index)

Ended(s, d, r) == \E n \in 0 .. Len(d) : Received(s, d, n) /\ (r = "done" => n = Len(d))

Served(q, c, s, d, r) ==
    /\ r \in {"more", "done", "cut"} => Rows(d)
    /\ r = "more" => \E g : Following(g, q, c, s, d)
    /\ r \in {"done", "cut"} /\ InKeyOrder(d) => Ended(s, d, r)
ClientServed == Served(query, cursor, seen, due, reply)

\* A cursor is bound to the graph and to the query.
LEMMA NextCursor ==
    ASSUME NEW g, NEW q, NEW rows, NEW from, NEW page, page = PageFrom(g, q, rows, from), page.next # Start
    PROVE  page.next.fingerprint = g.fingerprint /\ page.next.digest = Digest(q)
  <1>1. PICK size : page = PageOf(g, q, rows, from, size)
    BY DEF PageFrom
  <1>2. PICK last : last = from + size - 1
    OBVIOUS
  <1>3. PICK key : key = rows[last].key
    OBVIOUS
  <1>4. PICK digest : digest = Digest(q)
    OBVIOUS
  <1>5. PICK next : next = [fingerprint |-> g.fingerprint, digest |-> digest, key |-> key, index |-> last]
    OBVIOUS
  <1>6. page.next = next \/ page.next = Start
    <2>1. PICK n : n = IF last < Len(rows) /\ size > 0 THEN next ELSE Start
      OBVIOUS
    <2>2. PICK items : items = [i \in 1 .. size |-> rows[from + i - 1].item]
      OBVIOUS
    <2>3. PICK more : more = (last < Len(rows))
      OBVIOUS
    <2>4. page = [items |-> items, more |-> more, next |-> n]
      BY <1>1, <1>2, <1>3, <1>4, <1>5, <2>1, <2>2, <2>3, Zenon DEF PageOf
    <2>5. page.next = n
      BY <2>4
    <2> QED BY <2>1, <2>5
  <1> QED BY <1>4, <1>5, <1>6

\* A page keeps what is known of the client:
LEMMA ServeHolds ==
    ASSUME NEW g, GraphOK(g), Loaded(g), NEW q \in Lists, NEW rows, rows = Listing(g, Filters(q)), NEW c, NEW s,
           InKeyOrder(rows) => \E k \in 0 .. Len(rows) : Received(s, rows, k) /\ Resume(rows, q, c) = k + 1,
           NEW page, page = Page(g, q, c, rows), NEW t, t = Joined(s, page.items),
           NEW r, r = IF page.next # Start THEN "more" ELSE IF page.more THEN "cut" ELSE "done"
    PROVE  Served(q, page.next, t, rows, r)
  <1>1. Filters(q) \in Queries /\ q.limit \in Nat
    BY FiltersTypes
  <1>2. Rows(rows)
    BY <1>1, ListingRows
  <1>3. page = PageFrom(g, q, rows, Resume(rows, q, c))
    BY DEF Page
  <1>4. ASSUME InKeyOrder(rows) PROVE \E n \in 0 .. Len(rows) : Onto(g, q, rows, n, page, t)
    <2>1. PICK k \in 0 .. Len(rows) : Received(s, rows, k) /\ Resume(rows, q, c) = k + 1
      BY <1>4
    <2>2. page = PageFrom(g, q, rows, k + 1)
      BY <1>3, <2>1, Zenon
    <2> QED BY <1>1, <1>2, <2>1, <2>2, PageServed
  <1>5. PICK next : next = page.next
    OBVIOUS
  <1>6. ASSUME r = "more" PROVE Following(g, q, next, t, rows)
    <2>1. next # Start
      BY <1>5, <1>6
    <2>2. next.fingerprint = g.fingerprint /\ next.digest = Digest(q)
      BY <1>3, <1>5, <2>1, NextCursor
    <2>3. ASSUME InKeyOrder(rows)
          PROVE  next.index \in 1 .. Len(rows) - 1 /\ next.key = rows[next.index].key /\ Received(t, rows, next.index)
      <3>1. PICK n \in 0 .. Len(rows) : Onto(g, q, rows, n, page, t)
        BY <1>4, <2>3
      <3>2. /\ Received(t, rows, n) /\ n \in 1 .. Len(rows) - 1
            /\ next = [fingerprint |-> g.fingerprint, digest |-> Digest(q), key |-> rows[n].key, index |-> n]
        BY <1>5, <2>1, <3>1 DEF Onto
      <3>3. next.index = n /\ next.key = rows[n].key
        BY <3>2
      <3> QED BY <3>2, <3>3
    <2> QED BY <2>2, <2>3 DEF Following
  <1>7. ASSUME r \in {"done", "cut"}, InKeyOrder(rows) PROVE Ended(t, rows, r)
    <2>1. PICK n \in 0 .. Len(rows) : Onto(g, q, rows, n, page, t)
      BY <1>4, <1>7
    <2>2. page.next = Start
      BY <1>7
    <2>3. r = "done" => ~page.more
      BY <1>7, <2>2
    <2> QED BY <2>1, <2>2, <2>3 DEF Onto, Ended
  <1>8. (r = "more" => \E h : Following(h, q, next, t, rows)) /\ (r \in {"done", "cut"} /\ InKeyOrder(rows) => Ended(t, rows, r))
    BY <1>6, <1>7
  <1> QED BY <1>2, <1>5, <1>8 DEF Served

\* nothing was received at first,
LEMMA NothingReceived == ASSUME NEW rows, Rows(rows) PROVE Received(<<>>, rows, 0) /\ 0 \in 0 .. Len(rows)
  <1>1. PICK N \in Nat : Len(rows) = N
    BY RowsListed
  <1> QED BY <1>1 DEF Received

\* the filters are those of the cursor,
LEMMA SameFilters ==
    ASSUME TasksAgree, NEW p \in Lists, NEW q \in Lists, p.op = q.op, Digest(p) = Digest(q)
    PROVE  Filters(p) = Filters(q)
  BY DEF TasksAgree, Digest

\* and so does every answer,
LEMMA AnsweredServes ==
    ASSUME Basis, ClientServed, TasksAgree, NEW q \in Lists, NEW c, Answer(q, c),
           c = Start \/ (c = cursor /\ reply = "more" /\ q.op = query.op)
    PROVE  ClientServed'
  <1>1. PICK g : /\ g = Ensured /\ query' = q
                 /\ \/ Refusal(g, q, c) # "none" /\ reply' = Refusal(g, q, c)
                    \/ /\ Refusal(g, q, c) = "none"
                       /\ \E rows \in {Listing(g, Filters(q))} : Serve(c, rows, Page(g, q, c, rows))
    BY DEF Answer
  <1>2. CASE Refusal(g, q, c) # "none"
    <2>1. reply' \in {"UNREADABLE", "NOT_FOUND", "STALE_CURSOR"}
      BY <1>1, <1>2 DEF Refusal
    <2>2. reply' \notin {"more", "done", "cut"}
      BY <2>1
    <2> QED BY <2>2 DEF ClientServed, Served
  <1>3. CASE Refusal(g, q, c) = "none"
    <2>1. PICK rows : rows = Listing(g, Filters(q)) /\ Serve(c, rows, Page(g, q, c, rows))
      BY <1>1, <1>3
    <2>2. PICK page : page = Page(g, q, c, rows)
      OBVIOUS
    <2>3. /\ seen' = (IF c = Start THEN <<>> ELSE seen) \o page.items
          /\ due' = (IF c = Start THEN rows ELSE due)
          /\ cursor' = page.next
          /\ reply' = IF page.next # Start THEN "more" ELSE IF page.more THEN "cut" ELSE "done"
      BY <2>1, <2>2, Zenon DEF Serve
    <2>4. GraphOK(g) /\ Loaded(g) /\ ~Stale(g, q, c)
      <3>1. GraphOK(g)
        BY <1>1, EnsuredOK
      <3>2. g # Unreadable /\ ~Stale(g, q, c)
        BY <1>3 DEF Refusal
      <3>3. g # NoGraph
        <4>1. graph = NoGraph => g = Settle(files)
          BY <1>1 DEF Ensured
        <4>2. graph # NoGraph => g = graph
          BY <1>1 DEF Ensured
        <4>3. Settle(files) = BuildKernelGraph(files) \/ Settle(files) = Unreadable
          BY DEF Settle
        <4>4. BuildKernelGraph(files) # NoGraph
          BY BuiltLoaded DEF Loaded
        <4> QED BY <3>2, <4>1, <4>2, <4>3, <4>4
      <3> QED BY <3>1, <3>2, <3>3 DEF Loaded
    <2>5. Rows(rows)
      BY <2>1, <2>4, FiltersTypes, ListingRows
    <2>6. PICK s : s = IF c = Start THEN <<>> ELSE seen
      OBVIOUS
    <2>7. due' = rows /\ (InKeyOrder(rows) => \E k \in 0 .. Len(rows) : Received(s, rows, k) /\ Resume(rows, q, c) = k + 1)
      <3>1. CASE c = Start
        <4>1. Resume(rows, q, c) = 0 + 1
          BY <3>1 DEF Resume
        <4>2. Received(s, rows, 0) /\ 0 \in 0 .. Len(rows)
          BY <2>5, <2>6, <3>1, NothingReceived
        <4> QED BY <2>3, <3>1, <4>1, <4>2
      <3>2. CASE c # Start
        <4>1. c = cursor /\ reply = "more" /\ q.op = query.op
          BY <3>2
        <4>2. PICK h : Following(h, query, c, seen, due)
          BY <4>1 DEF ClientServed, Served
        <4>3. c.fingerprint = g.fingerprint /\ c.digest = Digest(q)
          BY <2>4, <3>2 DEF Stale
        <4>4. g = h
          <5>1. g = BuildKernelGraph(g.fingerprint)
            BY <2>4, LoadedGraph
          <5>2. h = BuildKernelGraph(h.fingerprint)
            BY <4>2, LoadedGraph DEF Following
          <5>3. h.fingerprint = g.fingerprint
            BY <4>2, <4>3 DEF Following
          <5> QED BY <5>1, <5>2, <5>3, Zenon
        <4>5. Filters(q) = Filters(query)
          <5>1. query \in Lists /\ Digest(query) = Digest(q)
            BY <4>2, <4>3 DEF Following
          <5> QED BY <4>1, <5>1, SameFilters
        <4>6. rows = due
          BY <2>1, <4>2, <4>4, <4>5 DEF Following
        <4>7. ASSUME InKeyOrder(rows)
              PROVE  \E k \in 0 .. Len(rows) : Received(s, rows, k) /\ Resume(rows, q, c) = k + 1
          <5>1. PICK k : k = c.index
            OBVIOUS
          <5>2. k \in 1 .. Len(rows) - 1 /\ c.key = rows[k].key /\ Received(s, rows, k)
            BY <2>6, <3>2, <4>2, <4>6, <4>7, <5>1 DEF Following
          <5>3. Resume(rows, q, c) = k + 1
            BY <2>5, <3>2, <4>7, <5>1, <5>2, ResumeNext
          <5>4. PICK N \in Nat : Len(rows) = N
            BY <2>5, RowsListed
          <5>5. k \in 0 .. Len(rows)
            BY <5>2, <5>4
          <5> QED BY <5>2, <5>3, <5>5
        <4> QED BY <2>3, <3>2, <4>6, <4>7
      <3> QED BY <3>1, <3>2
    <2>8. seen' = Joined(s, page.items)
      BY <2>3, <2>6, Zenon DEF Joined
    <2>9. PICK t : t = seen'
      OBVIOUS
    <2>10. PICK r : r = reply'
      OBVIOUS
    <2>11. Served(q, page.next, t, rows, r)
      <3>1. r = IF page.next # Start THEN "more" ELSE IF page.more THEN "cut" ELSE "done"
        BY <2>3, <2>10
      <3>2. t = Joined(s, page.items)
        BY <2>8, <2>9
      <3> QED BY <2>1, <2>2, <2>4, <2>7, <3>1, <3>2, ServeHolds
    <2>12. Served(query', cursor', seen', due', reply')
      BY <1>1, <2>3, <2>7, <2>9, <2>10, <2>11, Zenon
    <2> QED BY <2>12 DEF ClientServed
  <1> QED BY <1>2, <1>3

\* and whatever happens in between.
LEMMA PausedServes == ASSUME ClientServed, Pause PROVE ClientServed'
  <1>1. CASE reply = "more"
    <2>1. query' = query /\ cursor' = cursor /\ seen' = seen /\ due' = due /\ reply' = reply
      BY <1>1 DEF Pause, client
    <2> QED BY <2>1, Zenon DEF ClientServed
  <1>2. CASE reply # "more"
    <2>1. reply' = "idle"
      BY <1>2 DEF Pause, Forget
    <2> QED BY <2>1 DEF ClientServed, Served
  <1> QED BY <1>1, <1>2

\* Every step keeps it,
LEMMA StepServes == ASSUME TasksAgree PROVE Basis /\ ClientServed /\ [Next]_vars => ClientServed'
  <1> SUFFICES ASSUME Basis, ClientServed, [Next]_vars PROVE ClientServed'
    OBVIOUS
  <1>1. ASSUME NEW q \in Lists, Ask(q) PROVE ClientServed'
    BY <1>1, AnsweredServes DEF Ask
  <1>2. ASSUME NEW q \in Lists, Follow(q) PROVE ClientServed'
    BY <1>2, AnsweredServes DEF Follow, Going
  <1>3. ASSUME NEW d \in Docs, Edit(d) PROVE ClientServed'
    BY <1>3, PausedServes DEF Edit
  <1>4. ASSUME (\E d \in Docs : Patch(d)) \/ \E s \in Specs : Archive(s) \/ CreateSpec(s) \/ DeleteEntity(s)
        PROVE  ClientServed'
    <2>1. PICK after : Apply(after)
      BY <1>4, ChangeIsApplied
    <2> QED BY <2>1, PausedServes DEF Apply
  <1>5. ASSUME Refresh PROVE ClientServed'
    BY <1>5, PausedServes DEF Refresh
  <1>6. ASSUME Leave PROVE ClientServed'
    <2>1. reply' = "idle"
      BY <1>6 DEF Leave, Forget
    <2> QED BY <2>1 DEF ClientServed, Served
  <1>7. ASSUME UNCHANGED vars PROVE ClientServed'
    <2>1. query' = query /\ cursor' = cursor /\ seen' = seen /\ due' = due /\ reply' = reply
      BY <1>7 DEF vars
    <2> QED BY <2>1, Zenon DEF ClientServed
  <1> QED BY <1>1, <1>2, <1>3, <1>4, <1>5, <1>6, <1>7 DEF Next

\* it implies ListedOnce,
LEMMA ServedListed == ASSUME ClientServed PROVE ListedOnce
  <1> SUFFICES ASSUME InKeyOrder(due) PROVE ListedAll
    BY DEF ListedOnce
  <1> SUFFICES ASSUME reply \in {"more", "done", "cut"} PROVE ListedAll
    BY DEF ListedAll
  <1>1. PICK d : d = due
    OBVIOUS
  <1>2. PICK N \in Nat : Len(d) = N /\ DOMAIN d = 1 .. N
    BY <1>1, RowsListed DEF ClientServed, Served
  <1>3. \E n \in 0 .. N : Received(seen, d, n) /\ (reply = "done" => n = N)
    <2>1. CASE reply = "more"
      <3>1. PICK h : Following(h, query, cursor, seen, d)
        BY <1>1, <2>1 DEF ClientServed, Served
      <3>2. PICK n : n = cursor.index
        OBVIOUS
      <3>3. n \in 1 .. N - 1 /\ Received(seen, d, n)
        BY <1>1, <1>2, <3>1, <3>2 DEF Following
      <3>4. n \in 0 .. N
        BY <3>3
      <3> QED BY <2>1, <3>3, <3>4
    <2>2. CASE reply \in {"done", "cut"}
      <3>1. Ended(seen, d, reply)
        BY <1>1, <2>2 DEF ClientServed, Served
      <3> QED BY <1>2, <3>1 DEF Ended
    <2> QED BY <2>1, <2>2
  <1>4. PICK n \in 0 .. N : Received(seen, d, n) /\ (reply = "done" => n = N)
    BY <1>3
  <1>5. PICK items : items = [i \in DOMAIN d |-> d[i].item]
    OBVIOUS
  <1>6. PICK S : S = {d[i].item : i \in 1 .. N}
    OBVIOUS
  <1>7. items \in Seq(S) /\ Len(items) = N /\ \A i \in 1 .. N : items[i] = d[i].item
    <2>1. items = [i \in 1 .. N |-> d[i].item]
      BY <1>2, <1>5
    <2>2. items \in [1 .. N -> S]
      BY <1>6, <2>1
    <2> QED BY <2>1, <2>2
  <1>8. seen = [i \in 1 .. n |-> d[i].item] /\ n \in Nat /\ n <= N
    BY <1>4 DEF Received
  <1>9. seen \in Seq(S) /\ Len(seen) = n /\ \A i \in 1 .. n : seen[i] = d[i].item
    <2>1. seen \in [1 .. n -> S]
      BY <1>6, <1>8
    <2> QED BY <1>8, <2>1
  <1>10. reply = "done" => seen = items
    BY <1>2, <1>4, <1>5, <1>8
  <1>11. IsPrefix(seen, items)
    <2>1. PICK a : a = SubSeq(seen, 1, n)
      OBVIOUS
    <2>2. PICK b : b = SubSeq(items, 1, n)
      OBVIOUS
    <2>3. 1 \in Nat /\ 1 >= 1 /\ n <= Len(seen) /\ n <= Len(items) /\ 1 <= n + 1 /\ n - 1 + 1 = n
      BY <1>7, <1>8, <1>9
    <2>4. a \in Seq(S) /\ Len(a) = n /\ \A i \in 1 .. n : a[i] = seen[1 + i - 1]
      <3>1. a \in Seq(S) /\ Len(a) = n - 1 + 1 /\ \A i \in 1 .. n - 1 + 1 : a[i] = seen[1 + i - 1]
        BY <1>8, <1>9, <2>1, <2>3, SubSequence
      <3> QED BY <2>3, <3>1
    <2>5. b \in Seq(S) /\ Len(b) = n /\ \A i \in 1 .. n : b[i] = items[1 + i - 1]
      <3>1. b \in Seq(S) /\ Len(b) = n - 1 + 1 /\ \A i \in 1 .. n - 1 + 1 : b[i] = items[1 + i - 1]
        BY <1>7, <1>8, <2>2, <2>3, SubSequence
      <3> QED BY <2>3, <3>1
    <2>6. \A i \in 1 .. n : 1 + i - 1 = i /\ i \in 1 .. N
      BY <1>8
    <2>7. \A i \in 1 .. n : a[i] = b[i]
      BY <1>7, <1>9, <2>4, <2>5, <2>6
    <2>8. a = b
      BY <1>8, <2>4, <2>5, <2>7
    <2> QED BY <1>7, <1>8, <1>9, <2>1, <2>2, <2>8 DEF IsPrefix
  <1> QED BY <1>1, <1>5, <1>10, <1>11 DEF ListedAll

\* and it holds at first.
LEMMA InitialServed == Init => ClientServed
  BY DEF Init, ClientServed, Served

\* A client that follows the cursors of an ordered list receives its items one after
\* the other, none twice and none left out, up to the last, whatever changes in
\* between (paginate); the cursor of listTasks is given back with the filter it came
\* from.
THEOREM ListsAreWhole == ASSUME TasksAgree PROVE Spec => []ListedOnce
  <1>1. Init => Basis /\ ClientServed
    BY InitialOK, InitialServed
  <1>2. Basis /\ ClientServed /\ [Next]_vars => (Basis /\ ClientServed)'
    BY StepOK, StepServes
  <1>3. Basis /\ ClientServed => ListedOnce
    BY ServedListed
  <1> QED BY <1>1, <1>2, <1>3, PTL DEF Spec
=============================================================================
