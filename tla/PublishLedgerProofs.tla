------------------------- MODULE PublishLedgerProofs -------------------------
(***************************************************************************)
(* What publication keeps for any trees, versions, processes, commits,     *)
(* errors and crashes: its types, that a row is genuine and, as long as    *)
(* nobody removes tags, that rows, tags, answers and mirrors agree; and as *)
(* long as nobody else makes tags, that a heal restores what is recorded.  *)
(***************************************************************************)
EXTENDS PublishLedger, TLAPS

\* The commits reachable from a commit are commits, itself included.
HistoryOK == \A c \in 1..pushed : past[c] \subseteq 1..pushed /\ c \in past[c]

\* A running publication, or one that was answered as published, has a head with an
\* ACTIVE tree of a version that can be published.
HeadOK(s) == job[s].pc # "idle" \/ job[s].outcome \in Published =>
    /\ job[s].head \in 1..pushed
    /\ tree[job[s].head] \in Active
    /\ VersionOf[tree[job[s].head]] \in Versions

TypeInv == TypeOK /\ HistoryOK /\ \A s \in Servers : HeadOK(s)

\* Commits stay as they were made.
CommitsKept == /\ pushed <= pushed'
               /\ \A c \in 1..pushed : tree'[c] = tree[c] /\ past'[c] = past[c]

-----------------------------------------------------------------------------
(* Types: commits and the mirror. *)

LEMMA InitTyped == Init => TypeInv
<1> SUFFICES ASSUME Init PROVE TypeInv OBVIOUS
<1> USE BoundsAssumption DEF Init, NoCommit, Commits
<1>1. RepositoryType
  <2>1. pushed \in 0..MaxCommits /\ (1..pushed) = {} OBVIOUS
  <2>2. tree \in [Commits -> Trees \cup {NoTree}] /\ past \in [Commits -> SUBSET Commits] OBVIOUS
  <2> QED BY <2>1, <2>2 DEF RepositoryType
<1>0. RemoteType /\ MirrorType
  <2>1. pushed = 0 /\ 0 \in 0..pushed OBVIOUS
  <2>2. remoteTag \in [Versions -> 0..pushed] /\ localTag \in [Versions -> 0..pushed] BY <2>1
  <2>3. remoteTip \in 0..pushed /\ mirrorTip \in 0..pushed BY <2>1
  <2>4. mirrored \in BOOLEAN /\ objects = {} OBVIOUS
  <2> QED BY <2>2, <2>3, <2>4 DEF RemoteType, MirrorType
<1>2. NoRow \in Rows BY DEF Rows
<1>3. ledger \in [Versions -> Rows] BY <1>2
<1>4. Idle("none", NoCommit) \in Jobs BY <1>2 DEF Idle, Jobs, Steps, Outcomes
<1>5. job \in [Servers -> Jobs] BY <1>4
<1>6. ServiceType /\ BoundsType BY DEF ServiceType, BoundsType, Writers, NoWriter
<1>7. HistoryOK BY DEF HistoryOK
<1>8. \A s \in Servers : HeadOK(s) BY DEF HeadOK, Idle, Published
<1> QED BY <1>0, <1>1, <1>3, <1>5, <1>6, <1>7, <1>8 DEF TypeInv, TypeOK

\* A push makes the next commit and leaves the earlier ones alone.
LEMMA PushTyped ==
    ASSUME TypeInv, NEW t \in Trees, NEW h \in SUBSET (1..pushed), Push(t, h)
    PROVE  RepositoryType' /\ RemoteType' /\ HistoryOK' /\ CommitsKept
<1> USE BoundsAssumption DEF Commits, NoCommit
<1>0. RepositoryType /\ RemoteType /\ HistoryOK BY DEF TypeInv, TypeOK
<1>1. pushed \in Nat /\ pushed' = pushed + 1 /\ pushed' \in 1..MaxCommits
  BY <1>0 DEF RepositoryType, Push
<1>2. /\ tree' \in [Commits -> Trees \cup {NoTree}]
      /\ \A c \in 1..pushed : tree'[c] = tree[c]
      /\ tree'[pushed'] = t
  BY <1>0, <1>1 DEF RepositoryType, Push
<1>3. /\ past' \in [Commits -> SUBSET Commits]
      /\ \A c \in 1..pushed : past'[c] = past[c]
      /\ past'[pushed'] = h \cup {pushed'}
  BY <1>0, <1>1 DEF RepositoryType, Push
<1>4. CommitsKept BY <1>1, <1>2, <1>3 DEF CommitsKept
<1>5. \A c \in 1..pushed' : c \in 1..pushed \/ c = pushed' BY <1>1
<1>6. RepositoryType' BY <1>0, <1>1, <1>2, <1>3, <1>5 DEF RepositoryType
<1>7. HistoryOK' BY <1>0, <1>1, <1>3, <1>5 DEF HistoryOK
<1>8. RemoteType' BY <1>0, <1>1 DEF RemoteType, Push
<1> QED BY <1>4, <1>6, <1>7, <1>8

\* A fetch brings commits, and never loses an object or moves a tag.
LEMMA FetchTyped ==
    ASSUME MirrorType, RemoteType, pushed \in Nat, pushed' \in Nat, pushed <= pushed',
           RemoteType', HistoryOK', FetchMirror
    PROVE  /\ MirrorType'
           /\ objects \subseteq objects'
           /\ mirrorTip' # NoCommit => mirrorTip' \in objects'
           /\ \A v \in Versions : localTag[v] # NoCommit => localTag'[v] = localTag[v]
           /\ mirrored'
           /\ ~mirrored => \A v \in Versions : remoteTag[v] # NoCommit => remoteTag[v] \in objects'
<1> USE DEF NoCommit
<1>1. \A c \in 0..pushed' : History(c) \subseteq 1..pushed' /\ (c # 0 => c \in History(c))
  BY DEF History, HistoryOK
<1>2. mirrorTip' = remoteTip' /\ mirrorTip' \in 0..pushed' /\ mirrored' = TRUE
  BY DEF FetchMirror, RemoteType
<1>3. objects \subseteq objects' /\ (mirrorTip' # 0 => mirrorTip' \in objects')
  BY <1>1, <1>2 DEF FetchMirror
<1>4. objects' \subseteq 1..pushed'
  <2>1. objects \subseteq 1..pushed' BY DEF MirrorType
  <2>2. History(remoteTip') \subseteq 1..pushed' BY <1>1, <1>2
  <2>3. \A v \in Versions : History(remoteTag[v]) \subseteq 1..pushed' BY <1>1 DEF RemoteType
  <2>4. UNION {History(remoteTag[v]) : v \in Versions} \subseteq 1..pushed' BY <2>3
  <2> QED BY <2>1, <2>2, <2>4 DEF FetchMirror
<1>5. /\ localTag' \in [Versions -> 0..pushed']
      /\ \A v \in Versions : localTag[v] # 0 => localTag'[v] = localTag[v]
  BY DEF FetchMirror, MirrorType, RemoteType
<1>6. ~mirrored => \A v \in Versions : remoteTag[v] # 0 => remoteTag[v] \in objects'
  BY <1>1 DEF FetchMirror, RemoteType
<1> QED BY <1>2, <1>3, <1>4, <1>5, <1>6 DEF MirrorType

\* What names a commit still names one when there are more of them.
LEMMA MoreCommits ==
    ASSUME pushed \in Nat, pushed' \in Nat, pushed <= pushed'
    PROVE  /\ 0..pushed \subseteq 0..pushed' /\ 1..pushed \subseteq 1..pushed'
           /\ Jobs \subseteq Jobs' /\ Writers \subseteq Writers'
BY DEF Jobs, Writers

\* A mirror that cannot be refreshed stays as it is.
LEMMA RefreshTyped ==
    ASSUME TypeInv, UNCHANGED <<repository, remote>>, RefreshMirror
    PROVE  /\ MirrorType' /\ errors' \in 0..MaxErrors
           /\ objects \subseteq objects'
           /\ \A v \in Versions : localTag[v] # NoCommit => localTag'[v] = localTag[v]
           /\ (mirrorTip # NoCommit => mirrorTip \in objects)
                 => (mirrorTip' # NoCommit => mirrorTip' \in objects')
           /\ mirrored'
           /\ ~mirrored => \A v \in Versions : remoteTag[v] # NoCommit => remoteTag[v] \in objects'
<1>1. pushed \in Nat /\ pushed' = pushed BY DEF TypeInv, TypeOK, RepositoryType, repository
<1>2. MirrorType /\ RemoteType /\ RemoteType' /\ HistoryOK'
  BY DEF TypeInv, TypeOK, repository, remote, RemoteType, HistoryOK
<1>3. errors \in 0..MaxErrors BY DEF TypeInv, TypeOK, BoundsType
<1>4. CASE FetchMirror /\ UNCHANGED errors
  BY <1>1, <1>2, <1>3, <1>4, FetchTyped
<1>5. CASE mirrored /\ Fails /\ UNCHANGED mirror
  BY <1>1, <1>2, <1>3, <1>5, BoundsAssumption DEF Fails, mirror, MirrorType
<1> QED BY <1>4, <1>5 DEF RefreshMirror

-----------------------------------------------------------------------------
(* Types: the publication. *)

\* A publication step changes one job, keeps its head, and answers only what ran.
JobMoves(s) ==
    /\ job' \in [Servers -> Jobs]
    /\ \A q \in Servers \ {s} : job'[q] = job[q]
    /\ job'[s].head = job[s].head
    /\ job[s].pc # "idle" \/ (job'[s].pc = "idle" /\ job'[s].outcome = "error")

LEMMA GotoMoves ==
    ASSUME TypeInv, NEW s \in Servers, job[s].pc # "idle", NEW step \in Steps,
           \/ Goto(s, step)
           \/ \E row \in Rows : job' = [job EXCEPT ![s].pc = step, ![s].row = row]
           \/ \E c \in 0..pushed : job' = [job EXCEPT ![s].pc = step, ![s].seen = c]
    PROVE  JobMoves(s)
<1>1. job \in [Servers -> Jobs] /\ job[s] \in Jobs BY DEF TypeInv, TypeOK
<1>2. \E j \in Jobs : j.head = job[s].head /\ job' = [job EXCEPT ![s] = j]
  <2>1. CASE Goto(s, step)
    <3>1. [job[s] EXCEPT !.pc = step] \in Jobs BY <1>1 DEF Jobs
    <3> QED BY <1>1, <2>1, <3>1 DEF Goto, Jobs
  <2>2. ASSUME NEW row \in Rows, job' = [job EXCEPT ![s].pc = step, ![s].row = row]
        PROVE  \E j \in Jobs : j.head = job[s].head /\ job' = [job EXCEPT ![s] = j]
    <3>1. [job[s] EXCEPT !.pc = step, !.row = row] \in Jobs BY <1>1 DEF Jobs
    <3> QED BY <1>1, <2>2, <3>1 DEF Jobs
  <2>3. ASSUME NEW c \in 0..pushed, job' = [job EXCEPT ![s].pc = step, ![s].seen = c]
        PROVE  \E j \in Jobs : j.head = job[s].head /\ job' = [job EXCEPT ![s] = j]
    <3>1. [job[s] EXCEPT !.pc = step, !.seen = c] \in Jobs BY <1>1 DEF Jobs
    <3> QED BY <1>1, <2>3, <3>1 DEF Jobs
  <2> QED BY <2>1, <2>2, <2>3
<1>3. PICK j \in Jobs : j.head = job[s].head /\ job' = [job EXCEPT ![s] = j] BY <1>2
<1> QED BY <1>1, <1>3 DEF JobMoves

LEMMA AnswerTyped ==
    ASSUME TypeInv, NEW o \in Outcomes, NEW h \in 0..pushed PROVE Idle(o, h) \in Jobs
BY DEF TypeInv, TypeOK, RepositoryType, Idle, Jobs, Steps, Rows, NoCommit

LEMMA AnswerMoves ==
    ASSUME TypeInv, NEW s \in Servers, NEW o \in Outcomes,
           job[s].pc # "idle" \/ o = "error", Answer(s, o)
    PROVE  JobMoves(s)
<1>1. job \in [Servers -> Jobs] /\ job[s].head \in 0..pushed BY DEF TypeInv, TypeOK, Jobs
<1>2. Idle(o, job[s].head) \in Jobs BY <1>1, AnswerTyped
<1>3. job' = [job EXCEPT ![s] = Idle(o, job[s].head)] BY DEF Answer
<1>4. job'[s] = Idle(o, job[s].head) BY <1>1, <1>3
<1>5. job' \in [Servers -> Jobs] /\ \A q \in Servers \ {s} : job'[q] = job[q]
  BY <1>1, <1>2, <1>3
<1> QED BY <1>4, <1>5 DEF JobMoves, Idle

\* What a running publication works on.
LEMMA RunningHead ==
    ASSUME TypeInv, NEW s \in Servers, job[s].pc # "idle"
    PROVE  /\ Version(s) \in Versions /\ job[s].head \in 1..pushed /\ pushed \in Nat
           /\ tree[job[s].head] \in Active \cap Trees /\ 1..pushed \subseteq Commits
BY BoundsAssumption, TreesAssumption
   DEF TypeInv, TypeOK, RepositoryType, HeadOK, Version, Commits

\* What a publication step leaves alone, and the types of what it may change.
PublishTypes ==
    /\ UNCHANGED <<repository, remoteTip, mirrored, mirrorTip, objects>>
    /\ UNCHANGED <<cached, sync, writer, crashes>>
    /\ remoteTag' \in [Versions -> 0..pushed] /\ localTag' \in [Versions -> 0..pushed]
    /\ ledger' \in [Versions -> Rows]
    /\ owed' \in [Servers -> BOOLEAN] /\ errors' \in 0..MaxErrors

LEMMA LocalTypes ==
    ASSUME TypeInv, UNCHANGED <<ledger, mirror, errors>>, Local PROVE PublishTypes
BY DEF TypeInv, TypeOK, RemoteType, MirrorType, ServiceType, BoundsType, PublishTypes, Local,
       remote, mirror

LEMMA TagTypes ==
    ASSUME TypeInv, NEW v \in Versions, NEW c \in 0..pushed,
           SetLocalTag(v, c) \/ UNCHANGED localTag,
           UNCHANGED <<ledger, mirrored, mirrorTip, objects, errors>>, Local
    PROVE  PublishTypes
BY DEF TypeInv, TypeOK, RemoteType, MirrorType, ServiceType, BoundsType, PublishTypes, Local,
       remote, SetLocalTag

LEMMA PushTypes ==
    ASSUME TypeInv, NEW v \in Versions,
           \/ TagPushed(v) /\ UNCHANGED errors
           \/ PushThrows(v),
           PushFrame
    PROVE  PublishTypes
<1>1. localTag \in [Versions -> 0..pushed] /\ remoteTag \in [Versions -> 0..pushed]
  BY DEF TypeInv, TypeOK, RemoteType, MirrorType
<1>2. remoteTag' \in [Versions -> 0..pushed]
  BY <1>1 DEF TagPushed, PushThrows, TagRefused
<1>3. errors' \in 0..MaxErrors
  BY BoundsAssumption DEF TypeInv, TypeOK, BoundsType, PushThrows, Fails
<1> QED
  BY <1>1, <1>2, <1>3 DEF TypeInv, TypeOK, ServiceType, PublishTypes, PushFrame, mirror

LEMMA InsertTypes ==
    ASSUME TypeInv, NEW v \in Versions, NEW c \in 1..pushed,
           Insert(v, [digest |-> tree[c], commit |-> c]) \/ UNCHANGED ledger,
           UNCHANGED <<mirror, errors>>, Local
    PROVE  PublishTypes
<1>1. pushed \in 0..MaxCommits /\ tree[c] \in Trees /\ ledger \in [Versions -> Rows]
  BY DEF TypeInv, TypeOK, RepositoryType
<1>2. [digest |-> tree[c], commit |-> c] \in Rows BY <1>1, BoundsAssumption DEF Rows, Commits
<1>3. ledger' \in [Versions -> Rows] BY <1>1, <1>2 DEF Insert
<1> QED
  BY <1>3 DEF TypeInv, TypeOK, RemoteType, MirrorType, ServiceType, BoundsType, PublishTypes, Local,
              remote, mirror

LEMMA PublishStepTypes ==
    ASSUME TypeInv, NEW s \in Servers, PublishStep(s) PROVE PublishTypes /\ JobMoves(s)
<1> USE DEF Running
<1>0. /\ \A v \in Versions : ledger[v] \in Rows /\ remoteTag[v] \in 0..pushed
      /\ objects \subseteq 1..pushed
  BY DEF TypeInv, TypeOK, RemoteType, MirrorType
<1>1. CASE ReadLedger(s)
  <2>1. job[s].pc # "idle" BY <1>1 DEF ReadLedger
  <2>2. Version(s) \in Versions BY <2>1, RunningHead
  <2>3. PublishTypes BY <1>1, LocalTypes DEF ReadLedger
  <2>4. CASE Goto(s, "remote") BY <2>1, <2>3, <2>4, GotoMoves DEF Steps
  <2>5. CASE Answer(s, "exists") BY <2>1, <2>3, <2>5, AnswerMoves DEF Outcomes
  <2>6. CASE job' = [job EXCEPT ![s].pc = "rowRemote", ![s].row = ledger[Version(s)]]
    BY <1>0, <2>1, <2>2, <2>3, <2>6, GotoMoves DEF Steps
  <2> QED BY <1>1, <2>3, <2>4, <2>5, <2>6 DEF ReadLedger
<1>2. CASE CheckRowTag(s) \/ CheckRowLocal(s) \/ HealJudge(s) \/ CheckLocal(s) \/ JudgePush(s)
  <2> USE DEF CheckRowTag, CheckRowLocal, HealJudge, CheckLocal, JudgePush
  <2>1. job[s].pc # "idle" BY <1>2
  <2>2. PublishTypes BY <1>2, LocalTypes
  <2>3. \/ \E step \in Steps : Goto(s, step)
        \/ \E o \in Outcomes : Answer(s, o)
    BY <1>2 DEF Steps, Outcomes, Published
  <2> QED BY <2>1, <2>2, <2>3, GotoMoves, AnswerMoves
<1>3. CASE TagRow(s) \/ TagHead(s)
  <2>1. job[s].pc # "idle" BY <1>3 DEF TagRow, TagHead
  <2>2. Version(s) \in Versions /\ job[s].head \in 0..pushed BY <2>1, RunningHead
  <2>3. PublishTypes
    <3>1. CASE TagHead(s) BY <2>2, <3>1, TagTypes DEF TagHead
    <3>2. CASE TagRow(s)
      <4>1. CASE job[s].row.commit \in 0..pushed BY <2>2, <3>2, <4>1, TagTypes DEF TagRow
      <4>2. CASE job[s].row.commit \notin 0..pushed
        <5>2. 1..pushed \subseteq 0..pushed OBVIOUS
        <5>0. job[s].row.commit \notin objects BY <1>0, <4>2, <5>2
        <5>1. UNCHANGED localTag BY <3>2, <5>0 DEF TagRow, CanTag
        <5> QED BY <2>2, <3>2, <5>1, TagTypes DEF TagRow
      <4> QED BY <4>1, <4>2
    <3> QED BY <1>3, <3>1, <3>2
  <2>4. CASE Goto(s, "push") \/ Goto(s, "healPush") BY <2>1, <2>3, <2>4, GotoMoves DEF Steps
  <2>5. CASE Answer(s, "error") BY <2>3, <2>5, AnswerMoves DEF Outcomes
  <2> QED BY <1>3, <2>3, <2>4, <2>5 DEF TagRow, TagHead
<1>4. CASE HealPush(s) \/ PushTag(s)
  <2> USE DEF HealPush, PushTag
  <2>1. job[s].pc # "idle" BY <1>4
  <2>2. Version(s) \in Versions BY <2>1, RunningHead
  <2>3. PublishTypes BY <1>4, <2>2, PushTypes
  <2>4. \/ \E step \in Steps : Goto(s, step)
        \/ \E o \in Outcomes : Answer(s, o)
    BY <1>4 DEF Steps, Outcomes, Published
  <2> QED BY <2>1, <2>3, <2>4, GotoMoves, AnswerMoves
<1>5. CASE CheckRemote(s)
  <2>1. job[s].pc # "idle" BY <1>5 DEF CheckRemote
  <2>2. PublishTypes BY <1>5, LocalTypes DEF CheckRemote
  <2>3. \E step \in Steps, c \in 0..pushed :
            job' = [job EXCEPT ![s].pc = step, ![s].seen = c]
    BY <1>0, <1>5, <2>1, RunningHead DEF CheckRemote, Steps
  <2> QED BY <2>1, <2>2, <2>3, GotoMoves
<1>6. CASE Record(s)
  <2>1. job[s].pc # "idle" BY <1>6 DEF Record
  <2>2. Version(s) \in Versions /\ job[s].head \in 1..pushed BY <2>1, RunningHead
  <2>3. PublishTypes BY <1>6, <2>2, InsertTypes DEF Record
  <2>4. \E o \in Outcomes : Answer(s, o) BY <1>6 DEF Record, Outcomes, Published
  <2> QED BY <2>1, <2>3, <2>4, AnswerMoves
<1>7. CASE Adopt(s)
  <2>1. job[s].pc # "idle" BY <1>7 DEF Adopt
  <2>2. Version(s) \in Versions /\ job[s].head \in 1..pushed BY <2>1, RunningHead
  <2>3. PublishTypes
    <3>1. CASE job[s].seen \in objects BY <1>0, <1>7, <2>2, <3>1, InsertTypes DEF Adopt
    <3>2. CASE job[s].seen \notin objects BY <1>7, <3>2, <2>2, InsertTypes DEF Adopt
    <3> QED BY <3>1, <3>2
  <2>4. \E o \in Outcomes : Answer(s, o) BY <1>7 DEF Adopt, Outcomes, Published
  <2> QED BY <2>1, <2>3, <2>4, AnswerMoves
<1>8. CASE Throw(s)
  <2>1. errors' \in 0..MaxErrors
    BY <1>8, BoundsAssumption DEF Throw, Fails, TypeInv, TypeOK, BoundsType
  <2>2. owed' \in [Servers -> BOOLEAN] BY <1>8 DEF Throw, TypeInv, TypeOK, ServiceType
  <2>3. PublishTypes
    BY <1>8, <2>1, <2>2 DEF Throw, PublishTypes, TypeInv, TypeOK, RemoteType, MirrorType,
                            remote, mirror
  <2>4. JobMoves(s) BY <1>8, AnswerMoves DEF Throw, Outcomes
  <2> QED BY <2>3, <2>4
<1> QED BY <1>1, <1>2, <1>3, <1>4, <1>5, <1>6, <1>7, <1>8 DEF PublishStep

\* A head is kept as long as its job and its commit are.
LEMMA HeadsKept ==
    ASSUME CommitsKept, NEW s \in Servers, HeadOK(s), pushed \in Nat, pushed' \in Nat,
           job'[s].head = job[s].head,
           \/ job'[s] = job[s]
           \/ job[s].pc # "idle"
           \/ job'[s].pc = "idle" /\ job'[s].outcome \notin Published
    PROVE  HeadOK(s)'
BY DEF CommitsKept, HeadOK

LEMMA PublishTyped ==
    ASSUME TypeInv, NEW s \in Servers, PublishStep(s) PROVE TypeInv'
<1>1. PublishTypes /\ JobMoves(s) BY PublishStepTypes
<1>2. pushed \in Nat /\ UNCHANGED repository
  BY <1>1 DEF TypeInv, TypeOK, RepositoryType, PublishTypes
<1>3. CommitsKept BY <1>2 DEF CommitsKept, repository
<1>4. \A q \in Servers : HeadOK(q)'
  BY <1>1, <1>2, <1>3, HeadsKept DEF JobMoves, TypeInv, repository, Published
<1>5. RepositoryType' /\ HistoryOK'
  BY <1>2 DEF TypeInv, TypeOK, RepositoryType, HistoryOK, repository
<1>6. RemoteType' /\ MirrorType' /\ ledger' \in [Versions -> Rows]
  BY <1>1, <1>2 DEF PublishTypes, TypeInv, TypeOK, RemoteType, MirrorType, repository
<1>7. job' \in [Servers -> Jobs'] BY <1>1, <1>2 DEF JobMoves, Jobs, repository
<1>8. ServiceType' /\ BoundsType'
  BY <1>1, <1>2 DEF PublishTypes, TypeInv, TypeOK, ServiceType, BoundsType, Writers, repository
<1> QED BY <1>4, <1>5, <1>6, <1>7, <1>8 DEF TypeInv, TypeOK

-----------------------------------------------------------------------------
(* Types: the rest of the service, and outsiders. *)

\* A begun publication has just read its head from the mirror.
LEMMA BeginTyped == ASSUME TypeInv, NEW s \in Servers, Begin(s) PROVE TypeInv'
<1>1. UNCHANGED <<repository, remote>> /\ RefreshMirror BY DEF Begin
<1>2. MirrorType' /\ errors' \in 0..MaxErrors BY <1>1, RefreshTyped
<1>3. pushed \in Nat /\ pushed' = pushed /\ tree' = tree /\ past' = past
  BY <1>1 DEF TypeInv, TypeOK, RepositoryType, repository
<1>4. PICK h \in 0..pushed : h = mirrorTip' BY <1>2, <1>3 DEF MirrorType
<1>5. \E j \in Jobs : /\ job' = [job EXCEPT ![s] = j]
                      /\ j.head = h
                      /\ j.outcome \notin Published
                      /\ j.pc = "idle" \/ (/\ h # NoCommit
                                           /\ tree[h] \in Active
                                           /\ VersionOf[tree[h]] \in Versions)
  <2>1. Idle("skipped", h) \in Jobs /\ Idle("invalid", h) \in Jobs /\ Idle("none", h) \in Jobs
    BY AnswerTyped DEF Outcomes
  <2>2. [Idle("none", h) EXCEPT !.pc = "ledger"] \in Jobs BY <2>1 DEF Jobs, Steps
  <2>3. CASE h = NoCommit \/ (h # NoCommit /\ tree[h] \notin Active)
    BY <1>4, <2>1, <2>3 DEF Begin, Idle, Published
  <2>4. CASE ~(h = NoCommit \/ (h # NoCommit /\ tree[h] \notin Active))
             /\ VersionOf[tree[h]] \notin Versions
    BY <1>4, <2>1, <2>4 DEF Begin, Idle, Published
  <2>5. CASE ~(h = NoCommit \/ (h # NoCommit /\ tree[h] \notin Active))
             /\ VersionOf[tree[h]] \in Versions
    BY <1>4, <2>2, <2>5 DEF Begin, Idle, Published
  <2> QED BY <2>3, <2>4, <2>5
<1>6. PICK j \in Jobs : /\ job' = [job EXCEPT ![s] = j]
                        /\ j.head = h
                        /\ j.outcome \notin Published
                        /\ j.pc = "idle" \/ (/\ h # NoCommit
                                             /\ tree[h] \in Active
                                             /\ VersionOf[tree[h]] \in Versions)
  BY <1>5
<1>7. job' \in [Servers -> Jobs'] /\ job'[s] = j /\ \A q \in Servers \ {s} : job'[q] = job[q]
  <2>1. Jobs' = Jobs BY <1>3 DEF Jobs
  <2>2. job \in [Servers -> Jobs] BY DEF TypeInv, TypeOK
  <2>3. job' = [job EXCEPT ![s] = j] BY <1>6
  <2> QED BY <2>1, <2>2, <2>3
<1>8. \A q \in Servers : HeadOK(q)'
  <2>1. HeadOK(s)' BY <1>3, <1>6, <1>7 DEF HeadOK, NoCommit
  <2>2. ASSUME NEW q \in Servers \ {s} PROVE HeadOK(q)'
    BY <1>3, <1>7, <2>2 DEF HeadOK, TypeInv
  <2> QED BY <2>1, <2>2
<1>9. RepositoryType' /\ HistoryOK' /\ RemoteType'
  BY <1>1, <1>3 DEF TypeInv, TypeOK, RepositoryType, HistoryOK, RemoteType, remote
<1>10. ledger' \in [Versions -> Rows] /\ ServiceType' /\ BoundsType'
  BY <1>2, <1>3 DEF Begin, TypeInv, TypeOK, ServiceType, Writers, BoundsType
<1> QED BY <1>2, <1>7, <1>8, <1>9, <1>10 DEF TypeInv, TypeOK

\* A step that makes no commit and leaves ledger and jobs alone.
QuietTypes ==
    /\ UNCHANGED <<repository, ledger, job>>
    /\ RemoteType' /\ MirrorType' /\ ServiceType' /\ BoundsType'

LEMMA QuietTyped == ASSUME TypeInv, QuietTypes PROVE TypeInv'
<1>1. UNCHANGED <<pushed, tree, past, ledger, job>> BY DEF QuietTypes, repository
<1>2. RepositoryType' /\ HistoryOK' /\ job' \in [Servers -> Jobs']
  BY <1>1 DEF TypeInv, TypeOK, RepositoryType, HistoryOK, Jobs
<1>3. \A s \in Servers : HeadOK(s)' BY <1>1 DEF TypeInv, HeadOK
<1> QED BY <1>1, <1>2, <1>3 DEF TypeInv, TypeOK, QuietTypes

\* Reading, synchronising and deleting.
LEMMA ServiceTyped ==
    ASSUME TypeInv, NEW s \in Servers,
           Read(s) \/ SyncFetch(s) \/ SyncRebuild(s) \/ WriteDone(s) \/ Deletion(s)
    PROVE  TypeInv'
<1>0. /\ pushed \in Nat /\ RemoteType /\ MirrorType /\ ServiceType /\ BoundsType /\ HistoryOK
  BY DEF TypeInv, TypeOK, RepositoryType
<1>1. CASE Read(s) \/ SyncFetch(s)
  <2>1. MirrorType' /\ errors' \in 0..MaxErrors BY <1>1, RefreshTyped DEF Read, SyncFetch
  <2>2. UNCHANGED <<pushed, remoteTip, remoteTag, crashes>> /\ UNCHANGED <<repository, ledger, job>>
    BY <1>1 DEF Read, SyncFetch, repository, remote
  <2>3. RemoteType' /\ BoundsType' BY <1>0, <2>1, <2>2 DEF RemoteType, BoundsType
  <2>4. ServiceType' BY <1>0, <1>1, <2>1, <2>2 DEF Read, SyncFetch, ServiceType, MirrorType, Writers
  <2> QED BY <2>1, <2>2, <2>3, <2>4, QuietTyped DEF QuietTypes
<1>2. CASE SyncRebuild(s) \/ WriteDone(s)
  <2>1. UNCHANGED <<repository, ledger, job>> /\ RemoteType' /\ MirrorType' /\ BoundsType'
    BY <1>0, <1>2 DEF SyncRebuild, WriteDone, repository, remote, mirror, bounds, RemoteType,
                      MirrorType, BoundsType
  <2>2. CASE SyncRebuild(s)
    <3>1. (owed[s] \/ cached[s] # mirrorTip) \in BOOLEAN OBVIOUS
    <3>2. owed' \in [Servers -> BOOLEAN] BY <1>0, <2>2, <3>1 DEF SyncRebuild, ServiceType
    <3>3. cached' \in [Servers -> 0..pushed] BY <1>0, <2>2 DEF SyncRebuild, ServiceType, MirrorType
    <3>4. ServiceType'
      BY <1>0, <2>2, <3>2, <3>3 DEF SyncRebuild, ServiceType, Writers, repository
    <3> QED BY <2>1, <3>4, QuietTyped DEF QuietTypes
  <2>3. CASE WriteDone(s)
    <3>1. NoWriter \in Writers BY <1>0 DEF NoWriter, NoCommit, Writers
    <3>2. writer' \in [Servers -> Writers] BY <1>0, <2>3, <3>1 DEF WriteDone, ServiceType, SetWriter
    <3>3. ServiceType' BY <1>0, <2>3, <3>2 DEF WriteDone, ServiceType, Writers, repository
    <3> QED BY <2>1, <3>3, QuietTyped DEF QuietTypes
  <2> QED BY <1>2, <2>2, <2>3
<1>3. CASE DeleteBegin(s) \/ DeleteBranch(s)
  <2>1. UNCHANGED <<repository, ledger, job, remoteTag, bounds>> /\ pushed' = pushed
        /\ remoteTip' \in 0..pushed /\ FetchMirror
    BY <1>0, <1>3 DEF DeleteBegin, DeleteBranch, repository, remote, RemoteType, NoCommit
  <2>2. RemoteType' /\ HistoryOK' /\ BoundsType'
    BY <1>0, <2>1 DEF RemoteType, HistoryOK, BoundsType, bounds, repository
  <2>3. MirrorType' BY <1>0, <2>1, <2>2, FetchTyped
  <2>4. ServiceType'
    BY <1>0, <1>3, <2>1 DEF DeleteBegin, DeleteBranch, ServiceType, Writers, SetWriter, NoWriter, NoCommit
  <2> QED BY <2>1, <2>2, <2>3, <2>4, QuietTyped DEF QuietTypes
<1>4. CASE DeleteCheckTags(s) \/ DeleteCheckRows(s) \/ DeleteLease(s) \/ DeleteRefused(s)
  <2> USE DEF DeleteCheckTags, DeleteCheckRows, DeleteLease, DeleteRefused
  <2>1. DeleteFrame /\ UNCHANGED <<owed, cached, sync>> /\ pushed' = pushed
    BY <1>4 DEF DeleteFrame, repository
  <2>2. UNCHANGED <<repository, ledger, job>> /\ RemoteType' /\ MirrorType' /\ BoundsType'
    BY <1>0, <2>1 DEF DeleteFrame, repository, remote, mirror, bounds, RemoteType, MirrorType,
                      BoundsType
  <2>3. writer \in [Servers -> Writers] /\ mirrorTip \in 0..pushed
    BY <1>0 DEF ServiceType, MirrorType
  <2>4. NoWriter \in Writers /\ [pc |-> "delete", tip |-> mirrorTip] \in Writers
    BY <1>0, <2>3 DEF Writers, NoWriter, NoCommit
  <2>5. /\ [writer[s] EXCEPT !.pc = "rows"] \in Writers
        /\ [writer[s] EXCEPT !.pc = "lease"] \in Writers
    BY <2>3 DEF Writers
  <2>6. writer' \in [Servers -> Writers] BY <1>4, <2>3, <2>4, <2>5 DEF SetWriter
  <2>7. ServiceType' BY <1>0, <2>1, <2>6 DEF ServiceType, Writers
  <2> QED BY <2>2, <2>7, QuietTyped DEF QuietTypes
<1> QED BY <1>1, <1>2, <1>3, <1>4 DEF Deletion

\* Outsiders that set or remove a tag; a mirror directory that is replaced.
LEMMA OutsideTyped ==
    ASSUME TypeInv, NewMirror \/ \E v \in Versions : OutsideTag(v) \/ OutsideUntag(v)
    PROVE  TypeInv'
<1>0. /\ pushed \in Nat /\ RemoteType /\ MirrorType /\ ServiceType /\ BoundsType
  BY DEF TypeInv, TypeOK, RepositoryType
<1>1. CASE NewMirror
  <2>1. UNCHANGED <<repository, ledger, job, remote, owed, cached, sync, writer, bounds>>
    BY <1>1 DEF NewMirror, service
  <2>2. MirrorType'
    <3>1. pushed' = pushed /\ 0 \in 0..pushed BY <1>0, <2>1 DEF repository
    <3> QED BY <1>1, <3>1 DEF NewMirror, MirrorType, NoCommit
  <2>3. RemoteType' /\ BoundsType' /\ ServiceType'
    BY <1>0, <2>1 DEF RemoteType, BoundsType, ServiceType, Writers, remote, bounds, repository
  <2> QED BY <2>1, <2>2, <2>3, QuietTyped DEF QuietTypes
<1>2. ASSUME NEW v \in Versions, OutsideTag(v) \/ OutsideUntag(v) PROVE TypeInv'
  <2>1. /\ UNCHANGED <<repository, ledger, job, remoteTip, owed, cached, sync, writer, bounds>>
        /\ UNCHANGED <<mirror, pushed>>
    BY <1>2 DEF OutsideTag, OutsideUntag, Outside, service, repository
  <2>2. remoteTag' \in [Versions -> 0..pushed]
    <3>1. CASE OutsideTag(v)
      <4>1. PICK c \in 1..pushed : remoteTag' = [remoteTag EXCEPT ![v] = c]
        BY <3>1 DEF OutsideTag
      <4>2. c \in 0..pushed BY <1>0
      <4> QED BY <1>0, <4>1, <4>2 DEF RemoteType
    <3>2. CASE OutsideUntag(v)
      <4>1. 0 \in 0..pushed BY <1>0
      <4> QED BY <1>0, <3>2, <4>1 DEF OutsideUntag, RemoteType, NoCommit
    <3> QED BY <1>2, <3>1, <3>2
  <2>3. RemoteType' /\ MirrorType' /\ BoundsType' /\ ServiceType'
    BY <1>0, <2>1, <2>2 DEF RemoteType, MirrorType, BoundsType, ServiceType, Writers, mirror, bounds
  <2> QED BY <2>1, <2>3, QuietTyped DEF QuietTypes
<1> QED BY <1>1, <1>2

\* Commits by outsiders and by the service's own writes.
LEMMA OutsidePushTyped ==
    ASSUME TypeInv, NEW t \in Trees, OutsidePush(t) \/ OutsideRewrite(t)
    PROVE  TypeInv' /\ CommitsKept
<1>0. /\ pushed \in Nat /\ RemoteType /\ MirrorType /\ ServiceType /\ BoundsType /\ HistoryOK
  BY DEF TypeInv, TypeOK, RepositoryType
<1>1. PICK h \in SUBSET (1..pushed) : Push(t, h)
  <2>1. (IF remoteTip = NoCommit THEN {} ELSE past[remoteTip]) \in SUBSET (1..pushed)
    BY <1>0 DEF RemoteType, HistoryOK, NoCommit
  <2> QED BY <2>1 DEF OutsidePush, OutsideRewrite
<1>2. RepositoryType' /\ RemoteType' /\ HistoryOK' /\ CommitsKept BY <1>1, PushTyped
<1>3. UNCHANGED <<mirror, ledger, job, owed, cached, sync, writer, errors, crashes>>
  BY DEF OutsidePush, OutsideRewrite, Outside, service, bounds
<1>4. pushed' \in Nat /\ pushed <= pushed' BY <1>2 DEF RepositoryType, CommitsKept
<1>5. /\ 0..pushed \subseteq 0..pushed' /\ 1..pushed \subseteq 1..pushed'
      /\ Jobs \subseteq Jobs' /\ Writers \subseteq Writers'
  BY <1>0, <1>4, MoreCommits
<1>6. MirrorType' BY <1>0, <1>3, <1>5 DEF MirrorType, mirror
<1>7. job' \in [Servers -> Jobs'] /\ ledger' \in [Versions -> Rows]
  BY <1>3, <1>5 DEF TypeInv, TypeOK
<1>8. ServiceType' /\ BoundsType' BY <1>0, <1>3, <1>5 DEF ServiceType, BoundsType
<1>9. \A s \in Servers : HeadOK(s)' BY <1>0, <1>2, <1>3, <1>4, HeadsKept DEF TypeInv
<1> QED BY <1>2, <1>6, <1>7, <1>8, <1>9 DEF TypeInv, TypeOK

LEMMA WriteTyped ==
    ASSUME TypeInv, NEW s \in Servers, NEW t \in Trees, Write(s, t)
    PROVE  TypeInv' /\ CommitsKept
<1>0. /\ pushed \in Nat /\ RemoteType /\ MirrorType /\ ServiceType /\ BoundsType /\ HistoryOK
  BY DEF TypeInv, TypeOK, RepositoryType
<1>1. PICK h \in SUBSET (1..pushed) : Push(t, h)
  <2>1. (IF remoteTip = NoCommit THEN {} ELSE past[remoteTip]) \in SUBSET (1..pushed)
    BY <1>0 DEF RemoteType, HistoryOK, NoCommit
  <2> QED BY <2>1 DEF Write
<1>2. RepositoryType' /\ RemoteType' /\ HistoryOK' /\ CommitsKept BY <1>1, PushTyped
<1>3. UNCHANGED <<ledger, job, sync, errors, crashes>> BY DEF Write, bounds
<1>4. pushed' \in Nat /\ pushed <= pushed' BY <1>2 DEF RepositoryType, CommitsKept
<1>5. /\ 0..pushed \subseteq 0..pushed' /\ 1..pushed \subseteq 1..pushed'
      /\ Jobs \subseteq Jobs' /\ Writers \subseteq Writers'
  BY <1>0, <1>4, MoreCommits
<1>6. MirrorType' BY <1>0, <1>2, <1>4, FetchTyped DEF Write
<1>7. job' \in [Servers -> Jobs'] /\ ledger' \in [Versions -> Rows]
  BY <1>3, <1>5 DEF TypeInv, TypeOK
<1>8. ServiceType'
  <2>1. [NoWriter EXCEPT !.pc = "publish"] \in Writers' BY <1>4 DEF NoWriter, Writers, NoCommit
  <2>2. writer' \in [Servers -> Writers']
    BY <1>0, <1>5, <2>1 DEF Write, SetWriter, ServiceType
  <2>3. cached' \in [Servers -> 0..pushed']
    BY <1>0, <1>2, <1>5 DEF Write, ServiceType, RemoteType
  <2>4. owed' \in [Servers -> BOOLEAN] BY <1>0 DEF Write, ServiceType
  <2> QED BY <1>0, <1>3, <2>2, <2>3, <2>4 DEF ServiceType
<1>9. BoundsType' BY <1>0, <1>3 DEF BoundsType
<1>10. \A q \in Servers : HeadOK(q)' BY <1>0, <1>2, <1>3, <1>4, HeadsKept DEF TypeInv
<1> QED BY <1>2, <1>6, <1>7, <1>8, <1>9, <1>10 DEF TypeInv, TypeOK

LEMMA CrashTyped == ASSUME TypeInv, NEW s \in Servers, Crash(s) PROVE TypeInv'
<1>0. /\ pushed \in Nat /\ RemoteType /\ MirrorType /\ ServiceType /\ BoundsType
  BY DEF TypeInv, TypeOK, RepositoryType
<1>1. UNCHANGED <<pushed, tree, past, remoteTip, remoteTag, ledger, errors>> /\ UNCHANGED mirror
  BY DEF Crash, repository, remote
<1>2. RepositoryType' /\ HistoryOK' /\ RemoteType' /\ MirrorType'
  BY <1>0, <1>1 DEF TypeInv, TypeOK, RepositoryType, HistoryOK, RemoteType, MirrorType, mirror
<1>3. 0 \in 0..pushed /\ Idle("none", NoCommit) \in Jobs
  BY <1>0, AnswerTyped DEF Outcomes, NoCommit
<1>4. job' \in [Servers -> Jobs] /\ job' = [job EXCEPT ![s] = Idle("none", NoCommit)]
  BY <1>3 DEF Crash, TypeInv, TypeOK
<1>5. Jobs' = Jobs /\ Writers' = Writers BY <1>1 DEF Jobs, Writers
<1>6. NoWriter \in Writers BY <1>3 DEF NoWriter, Writers, NoCommit
<1>7. writer' \in [Servers -> Writers] BY <1>0, <1>6 DEF Crash, SetWriter, ServiceType
<1>8. ServiceType' BY <1>0, <1>1, <1>3, <1>5, <1>7 DEF Crash, ServiceType, NoCommit
<1>9. BoundsType' BY <1>0, <1>1, BoundsAssumption DEF Crash, BoundsType
<1>10. \A q \in Servers : HeadOK(q)'
  <2>1. HeadOK(s)' BY <1>4 DEF HeadOK, Idle, Published, TypeInv, TypeOK
  <2>2. ASSUME NEW q \in Servers \ {s} PROVE HeadOK(q)'
    BY <1>1, <1>4 DEF HeadOK, TypeInv, TypeOK
  <2> QED BY <2>1, <2>2
<1> QED BY <1>1, <1>2, <1>4, <1>5, <1>8, <1>9, <1>10 DEF TypeInv, TypeOK

\* TypeOK alone is not inductive: a running publication could have no version, a fetch
\* could bring objects of commits that were never made.
LEMMA NextTyped == TypeInv /\ [Next]_vars => TypeInv' /\ CommitsKept
<1> SUFFICES ASSUME TypeInv, [Next]_vars PROVE TypeInv' /\ CommitsKept OBVIOUS
<1>0. pushed \in Nat BY DEF TypeInv, TypeOK, RepositoryType
<1>1. UNCHANGED repository => CommitsKept BY <1>0 DEF CommitsKept, repository
<1>2. ASSUME NEW s \in Servers, Begin(s) \/ PublishStep(s) \/ Crash(s) PROVE TypeInv' /\ CommitsKept
  <2>1. CASE Begin(s) BY <1>1, <2>1, BeginTyped DEF Begin
  <2>2. CASE PublishStep(s) BY <1>1, <2>2, PublishTyped, PublishStepTypes DEF PublishTypes
  <2>3. CASE Crash(s) BY <1>1, <2>3, CrashTyped DEF Crash
  <2> QED BY <1>2, <2>1, <2>2, <2>3
<1>3. ASSUME NEW s \in Servers,
             Read(s) \/ SyncFetch(s) \/ SyncRebuild(s) \/ WriteDone(s) \/ Deletion(s)
      PROVE  TypeInv' /\ CommitsKept
  <2>1. UNCHANGED repository
    BY <1>3 DEF Read, SyncFetch, SyncRebuild, WriteDone, Deletion, DeleteBegin, DeleteCheckTags,
                DeleteCheckRows, DeleteLease, DeleteBranch, DeleteRefused, DeleteFrame
  <2> QED BY <1>1, <1>3, <2>1, ServiceTyped
<1>4. ASSUME NewMirror \/ \E v \in Versions : OutsideTag(v) \/ OutsideUntag(v)
      PROVE  TypeInv' /\ CommitsKept
  BY <1>1, <1>4, OutsideTyped DEF NewMirror, OutsideTag, OutsideUntag
<1>5. CASE UNCHANGED vars
  <2>1. /\ UNCHANGED <<repository, ledger, job, remoteTip, remoteTag, owed, cached, sync, writer>>
        /\ UNCHANGED <<mirrored, mirrorTip, objects, localTag, errors, crashes, pushed>>
    BY <1>5 DEF vars, repository, remote, mirror, service, bounds
  <2>2. QuietTypes
    BY <2>1 DEF QuietTypes, TypeInv, TypeOK, RemoteType, MirrorType, ServiceType, BoundsType, Writers
  <2> QED BY <1>1, <2>1, <2>2, QuietTyped
<1> QED BY <1>2, <1>3, <1>4, <1>5, OutsidePushTyped, WriteTyped DEF Next

\* Every variable keeps its type for any trees, versions, processes, outsiders, errors and
\* crashes; in particular no tip, tag, job or object names a commit that was never made.
THEOREM TypeCorrect == Spec => []TypeOK
<1>1. TypeInv => TypeOK BY DEF TypeInv
<1>2. TypeInv /\ [Next]_vars => TypeInv' BY NextTyped
<1> QED BY InitTyped, <1>1, <1>2, PTL DEF Spec

-----------------------------------------------------------------------------
(* Rows are final and genuine. *)

\* insertLedgerIfAbsent never touches a row that is there.
RowsKept == \A v \in Versions : ledger[v] # NoRow => ledger'[v] = ledger[v]

\* A new row is that of a running publication, and names a commit with its head's tree.
NewRow(s) ==
    /\ job[s].pc # "idle"
    /\ \E c \in 1..pushed :
          /\ c \in objects \/ c = job[s].head
          /\ tree[c] = tree[job[s].head]
          /\ Insert(Version(s), [digest |-> tree[c], commit |-> c])

LEMMA LedgerMoves ==
    ASSUME TypeInv, [Next]_vars
    PROVE  \/ ledger' = ledger
           \/ \E s \in Servers : NewRow(s) /\ (Record(s) \/ Adopt(s))
<1>1. ASSUME NEW s \in Servers, Record(s) PROVE NewRow(s)
  <2>1. job[s].pc # "idle" BY <1>1 DEF Record, Running
  <2>2. job[s].head \in 1..pushed BY <2>1, RunningHead
  <2> QED BY <1>1, <2>1, <2>2 DEF Record, NewRow
<1>2. ASSUME NEW s \in Servers, Adopt(s) PROVE NewRow(s) \/ ledger' = ledger
  <2>1. job[s].pc # "idle" BY <1>2 DEF Adopt, Running
  <2>2. objects \subseteq 1..pushed BY DEF TypeInv, TypeOK, MirrorType
  <2>3. CASE job[s].seen \in objects /\ tree[job[s].seen] = tree[job[s].head]
    BY <1>2, <2>1, <2>2, <2>3 DEF Adopt, NewRow
  <2>4. CASE ~(job[s].seen \in objects /\ tree[job[s].seen] = tree[job[s].head])
    BY <1>2, <2>4 DEF Adopt
  <2> QED BY <2>3, <2>4
<1>3. ASSUME NEW s \in Servers, PublishStep(s), ~Record(s), ~Adopt(s) PROVE ledger' = ledger
  BY <1>3 DEF PublishStep, ReadLedger, CheckRowTag, CheckRowLocal, TagRow, HealPush, HealJudge,
              CheckRemote, CheckLocal, TagHead, PushTag, JudgePush, Throw, PushFrame
<1>4. ASSUME NEW s \in Servers,
             Read(s) \/ SyncFetch(s) \/ SyncRebuild(s) \/ WriteDone(s) \/ Deletion(s)
      PROVE  ledger' = ledger
  BY <1>4 DEF Read, SyncFetch, SyncRebuild, WriteDone, Deletion, DeleteBegin, DeleteCheckTags,
              DeleteCheckRows, DeleteLease, DeleteBranch, DeleteRefused, DeleteFrame
<1>5. ASSUME NEW s \in Servers, Begin(s) \/ Crash(s) \/ \E t \in Trees : Write(s, t)
      PROVE  ledger' = ledger
  BY <1>5 DEF Begin, Crash, Write
<1>6. ASSUME \/ NewMirror \/ \E t \in Trees : OutsidePush(t) \/ OutsideRewrite(t)
             \/ \E v \in Versions : OutsideTag(v) \/ OutsideUntag(v)
             \/ UNCHANGED vars
      PROVE  ledger' = ledger
  BY <1>6 DEF NewMirror, OutsidePush, OutsideRewrite, OutsideTag, OutsideUntag, Outside, vars
<1> QED BY <1>1, <1>2, <1>3, <1>4, <1>5, <1>6 DEF Next

LEMMA RowsAreKept == ASSUME TypeInv, [Next]_vars PROVE RowsKept
<1>1. ledger \in [Versions -> Rows] BY DEF TypeInv, TypeOK
<1> QED BY <1>1, LedgerMoves DEF RowsKept, NewRow, Insert

RowInv == \A v \in Versions : ledger[v] # NoRow =>
    /\ ledger[v].commit \in 1..pushed
    /\ tree[ledger[v].commit] = ledger[v].digest
    /\ ledger[v].digest \in Active
    /\ VersionOf[ledger[v].digest] = v

LEMMA RowStep == ASSUME TypeInv, RowInv, [Next]_vars PROVE RowInv'
<1>1. CommitsKept BY NextTyped
<1>2. pushed \in Nat /\ pushed' \in Nat /\ ledger \in [Versions -> Rows]
  BY NextTyped DEF TypeInv, TypeOK, RepositoryType
<1>3. \A c \in 1..pushed : c \in 1..pushed' /\ tree'[c] = tree[c] BY <1>1, <1>2 DEF CommitsKept
<1>4. CASE ledger' = ledger BY <1>3, <1>4 DEF RowInv
<1>5. ASSUME NEW s \in Servers, NewRow(s) PROVE RowInv'
  <2>1. /\ Version(s) \in Versions /\ tree[job[s].head] \in Active
        /\ VersionOf[tree[job[s].head]] = Version(s)
    BY <1>5, RunningHead DEF NewRow, Version
  <2>2. PICK c \in 1..pushed : /\ tree[c] = tree[job[s].head]
                               /\ Insert(Version(s), [digest |-> tree[c], commit |-> c])
    BY <1>5 DEF NewRow
  <2>3. \A v \in Versions : \/ ledger'[v] = ledger[v]
                            \/ v = Version(s) /\ ledger'[v] = [digest |-> tree[c], commit |-> c]
    BY <1>2, <2>2 DEF Insert
  <2> QED BY <1>3, <2>1, <2>2, <2>3 DEF RowInv
<1> QED BY <1>4, <1>5, LedgerMoves

\* A row tells the truth about its commit, whatever outsiders do to tags and branch.
THEOREM RowsAreGenuine == Spec => []RowIsGenuine
<1>1. Init => RowInv BY DEF Init, RowInv
<1>2. TypeInv /\ [Next]_vars => TypeInv' BY NextTyped
<1>3. TypeInv /\ RowInv /\ [Next]_vars => RowInv' BY RowStep
<1>4. RowInv => RowIsGenuine BY DEF RowInv, RowIsGenuine
<1> QED BY InitTyped, <1>1, <1>2, <1>3, <1>4, PTL DEF Spec

\* The row of a published version never changes (publish.js:39), whatever outsiders do.
THEOREM RowsAreFinal == Spec => [][\A v \in Versions : ledger[v] # NoRow => ledger'[v] = ledger[v]]_vars
<1>1. TypeInv /\ [Next]_vars => TypeInv' BY NextTyped
<1>2. TypeInv /\ [Next]_vars => [\A v \in Versions : ledger[v] # NoRow => ledger'[v] = ledger[v]]_vars
  BY RowsAreKept DEF RowsKept
<1> QED BY InitTyped, <1>1, <1>2, PTL DEF Spec

-----------------------------------------------------------------------------
(* Rows, tags, answers and mirrors agree as long as nobody removes tags. *)

TagsKept == \A v \in Versions : remoteTag[v] # NoCommit => remoteTag'[v] = remoteTag[v]

MirrorKept ==
    /\ objects \subseteq objects'
    /\ \A v \in Versions : localTag[v] # NoCommit => localTag'[v] = localTag[v]
    /\ (mirrorTip # NoCommit => mirrorTip \in objects)
          => (mirrorTip' # NoCommit => mirrorTip' \in objects')
    /\ mirrored => mirrored'
    /\ ~mirrored /\ mirrored' =>
          \A v \in Versions : remoteTag[v] # NoCommit => remoteTag[v] \in objects'

RowSteps == {"rowRemote", "rowLocal", "rowTag", "healPush", "healJudge"}

\* What a publication has established when it stands at a step.
HeadHere(s) == job[s].pc # "idle" => job[s].outcome \notin Published /\ job[s].head \in objects
RowRead(s) == job[s].pc \in RowSteps => /\ job[s].row = ledger[Version(s)]
                                        /\ job[s].row # NoRow
                                        /\ job[s].row.digest = tree[job[s].head]
TagSeen(s) == job[s].pc = "adopt" => /\ job[s].seen # NoCommit
                                     /\ remoteTag[Version(s)] = job[s].seen
TagMade(s) == job[s].pc \in {"push", "judge"} => localTag[Version(s)] = job[s].head
TagThere(s) == job[s].pc = "record" => remoteTag[Version(s)] = job[s].head
Recorded(s) == job[s].outcome \in Published =>
                   /\ ledger[Version(s)] # NoRow
                   /\ ledger[Version(s)].digest = tree[job[s].head]

JobOK(s) == HeadHere(s) /\ RowRead(s) /\ TagSeen(s) /\ TagMade(s) /\ TagThere(s) /\ Recorded(s)

RowsHere == mirrored => \A v \in Versions : ledger[v] # NoRow => ledger[v].commit \in objects
TipHere == mirrorTip # NoCommit => mirrorTip \in objects

AgreeInv == TypeInv /\ RowInv /\ TipHere /\ TagMatchesRow /\ RowsHere /\ \A s \in Servers : JobOK(s)

LEMMA TagsAreKept ==
    ASSUME "untag" \notin Environment, TypeInv, [Next]_vars PROVE TagsKept
<1>0. remoteTag \in [Versions -> 0..pushed] BY DEF TypeInv, TypeOK, RemoteType
<1>1. UNCHANGED remoteTag => TagsKept BY DEF TagsKept
<1>2. ASSUME NEW s \in Servers, PublishStep(s) PROVE TagsKept
  <2>1. CASE HealPush(s) \/ PushTag(s)
    <3>1. TagPushed(Version(s)) \/ UNCHANGED remoteTag
      BY <2>1 DEF HealPush, PushTag, PushThrows, TagRefused
    <3>2. job[s].pc # "idle" BY <2>1 DEF HealPush, PushTag, Running
    <3>3. Version(s) \in Versions BY <3>2, RunningHead
    <3> QED BY <1>0, <3>1, <3>3 DEF TagPushed, TagsKept
  <2>2. CASE ~HealPush(s) /\ ~PushTag(s)
    BY <1>1, <1>2, <2>2 DEF PublishStep, ReadLedger, CheckRowTag, CheckRowLocal, TagRow, HealJudge,
              CheckRemote, CheckLocal, TagHead, JudgePush, Throw, Record, Adopt, Local, remote
  <2> QED BY <2>1, <2>2
<1>3. ASSUME NEW s \in Servers,
             Read(s) \/ SyncFetch(s) \/ SyncRebuild(s) \/ WriteDone(s) \/ Deletion(s)
      PROVE  TagsKept
  BY <1>1, <1>3 DEF Read, SyncFetch, SyncRebuild, WriteDone, Deletion, DeleteBegin, DeleteCheckTags,
              DeleteCheckRows, DeleteLease, DeleteBranch, DeleteRefused, DeleteFrame, remote
<1>4. ASSUME NEW s \in Servers, Begin(s) \/ Crash(s) \/ \E t \in Trees : Write(s, t)
      PROVE  TagsKept
  BY <1>1, <1>4 DEF Begin, Crash, Write, Push, remote
<1>5. ASSUME NewMirror \/ (\E t \in Trees : OutsidePush(t) \/ OutsideRewrite(t)) \/ UNCHANGED vars
      PROVE  TagsKept
  BY <1>1, <1>5 DEF NewMirror, OutsidePush, OutsideRewrite, Push, remote, vars
<1>6. ASSUME NEW v \in Versions, OutsideTag(v) \/ OutsideUntag(v) PROVE TagsKept
  BY <1>0, <1>6 DEF OutsideTag, OutsideUntag, TagsKept
<1> QED BY <1>2, <1>3, <1>4, <1>5, <1>6 DEF Next

LEMMA MirrorIsKept == ASSUME TypeInv, [Next]_vars PROVE NewMirror \/ MirrorKept
<1>0. /\ pushed \in Nat /\ RemoteType /\ MirrorType /\ localTag \in [Versions -> 0..pushed]
  BY DEF TypeInv, TypeOK, RepositoryType, MirrorType
<1>1. UNCHANGED mirror => MirrorKept BY DEF MirrorKept, mirror
<1>2. ASSUME UNCHANGED <<repository, remote>>, RefreshMirror PROVE MirrorKept
  BY <1>2, RefreshTyped DEF MirrorKept
<1>3. ASSUME FetchMirror PROVE MirrorKept
  <2>1. TypeInv' /\ CommitsKept BY NextTyped
  <2>2. pushed' \in Nat /\ pushed <= pushed' /\ RemoteType' /\ HistoryOK'
    BY <2>1 DEF TypeInv, TypeOK, RepositoryType, CommitsKept
  <2> QED BY <1>0, <1>3, <2>2, FetchTyped DEF MirrorKept
<1>4. ASSUME NEW s \in Servers, PublishStep(s) PROVE MirrorKept
  <2>1. CASE TagRow(s) \/ TagHead(s)
    <3>1. \/ UNCHANGED localTag
          \/ \E c \in objects : localTag[Version(s)] = NoCommit /\ SetLocalTag(Version(s), c)
      BY <2>1 DEF TagRow, TagHead, CanTag
    <3>2. UNCHANGED <<mirrored, mirrorTip, objects>> BY <2>1 DEF TagRow, TagHead
    <3> QED BY <1>0, <3>1, <3>2 DEF SetLocalTag, MirrorKept
  <2>2. CASE ~TagRow(s) /\ ~TagHead(s)
    BY <1>1, <1>4, <2>2 DEF PublishStep, ReadLedger, CheckRowTag, CheckRowLocal, HealPush, HealJudge,
              CheckRemote, CheckLocal, PushTag, JudgePush, Throw, Record, Adopt, PushFrame
  <2> QED BY <2>1, <2>2
<1>5. ASSUME NEW s \in Servers, Begin(s) \/ Read(s) \/ SyncFetch(s) PROVE MirrorKept
  BY <1>2, <1>5 DEF Begin, Read, SyncFetch
<1>6. ASSUME NEW s \in Servers,
             SyncRebuild(s) \/ WriteDone(s) \/ Crash(s) \/ Deletion(s) \/ \E t \in Trees : Write(s, t)
      PROVE  MirrorKept
  BY <1>1, <1>3, <1>6 DEF SyncRebuild, WriteDone, Crash, Deletion, DeleteBegin, DeleteCheckTags,
              DeleteCheckRows, DeleteLease, DeleteBranch, DeleteRefused, DeleteFrame, Write
<1>7. ASSUME \/ \E t \in Trees : OutsidePush(t) \/ OutsideRewrite(t)
             \/ \E v \in Versions : OutsideTag(v) \/ OutsideUntag(v)
             \/ UNCHANGED vars
      PROVE  MirrorKept
  BY <1>1, <1>7 DEF OutsidePush, OutsideRewrite, OutsideTag, OutsideUntag, Outside, vars
<1> QED BY <1>4, <1>5, <1>6, <1>7 DEF Next

\* What a job has established stays true while other processes and outsiders move.
LEMMA JobKept ==
    ASSUME TypeInv, TypeInv', CommitsKept, RowsKept, TagsKept, NEW s \in Servers,
           JobOK(s), job'[s] = job[s], MirrorKept \/ job[s].pc = "idle"
    PROVE  JobOK(s)'
<1>0. job[s] \in Jobs /\ pushed \in Nat BY DEF TypeInv, TypeOK, RepositoryType
<1>1. CASE job[s].pc # "idle" \/ job[s].outcome \in Published
  <2>1. /\ job[s].head \in 1..pushed /\ Version(s) \in Versions
        /\ Version(s)' = Version(s) /\ tree'[job[s].head] = tree[job[s].head]
    BY <1>1 DEF TypeInv, HeadOK, CommitsKept, Version
  <2>2. job[s].pc # "idle" => MirrorKept OBVIOUS
  <2>3. HeadHere(s)' BY <2>2 DEF JobOK, HeadHere, MirrorKept
  <2>4. RowRead(s)' BY <2>1 DEF JobOK, RowRead, RowsKept
  <2>5. TagSeen(s)' BY <2>1 DEF JobOK, TagSeen, TagsKept
  <2>6. TagMade(s)' BY <2>1, <2>2 DEF JobOK, TagMade, MirrorKept, NoCommit
  <2>7. TagThere(s)' BY <2>1 DEF JobOK, TagThere, TagsKept, NoCommit
  <2>8. Recorded(s)' BY <2>1 DEF JobOK, Recorded, RowsKept
  <2> QED BY <2>3, <2>4, <2>5, <2>6, <2>7, <2>8 DEF JobOK
<1>2. CASE job[s].pc = "idle" /\ job[s].outcome \notin Published
  BY <1>2 DEF JobOK, HeadHere, RowRead, RowSteps, TagSeen, TagMade, TagThere, Recorded
<1> QED BY <1>1, <1>2

\* An answer establishes that the row is there, when it says so.
LEMMA AnswerOK ==
    ASSUME TypeInv, UNCHANGED repository, NEW s \in Servers, NEW o \in Outcomes, Answer(s, o),
           o \in Published => /\ ledger'[Version(s)] # NoRow
                             /\ ledger'[Version(s)].digest = tree[job[s].head]
    PROVE  JobOK(s)'
<1>1. job \in [Servers -> Jobs] BY DEF TypeInv, TypeOK
<1>2. job'[s] = Idle(o, job[s].head) BY <1>1 DEF Answer
<1>3. /\ job'[s].pc = "idle" /\ job'[s].outcome = o /\ job'[s].head = job[s].head
      /\ tree' = tree
  BY <1>2 DEF Idle, repository
<1>4. Recorded(s)' BY <1>3 DEF Recorded, Version
<1> QED BY <1>3, <1>4 DEF JobOK, HeadHere, RowRead, RowSteps, TagSeen, TagMade, TagThere

\* A publication that goes on must have established what its next step relies on.
LEMMA GotoOK ==
    ASSUME TypeInv, UNCHANGED <<repository, objects>>, NEW s \in Servers, HeadHere(s),
           NEW step \in Steps, Goto(s, step), job[s].pc # "idle",
           step \in RowSteps => /\ job[s].row = ledger'[Version(s)]
                               /\ job[s].row # NoRow
                               /\ job[s].row.digest = tree[job[s].head],
           step # "adopt",
           step \in {"push", "judge"} => localTag'[Version(s)] = job[s].head,
           step = "record" => remoteTag'[Version(s)] = job[s].head
    PROVE  JobOK(s)'
<1>1. job \in [Servers -> Jobs] BY DEF TypeInv, TypeOK
<1>2. /\ job'[s].pc = step /\ job'[s].head = job[s].head /\ job'[s].row = job[s].row
      /\ job'[s].outcome = job[s].outcome /\ tree' = tree /\ objects' = objects
  BY <1>1 DEF Goto, Jobs, repository
<1>3. Version(s)' = Version(s) BY <1>2 DEF Version
<1>4. HeadHere(s)' /\ Recorded(s)' BY <1>2 DEF HeadHere, Recorded
<1>5. RowRead(s)' BY <1>2, <1>3 DEF RowRead
<1>6. TagSeen(s)' /\ TagMade(s)' /\ TagThere(s)' BY <1>2, <1>3 DEF TagSeen, TagMade, TagThere
<1> QED BY <1>4, <1>5, <1>6 DEF JobOK

LEMMA PublishStepOK ==
    ASSUME "untag" \notin Environment, AgreeInv, NEW s \in Servers, PublishStep(s)
    PROVE  JobOK(s)'
<1> USE DEF Running
<1>0. TypeInv /\ HeadHere(s) /\ RowRead(s) /\ TagSeen(s) /\ TagMade(s) /\ TagThere(s)
  BY DEF AgreeInv, JobOK
<1>1. /\ UNCHANGED <<repository, objects>>
      /\ job \in [Servers -> Jobs] /\ ledger \in [Versions -> Rows]
      /\ localTag \in [Versions -> 0..pushed] /\ remoteTag \in [Versions -> 0..pushed]
  BY <1>0, PublishStepTypes DEF PublishTypes, TypeInv, TypeOK, MirrorType, RemoteType
<1>2. job[s].pc # "idle" => Version(s) \in Versions /\ job[s].head \in 1..pushed
  BY <1>0, RunningHead
<1> DEFINE Kept(step) == Goto(s, step) /\ step \in {"rowLocal", "rowTag", "healPush", "healJudge"}
                           /\ ledger' = ledger
<1>3. ASSUME job[s].pc \in RowSteps, NEW step \in Steps, Kept(step) PROVE JobOK(s)'
  BY <1>0, <1>1, <1>3, GotoOK DEF RowRead, RowSteps
<1>4. ASSUME job[s].pc # "idle", NEW o \in Outcomes \ Published, Answer(s, o) PROVE JobOK(s)'
  BY <1>0, <1>1, <1>4, AnswerOK
<1>5. ASSUME job[s].pc \in RowSteps, NEW o \in Published, Answer(s, o), ledger' = ledger PROVE JobOK(s)'
  BY <1>0, <1>1, <1>5, AnswerOK DEF RowRead, Outcomes
<1>6. CASE ReadLedger(s)
  <2>1. job[s].pc # "idle" /\ ledger' = ledger BY <1>6 DEF ReadLedger
  <2>2. CASE Goto(s, "remote") BY <1>0, <1>1, <2>1, <2>2, GotoOK DEF Steps, RowSteps
  <2>3. CASE Answer(s, "exists") BY <1>4, <2>1, <2>3 DEF Outcomes, Published
  <2>4. CASE /\ ledger[Version(s)] # NoRow /\ ledger[Version(s)].digest = tree[job[s].head]
             /\ job' = [job EXCEPT ![s].pc = "rowRemote", ![s].row = ledger[Version(s)]]
    <3>1. /\ job'[s].pc = "rowRemote" /\ job'[s].row = ledger[Version(s)]
          /\ job'[s].head = job[s].head /\ job'[s].outcome = job[s].outcome /\ tree' = tree
          /\ objects' = objects
      BY <1>1, <2>4 DEF Jobs, repository
    <3>2. Version(s)' = Version(s) BY <3>1 DEF Version
    <3>3. HeadHere(s)' /\ Recorded(s)' BY <1>0, <2>1, <3>1 DEF HeadHere, Recorded
    <3>4. RowRead(s)' BY <2>1, <2>4, <3>1, <3>2 DEF RowRead
    <3> QED BY <3>1, <3>3, <3>4 DEF JobOK, TagSeen, TagMade, TagThere
  <2> QED BY <1>6, <2>2, <2>3, <2>4 DEF ReadLedger
<1>7. CASE CheckRowTag(s) \/ CheckRowLocal(s) \/ HealJudge(s)
  <2> USE DEF CheckRowTag, CheckRowLocal, HealJudge
  <2>1. job[s].pc \in RowSteps /\ ledger' = ledger BY <1>7 DEF RowSteps
  <2>2. \/ \E step \in Steps : Kept(step)
        \/ \E o \in Outcomes : Answer(s, o)
    BY <1>7, <2>1 DEF Steps, Outcomes, Published
  <2>3. job[s].pc # "idle" BY <2>1 DEF RowSteps
  <2> QED BY <1>3, <1>4, <1>5, <2>1, <2>2, <2>3
<1>8. CASE TagRow(s)
  <2>1. job[s].pc \in RowSteps /\ ledger' = ledger /\ Goto(s, "healPush") BY <1>8 DEF TagRow, RowSteps
  <2> QED BY <1>3, <2>1 DEF Steps
<1>9. CASE HealPush(s)
  <2>1. job[s].pc \in RowSteps /\ ledger' = ledger BY <1>9 DEF HealPush, PushFrame, RowSteps
  <2>2. Answer(s, "healed") \/ Goto(s, "healJudge") BY <1>9 DEF HealPush
  <2> QED BY <1>3, <1>5, <2>1, <2>2 DEF Steps, Published
<1>10. CASE CheckRemote(s)
  <2> DEFINE c == remoteTag[Version(s)]
  <2>1. job[s].pc # "idle" /\ remoteTag' = remoteTag BY <1>10 DEF CheckRemote, Local, remote
  <2>2. /\ job'[s].pc = (IF c = NoCommit THEN "local" ELSE "adopt") /\ job'[s].seen = c
        /\ job'[s].head = job[s].head /\ job'[s].outcome = job[s].outcome /\ tree' = tree
        /\ objects' = objects
    BY <1>1, <1>10 DEF CheckRemote, Jobs, repository
  <2>3. Version(s)' = Version(s) BY <2>2 DEF Version
  <2>4. HeadHere(s)' /\ Recorded(s)' BY <1>0, <2>1, <2>2 DEF HeadHere, Recorded
  <2>5. TagSeen(s)' BY <2>1, <2>2, <2>3 DEF TagSeen
  <2> QED BY <2>2, <2>4, <2>5 DEF JobOK, RowRead, RowSteps, TagMade, TagThere
<1>11. CASE CheckLocal(s)
  <2>1. job[s].pc # "idle" /\ localTag' = localTag BY <1>11 DEF CheckLocal, mirror
  <2>2. CASE Goto(s, "tag") BY <1>0, <1>1, <2>1, <2>2, GotoOK DEF Steps, RowSteps
  <2>3. CASE localTag[Version(s)] = job[s].head /\ Goto(s, "push")
    BY <1>0, <1>1, <2>1, <2>3, GotoOK DEF Steps, RowSteps
  <2>4. CASE Answer(s, "exists") BY <1>4, <2>1, <2>4 DEF Outcomes, Published
  <2> QED BY <1>11, <2>2, <2>3, <2>4 DEF CheckLocal
<1>12. CASE TagHead(s)
  <2>1. job[s].pc # "idle" BY <1>12 DEF TagHead
  <2>2. CASE SetLocalTag(Version(s), job[s].head) /\ Goto(s, "push")
    <3>1. localTag'[Version(s)] = job[s].head BY <1>1, <1>2, <2>1, <2>2 DEF SetLocalTag
    <3> QED BY <1>0, <1>1, <2>1, <2>2, <3>1, GotoOK DEF Steps, RowSteps
  <2>3. CASE Answer(s, "error") BY <1>4, <2>1, <2>3 DEF Outcomes, Published
  <2> QED BY <1>12, <2>2, <2>3 DEF TagHead
<1>13. CASE PushTag(s)
  <2>1. /\ job[s].pc = "push" /\ localTag[Version(s)] = job[s].head /\ localTag' = localTag
    BY <1>0, <1>13 DEF PushTag, PushFrame, mirror, TagMade
  <2>2. CASE TagPushed(Version(s)) /\ Goto(s, "record")
    <3>1. remoteTag'[Version(s)] = job[s].head BY <1>1, <1>2, <2>1, <2>2 DEF TagPushed
    <3> QED BY <1>0, <1>1, <2>1, <2>2, <3>1, GotoOK DEF Steps, RowSteps
  <2>3. CASE Goto(s, "judge") BY <1>0, <1>1, <2>1, <2>3, GotoOK DEF Steps, RowSteps
  <2> QED BY <1>13, <2>2, <2>3 DEF PushTag
<1>14. CASE JudgePush(s)
  <2>1. job[s].pc # "idle" /\ remoteTag' = remoteTag BY <1>14 DEF JudgePush, Local, remote
  <2>2. CASE remoteTag[Version(s)] = job[s].head /\ Goto(s, "record")
    BY <1>0, <1>1, <2>1, <2>2, GotoOK DEF Steps, RowSteps
  <2>3. CASE Answer(s, "error") \/ Answer(s, "exists") BY <1>4, <2>1, <2>3 DEF Outcomes, Published
  <2> QED BY <1>14, <2>2, <2>3 DEF JudgePush
<1>15. CASE Record(s)
  <2> DEFINE v == Version(s)
             digest == tree[job[s].head]
             o == IF ledger[v] = NoRow THEN "published"
                  ELSE IF ledger[v].digest = digest THEN "noop" ELSE "exists"
  <2>1. job[s].pc # "idle" /\ Answer(s, o) BY <1>15 DEF Record
  <2>2. /\ ledger[v] = NoRow => ledger'[v] = [digest |-> digest, commit |-> job[s].head]
        /\ ledger[v] # NoRow => ledger'[v] = ledger[v]
    BY <1>1, <1>2, <1>15, <2>1 DEF Record, Insert
  <2>3. [digest |-> digest, commit |-> job[s].head] # NoRow
    BY <1>2, <2>1 DEF NoRow, NoCommit
  <2>4. o \in Published => ledger'[v] # NoRow /\ ledger'[v].digest = digest
    BY <2>2, <2>3 DEF Published
  <2> QED BY <1>0, <1>1, <2>1, <2>4, AnswerOK DEF Outcomes, Published
<1>16. CASE Adopt(s)
  <2> DEFINE v == Version(s)
             c == job[s].seen
  <2>1. job[s].pc = "adopt" BY <1>16 DEF Adopt
  <2>2. CASE c \in objects /\ tree[c] = tree[job[s].head]
    <3>1. Answer(s, "adopted") /\ Insert(v, [digest |-> tree[c], commit |-> c])
      BY <1>16, <2>2 DEF Adopt
    <3>2. v \in Versions /\ c # NoCommit /\ remoteTag[v] = c BY <1>0, <1>2, <2>1 DEF TagSeen
    <3>3. CASE ledger[v] = NoRow
      <4>1. ledger'[v] = [digest |-> tree[c], commit |-> c] BY <1>1, <3>1, <3>2, <3>3 DEF Insert
      <4>2. [digest |-> tree[c], commit |-> c] # NoRow BY <3>2 DEF NoRow
      <4> QED BY <1>0, <1>1, <2>2, <3>1, <4>1, <4>2, AnswerOK DEF Outcomes, Published
    <3>4. CASE ledger[v] # NoRow
      <4>1. ledger'[v] = ledger[v] BY <3>1, <3>4 DEF Insert
      <4>2. ledger[v].commit = c BY <3>2, <3>4 DEF AgreeInv, TagMatchesRow
      <4>3. ledger[v].digest = tree[c] BY <3>2, <3>4, <4>2 DEF AgreeInv, RowInv
      <4> QED BY <1>0, <1>1, <2>2, <3>1, <3>4, <4>1, <4>3, AnswerOK DEF Outcomes, Published
    <3> QED BY <3>3, <3>4
  <2>3. CASE ~(c \in objects /\ tree[c] = tree[job[s].head])
    BY <1>4, <1>16, <2>1, <2>3 DEF Adopt, Outcomes, Published
  <2> QED BY <2>2, <2>3
<1>17. CASE Throw(s)
  <2>1. Answer(s, "error") BY <1>17 DEF Throw
  <2> QED BY <1>0, <1>1, <2>1, AnswerOK DEF Outcomes, Published
<1> QED BY <1>6, <1>7, <1>8, <1>9, <1>10, <1>11, <1>12, <1>13, <1>14, <1>15, <1>16, <1>17 DEF PublishStep

\* The jobs that a step does not move, or that it begins or ends.
LEMMA JobsStep ==
    ASSUME "untag" \notin Environment, AgreeInv, [Next]_vars, NEW s \in Servers PROVE JobOK(s)'
<1>0. /\ TypeInv /\ JobOK(s) /\ TypeInv' /\ CommitsKept /\ RowsKept /\ TagsKept
      /\ NewMirror \/ MirrorKept
  BY NextTyped, RowsAreKept, TagsAreKept, MirrorIsKept DEF AgreeInv
<1>1. job \in [Servers -> Jobs] BY <1>0 DEF TypeInv, TypeOK
<1>2. ASSUME job'[s] = job[s] PROVE JobOK(s)'
  <2>1. NewMirror => job[s].pc = "idle" BY DEF NewMirror, Running
  <2> QED BY <1>0, <1>2, <2>1, JobKept
<1>3. ASSUME PublishStep(s) PROVE JobOK(s)' BY <1>3, PublishStepOK
<1>4. ASSUME NEW q \in Servers \ {s}, PublishStep(q) PROVE JobOK(s)'
  BY <1>0, <1>2, <1>4, PublishStepTypes DEF JobMoves
<1>5. ASSUME NEW q \in Servers, Begin(q) PROVE JobOK(s)'
  <2>1. CASE q = s
    <3> DEFINE h == mirrorTip'
    <3>1. /\ job'[s].outcome \notin Published /\ job'[s].head = h
          /\ job'[s].pc \in {"idle", "ledger"}
          /\ job'[s].pc # "idle" => h # NoCommit
      BY <1>1, <1>5, <2>1 DEF Begin, Idle, Published
    <3>2. MirrorKept
      <4>1. ~NewMirror BY <1>5, <2>1 DEF Begin, RefreshMirror, FetchMirror, NewMirror, mirror
      <4> QED BY <1>0, <4>1
    <3>3. HeadHere(s)' BY <3>1, <3>2 DEF HeadHere, MirrorKept, AgreeInv, TipHere
    <3> QED BY <3>1, <3>3 DEF JobOK, RowRead, RowSteps, TagSeen, TagMade, TagThere, Recorded
  <2>2. CASE q # s BY <1>1, <1>2, <1>5, <2>2 DEF Begin
  <2> QED BY <2>1, <2>2
<1>6. ASSUME NEW q \in Servers, Crash(q) PROVE JobOK(s)'
  <2>1. CASE q = s
    <3>1. job'[s].pc = "idle" /\ job'[s].outcome \notin Published
      BY <1>1, <1>6, <2>1 DEF Crash, Idle, Published
    <3> QED BY <3>1 DEF JobOK, HeadHere, RowRead, RowSteps, TagSeen, TagMade, TagThere, Recorded
  <2>2. CASE q # s BY <1>1, <1>2, <1>6, <2>2 DEF Crash
  <2> QED BY <2>1, <2>2
<1>7. ASSUME NEW q \in Servers,
             \/ Read(q) \/ SyncFetch(q) \/ SyncRebuild(q) \/ WriteDone(q) \/ Deletion(q)
             \/ \E t \in Trees : Write(q, t)
      PROVE  JobOK(s)'
  <2>1. job' = job
    BY <1>7 DEF Read, SyncFetch, SyncRebuild, WriteDone, Deletion, DeleteBegin, DeleteCheckTags,
                DeleteCheckRows, DeleteLease, DeleteBranch, DeleteRefused, DeleteFrame, Write
  <2> QED BY <1>2, <2>1
<1>8. ASSUME \/ NewMirror \/ \E t \in Trees : OutsidePush(t) \/ OutsideRewrite(t)
             \/ \E v \in Versions : OutsideTag(v) \/ OutsideUntag(v)
             \/ UNCHANGED vars
      PROVE  JobOK(s)'
  <2>1. job' = job
    BY <1>8 DEF NewMirror, OutsidePush, OutsideRewrite, OutsideTag, OutsideUntag, Outside, vars, service
  <2> QED BY <1>2, <2>1
<1> QED BY <1>3, <1>4, <1>5, <1>6, <1>7, <1>8 DEF Next

\* A step that records a row leaves tags and mirror alone, and the row names the commit
\* that the remote tag names and the mirror has.
LEMMA NewRowAgrees ==
    ASSUME AgreeInv, NEW s \in Servers, NewRow(s), Record(s) \/ Adopt(s)
    PROVE  /\ UNCHANGED <<remoteTag, mirrored, objects>>
           /\ \A v \in Versions : \/ ledger'[v] = ledger[v]
                                  \/ ledger'[v].commit = remoteTag[v] /\ ledger'[v].commit \in objects
<1>0. /\ TypeInv /\ HeadHere(s) /\ TagSeen(s) /\ TagThere(s) /\ ledger \in [Versions -> Rows]
      /\ job[s].pc # "idle"
  BY DEF AgreeInv, JobOK, TypeInv, TypeOK, NewRow
<1>1. UNCHANGED <<remoteTag, mirrored, objects>> BY DEF Record, Adopt, Local, remote, mirror
<1>2. CASE Record(s)
  <2>1. job[s].pc = "record" /\ Insert(Version(s), [digest |-> tree[job[s].head], commit |-> job[s].head])
    BY <1>2 DEF Record, Running
  <2>2. remoteTag[Version(s)] = job[s].head /\ job[s].head \in objects
    BY <1>0, <2>1 DEF TagThere, HeadHere
  <2> QED BY <1>0, <1>1, <2>1, <2>2 DEF Insert
<1>3. CASE Adopt(s)
  <2>1. job[s].pc = "adopt" BY <1>3 DEF Adopt, Running
  <2>2. remoteTag[Version(s)] = job[s].seen BY <1>0, <2>1 DEF TagSeen
  <2>3. CASE job[s].seen \in objects /\ tree[job[s].seen] = tree[job[s].head]
    <3>1. Insert(Version(s), [digest |-> tree[job[s].seen], commit |-> job[s].seen])
      BY <1>3, <2>3 DEF Adopt
    <3> QED BY <1>0, <1>1, <2>2, <2>3, <3>1 DEF Insert
  <2>4. CASE ~(job[s].seen \in objects /\ tree[job[s].seen] = tree[job[s].head])
    BY <1>1, <1>3, <2>4 DEF Adopt
  <2> QED BY <2>3, <2>4
<1> QED BY <1>2, <1>3

LEMMA AgreeStep ==
    ASSUME "untag" \notin Environment, AgreeInv, [Next]_vars PROVE AgreeInv'
<1>0. /\ TypeInv /\ TypeInv' /\ CommitsKept /\ RowsKept /\ TagsKept /\ RowInv /\ RowInv'
      /\ NewMirror \/ MirrorKept
  BY NextTyped, RowsAreKept, TagsAreKept, MirrorIsKept, RowStep DEF AgreeInv
<1>1. \A s \in Servers : JobOK(s)' BY JobsStep
<1>2. TipHere' BY <1>0 DEF AgreeInv, TipHere, MirrorKept, NewMirror
<1>3. NoCommit \notin 1..pushed BY DEF NoCommit
<1>4. CASE ledger' = ledger
  <2>1. TagMatchesRow'
    BY <1>0, <1>3, <1>4 DEF AgreeInv, TagMatchesRow, TagsKept, RowInv
  <2>2. RowsHere'
    <3>1. CASE NewMirror BY <3>1 DEF NewMirror, RowsHere
    <3>2. CASE MirrorKept
      BY <1>3, <1>4, <3>2 DEF AgreeInv, RowsHere, MirrorKept, TagMatchesRow, RowInv
    <3> QED BY <1>0, <3>1, <3>2
  <2> QED BY <1>0, <1>1, <1>2, <2>1, <2>2 DEF AgreeInv
<1>5. ASSUME NEW s \in Servers, NewRow(s), Record(s) \/ Adopt(s) PROVE AgreeInv'
  <2>1. /\ UNCHANGED <<remoteTag, mirrored, objects>>
        /\ \A v \in Versions : \/ ledger'[v] = ledger[v]
                               \/ ledger'[v].commit = remoteTag[v] /\ ledger'[v].commit \in objects
    BY <1>5, NewRowAgrees
  <2>2. TagMatchesRow' BY <2>1 DEF AgreeInv, TagMatchesRow
  <2>3. RowsHere' BY <2>1 DEF AgreeInv, RowsHere
  <2> QED BY <1>0, <1>1, <1>2, <2>2, <2>3 DEF AgreeInv
<1> QED BY <1>0, <1>4, <1>5, LedgerMoves

LEMMA InitAgrees == Init => AgreeInv
<1> SUFFICES ASSUME Init PROVE AgreeInv OBVIOUS
<1>1. TypeInv BY InitTyped
<1>2. RowInv /\ TipHere /\ TagMatchesRow /\ RowsHere
  BY DEF Init, RowInv, TipHere, TagMatchesRow, RowsHere
<1>3. \A s \in Servers : JobOK(s)
  BY DEF Init, Idle, JobOK, HeadHere, RowRead, RowSteps, TagSeen, TagMade, TagThere, Recorded, Published
<1> QED BY <1>1, <1>2, <1>3 DEF AgreeInv

LEMMA Agreement == "untag" \notin Environment => (Spec => []AgreeInv)
<1> SUFFICES ASSUME "untag" \notin Environment PROVE Spec => []AgreeInv OBVIOUS
<1>1. AgreeInv /\ [Next]_vars => AgreeInv' BY AgreeStep
<1> QED BY InitAgrees, <1>1, PTL DEF Spec

\* While nobody removes tags, a row and the remote tag name the same commit, whatever the
\* order of publications, outside tags, ambiguous pushes, crashes and new mirrors.
THEOREM TagsMatchRows == "untag" \notin Environment => (Spec => []TagMatchesRow)
<1> SUFFICES ASSUME "untag" \notin Environment PROVE Spec => []TagMatchesRow OBVIOUS
<1>1. AgreeInv => TagMatchesRow BY DEF AgreeInv
<1> QED BY Agreement, <1>1, PTL

\* While nobody removes tags, every answer that says a version is published is backed by a
\* row with the content that was to be published.
THEOREM AnswersAreRecorded == "untag" \notin Environment => (Spec => []AnswerIsRecorded)
<1> SUFFICES ASSUME "untag" \notin Environment PROVE Spec => []AnswerIsRecorded OBVIOUS
<1>1. AgreeInv => AnswerIsRecorded BY DEF AgreeInv, JobOK, Recorded, AnswerIsRecorded
<1> QED BY Agreement, <1>1, PTL

\* While nobody removes tags, every recorded version can be read from the mirror there is,
\* also from one cloned after the branch was rewritten or deleted.
THEOREM VersionsAreReadable == "untag" \notin Environment => (Spec => []VersionsStayReadable)
<1> SUFFICES ASSUME "untag" \notin Environment PROVE Spec => []VersionsStayReadable OBVIOUS
<1>1. AgreeInv => VersionsStayReadable
  BY DEF AgreeInv, RowsHere, RowInv, VersionsStayReadable, Readable
<1> QED BY Agreement, <1>1, PTL

-----------------------------------------------------------------------------
(* A heal restores what is recorded, also while tags are removed, as long as every *)
(* tag was made by a publication.                                                  *)

FreshSteps == {"remote", "local", "tag", "push", "judge", "record", "adopt"}

\* The mirror has every tag of the remote: it made them, or it cloned them.
OwnTags ==
    /\ mirrored => \A v \in Versions : remoteTag[v] # NoCommit => localTag[v] = remoteTag[v]
    /\ ~mirrored => \A v \in Versions : localTag[v] = NoCommit
RowTags ==
    \A v \in Versions : ledger[v] # NoRow => /\ remoteTag[v] \in {NoCommit, ledger[v].commit}
                                             /\ localTag[v] \in {NoCommit, ledger[v].commit}

\* What a publication has established when it stands at a step, in terms of local tags. A
\* row that appears beside a publication that found none has left its tag in the mirror.
RunsHere(s) == job[s].pc # "idle" => mirrored
Tagged(s) == job[s].pc \in FreshSteps /\ ledger[Version(s)] # NoRow
                 => localTag[Version(s)] # NoCommit
HeadTagged(s) == job[s].pc \in {"push", "judge", "record"} => localTag[Version(s)] = job[s].head
SeenTagged(s) == job[s].pc = "adopt" => /\ job[s].seen # NoCommit
                                        /\ localTag[Version(s)] = job[s].seen
JobTags(s) == RunsHere(s) /\ RowRead(s) /\ Tagged(s) /\ HeadTagged(s) /\ SeenTagged(s)

TagInv == TypeInv /\ OwnTags /\ RowTags /\ \A s \in Servers : JobTags(s)

LEMMA FetchKeepsTags ==
    ASSUME OwnTags, RowTags, FetchMirror, MirrorKept, UNCHANGED <<remoteTag, ledger>>
    PROVE  OwnTags' /\ RowTags'
<1>1. mirrored' /\ \A v \in Versions : localTag'[v] \in {localTag[v], remoteTag[v]}
  BY DEF FetchMirror
<1>2. ASSUME NEW v \in Versions, remoteTag[v] # NoCommit PROVE localTag'[v] = remoteTag[v]
  <2>1. CASE mirrored BY <1>2, <2>1 DEF OwnTags, FetchMirror
  <2>2. CASE ~mirrored
    <3>1. remoteTag[v] \in objects' /\ localTag[v] = NoCommit
      BY <1>1, <1>2, <2>2 DEF OwnTags, MirrorKept
    <3> QED BY <3>1 DEF FetchMirror
  <2> QED BY <2>1, <2>2
<1>3. OwnTags' BY <1>1, <1>2 DEF OwnTags
<1>4. RowTags' BY <1>1 DEF RowTags
<1> QED BY <1>3, <1>4

\* A row is recorded by a publication whose commit the mirror has tagged.
LEMMA NewRowTagged ==
    ASSUME TagInv, [Next]_vars
    PROVE  \/ ledger' = ledger
           \/ /\ UNCHANGED <<remoteTag, localTag, mirrored>>
              /\ \A v \in Versions :
                    \/ ledger'[v] = ledger[v]
                    \/ /\ mirrored /\ localTag[v] # NoCommit /\ ledger'[v].commit = localTag[v]
<1>0. /\ TypeInv /\ ledger \in [Versions -> Rows] BY DEF TagInv, TypeInv, TypeOK
<1>1. ASSUME NEW s \in Servers, NewRow(s), Record(s) \/ Adopt(s), ledger' # ledger
      PROVE  /\ UNCHANGED <<remoteTag, localTag, mirrored>>
             /\ \A v \in Versions :
                    \/ ledger'[v] = ledger[v]
                    \/ /\ mirrored /\ localTag[v] # NoCommit /\ ledger'[v].commit = localTag[v]
  <2>0. UNCHANGED <<remoteTag, localTag, mirrored>> BY <1>1 DEF Record, Adopt, Local, remote, mirror
  <2>1. JobTags(s) /\ job[s].pc # "idle" BY <1>1 DEF TagInv, NewRow
  <2>2. mirrored /\ job[s].head # NoCommit
    BY <1>0, <2>1, RunningHead DEF JobTags, RunsHere, NoCommit
  <2>3. CASE Record(s)
    <3>1. job[s].pc = "record" /\ Insert(Version(s), [digest |-> tree[job[s].head], commit |-> job[s].head])
      BY <2>3 DEF Record, Running
    <3>2. localTag[Version(s)] = job[s].head BY <2>1, <3>1 DEF JobTags, HeadTagged
    <3> QED BY <1>0, <2>0, <2>2, <3>1, <3>2 DEF Insert
  <2>4. CASE Adopt(s)
    <3>1. job[s].pc = "adopt" BY <2>4 DEF Adopt, Running
    <3>2. localTag[Version(s)] = job[s].seen /\ job[s].seen # NoCommit
      BY <2>1, <3>1 DEF JobTags, SeenTagged
    <3>3. job[s].seen \in objects /\ tree[job[s].seen] = tree[job[s].head]
      BY <1>1, <2>4 DEF Adopt
    <3>4. Insert(Version(s), [digest |-> tree[job[s].seen], commit |-> job[s].seen])
      BY <2>4, <3>3 DEF Adopt
    <3> QED BY <1>0, <2>0, <2>2, <3>2, <3>4 DEF Insert
  <2> QED BY <1>1, <2>3, <2>4
<1> QED BY <1>0, <1>1, LedgerMoves

\* What publication does to tags.
LEMMA PublishTags ==
    ASSUME TagInv, NEW s \in Servers, PublishStep(s), ledger' = ledger
    PROVE  OwnTags' /\ RowTags'
<1>0. /\ TypeInv /\ OwnTags /\ RowTags /\ JobTags(s)
      /\ localTag \in [Versions -> 0..pushed] /\ remoteTag \in [Versions -> 0..pushed]
  BY DEF TagInv, TypeInv, TypeOK, MirrorType, RemoteType
<1>1. job[s].pc # "idle" => Version(s) \in Versions /\ mirrored
  BY <1>0, RunningHead DEF JobTags, RunsHere
<1>2. ASSUME UNCHANGED <<remoteTag, localTag, mirrored>> PROVE OwnTags' /\ RowTags'
  BY <1>0, <1>2 DEF OwnTags, RowTags
<1>3. ASSUME job[s].pc # "idle", UNCHANGED <<remoteTag, mirrored>>, NEW c,
             localTag[Version(s)] = NoCommit, SetLocalTag(Version(s), c),
             ledger[Version(s)] # NoRow => c = ledger[Version(s)].commit
      PROVE  OwnTags' /\ RowTags'
  <2>1. remoteTag[Version(s)] = NoCommit BY <1>0, <1>1, <1>3 DEF OwnTags
  <2>2. \A v \in Versions : localTag'[v] = IF v = Version(s) THEN c ELSE localTag[v]
    BY <1>0, <1>3 DEF SetLocalTag
  <2>3. OwnTags' BY <1>0, <1>1, <1>3, <2>1, <2>2 DEF OwnTags
  <2>4. RowTags' BY <1>0, <1>3, <2>2 DEF RowTags
  <2> QED BY <2>3, <2>4
<1>4. CASE TagRow(s)
  <2>1. job[s].pc = "rowTag" /\ UNCHANGED <<remoteTag, mirrored>>
    BY <1>4 DEF TagRow, Running, Local, remote
  <2>2. job[s].row = ledger[Version(s)] BY <1>0, <2>1 DEF JobTags, RowRead, RowSteps
  <2>3. \/ UNCHANGED localTag
        \/ localTag[Version(s)] = NoCommit /\ SetLocalTag(Version(s), job[s].row.commit)
    BY <1>4 DEF TagRow, CanTag
  <2> QED BY <1>2, <1>3, <2>1, <2>2, <2>3
<1>5. CASE TagHead(s)
  <2>1. job[s].pc = "tag" /\ UNCHANGED <<remoteTag, mirrored>>
    BY <1>5 DEF TagHead, Running, Local, remote
  <2>2. \/ UNCHANGED localTag
        \/ localTag[Version(s)] = NoCommit /\ SetLocalTag(Version(s), job[s].head)
    BY <1>5 DEF TagHead, CanTag
  <2>3. localTag[Version(s)] = NoCommit => ledger[Version(s)] = NoRow
    BY <1>0, <2>1 DEF JobTags, Tagged, FreshSteps
  <2> QED BY <1>2, <1>3, <2>1, <2>2, <2>3
<1>6. CASE HealPush(s) \/ PushTag(s)
  <2>1. /\ job[s].pc # "idle" /\ UNCHANGED <<localTag, mirrored>>
        /\ TagPushed(Version(s)) \/ UNCHANGED remoteTag
    BY <1>6 DEF HealPush, PushTag, PushThrows, TagRefused, Running, PushFrame, mirror
  <2>2. CASE TagPushed(Version(s))
    <3>1. \A v \in Versions : remoteTag'[v] = IF v = Version(s) THEN localTag[v] ELSE remoteTag[v]
      BY <1>0, <2>2 DEF TagPushed
    <3>2. OwnTags' BY <1>0, <1>1, <2>1, <3>1 DEF OwnTags
    <3>3. RowTags' BY <1>0, <2>1, <3>1 DEF RowTags
    <3> QED BY <3>2, <3>3
  <2> QED BY <1>2, <2>1, <2>2
<1>7. CASE ~TagRow(s) /\ ~TagHead(s) /\ ~HealPush(s) /\ ~PushTag(s)
  <2>1. UNCHANGED <<remoteTag, localTag, mirrored>>
    BY <1>7 DEF PublishStep, ReadLedger, CheckRowTag, CheckRowLocal, HealJudge, CheckRemote,
              CheckLocal, JudgePush, Throw, Record, Adopt, Local, remote, mirror
  <2> QED BY <1>2, <2>1
<1> QED BY <1>4, <1>5, <1>6, <1>7

LEMMA TagsStep ==
    ASSUME "outside tag" \notin Environment, TagInv, [Next]_vars PROVE OwnTags' /\ RowTags'
<1>0. /\ TypeInv /\ OwnTags /\ RowTags /\ remoteTag \in [Versions -> 0..pushed]
      /\ NewMirror \/ MirrorKept
  BY MirrorIsKept DEF TagInv, TypeInv, TypeOK, RemoteType
<1>1. ASSUME UNCHANGED <<remoteTag, mirror, ledger>> PROVE OwnTags' /\ RowTags'
  BY <1>0, <1>1 DEF OwnTags, RowTags, mirror
<1>2. ASSUME FetchMirror, UNCHANGED <<remoteTag, ledger>> PROVE OwnTags' /\ RowTags'
  <2>1. mirrored' /\ (NewMirror => ~mirrored') BY <1>2 DEF FetchMirror, NewMirror
  <2> QED BY <1>0, <1>2, <2>1, FetchKeepsTags
<1>3. CASE ledger' # ledger
  <2>1. /\ UNCHANGED <<remoteTag, localTag, mirrored>>
        /\ \A v \in Versions :
              \/ ledger'[v] = ledger[v]
              \/ /\ mirrored /\ localTag[v] # NoCommit /\ ledger'[v].commit = localTag[v]
    BY <1>3, NewRowTagged
  <2>2. OwnTags' BY <1>0, <2>1 DEF OwnTags
  <2>3. RowTags' BY <1>0, <2>1 DEF RowTags, OwnTags
  <2> QED BY <2>2, <2>3
<1>4. ASSUME ledger' = ledger, NEW s \in Servers, PublishStep(s) PROVE OwnTags' /\ RowTags'
  BY <1>4, PublishTags
<1>5. ASSUME ledger' = ledger, NEW s \in Servers, Begin(s) \/ Read(s) \/ SyncFetch(s)
      PROVE  OwnTags' /\ RowTags'
  BY <1>1, <1>2, <1>5 DEF Begin, Read, SyncFetch, RefreshMirror, remote
<1>6. ASSUME ledger' = ledger, NEW s \in Servers, Deletion(s) \/ \E t \in Trees : Write(s, t)
      PROVE  OwnTags' /\ RowTags'
  BY <1>1, <1>2, <1>6 DEF Deletion, DeleteBegin, DeleteCheckTags, DeleteCheckRows, DeleteLease,
              DeleteBranch, DeleteRefused, DeleteFrame, Write, Push, remote
<1>7. ASSUME NEW s \in Servers, SyncRebuild(s) \/ WriteDone(s) \/ Crash(s)
      PROVE  OwnTags' /\ RowTags'
  BY <1>1, <1>7 DEF SyncRebuild, WriteDone, Crash, remote
<1>8. ASSUME (\E t \in Trees : OutsidePush(t) \/ OutsideRewrite(t)) \/ UNCHANGED vars
      PROVE  OwnTags' /\ RowTags'
  BY <1>1, <1>8 DEF OutsidePush, OutsideRewrite, Outside, Push, vars, remote
<1>9. ASSUME NEW v \in Versions, OutsideTag(v) \/ OutsideUntag(v) PROVE OwnTags' /\ RowTags'
  <2>1. OutsideUntag(v) BY <1>9 DEF OutsideTag
  <2>2. /\ \A w \in Versions : remoteTag'[w] = IF w = v THEN NoCommit ELSE remoteTag[w]
        /\ UNCHANGED <<localTag, mirrored, ledger>>
    BY <1>0, <2>1 DEF OutsideUntag, Outside, mirror
  <2>3. OwnTags' BY <1>0, <2>2 DEF OwnTags
  <2>4. RowTags' BY <1>0, <2>2 DEF RowTags
  <2> QED BY <2>3, <2>4
<1>10. CASE NewMirror
  <2>1. /\ mirrored' = FALSE /\ localTag' = [v \in Versions |-> NoCommit]
        /\ UNCHANGED <<remoteTag, ledger>>
    BY <1>10 DEF NewMirror, remote
  <2> QED BY <1>0, <2>1 DEF OwnTags, RowTags
<1> QED BY <1>3, <1>4, <1>5, <1>6, <1>7, <1>8, <1>9, <1>10 DEF Next

\* A job that does not move keeps its tags: rows are final, and a mirror that is in use
\* never moves a tag.
LEMMA JobTagsKept ==
    ASSUME TagInv, [Next]_vars, NEW s \in Servers, job'[s] = job[s] PROVE JobTags(s)'
<1>0. /\ TypeInv /\ JobTags(s) /\ CommitsKept /\ RowsKept /\ pushed \in Nat
      /\ NewMirror \/ MirrorKept
  BY NextTyped, RowsAreKept, MirrorIsKept DEF TagInv, TypeInv, TypeOK, RepositoryType
<1>1. CASE job[s].pc # "idle"
  <2>1. /\ job[s].head \in 1..pushed /\ Version(s) \in Versions
        /\ Version(s)' = Version(s) /\ tree'[job[s].head] = tree[job[s].head]
    BY <1>0, <1>1 DEF TypeInv, HeadOK, CommitsKept, Version
  <2>2. MirrorKept BY <1>0, <1>1 DEF NewMirror, Running
  <2>3. RunsHere(s)' BY <1>0, <1>1, <2>2 DEF JobTags, RunsHere, MirrorKept
  <2>4. RowRead(s)' BY <1>0, <2>1 DEF JobTags, RowRead, RowsKept
  <2>5. ledger'[Version(s)] # NoRow =>
            ledger[Version(s)] # NoRow \/ localTag[Version(s)] # NoCommit
    BY <2>1, NewRowTagged
  <2>6. Tagged(s)' BY <1>0, <2>1, <2>2, <2>5 DEF JobTags, Tagged, MirrorKept
  <2>7. HeadTagged(s)' BY <1>0, <2>1, <2>2 DEF JobTags, HeadTagged, MirrorKept, NoCommit
  <2>8. SeenTagged(s)' BY <1>0, <2>1, <2>2 DEF JobTags, SeenTagged, MirrorKept
  <2> QED BY <2>3, <2>4, <2>6, <2>7, <2>8 DEF JobTags
<1>2. CASE job[s].pc = "idle"
  BY <1>2 DEF JobTags, RunsHere, RowRead, RowSteps, Tagged, FreshSteps, HeadTagged, SeenTagged
<1> QED BY <1>1, <1>2

\* A job that answers, or that begins at the ledger, has nothing to establish but its mirror.
LEMMA FreshJobTags ==
    ASSUME NEW s \in Servers, job'[s].pc \in {"idle", "ledger"}, job'[s].pc = "ledger" => mirrored'
    PROVE  JobTags(s)'
BY DEF JobTags, RunsHere, RowRead, RowSteps, Tagged, FreshSteps, HeadTagged, SeenTagged

\* A publication that goes on must have established what its next step relies on.
LEMMA GotoTags ==
    ASSUME TagInv, NEW s \in Servers, UNCHANGED <<repository, mirrored, ledger>>,
           job[s].pc # "idle", NEW step \in Steps, Goto(s, step),
           step \in RowSteps => job[s].pc \in RowSteps,
           step # "adopt",
           step \in FreshSteps /\ ledger[Version(s)] # NoRow => localTag'[Version(s)] # NoCommit,
           step \in {"push", "judge", "record"} => localTag'[Version(s)] = job[s].head
    PROVE  JobTags(s)'
<1>1. job \in [Servers -> Jobs] /\ JobTags(s) BY DEF TagInv, TypeInv, TypeOK
<1>2. /\ job'[s].pc = step /\ job'[s].head = job[s].head /\ job'[s].row = job[s].row
      /\ tree' = tree
  BY <1>1 DEF Goto, Jobs, repository
<1>3. Version(s)' = Version(s) BY <1>2 DEF Version
<1>4. RunsHere(s)' /\ RowRead(s)' BY <1>1, <1>2, <1>3 DEF JobTags, RunsHere, RowRead
<1>5. Tagged(s)' BY <1>2, <1>3 DEF Tagged
<1>6. HeadTagged(s)' /\ SeenTagged(s)' BY <1>2, <1>3 DEF HeadTagged, SeenTagged
<1> QED BY <1>4, <1>5, <1>6 DEF JobTags

LEMMA PublishJobTags ==
    ASSUME TagInv, NEW s \in Servers, PublishStep(s) PROVE JobTags(s)'
<1> USE DEF Running
<1>0. TypeInv /\ OwnTags /\ JobTags(s) BY DEF TagInv
<1>1. /\ UNCHANGED repository /\ job \in [Servers -> Jobs]
      /\ localTag \in [Versions -> 0..pushed] /\ remoteTag \in [Versions -> 0..pushed]
  BY <1>0, PublishStepTypes DEF PublishTypes, TypeInv, TypeOK, MirrorType, RemoteType
<1>2. job[s].pc # "idle" => /\ Version(s) \in Versions /\ job[s].head \in 1..pushed
                            /\ mirrored
  BY <1>0, RunningHead DEF JobTags, RunsHere
<1>3. ASSUME NEW o, Answer(s, o) PROVE JobTags(s)'
  <2>1. job'[s].pc = "idle" BY <1>1, <1>3 DEF Answer, Idle
  <2> QED BY <2>1, FreshJobTags
<1>4. ASSUME job[s].pc \in RowSteps, UNCHANGED <<mirrored, ledger>>,
             NEW step \in {"rowLocal", "rowTag", "healPush", "healJudge"}, Goto(s, step)
      PROVE  JobTags(s)'
  <2>1. step \in Steps /\ step \notin FreshSteps BY DEF Steps, FreshSteps
  <2>2. job[s].pc # "idle" BY <1>4 DEF RowSteps
  <2> QED BY <1>1, <1>4, <2>1, <2>2, GotoTags DEF FreshSteps
<1>5. CASE ReadLedger(s)
  <2>1. job[s].pc # "idle" /\ UNCHANGED <<mirrored, ledger>> BY <1>5 DEF ReadLedger, mirror
  <2>2. CASE ledger[Version(s)] = NoRow /\ Goto(s, "remote")
    BY <1>1, <2>1, <2>2, GotoTags DEF Steps, RowSteps
  <2>3. CASE Answer(s, "exists") BY <1>3, <2>3
  <2>4. CASE /\ ledger[Version(s)] # NoRow /\ ledger[Version(s)].digest = tree[job[s].head]
             /\ job' = [job EXCEPT ![s].pc = "rowRemote", ![s].row = ledger[Version(s)]]
    <3>1. /\ job'[s].pc = "rowRemote" /\ job'[s].row = ledger[Version(s)]
          /\ job'[s].head = job[s].head /\ tree' = tree
      BY <1>1, <2>4 DEF Jobs, repository
    <3>2. Version(s)' = Version(s) BY <3>1 DEF Version
    <3>3. RunsHere(s)' BY <1>2, <2>1 DEF RunsHere
    <3>4. RowRead(s)' BY <2>1, <2>4, <3>1, <3>2 DEF RowRead
    <3> QED BY <3>1, <3>3, <3>4 DEF JobTags, Tagged, FreshSteps, HeadTagged, SeenTagged
  <2> QED BY <1>5, <2>2, <2>3, <2>4 DEF ReadLedger
<1>6. CASE CheckRowTag(s) \/ CheckRowLocal(s) \/ HealJudge(s)
  <2>1. job[s].pc \in RowSteps /\ UNCHANGED <<mirrored, ledger>>
    BY <1>6 DEF CheckRowTag, CheckRowLocal, HealJudge, RowSteps, mirror
  <2>2. \/ \E step \in {"rowLocal", "rowTag", "healPush", "healJudge"} : Goto(s, step)
        \/ \E o \in Outcomes : Answer(s, o)
    BY <1>6 DEF CheckRowTag, CheckRowLocal, HealJudge, Outcomes, Published
  <2> QED BY <1>3, <1>4, <2>1, <2>2
<1>7. CASE TagRow(s)
  <2>1. job[s].pc \in RowSteps /\ UNCHANGED <<mirrored, ledger>> /\ Goto(s, "healPush")
    BY <1>7 DEF TagRow, RowSteps
  <2> QED BY <1>4, <2>1
<1>8. CASE HealPush(s)
  <2>1. job[s].pc \in RowSteps /\ UNCHANGED <<mirrored, ledger>>
    BY <1>8 DEF HealPush, PushFrame, RowSteps, mirror
  <2>2. Answer(s, "healed") \/ Goto(s, "healJudge") BY <1>8 DEF HealPush
  <2> QED BY <1>3, <1>4, <2>1, <2>2
<1>9. CASE CheckRemote(s)
  <2> DEFINE c == remoteTag[Version(s)]
  <2>1. job[s].pc = "remote" /\ UNCHANGED <<localTag, mirrored, ledger>>
    BY <1>9 DEF CheckRemote, mirror
  <2>2. /\ job'[s].pc = (IF c = NoCommit THEN "local" ELSE "adopt") /\ job'[s].seen = c
        /\ job'[s].head = job[s].head /\ tree' = tree
    BY <1>1, <1>9 DEF CheckRemote, Jobs, repository
  <2>3. Version(s)' = Version(s) BY <2>2 DEF Version
  <2>4. RunsHere(s)' BY <1>2, <2>1 DEF RunsHere
  <2>5. Tagged(s)' BY <1>0, <2>1, <2>2, <2>3 DEF JobTags, Tagged, FreshSteps
  <2>6. c # NoCommit => localTag[Version(s)] = c BY <1>0, <1>2, <2>1 DEF OwnTags
  <2>7. SeenTagged(s)' BY <2>1, <2>2, <2>3, <2>6 DEF SeenTagged
  <2> QED BY <2>2, <2>4, <2>5, <2>7 DEF JobTags, RowRead, RowSteps, HeadTagged
<1>10. CASE CheckLocal(s)
  <2>1. job[s].pc = "local" /\ UNCHANGED <<localTag, mirrored, ledger>>
    BY <1>10 DEF CheckLocal, mirror
  <2>2. ledger[Version(s)] # NoRow => localTag[Version(s)] # NoCommit
    BY <1>0, <2>1 DEF JobTags, Tagged, FreshSteps
  <2>3. CASE Goto(s, "tag") BY <1>1, <2>1, <2>2, <2>3, GotoTags DEF Steps, RowSteps
  <2>4. CASE localTag[Version(s)] = job[s].head /\ Goto(s, "push")
    BY <1>1, <2>1, <2>2, <2>4, GotoTags DEF Steps, RowSteps
  <2>5. CASE Answer(s, "exists") BY <1>3, <2>5
  <2> QED BY <1>10, <2>3, <2>4, <2>5 DEF CheckLocal
<1>11. CASE TagHead(s)
  <2>1. job[s].pc # "idle" /\ UNCHANGED <<mirrored, ledger>> BY <1>11 DEF TagHead
  <2>2. CASE SetLocalTag(Version(s), job[s].head) /\ Goto(s, "push")
    <3>1. localTag'[Version(s)] = job[s].head /\ job[s].head # NoCommit
      BY <1>1, <1>2, <2>1, <2>2 DEF SetLocalTag, NoCommit
    <3> QED BY <1>1, <2>1, <2>2, <3>1, GotoTags DEF Steps, RowSteps
  <2>3. CASE Answer(s, "error") BY <1>3, <2>3
  <2> QED BY <1>11, <2>2, <2>3 DEF TagHead
<1>12. CASE PushTag(s) \/ JudgePush(s)
  <2>1. job[s].pc \in {"push", "judge"} /\ UNCHANGED <<localTag, mirrored, ledger>>
    BY <1>12 DEF PushTag, JudgePush, PushFrame, mirror
  <2>2. localTag[Version(s)] = job[s].head /\ job[s].head # NoCommit
    BY <1>0, <1>2, <2>1 DEF JobTags, HeadTagged, NoCommit
  <2>3. ASSUME NEW step \in {"record", "judge"}, Goto(s, step) PROVE JobTags(s)'
    BY <1>1, <2>1, <2>2, <2>3, GotoTags DEF Steps, RowSteps
  <2>4. \/ \E step \in {"record", "judge"} : Goto(s, step)
        \/ \E o \in Outcomes : Answer(s, o)
    BY <1>12 DEF PushTag, JudgePush, Outcomes, Published
  <2> QED BY <1>3, <2>3, <2>4
<1>13. CASE Record(s) \/ Adopt(s) \/ Throw(s)
  <2>1. \E o : Answer(s, o) BY <1>13 DEF Record, Adopt, Throw
  <2> QED BY <1>3, <2>1
<1> QED BY <1>5, <1>6, <1>7, <1>8, <1>9, <1>10, <1>11, <1>12, <1>13 DEF PublishStep

LEMMA JobTagsStep ==
    ASSUME TagInv, [Next]_vars, NEW s \in Servers PROVE JobTags(s)'
<1>0. /\ TypeInv /\ job \in [Servers -> Jobs] BY DEF TagInv, TypeInv, TypeOK
<1>1. ASSUME job'[s] = job[s] PROVE JobTags(s)' BY <1>1, JobTagsKept
<1>2. ASSUME PublishStep(s) PROVE JobTags(s)' BY <1>2, PublishJobTags
<1>3. ASSUME NEW q \in Servers \ {s}, PublishStep(q) PROVE JobTags(s)'
  BY <1>0, <1>1, <1>3, PublishStepTypes DEF JobMoves
<1>4. ASSUME Begin(s) PROVE JobTags(s)'
  <2>1. job'[s].pc \in {"idle", "ledger"} BY <1>0, <1>4 DEF Begin, Idle
  <2>2. mirrored' BY <1>4 DEF Begin, RefreshMirror, FetchMirror, mirror
  <2> QED BY <2>1, <2>2, FreshJobTags
<1>5. ASSUME Crash(s) PROVE JobTags(s)'
  <2>1. job'[s].pc = "idle" BY <1>0, <1>5 DEF Crash, Idle
  <2> QED BY <2>1, FreshJobTags
<1>6. ASSUME NEW q \in Servers \ {s}, Begin(q) \/ Crash(q) PROVE JobTags(s)'
  BY <1>0, <1>1, <1>6 DEF Begin, Crash
<1>7. ASSUME NEW q \in Servers,
             \/ Read(q) \/ SyncFetch(q) \/ SyncRebuild(q) \/ WriteDone(q) \/ Deletion(q)
             \/ \E t \in Trees : Write(q, t)
      PROVE  JobTags(s)'
  <2>1. job' = job
    BY <1>7 DEF Read, SyncFetch, SyncRebuild, WriteDone, Deletion, DeleteBegin, DeleteCheckTags,
                DeleteCheckRows, DeleteLease, DeleteBranch, DeleteRefused, DeleteFrame, Write
  <2> QED BY <1>1, <2>1
<1>8. ASSUME \/ NewMirror \/ \E t \in Trees : OutsidePush(t) \/ OutsideRewrite(t)
             \/ \E v \in Versions : OutsideTag(v) \/ OutsideUntag(v)
             \/ UNCHANGED vars
      PROVE  JobTags(s)'
  <2>1. job' = job
    BY <1>8 DEF NewMirror, OutsidePush, OutsideRewrite, OutsideTag, OutsideUntag, Outside, vars, service
  <2> QED BY <1>1, <2>1
<1> QED BY <1>2, <1>3, <1>4, <1>5, <1>6, <1>7, <1>8 DEF Next

\* The step that answers "healed" pushed a tag of the recorded commit.
LEMMA HealedTag ==
    ASSUME TagInv, [Next]_vars, NEW s \in Servers,
           job'[s].outcome = "healed", job[s].outcome # "healed"
    PROVE  remoteTag'[Version(s)] = ledger[Version(s)].commit
<1>0. /\ TypeInv /\ RowTags /\ JobTags(s) /\ job \in [Servers -> Jobs]
      /\ remoteTag \in [Versions -> 0..pushed]
  BY DEF TagInv, TypeInv, TypeOK, RemoteType
<1>1. PublishStep(s)
  <2>1. job'[s] # job[s] OBVIOUS
  <2>2. ~Begin(s) /\ ~Crash(s) BY <1>0 DEF Begin, Crash, Idle
  <2>3. ASSUME NEW q \in Servers \ {s} PROVE ~Begin(q) /\ ~Crash(q) /\ ~PublishStep(q)
    BY <1>0, <2>1, PublishStepTypes DEF Begin, Crash, JobMoves
  <2>4. ASSUME NEW q \in Servers
        PROVE  ~(\/ Read(q) \/ SyncFetch(q) \/ SyncRebuild(q) \/ WriteDone(q) \/ Deletion(q)
                 \/ \E t \in Trees : Write(q, t))
    BY <2>1 DEF Read, SyncFetch, SyncRebuild, WriteDone, Deletion, DeleteBegin, DeleteCheckTags,
                DeleteCheckRows, DeleteLease, DeleteBranch, DeleteRefused, DeleteFrame, Write
  <2>5. ~(\/ NewMirror \/ \E t \in Trees : OutsidePush(t) \/ OutsideRewrite(t)
          \/ \E v \in Versions : OutsideTag(v) \/ OutsideUntag(v)
          \/ UNCHANGED vars)
    BY <2>1 DEF NewMirror, OutsidePush, OutsideRewrite, OutsideTag, OutsideUntag, Outside, vars, service
  <2> QED BY <2>2, <2>3, <2>4, <2>5 DEF Next
<1>2. ASSUME NEW o, o # "healed", Answer(s, o) PROVE FALSE BY <1>0, <1>2 DEF Answer, Idle
<1>3. ASSUME NEW step, Goto(s, step) PROVE FALSE BY <1>0, <1>3 DEF Goto, Jobs
<1>4. ~ReadLedger(s) /\ ~CheckRemote(s)
  BY <1>0, <1>2, <1>3 DEF ReadLedger, CheckRemote, Jobs
<1>5. ~CheckRowTag(s) /\ ~CheckRowLocal(s) /\ ~TagRow(s) /\ ~HealJudge(s) /\ ~CheckLocal(s)
  BY <1>2, <1>3 DEF CheckRowTag, CheckRowLocal, TagRow, HealJudge, CheckLocal
<1>6. ~TagHead(s) /\ ~PushTag(s) /\ ~JudgePush(s) /\ ~Throw(s)
  BY <1>2, <1>3 DEF TagHead, PushTag, JudgePush, Throw
<1>7. ~Record(s) /\ ~Adopt(s)
  BY <1>2 DEF Record, Adopt
<1>8. HealPush(s) BY <1>1, <1>4, <1>5, <1>6, <1>7 DEF PublishStep
<1>9. job[s].pc = "healPush" /\ TagPushed(Version(s)) BY <1>3, <1>8 DEF HealPush, Running
<1>10. Version(s) \in Versions /\ ledger[Version(s)] # NoRow
  BY <1>0, <1>9, RunningHead DEF JobTags, RowRead, RowSteps
<1> QED BY <1>0, <1>9, <1>10 DEF TagPushed, RowTags

LEMMA InitTagged == Init => TagInv
<1> SUFFICES ASSUME Init PROVE TagInv OBVIOUS
<1>1. TypeInv BY InitTyped
<1>2. OwnTags /\ RowTags BY DEF Init, OwnTags, RowTags
<1>3. \A s \in Servers : JobTags(s)
  BY DEF Init, Idle, JobTags, RunsHere, RowRead, RowSteps, Tagged, FreshSteps, HeadTagged, SeenTagged
<1> QED BY <1>1, <1>2, <1>3 DEF TagInv

\* As long as nobody outside the service makes version tags, a heal puts the recorded
\* commit back and nothing else (publish.js:115), however many processes publish, fail and
\* crash beside it, whoever removes tags, and whatever mirror it runs in.
THEOREM HealsRestore == "outside tag" \notin Environment => (Spec => HealRestores)
<1> SUFFICES ASSUME "outside tag" \notin Environment PROVE Spec => HealRestores OBVIOUS
<1>1. TagInv /\ [Next]_vars => TagInv'
  <2> SUFFICES ASSUME TagInv, [Next]_vars PROVE TagInv' OBVIOUS
  <2>1. TypeInv' BY NextTyped DEF TagInv
  <2>2. OwnTags' /\ RowTags' BY TagsStep
  <2>3. \A s \in Servers : JobTags(s)' BY JobTagsStep
  <2> QED BY <2>1, <2>2, <2>3 DEF TagInv
<1>2. TagInv /\ [Next]_vars => [\A s \in Servers :
         job'[s].outcome = "healed" /\ job[s].outcome # "healed" =>
            LET v == VersionOf[tree[job[s].head]] IN remoteTag'[v] = ledger[v].commit]_vars
  BY HealedTag DEF Version
<1> QED BY InitTagged, <1>1, <1>2, PTL DEF Spec, HealRestores

=============================================================================
