---------------------------- MODULE PublishLedger ----------------------------
(***************************************************************************)
(* Publication of one spec: the canonical branch and the version tags of   *)
(* the remote repository, the service's mirror with its local tags, the    *)
(* ledger, and the processes that publish, synchronise, read versions and  *)
(* delete the spec while outsiders push to the same repository.            *)
(*                                                                         *)
(* src/src/service/publish.js, versioned.js, sync.js (reconcileOnce),      *)
(* spec-branches.js (deleteCanonical), and what they use of mounts.js,     *)
(* spec-checkouts.js and ledger.js.                                        *)
(*                                                                         *)
(* A tree stands for the spec directory's tree hash; the authored Status   *)
(* and Version are part of the tree.  Processes share one data directory:  *)
(* the mirror and the ledger (a replaced container drains beside its       *)
(* successor; SKILL.md:136 forbids replicas only while projection is on).  *)
(***************************************************************************)
EXTENDS Naturals

CONSTANTS
    Trees,         \* contents of the spec directory
    Active,        \* the trees whose README says Status: ACTIVE
    Versions,      \* version names that are ref-safe
    VersionOf,     \* the authored Version of a tree
    Servers,       \* service processes
    Environment,   \* what others do in this instance
    MaxCommits,    \* bound: commits on the canonical branch
    MaxErrors,     \* bound: failed network commands
    MaxCrashes     \* bound: process crashes

Commits == 1..MaxCommits
NoCommit == 0
NoTree == "no tree"
Unpublishable == {"no version", "unsafe version"}

EnvironmentSteps == {"write", "outside push", "rewrite", "outside tag", "untag",
                     "new mirror", "read", "sync", "delete"}

ASSUME TreesAssumption == /\ Active \subseteq Trees
                          /\ NoTree \notin Trees
                          /\ VersionOf \in [Trees -> Versions \cup Unpublishable]
ASSUME VersionsAssumption == Versions \cap Unpublishable = {}
ASSUME BoundsAssumption == /\ MaxCommits \in Nat
                           /\ MaxErrors \in Nat
                           /\ MaxCrashes \in Nat
                           /\ Environment \subseteq EnvironmentSteps

NoRow == [digest |-> NoTree, commit |-> NoCommit]
Rows == [digest : Trees, commit : Commits] \cup {NoRow}

VARIABLES
    pushed,     \* number of commits made so far
    tree,       \* the tree of each commit
    past,       \* the commits reachable from each commit
    remoteTip,  \* the spec's branch in the remote repository
    remoteTag,  \* per version, the commit its remote tag peels to
    mirrored,   \* mirror.git exists
    mirrorTip,  \* refs/remotes/origin/spec-<slug> in the mirror
    objects,    \* the commits whose objects the mirror has
    localTag,   \* per version, the commit the mirror's own tag peels to
    ledger,     \* per version, the ledger row
    job,        \* per process, the publishSpecNow that runs, or its answer
    owed,       \* per process, publications it has been asked for
    cached,     \* per process, the tip its project root was built from
    sync,       \* per process, where reconcileOnce stands
    writer,     \* per process, the call that holds the project's write lock
    errors, crashes

repository == <<pushed, tree, past>>
remote == <<remoteTip, remoteTag>>
mirror == <<mirrored, mirrorTip, objects, localTag>>
service == <<job, owed, cached, sync, writer>>
bounds == <<errors, crashes>>
vars == <<repository, remote, mirror, ledger, service, bounds>>

Steps == {"idle", "ledger", "rowRemote", "rowLocal", "rowTag", "healPush", "healJudge",
          "remote", "local", "tag", "push", "judge", "record", "adopt"}
Published == {"noop", "healed", "published", "adopted"}
Outcomes == Published \cup {"none", "skipped", "invalid", "exists", "heal-failed", "error"}

Idle(o, h) == [pc |-> "idle", head |-> h, row |-> NoRow, seen |-> NoCommit, outcome |-> o]
NoWriter == [pc |-> "idle", tip |-> NoCommit]

Init ==
    /\ pushed = 0
    /\ tree = [c \in Commits |-> NoTree]
    /\ past = [c \in Commits |-> {}]
    /\ remoteTip = NoCommit
    /\ remoteTag = [v \in Versions |-> NoCommit]
    /\ mirrored = FALSE
    /\ mirrorTip = NoCommit
    /\ objects = {}
    /\ localTag = [v \in Versions |-> NoCommit]
    /\ ledger = [v \in Versions |-> NoRow]
    /\ job = [s \in Servers |-> Idle("none", NoCommit)]
    /\ owed = [s \in Servers |-> TRUE]
    /\ cached = [s \in Servers |-> NoCommit]
    /\ sync = [s \in Servers |-> "idle"]
    /\ writer = [s \in Servers |-> NoWriter]
    /\ errors = 0
    /\ crashes = 0

----------------------------------------------------------------------------
(* Commits and the mirror. *)

\* A commit of tree t whose history is h; the branch now points at it.
Push(t, h) ==
    /\ pushed < MaxCommits
    /\ pushed' = pushed + 1
    /\ tree' = [tree EXCEPT ![pushed'] = t]
    /\ past' = [past EXCEPT ![pushed'] = h \cup {pushed'}]
    /\ remoteTip' = pushed'
    /\ UNCHANGED remoteTag

History(c) == IF c = NoCommit THEN {} ELSE past'[c]

\* Mutant: git clone --no-tags.
FetchWithoutTags ==
    /\ mirrored' = TRUE
    /\ mirrorTip' = remoteTip'
    /\ objects' = objects \cup History(remoteTip')
    /\ UNCHANGED localTag

\* ensureMirror: a clone copies every tag with its objects; a fetch follows only the
\* tags of objects it has, and never moves a tag the mirror already has.
FetchMirror ==
    /\ mirrored' = TRUE
    /\ mirrorTip' = remoteTip'
    /\ objects' = objects \cup History(remoteTip')
                    \cup IF mirrored THEN {} ELSE UNION {History(remoteTag[v]) : v \in Versions}
    /\ localTag' = [v \in Versions |->
                      IF localTag[v] = NoCommit /\ remoteTag[v] \in objects'
                        THEN remoteTag[v] ELSE localTag[v]]

Fails == errors < MaxErrors /\ errors' = errors + 1

\* ensureDescriptor: a mirror that cannot be refreshed is used as it is.
RefreshMirror ==
    \/ FetchMirror /\ UNCHANGED errors
    \/ mirrored /\ Fails /\ UNCHANGED mirror

----------------------------------------------------------------------------
(* publishSpecNow; the promise chain of publishSpec makes it one per process. *)

Version(s) == VersionOf[tree[job[s].head]]

Goto(s, step) == job' = [job EXCEPT ![s].pc = step]
Answer(s, o) == job' = [job EXCEPT ![s] = Idle(o, job[s].head)]

Running(s, step) == job[s].pc = step

Begin(s) ==
    /\ Running(s, "idle")
    /\ UNCHANGED <<repository, remote>>
    /\ RefreshMirror
    /\ owed' = [owed EXCEPT ![s] = FALSE]
    /\ LET h == mirrorTip' IN
         job' = [job EXCEPT ![s] =
           IF h = NoCommit \/ (h # NoCommit /\ tree[h] \notin Active) THEN Idle("skipped", h)
           ELSE IF VersionOf[tree[h]] \notin Versions THEN Idle("invalid", h)
           ELSE [Idle("none", h) EXCEPT !.pc = "ledger"]]
    /\ UNCHANGED <<ledger, cached, sync, writer, crashes>>

Local == UNCHANGED <<repository, remote, owed, cached, sync, writer, crashes>>

\* Mutant: a row is taken as proof whatever its digest.
ReadLedgerUnchecked(s) ==
    /\ Running(s, "ledger")
    /\ LET row == ledger[Version(s)] IN
         \/ row = NoRow /\ Goto(s, "remote")
         \/ row # NoRow /\ job' = [job EXCEPT ![s].pc = "rowRemote", ![s].row = row]
    /\ UNCHANGED <<ledger, mirror, errors>> /\ Local

ReadLedger(s) ==
    /\ Running(s, "ledger")
    /\ LET row == ledger[Version(s)] IN
         \/ row = NoRow /\ Goto(s, "remote")
         \/ row # NoRow /\ row.digest # tree[job[s].head] /\ Answer(s, "exists")
         \/ /\ row # NoRow /\ row.digest = tree[job[s].head]
            /\ job' = [job EXCEPT ![s].pc = "rowRemote", ![s].row = row]
    /\ UNCHANGED <<ledger, mirror, errors>> /\ Local

\* The version is recorded with this content: its remote tag is there, gone or elsewhere.
CheckRowTag(s) ==
    /\ Running(s, "rowRemote")
    /\ LET c == remoteTag[Version(s)] IN
         \/ c = job[s].row.commit /\ Answer(s, "noop")
         \/ c \notin {NoCommit, job[s].row.commit} /\ Answer(s, "exists")
         \/ c = NoCommit /\ Goto(s, "rowLocal")
    /\ UNCHANGED <<ledger, mirror, errors>> /\ Local

CheckRowLocal(s) ==
    /\ Running(s, "rowLocal")
    /\ LET c == localTag[Version(s)] IN
         \/ c = NoCommit /\ Goto(s, "rowTag")
         \/ c = job[s].row.commit /\ Goto(s, "healPush")
         \/ c \notin {NoCommit, job[s].row.commit} /\ Answer(s, "exists")
    /\ UNCHANGED <<ledger, mirror, errors>> /\ Local

\* git tag; it fails when the tag exists by now or the commit's objects are not here.
CanTag(v, c) == localTag[v] = NoCommit /\ c \in objects
SetLocalTag(v, c) == localTag' = [localTag EXCEPT ![v] = c]

\* Mutant: the tag is put back at the present head.
TagPresentHead(s) ==
    /\ Running(s, "rowTag")
    /\ IF CanTag(Version(s), mirrorTip)
         THEN SetLocalTag(Version(s), mirrorTip)
         ELSE UNCHANGED localTag
    /\ Goto(s, "healPush")
    /\ UNCHANGED <<ledger, mirrored, mirrorTip, objects, errors>> /\ Local

\* The error of this git tag is swallowed.
TagRow(s) ==
    /\ Running(s, "rowTag")
    /\ IF CanTag(Version(s), job[s].row.commit)
         THEN SetLocalTag(Version(s), job[s].row.commit)
         ELSE UNCHANGED localTag
    /\ Goto(s, "healPush")
    /\ UNCHANGED <<ledger, mirrored, mirrorTip, objects, errors>> /\ Local

\* git push <tag>:<tag> never moves a remote tag: another tag object, even of the same
\* commit, is refused.
TagPushed(v) ==
    /\ localTag[v] # NoCommit
    /\ remoteTag[v] \in {NoCommit, localTag[v]}
    /\ remoteTag' = [remoteTag EXCEPT ![v] = localTag[v]]
TagRefused(v) == (localTag[v] = NoCommit \/ remoteTag[v] # NoCommit) /\ UNCHANGED remoteTag

\* What the caller sees as an error: a refusal, or a failure before or after the
\* remote took the tag.
PushThrows(v) ==
    \/ TagRefused(v) /\ UNCHANGED errors
    \/ Fails /\ (UNCHANGED remoteTag \/ TagPushed(v))

PushFrame == UNCHANGED <<repository, remoteTip, mirror, ledger, owed, cached, sync,
                         writer, crashes>>

HealPush(s) ==
    /\ Running(s, "healPush")
    /\ \/ TagPushed(Version(s)) /\ UNCHANGED errors /\ Answer(s, "healed")
       \/ PushThrows(Version(s)) /\ Goto(s, "healJudge")
    /\ PushFrame

HealJudge(s) ==
    /\ Running(s, "healJudge")
    /\ LET winner == remoteTag[Version(s)] IN
         \/ winner = job[s].row.commit /\ Answer(s, "noop")
         \/ winner = NoCommit /\ Answer(s, "heal-failed")
         \/ winner \notin {NoCommit, job[s].row.commit} /\ Answer(s, "exists")
    /\ UNCHANGED <<ledger, mirror, errors>> /\ Local

\* No row: does the remote have the tag?
CheckRemote(s) ==
    /\ Running(s, "remote")
    /\ LET c == remoteTag[Version(s)] IN
         job' = [job EXCEPT ![s].pc = IF c = NoCommit THEN "local" ELSE "adopt",
                            ![s].seen = c]
    /\ UNCHANGED <<ledger, mirror, errors>> /\ Local

\* A tag left by a failed push must be of this very commit.
CheckLocal(s) ==
    /\ Running(s, "local")
    /\ LET c == localTag[Version(s)] IN
         \/ c = NoCommit /\ Goto(s, "tag")
         \/ c = job[s].head /\ Goto(s, "push")
         \/ c \notin {NoCommit, job[s].head} /\ Answer(s, "exists")
    /\ UNCHANGED <<ledger, mirror, errors>> /\ Local

TagHead(s) ==
    /\ Running(s, "tag")
    /\ IF CanTag(Version(s), job[s].head)
         THEN SetLocalTag(Version(s), job[s].head) /\ Goto(s, "push")
         ELSE UNCHANGED localTag /\ Answer(s, "error")
    /\ UNCHANGED <<ledger, mirrored, mirrorTip, objects, errors>> /\ Local

PushTag(s) ==
    /\ Running(s, "push")
    /\ \/ TagPushed(Version(s)) /\ UNCHANGED errors /\ Goto(s, "record")
       \/ PushThrows(Version(s)) /\ Goto(s, "judge")
    /\ PushFrame

JudgePush(s) ==
    /\ Running(s, "judge")
    /\ LET winner == remoteTag[Version(s)] IN
         \/ winner = job[s].head /\ Goto(s, "record")
         \/ winner = NoCommit /\ Answer(s, "error")
         \/ winner \notin {NoCommit, job[s].head} /\ Answer(s, "exists")
    /\ UNCHANGED <<ledger, mirror, errors>> /\ Local

\* insertLedgerIfAbsent: the row that is there wins.
Insert(v, row) == ledger' = IF ledger[v] = NoRow THEN [ledger EXCEPT ![v] = row] ELSE ledger

\* Mutant: the tip is read again for the row.
RecordLatest(s) ==
    /\ Running(s, "record")
    /\ LET v == Version(s)
           digest == tree[job[s].head] IN
         /\ Insert(v, [digest |-> digest, commit |-> mirrorTip])
         /\ Answer(s, IF ledger[v] = NoRow THEN "published"
                      ELSE IF ledger[v].digest = digest THEN "noop" ELSE "exists")
    /\ UNCHANGED <<mirror, errors>> /\ Local

Record(s) ==
    /\ Running(s, "record")
    /\ LET v == Version(s)
           digest == tree[job[s].head] IN
         /\ Insert(v, [digest |-> digest, commit |-> job[s].head])
         /\ Answer(s, IF ledger[v] = NoRow THEN "published"
                      ELSE IF ledger[v].digest = digest THEN "noop" ELSE "exists")
    /\ UNCHANGED <<mirror, errors>> /\ Local

\* Mutant: the row names the head instead of the tagged commit.
AdoptHead(s) ==
    /\ Running(s, "adopt")
    /\ LET c == job[s].seen IN
         IF c \in objects /\ tree[c] = tree[job[s].head]
           THEN /\ Insert(Version(s), [digest |-> tree[c], commit |-> job[s].head])
                /\ Answer(s, "adopted")
           ELSE UNCHANGED ledger /\ Answer(s, "exists")
    /\ UNCHANGED <<mirror, errors>> /\ Local

\* Mutant: a tree that cannot be read passes the comparison.
AdoptUnread(s) ==
    /\ Running(s, "adopt")
    /\ LET c == job[s].seen IN
         IF c \notin objects \/ tree[c] = tree[job[s].head]
           THEN /\ Insert(Version(s), [digest |-> IF c \in objects THEN tree[c] ELSE NoTree,
                                      commit |-> c])
                /\ Answer(s, "adopted")
           ELSE UNCHANGED ledger /\ Answer(s, "exists")
    /\ UNCHANGED <<mirror, errors>> /\ Local

\* A tag without a row (a crash before the record, or an outsider's tag): adopted only
\* if the mirror has its commit and the trees are equal.
Adopt(s) ==
    /\ Running(s, "adopt")
    /\ LET c == job[s].seen IN
         IF c \in objects /\ tree[c] = tree[job[s].head]
           THEN /\ Insert(Version(s), [digest |-> tree[c], commit |-> c])
                /\ Answer(s, "adopted")
           ELSE UNCHANGED ledger /\ Answer(s, "exists")
    /\ UNCHANGED <<mirror, errors>> /\ Local

\* ls-remote fails, or the repository cannot be cloned: publishSpecNow throws.
Throw(s) ==
    /\ \/ job[s].pc \in {"rowRemote", "healJudge", "remote", "judge"} /\ UNCHANGED owed
       \/ Running(s, "idle") /\ ~mirrored /\ owed[s] /\ owed' = [owed EXCEPT ![s] = FALSE]
    /\ Fails
    /\ Answer(s, "error")
    /\ UNCHANGED <<repository, remote, mirror, ledger, cached, sync, writer, crashes>>

PublishStep(s) ==
    \/ ReadLedger(s)    \/ CheckRowTag(s) \/ CheckRowLocal(s) \/ TagRow(s)
    \/ HealPush(s)      \/ HealJudge(s)   \/ CheckRemote(s)   \/ CheckLocal(s)
    \/ TagHead(s)       \/ PushTag(s)     \/ JudgePush(s)     \/ Record(s)
    \/ Adopt(s)         \/ Throw(s)

----------------------------------------------------------------------------
(* The rest of the service. *)

SetWriter(s, w) == writer' = [writer EXCEPT ![s] = w]

\* A spec_patch or merge of this process, pushed: refreshProject rebuilds the project
\* root, then its publication is waited for under the write lock.
Write(s, t) ==
    /\ "write" \in Environment
    /\ writer[s].pc = "idle"
    /\ SetWriter(s, [NoWriter EXCEPT !.pc = "publish"])
    /\ Push(t, IF remoteTip = NoCommit THEN {} ELSE past[remoteTip])
    /\ FetchMirror
    /\ cached' = [cached EXCEPT ![s] = remoteTip']
    /\ owed' = [owed EXCEPT ![s] = TRUE]
    /\ UNCHANGED <<ledger, job, sync, bounds>>

WriteDone(s) ==
    /\ writer[s].pc = "publish"
    /\ ~owed[s] /\ Running(s, "idle")
    /\ SetWriter(s, NoWriter)
    /\ UNCHANGED <<repository, remote, mirror, ledger, job, owed, cached, sync, bounds>>

\* projectRoot of a query: fetch, and rebuild if a tip moved.
Read(s) ==
    /\ "read" \in Environment
    /\ UNCHANGED <<repository, remote>>
    /\ RefreshMirror
    /\ cached' = [cached EXCEPT ![s] = mirrorTip']
    /\ UNCHANGED <<ledger, job, owed, sync, writer, crashes>>

\* reconcileOnce: discoverProject fetches; later the signatures before and after the
\* rebuild decide whether publishAll runs.
SyncFetch(s) ==
    /\ "sync" \in Environment
    /\ sync[s] = "idle"
    /\ UNCHANGED <<repository, remote>>
    /\ RefreshMirror
    /\ sync' = [sync EXCEPT ![s] = "fetched"]
    /\ UNCHANGED <<ledger, job, owed, cached, writer, crashes>>

SyncRebuild(s) ==
    /\ sync[s] = "fetched"
    /\ sync' = [sync EXCEPT ![s] = "idle"]
    /\ cached' = [cached EXCEPT ![s] = mirrorTip]
    /\ owed' = [owed EXCEPT ![s] = @ \/ cached[s] # mirrorTip]
    /\ UNCHANGED <<repository, remote, mirror, ledger, job, writer, bounds>>

\* spec_documents with a version: the row, its commit's objects, the digest.
Readable(v) == /\ ledger[v].commit \in objects
               /\ tree[ledger[v].commit] = ledger[v].digest

(* deleteCanonical: fetch, look for tags, look for rows, then the lease on the tip. *)
DeleteBegin(s) ==
    /\ "delete" \in Environment
    /\ writer[s].pc = "idle"
    /\ UNCHANGED <<repository, remote>>
    /\ FetchMirror
    /\ mirrorTip' # NoCommit
    /\ SetWriter(s, [pc |-> "tags", tip |-> NoCommit])
    /\ UNCHANGED <<ledger, job, owed, cached, sync, bounds>>

DeleteFrame == UNCHANGED <<repository, remote, mirror, ledger, job, owed, cached, sync, bounds>>

DeleteCheckTags(s) ==
    /\ writer[s].pc = "tags"
    /\ SetWriter(s, IF \A v \in Versions : remoteTag[v] = NoCommit
                        THEN [writer[s] EXCEPT !.pc = "rows"] ELSE NoWriter)
    /\ DeleteFrame

DeleteCheckRows(s) ==
    /\ writer[s].pc = "rows"
    /\ SetWriter(s, IF \A v \in Versions : ledger[v] = NoRow
                        THEN [writer[s] EXCEPT !.pc = "lease"] ELSE NoWriter)
    /\ DeleteFrame

DeleteLease(s) ==
    /\ writer[s].pc = "lease"
    /\ SetWriter(s, IF mirrorTip # NoCommit
                        THEN [pc |-> "delete", tip |-> mirrorTip] ELSE NoWriter)
    /\ DeleteFrame

\* push --force-with-lease: the branch goes only if it is still at the tip.
DeleteBranch(s) ==
    /\ writer[s].pc = "delete"
    /\ remoteTip = writer[s].tip
    /\ remoteTip' = NoCommit
    /\ UNCHANGED <<repository, remoteTag>>
    /\ FetchMirror
    /\ cached' = [cached EXCEPT ![s] = NoCommit]
    /\ SetWriter(s, NoWriter)
    /\ UNCHANGED <<ledger, job, owed, sync, bounds>>

DeleteRefused(s) ==
    /\ writer[s].pc = "delete"
    /\ remoteTip # writer[s].tip
    /\ SetWriter(s, NoWriter)
    /\ DeleteFrame

Deletion(s) == \/ DeleteBegin(s) \/ DeleteCheckTags(s) \/ DeleteCheckRows(s)
               \/ DeleteLease(s) \/ DeleteBranch(s)    \/ DeleteRefused(s)

\* Mutant: no publication at boot.
CrashWithoutBoot(s) ==
    /\ crashes < MaxCrashes
    /\ crashes' = crashes + 1
    /\ job' = [job EXCEPT ![s] = Idle("none", NoCommit)]
    /\ owed' = [owed EXCEPT ![s] = FALSE]
    /\ cached' = [cached EXCEPT ![s] = mirrorTip]
    /\ sync' = [sync EXCEPT ![s] = "idle"]
    /\ SetWriter(s, NoWriter)
    /\ UNCHANGED <<repository, remote, mirror, ledger, errors>>

\* The process dies; its successor runs publishAll at boot.
Crash(s) ==
    /\ crashes < MaxCrashes
    /\ crashes' = crashes + 1
    /\ job' = [job EXCEPT ![s] = Idle("none", NoCommit)]
    /\ owed' = [owed EXCEPT ![s] = TRUE]
    /\ cached' = [cached EXCEPT ![s] = NoCommit]
    /\ sync' = [sync EXCEPT ![s] = "idle"]
    /\ SetWriter(s, NoWriter)
    /\ UNCHANGED <<repository, remote, mirror, ledger, errors>>

----------------------------------------------------------------------------
(* Outsiders: operators with push access to the repository (publish.test.mjs). *)

Outside == UNCHANGED <<mirror, ledger, service, bounds>>

OutsidePush(t) ==
    /\ "outside push" \in Environment
    /\ Push(t, IF remoteTip = NoCommit THEN {} ELSE past[remoteTip])
    /\ Outside

OutsideRewrite(t) == "rewrite" \in Environment /\ Push(t, {}) /\ Outside

OutsideTag(v) ==
    /\ "outside tag" \in Environment
    /\ remoteTag[v] = NoCommit
    /\ \E c \in 1..pushed : remoteTag' = [remoteTag EXCEPT ![v] = c]
    /\ UNCHANGED <<repository, remoteTip>> /\ Outside

OutsideUntag(v) ==
    /\ "untag" \in Environment
    /\ remoteTag[v] # NoCommit
    /\ remoteTag' = [remoteTag EXCEPT ![v] = NoCommit]
    /\ UNCHANGED <<repository, remoteTip>> /\ Outside

\* A restart with a new credential, or without its volume, means a new mirror directory;
\* calls that run keep the directory they began with.
NewMirror ==
    /\ "new mirror" \in Environment
    /\ mirrored
    /\ \A s \in Servers : Running(s, "idle") /\ writer[s] = NoWriter
    /\ mirrored' = FALSE
    /\ mirrorTip' = NoCommit
    /\ objects' = {}
    /\ localTag' = [v \in Versions |-> NoCommit]
    /\ UNCHANGED <<repository, remote, ledger, service, bounds>>

Next ==
    \/ \E s \in Servers : \/ Begin(s) \/ PublishStep(s)
                          \/ Read(s)  \/ SyncFetch(s) \/ SyncRebuild(s)
                          \/ Deletion(s) \/ Crash(s)
                          \/ WriteDone(s) \/ \E t \in Trees : Write(s, t)
    \/ \E t \in Trees : OutsidePush(t) \/ OutsideRewrite(t)
    \/ \E v \in Versions : OutsideTag(v) \/ OutsideUntag(v)
    \/ NewMirror

Spec == Init /\ [][Next]_vars

\* A live process runs its promises and its interval timer, and the publication it owes.
FairSpec == /\ Spec
            /\ \A s \in Servers : /\ WF_vars(PublishStep(s))
                                  /\ WF_vars(owed[s] /\ Begin(s))
                                  /\ WF_vars(SyncFetch(s) \/ SyncRebuild(s))

----------------------------------------------------------------------------
(* Properties. *)

RepositoryType ==
    /\ pushed \in 0..MaxCommits
    /\ tree \in [Commits -> Trees \cup {NoTree}]
    /\ \A c \in 1..pushed : tree[c] \in Trees
    /\ past \in [Commits -> SUBSET Commits]

RemoteType == /\ remoteTip \in 0..pushed
              /\ remoteTag \in [Versions -> 0..pushed]

MirrorType == /\ mirrored \in BOOLEAN
              /\ mirrorTip \in 0..pushed
              /\ objects \subseteq 1..pushed
              /\ localTag \in [Versions -> 0..pushed]

Jobs == [pc : Steps, head : 0..pushed, row : Rows, seen : 0..pushed, outcome : Outcomes]
Writers == [pc : {"idle", "publish", "tags", "rows", "lease", "delete"}, tip : 0..pushed]

ServiceType == /\ owed \in [Servers -> BOOLEAN]
               /\ cached \in [Servers -> 0..pushed]
               /\ sync \in [Servers -> {"idle", "fetched"}]
               /\ writer \in [Servers -> Writers]

BoundsType == errors \in 0..MaxErrors /\ crashes \in 0..MaxCrashes

\* Types of all variables; only a commit that was made has a tree, and only such a commit
\* is named by a tip, a tag, a job or a mirror's object store.
TypeOK == /\ RepositoryType
          /\ RemoteType
          /\ MirrorType
          /\ ledger \in [Versions -> Rows]
          /\ job \in [Servers -> Jobs]
          /\ ServiceType
          /\ BoundsType

\* A row tells the truth about its commit: that tree, ACTIVE, of that version
\* (publish.js:30: "the version's identity is the content").
RowIsGenuine ==
    \A v \in Versions : ledger[v] # NoRow =>
        /\ tree[ledger[v].commit] = ledger[v].digest
        /\ ledger[v].digest \in Active
        /\ VersionOf[ledger[v].digest] = v

\* While nobody removes tags, a row and the remote tag name the same commit: no order of
\* publications, outside tags, ambiguous pushes and crashes records what the tag does not say.
TagMatchesRow ==
    \A v \in Versions : ledger[v] # NoRow => remoteTag[v] = ledger[v].commit

\* Whoever is told that a version is published, already was or has been adopted, gets
\* a row with the content it asked to publish.
AnswerIsRecorded ==
    \A s \in Servers : job[s].outcome \in Published =>
        ledger[Version(s)] # NoRow /\ ledger[Version(s)].digest = tree[job[s].head]

\* While nobody removes tags, spec_documents can serve every recorded version from any
\* mirror, also one cloned after the branch was rewritten or deleted.
VersionsStayReadable ==
    mirrored => \A v \in Versions : ledger[v] # NoRow => Readable(v)

\* A heal puts the recorded commit back, and nothing else (publish.js:115): in every step
\* that answers "healed" the remote tag ends at the row's commit.
HealRestores ==
    [][\A s \in Servers :
         job'[s].outcome = "healed" /\ job[s].outcome # "healed" =>
            LET v == VersionOf[tree[job[s].head]] IN remoteTag'[v] = ledger[v].commit]_vars

\* Published versions block the deletion of a spec (spec-branches.js:261).
PublishedBlocksDelete ==
    [][\A s \in Servers : DeleteBranch(s) =>
          \A v \in Versions : remoteTag[v] = NoCommit /\ ledger[v] = NoRow]_vars

\* As long as no network command fails, an ACTIVE commit that stays the tip is recorded
\* under its version, or its publication is refused: at boot (index.js:332), after a
\* reconcile (sync.js:92) or after its write (writepath.js:180).  A publication that fails
\* is not tried again.
ActiveTipIsPublished ==
    \A c \in Commits, t \in Active :
        VersionOf[t] \in Versions =>
            (<>[](remoteTip = c /\ tree[c] = t) /\ [](errors = 0) =>
                <>(\/ ledger[VersionOf[t]] # NoRow
                   \/ \E s \in Servers : job[s].outcome = "exists" /\ job[s].head = c))
=============================================================================
