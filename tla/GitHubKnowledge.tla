---------------------------- MODULE GitHubKnowledge ----------------------------
(***************************************************************************)
(* The runs of the GitHub knowledge connector over one repository          *)
(* (connectors/github/knowledge, connector-sdk/knowledge/harness): issues  *)
(* by their time of update, the documentation files by the tree of the     *)
(* default branch, and the checkpoint that says where the next run begins. *)
(* Pull requests are read as issues are, but without a permission of their *)
(* own and without being pruned.  A page of a listing and a batch hold one *)
(* item each.                                                              *)
(*                                                                         *)
(* Time is the source's, in ticks in which several issues may change; a    *)
(* tree is the contents of its files, so the same contents are the same    *)
(* tree.                                                                   *)
(***************************************************************************)
EXTENDS Platform

CONSTANTS
    Issues,     \* numbers
    Paths,      \* files the widest docs setting chooses
    Globs,      \* the docs settings: sets of paths they choose
    Contents,   \* numbers; 0 for a file that is not there
    Days        \* the history settings; 0 for everything

(* An issue as a listing shows it, and the contents a file may have. *)
Refs == [issue : Issues, at : Nat]
Files == Contents \cup {0}

ASSUME KnowledgeAssumption ==
    /\ Issues \subseteq Nat /\ IsFiniteSet(Issues) /\ IsFiniteSet(Paths) /\ Days \subseteq Nat
    /\ NULL \notin Nat \cup Refs

VARIABLES
    github,     \* tick, granted, and per issue [at, ver], ver 0 for none; files
    chosen,     \* the connector's settings: days, glob
    kept,       \* per issue: the version that is stored, 0 for none
    keptFiles,  \* per path: the content that is stored
    ck,         \* the stored checkpoint
    mark,       \* the last listing of issues was empty and not believed
    job,        \* the run, or NULL
    reach,      \* the latest horizon a walk since the backfill had (history)
    lastRead    \* the tree and the setting of the reading stored last, or NULL (history)

githubVars == <<github, chosen, kept, keptFiles, ck, mark, job, reach, lastRead>>

NoFiles == [p \in Paths |-> 0]
Fresh == [cursor |-> NULL, since |-> 0, tree |-> NULL, glob |-> NULL, files |-> NoFiles]

KnowledgeInit ==
    /\ \E granted \in BOOLEAN, at \in 1 .. 2 :
        github = [tick |-> 2, granted |-> granted, files |-> NoFiles,
                  issues |-> [i \in Issues |-> [at |-> at, ver |-> 1]]]
    /\ \E d \in Days, g \in Globs :
        chosen = [days |-> d, glob |-> g]
    /\ kept = [i \in Issues |-> 0] /\ keptFiles = NoFiles /\ ck = Fresh
    /\ mark = FALSE /\ job = NULL /\ reach = 0 /\ lastRead = NULL

storeVars == <<kept, keptFiles, ck, mark, reach, lastRead>>
Exists(i) == github.issues[i].ver > 0

(* What an issue or a file is turned into: its version, or its content,     *)
(* stands for the title, the segments, the people and the state.            *)
IssueDocument(i) == github.issues[i].ver
FileDocument(tree, p) == tree[p]

-----------------------------------------------------------------------------
(* The repository and the connector's settings.                             *)

AtSource == Op /\ UNCHANGED <<chosen, storeVars, job>>

SecondPasses == AtSource /\ github' = [github EXCEPT !.tick = @ + 1]
IssueChanges(i) ==
    AtSource /\ github' = [github EXCEPT !.issues[i] = [at |-> github.tick, ver |-> @.ver + 1]]
IssueLeaves(i) == AtSource /\ Exists(i) /\ github' = [github EXCEPT !.issues[i] = [at |-> 0, ver |-> 0]]
Pushed(tree) == AtSource /\ github' = [github EXCEPT !.files = tree]
Granted == AtSource /\ github' = [github EXCEPT !.granted = ~@]
Configured(d, g) == Op /\ chosen' = [days |-> d, glob |-> g] /\ UNCHANGED <<github, storeVars, job>>

-----------------------------------------------------------------------------
(* A run reads its settings, the permission and the checkpoint once.        *)

Horizon(days) == IF days = 0 THEN 0 ELSE github.tick - days
(* reachesFurtherBack(): the settings now ask for more than was backfilled. *)
FurtherBack(horizon) == ck.since # 0 /\ horizon < ck.since

SyncAt(at) == job # NULL /\ job.at = at
Goes(at) == job' = [job EXCEPT !.at = at]

StartPoll ==
    /\ Op /\ job = NULL
    /\ LET h == Horizon(chosen.days)
           cursor == IF ck.cursor # NULL /\ FurtherBack(h) THEN NULL ELSE ck.cursor
       IN job' = [at |-> IF github.granted THEN "list" ELSE "head", horizon |-> h, stop |-> cursor,
                  start |-> cursor = NULL, glob |-> chosen.glob, after |-> NULL, refs |-> <<>>,
                  got |-> NULL, tree |-> NULL, todo |-> <<>>, cut |-> FALSE]
    /\ UNCHANGED <<github, chosen, storeVars>>

(* Out of budget, told by GitHub to wait past it, shut down or failed: what *)
(* is stored stays, and the next run begins with the stored checkpoint.     *)
RunIsCut ==
    /\ NoOp /\ job # NULL /\ job' = NULL
    /\ UNCHANGED <<github, chosen, storeVars>>

(* A failure that is not the end of the run: the other kinds still run. *)
IssuesFail == NoOp /\ (SyncAt("list") \/ SyncAt("fetch")) /\ Goes("head") /\ UNCHANGED <<github, chosen, storeVars>>

(* Faulty variant of Walked: the walk stops at the cursor itself. *)
WalkedToCursor(at) == (job.stop # NULL /\ at <= job.stop) \/ at < job.horizon

(* listUpdated() stops at the first issue older than the cursor or the horizon. *)
Walked(at) == (job.stop # NULL /\ at < job.stop) \/ at < job.horizon

(* The latest update first; the next page begins after the last one's last. *)
Later(i, j) == LET a == github.issues[i].at
                   b == github.issues[j].at
               IN a > b \/ (a = b /\ i > j)
Beyond(i) == job.after = NULL \/ github.issues[i].at < job.after.at
                \/ (github.issues[i].at = job.after.at /\ i < job.after.issue)
Page == {i \in Issues : Exists(i) /\ Beyond(i)
            /\ \A j \in Issues \ {i} : Exists(j) /\ Beyond(j) => Later(i, j)}

ListPage ==
    /\ NoOp /\ SyncAt("list") /\ github.granted
    /\ job' = IF Page = {} \/ \E i \in Page : Walked(github.issues[i].at)
              THEN [job EXCEPT !.at = "fetch"]
              ELSE LET i == CHOOSE i \in Page : TRUE
                       ref == [issue |-> i, at |-> github.issues[i].at]
                   IN [job EXCEPT !.refs = <<ref>> \o @, !.after = ref]
    /\ UNCHANGED <<github, chosen, storeVars>>

(* FORBIDDEN: the permission is gone; a note, and the issues are skipped.   *)
ListForbidden ==
    NoOp /\ SyncAt("list") /\ ~github.granted /\ Goes("head") /\ UNCHANGED <<github, chosen, storeVars>>

(* The oldest first, as they are now; one that is gone is left out. *)
FetchIssue ==
    /\ NoOp /\ SyncAt("fetch")
    /\ job' = IF job.refs = <<>> THEN [job EXCEPT !.at = "head"]
              ELSE [job EXCEPT !.at = "store", !.got = IssueDocument(Head(job.refs).issue)]
    /\ UNCHANGED <<github, chosen, storeVars>>

Furthest(a, b) == IF a > b THEN a ELSE b

StoreIssue ==
    /\ NoOp /\ SyncAt("store")
    /\ LET ref == Head(job.refs)
       IN /\ kept' = IF job.got = 0 THEN kept ELSE [kept EXCEPT ![ref.issue] = job.got]
          /\ ck' = [ck EXCEPT !.cursor = ref.at, !.since = IF job.start THEN job.horizon ELSE @]
    /\ reach' = IF job.start THEN job.horizon ELSE Furthest(reach, job.horizon)
    /\ job' = [job EXCEPT !.at = "fetch", !.refs = Tail(@), !.got = NULL]
    /\ UNCHANGED <<github, chosen, keptFiles, mark, lastRead>>

-----------------------------------------------------------------------------
(* The files: read again when the tree or the settings are not the ones the *)
(* checkpoint has.                                                          *)

Chosen(tree, glob) == [p \in Paths |-> IF p \in glob THEN tree[p] ELSE 0]
(* One of the orders of a set; the paths differ in nothing. *)
InOrder(S) == CHOOSE s \in [1 .. Cardinality(S) -> S] : \A i, j \in DOMAIN s : i # j => s[i] # s[j]

(* A truncated tree lists some of the files only, and nothing is deleted by *)
(* it.                                                                      *)
ReadTree(cut, present) ==
    /\ NoOp /\ SyncAt("head")
    /\ job' = IF github.files = ck.tree /\ job.glob = ck.glob THEN NULL
              ELSE LET files == Chosen(github.files, job.glob)
                       listed == {p \in Paths : files[p] # 0 /\ p \in present}
                   IN [job EXCEPT !.at = "file", !.tree = github.files, !.cut = cut,
                        !.todo = InOrder({p \in listed : ck.files[p] # files[p]}),
                        !.got = IF cut THEN {} ELSE {p \in Paths : ck.files[p] # 0 /\ files[p] = 0}]
    /\ UNCHANGED <<github, chosen, storeVars>>

(* Faulty variant of Seen: recorded with the first batch. *)
SeenAtOnce == ~job.cut

(* The tree is recorded with the last batch, and a truncated one never. *)
Seen == ~job.cut /\ Len(job.todo) <= 1

(* A batch: the next file, and with the first one the deletions. *)
StoreFile ==
    /\ NoOp /\ SyncAt("file")
    /\ LET changed == IF job.todo = <<>> THEN {} ELSE {Head(job.todo)}
           now == [p \in Paths |-> IF p \in changed THEN FileDocument(job.tree, p)
                                   ELSE IF p \in job.got THEN 0 ELSE ck.files[p]]
       IN /\ keptFiles' = [p \in Paths |-> IF p \in changed \cup job.got THEN now[p] ELSE keptFiles[p]]
          /\ ck' = IF Seen THEN [ck EXCEPT !.files = now, !.tree = job.tree, !.glob = job.glob]
                   ELSE [ck EXCEPT !.files = now]
    /\ lastRead' = <<job.tree, job.glob>>
    /\ job' = IF Len(job.todo) <= 1 THEN NULL ELSE [job EXCEPT !.todo = Tail(@), !.got = {}]
    /\ UNCHANGED <<github, chosen, kept, mark, reach>>

-----------------------------------------------------------------------------
(* The nightly run lists the issues there are and prunes the others, if it  *)
(* may list them at all.                                                    *)

StartReconcile ==
    /\ Op /\ job = NULL /\ github.granted
    /\ job' = [at |-> "ids"]
    /\ UNCHANGED <<github, chosen, storeVars>>

(* A fault may list nothing, once. *)
ListIds ==
    /\ NoOp /\ SyncAt("ids") /\ github.granted
    /\ job' \in {[at |-> "prune", got |-> S] :
                 S \in {{i \in Issues : Exists(i)}} \cup (IF mark THEN {} ELSE {{}})}
    /\ UNCHANGED <<github, chosen, storeVars>>
IdsForbidden == NoOp /\ SyncAt("ids") /\ ~github.granted /\ job' = NULL /\ UNCHANGED <<github, chosen, storeVars>>

PruneIssues ==
    /\ NoOp /\ SyncAt("prune") /\ job' = NULL
    /\ LET missing == {i \in Issues : kept[i] # 0 /\ i \notin job.got}
           doubted == job.got = {} /\ missing # {} /\ ~mark
       IN /\ mark' = doubted
          /\ kept' = IF doubted THEN kept ELSE [i \in Issues |-> IF i \in missing THEN 0 ELSE kept[i]]
    /\ UNCHANGED <<github, chosen, keptFiles, ck, reach, lastRead>>

KnowledgeNext ==
    \/ SecondPasses \/ Granted
    \/ \E i \in Issues : IssueChanges(i) \/ IssueLeaves(i)
    \/ \E tree \in [Paths -> Contents] : Pushed(tree)
    \/ \E d \in Days, g \in Globs : Configured(d, g)
    \/ StartPoll \/ RunIsCut \/ IssuesFail
    \/ ListPage \/ ListForbidden \/ FetchIssue \/ StoreIssue
    \/ ReadTree(FALSE, Paths) \/ \E present \in SUBSET Paths : ReadTree(TRUE, present)
    \/ StoreFile
    \/ StartReconcile \/ ListIds \/ IdsForbidden \/ PruneIssues

-----------------------------------------------------------------------------
(* Whatever changes while a listing is walked, fetched and stored, wherever *)
(* runs are cut and however far back the settings reach: an issue as it is  *)
(* now is stored, or the next walk comes to it (the walk's stop, the order  *)
(* of the batches and the cursor they carry).  Issues that a later horizon  *)
(* left out are not promised.                                               *)
NoIssueMissed ==
    part = "github" /\ ck.cursor # NULL =>
        \A i \in Issues : Exists(i) /\ github.issues[i].at >= reach =>
            kept[i] = github.issues[i].ver \/ github.issues[i].at >= ck.cursor

(* The checkpoint names the files that are stored, whatever the batches     *)
(* were; and if the reading it names is the one stored last, none of it is  *)
(* missing and nothing else is kept (the batches of syncDocs(), cut between *)
(* any two of them, and truncated trees).                                   *)
FilesAreTheTree ==
    part = "github" =>
        /\ ck.files = keptFiles
        /\ ck.tree # NULL /\ lastRead = <<ck.tree, ck.glob>> => keptFiles = Chosen(ck.tree, ck.glob)

(* The source is read: no issue is missed, and the files are the tree's. *)
SourceIsRead == NoIssueMissed /\ FilesAreTheTree
=============================================================================
