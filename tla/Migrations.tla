------------------------------ MODULE Migrations -------------------------------
(***************************************************************************)
(* The schema migrations of the agents' database (packages agents: migrate,*)
(* db), run by several deployments of different images at a time, each of  *)
(* which may die or lose its connection.  A file is a numbered version;    *)
(* some run in a transaction with their record, others build an index      *)
(* concurrently, outside of one.                                           *)
(***************************************************************************)
EXTENDS Platform

CONSTANTS
    Deployments,
    Images,         \* the sets of versions that images hold
    Concurrent      \* the versions that run outside a transaction

Versions == UNION Images
Deployings ==
    [at : {"lock", "next", "build", "check", "record"}, files : Images, pending : SUBSET Versions]

(* A session whose client is lost is none of the deployments. *)
ASSUME MigrationsAssumption ==
    /\ NULL \notin Deployments \cup Deployings \cup {"session"} /\ "session" \notin Deployments
    /\ Versions \subseteq Nat

VARIABLES
    applied,        \* schema_migrations, in the order of the records (history)
    done,           \* per version in a transaction: how often it was carried out (history)
    index,          \* per other version: none, building, invalid or valid
    lock,           \* who holds the advisory lock: a deployment, a session left behind, or NULL
    deployed        \* per deployment: the run of the migrations, or NULL

migrationVars == <<applied, done, index, lock, deployed>>

Recorded == {applied[i] : i \in DOMAIN applied}

MigrationsInit ==
    /\ applied = <<>> /\ done = [v \in Versions \ Concurrent |-> 0]
    /\ index = [v \in Concurrent |-> "none"]
    /\ lock = NULL /\ deployed = [d \in Deployments |-> NULL]

Runs(d, at) == deployed[d] # NULL /\ deployed[d].at = at
Continues(d, at) == deployed' = [deployed EXCEPT ![d].at = at]
(* With or without an error: the lock is released with the client. *)
Ends(d) == deployed' = [deployed EXCEPT ![d] = NULL] /\ lock' = NULL

(* planMigrations(): what is not applied, in order; a file older than what  *)
(* is applied is an error.  What the image does not know is only noted.     *)
TooOld(files) == \E v \in files \ Recorded, w \in Recorded : v < w
Unapplied(files) == files \ Recorded

Deploy(d, files) ==
    /\ Op /\ deployed[d] = NULL
    /\ deployed' = [deployed EXCEPT ![d] = [at |-> "lock", files |-> files, pending |-> {}]]
    /\ UNCHANGED <<applied, done, index, lock>>

(* Nothing that the plan is made of changes while the lock is held. *)
TakeLock(d) ==
    /\ NoOp /\ Runs(d, "lock") /\ lock = NULL
    /\ IF TooOld(deployed[d].files) THEN Ends(d)
       ELSE /\ lock' = d
            /\ deployed' = [deployed EXCEPT ![d].at = "next", ![d].pending = Unapplied(deployed[d].files)]
    /\ UNCHANGED <<applied, done, index>>

(* The sorted listing is gone through from its front. *)
Next1(d) == CHOOSE v \in deployed[d].pending : \A w \in deployed[d].pending : v <= w
AtFile(d) == Runs(d, "next") /\ deployed[d].pending # {}
NextFile(d) == deployed' = [deployed EXCEPT ![d].at = "next", ![d].pending = @ \ {Next1(d)}]

(* The statements and the record commit together ... *)
ApplyInTransaction(d) ==
    /\ NoOp /\ AtFile(d) /\ Next1(d) \notin Concurrent
    /\ done' = [done EXCEPT ![Next1(d)] = @ + 1]
    /\ applied' = Append(applied, Next1(d))
    /\ NextFile(d) /\ UNCHANGED <<index, lock>>

(* ... or fail together, and the run ends. *)
FileFails(d) ==
    /\ NoOp /\ AtFile(d) /\ Ends(d)
    /\ UNCHANGED <<applied, done, index>>

(* CREATE INDEX CONCURRENTLY IF NOT EXISTS: any index of the name will do. *)
StartBuild(d) ==
    /\ NoOp /\ AtFile(d) /\ Next1(d) \in Concurrent
    /\ LET i == index[Next1(d)]
       IN IF i = "none" THEN index' = [index EXCEPT ![Next1(d)] = "building"] /\ Continues(d, "build")
          ELSE UNCHANGED index /\ Continues(d, "check")
    /\ UNCHANGED <<applied, done, lock>>

FinishBuild(d) ==
    /\ NoOp /\ Runs(d, "build")
    /\ index' = [index EXCEPT ![Next1(d)] = "valid"] /\ Continues(d, "check")
    /\ UNCHANGED <<applied, done, lock>>

BuildFails(d) ==
    /\ NoOp /\ Runs(d, "build")
    /\ index' = [index EXCEPT ![Next1(d)] = "invalid"] /\ Ends(d)
    /\ UNCHANGED <<applied, done>>

(* Faulty variant of InvalidIndexes: IF NOT EXISTS is taken at its word. *)
NoneIsInvalid == {}

(* refuseInvalidIndexes(): one that is being built counts as well. *)
InvalidIndexes == {v \in Concurrent : index[v] \in {"building", "invalid"}}

CheckIndexes(d) ==
    /\ NoOp /\ Runs(d, "check")
    /\ IF InvalidIndexes # {} THEN Ends(d) ELSE Continues(d, "record") /\ UNCHANGED lock
    /\ UNCHANGED <<applied, done, index>>

RecordBuilt(d) ==
    /\ NoOp /\ Runs(d, "record")
    /\ applied' = Append(applied, Next1(d))
    /\ NextFile(d) /\ UNCHANGED <<done, index, lock>>

DeployEnds(d) ==
    /\ NoOp /\ Runs(d, "next") /\ deployed[d].pending = {} /\ Ends(d)
    /\ UNCHANGED <<applied, done, index>>

-----------------------------------------------------------------------------
(* The process dies or its connection is lost.  The server notices at once, *)
(* or goes on with the statement and keeps the session and its lock.        *)
DeploymentDies(d) ==
    /\ Op /\ deployed[d] # NULL /\ deployed' = [deployed EXCEPT ![d] = NULL]
    /\ IF deployed[d].at = "build"
       THEN \/ lock' = "session" /\ UNCHANGED index
            \/ lock' = NULL /\ index' = [index EXCEPT ![Next1(d)] = "invalid"]
       ELSE lock' = (IF lock = d THEN NULL ELSE lock) /\ UNCHANGED index
    /\ UNCHANGED <<applied, done>>

SessionEnds ==
    /\ NoOp /\ lock = "session" /\ lock' = NULL
    /\ \E outcome \in {"valid", "invalid"} :
         index' = [v \in Concurrent |-> IF index[v] = "building" THEN outcome ELSE index[v]]
    /\ UNCHANGED <<applied, done, deployed>>

(* What the error asks the operator to do, before the next run. *)
DropInvalid(v) ==
    /\ Op /\ lock = NULL /\ index[v] = "invalid" /\ index' = [index EXCEPT ![v] = "none"]
    /\ UNCHANGED <<applied, done, lock, deployed>>

MigrationsNext ==
    \/ SessionEnds
    \/ \E v \in Concurrent : DropInvalid(v)
    \/ \E d \in Deployments :
         \/ \E files \in Images : Deploy(d, files)
         \/ TakeLock(d) \/ ApplyInTransaction(d) \/ FileFails(d)
         \/ StartBuild(d) \/ FinishBuild(d) \/ BuildFails(d) \/ CheckIndexes(d) \/ RecordBuilt(d)
         \/ DeployEnds(d) \/ DeploymentDies(d)

-----------------------------------------------------------------------------
(* Whatever deployments meet, die or are left half done: a version that is  *)
(* recorded is in the schema, its index valid; none was carried out twice;  *)
(* and they were applied in the order of their numbers, whichever images    *)
(* were there at the time (the lock, the record, refuseInvalidIndexes()).   *)
RecordedIsApplied ==
    part = "migrations" =>
        /\ \A v \in DOMAIN done : done[v] = IF v \in Recorded THEN 1 ELSE 0
        /\ \A v \in Concurrent : v \in Recorded => index[v] = "valid"
        /\ \A i \in 1 .. Len(applied) - 1 : applied[i] < applied[i + 1]
=============================================================================
