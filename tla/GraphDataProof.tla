---------------------------- MODULE GraphDataProof ----------------------------
(***************************************************************************)
(* Proofs about the parts that MCGraphData composes: the migrations of the *)
(* agents' database, the edges people draw, the containers a knowledge     *)
(* connector may index, its walks over a repository, the overrides people  *)
(* make, and the claims of a property.  The parts share no state, so a     *)
(* part's inductive invariant is disturbed by its own actions only.        *)
(***************************************************************************)
EXTENDS MCGraphData, FiniteSetTheorems, SequenceTheorems, WellFoundedInduction, TLAPS

-----------------------------------------------------------------------------
(* THE PARTS.  No action of any part changes the part a behaviour is about. *)
LEMMA ClaimsKeepPart == ValuesNext => part' = part
BY DEF ValuesNext, Ingest, WeeksPass, OpenPage, VerifyShown, RevertShown, SaveEdit, Op, NoOp

LEMMA RelationsKeepPart == RelationsNext => part' = part
BY DEF RelationsNext, Tock, MergeEdge, CheckAdd, AddRelation, CheckDelete, DeleteRelation,
       RecordRelation, OpenEntity, AskAdd, AskDelete, Op, NoOp

LEMMA GitHubKeepsPart == KnowledgeNext => part' = part
BY DEF KnowledgeNext, SecondPasses, Granted, IssueChanges, IssueLeaves, Pushed, Configured,
       StartPoll, RunIsCut, IssuesFail, ListPage, ListForbidden, FetchIssue, StoreIssue,
       ReadTree, StoreFile, StartReconcile, ListIds, IdsForbidden, PruneIssues, AtSource,
       Op, NoOp

LEMMA MigrationsKeepPart == MigrationsNext => part' = part
BY DEF MigrationsNext, SessionEnds, DropInvalid, Deploy, TakeLock, ApplyInTransaction,
       FileFails, StartBuild, FinishBuild, BuildFails, CheckIndexes, RecordBuilt,
       DeployEnds, DeploymentDies, Op, NoOp

LEMMA PartKept == [Next]_vars => part' = part
BY ClaimsKeepPart, RelationsKeepPart, GitHubKeepsPart, MigrationsKeepPart
DEF Next, vars, NoOp

(* In the behaviours about one part, its own actions are the only ones that *)
(* change its variables.                                                    *)
LEMMA PartSteps ==
    ASSUME [Next]_vars
    PROVE  /\ part = "migrations" => MigrationsNext \/ UNCHANGED migrationVars
           /\ part = "relations" => RelationsNext \/ UNCHANGED relationVars
           /\ part = "containers" => ContainersNext \/ UNCHANGED containerVars
           /\ part = "github" => KnowledgeNext \/ UNCHANGED githubVars
           /\ part = "edits" => EditsNext \/ UNCHANGED graphEditVars
BY DEF Next, vars

-----------------------------------------------------------------------------
(* MIGRATIONS.  Whoever is past the lock holds it, what it has pending is     *)
(* newer than every record, and the index it is about to record is there.     *)
(* Nothing but the lock keeps two deployments from passing each other here.   *)
IndexStands(d) ==
    /\ deployed[d].pending # {} /\ Next1(d) \in Concurrent
    /\ Runs(d, "check") => index[Next1(d)] # "none"
    /\ Runs(d, "build") => index[Next1(d)] = "building"
    /\ Runs(d, "record") => index[Next1(d)] = "valid"

Ahead(d) ==
    /\ lock = d
    /\ \A v \in deployed[d].pending, w \in Recorded : w < v
    /\ Runs(d, "next") \/ IndexStands(d)

MigrationsInv ==
    /\ applied \in Seq(Versions) /\ done \in [Versions \ Concurrent -> Nat]
    /\ index \in [Concurrent -> {"none", "building", "invalid", "valid"}]
    /\ deployed \in [Deployments -> Deployings \cup {NULL}]
    /\ \A i \in 1 .. Len(applied) - 1 : applied[i] < applied[i + 1]
    /\ \A v \in Versions \ Concurrent : done[v] = IF v \in Recorded THEN 1 ELSE 0
    /\ \A v \in Concurrent : v \in Recorded => index[v] = "valid"
    /\ \A d \in Deployments : deployed[d] # NULL /\ ~Runs(d, "lock") => Ahead(d)

LEMMA MigrationsInitInv == MigrationsInit => MigrationsInv
BY DEF MigrationsInit, MigrationsInv, Recorded, Runs

(* The naturals have a least number of every set that is not empty. *)
LEMMA LeastNatural ==
    ASSUME NEW S \in SUBSET Nat, S # {}
    PROVE  \E m \in S : \A k \in S : m <= k
<1> DEFINE R == {ss \in Nat \X Nat : ss[1] < ss[2]}
<1>1. IsWellFoundedOn(R, Nat)
  BY NatLessThanWellFounded DEF OpToRel
<1> HIDE DEF R
<1>2. PICK m \in S : \A k \in S : ~(<<k, m>> \in R)
  BY <1>1, WFMin
<1>3. \A k \in S : ~(k < m)
  BY <1>2 DEF R
<1>. QED
  BY <1>3

(* And what is below a number has a greatest one. *)
LEMMA GreatestBelow ==
    ASSUME NEW n \in Nat, NEW S \in SUBSET (1 .. n), S # {}
    PROVE  \E m \in S : \A k \in S : k <= m
<1> DEFINE down == {n - k : k \in S}
<1>1. down \in SUBSET Nat /\ down # {}
  <2>1. \A k \in 1 .. n : n - k \in Nat
    OBVIOUS
  <2>2. \A k \in S : n - k \in Nat
    BY <2>1
  <2>. QED
    BY <2>2
<1>2. PICK d \in down : \A k \in down : d <= k
  BY <1>1, LeastNatural
<1>3. PICK m \in S : d = n - m
  OBVIOUS
<1>4. \A k \in S : n - m <= n - k
  BY <1>2, <1>3
<1>. QED
  BY <1>4

LEMMA NextIsLeast ==
    ASSUME MigrationsInv, NEW d \in Deployments, deployed[d] # NULL, deployed[d].pending # {}
    PROVE  /\ Next1(d) \in deployed[d].pending /\ Next1(d) \in Versions
           /\ \A v \in deployed[d].pending : Next1(d) <= v
<1>1. deployed[d] \in Deployings /\ deployed[d].pending \subseteq Versions
  BY DEF MigrationsInv, Deployings
<1>2. \E n \in deployed[d].pending : \A v \in deployed[d].pending : n <= v
  BY <1>1, LeastNatural, MigrationsAssumption
<1>. QED
  BY <1>1, <1>2 DEF Next1

(* A deployment that goes on, ends or begins; the others stay where they are. *)
LEMMA DeployedGoesOn ==
    ASSUME MigrationsInv, NEW d \in Deployments, NEW r \in Deployings \cup {NULL},
           deployed' = [deployed EXCEPT ![d] = r]
    PROVE  /\ deployed' \in [Deployments -> Deployings \cup {NULL}] /\ deployed'[d] = r
           /\ \A e \in Deployments \ {d} : deployed'[e] = deployed[e]
BY DEF MigrationsInv

(* Another deployment's place is kept by whatever spares the records and its index. *)
LEMMA OthersAhead ==
    ASSUME NEW e, Ahead(e), deployed'[e] = deployed[e], lock' = lock, Recorded' = Recorded,
           deployed[e].pending # {} => index'[Next1(e)] = index[Next1(e)]
    PROVE  Ahead(e)'
<1>1. Next1(e)' = Next1(e)
  BY DEF Next1
<1>. QED
  BY <1>1 DEF Ahead, IndexStands, Runs

(* What is recorded next is newer than what is. *)
LEMMA RecordNext ==
    ASSUME MigrationsInv, NEW d \in Deployments, deployed[d] # NULL, Ahead(d),
           deployed[d].pending # {}, applied' = Append(applied, Next1(d))
    PROVE  /\ applied' \in Seq(Versions) /\ Recorded' = Recorded \cup {Next1(d)}
           /\ Next1(d) \notin Recorded
           /\ \A i \in 1 .. Len(applied') - 1 : applied'[i] < applied'[i + 1]
           /\ \A v \in deployed[d].pending \ {Next1(d)}, w \in Recorded' : w < v
<1>1. /\ Next1(d) \in deployed[d].pending /\ Next1(d) \in Versions
      /\ \A v \in deployed[d].pending : Next1(d) <= v
  BY NextIsLeast
<1>2. \A w \in Recorded : w < Next1(d)
  BY <1>1 DEF Ahead
<1>3. Versions \subseteq Nat /\ deployed[d].pending \subseteq Versions
  BY MigrationsAssumption DEF MigrationsInv, Deployings
<1>4. applied \in Seq(Versions)
  BY DEF MigrationsInv
<1>5. /\ applied' \in Seq(Versions) /\ Len(applied') = Len(applied) + 1
      /\ \A i \in 1 .. Len(applied) : applied'[i] = applied[i]
      /\ applied'[Len(applied) + 1] = Next1(d)
  BY <1>1, <1>4, AppendProperties
<1>6. Len(applied) \in Nat /\ DOMAIN applied = 1 .. Len(applied) /\ DOMAIN applied' = 1 .. Len(applied')
  BY <1>4, <1>5, LenProperties
<1>7. Recorded' = Recorded \cup {Next1(d)}
  BY <1>5, <1>6 DEF Recorded
<1>8. Next1(d) \notin Recorded
  <2>1. Next1(d) \in Nat
    BY <1>1, <1>3
  <2>. QED
    BY <1>2, <2>1
<1>9. ASSUME NEW i \in 1 .. Len(applied') - 1 PROVE applied'[i] < applied'[i + 1]
  <2>1. CASE i < Len(applied)
    <3>1. i \in 1 .. Len(applied) - 1 /\ i \in 1 .. Len(applied) /\ i + 1 \in 1 .. Len(applied)
      BY <1>6, <2>1
    <3>. QED
      BY <1>5, <3>1 DEF MigrationsInv
  <2>2. CASE i = Len(applied)
    <3>1. i \in 1 .. Len(applied) /\ applied[i] \in Recorded
      BY <1>6, <2>2 DEF Recorded
    <3>. QED
      BY <1>2, <1>5, <2>2, <3>1
  <2>3. Len(applied') - 1 = Len(applied)
    BY <1>5, <1>6
  <2>4. i \in 1 .. Len(applied)
    BY <2>3
  <2>5. \A n \in Nat : \A k \in 1 .. n : k < n \/ k = n
    OBVIOUS
  <2>6. Len(applied) \in Nat
    BY <1>6
  <2>7. i < Len(applied) \/ i = Len(applied)
    BY <2>4, <2>5, <2>6
  <2>. QED
    BY <2>1, <2>2, <2>7
<1>10. ASSUME NEW v \in deployed[d].pending \ {Next1(d)}, NEW w \in Recorded' PROVE w < v
  <2>1. Next1(d) \in Nat /\ v \in Nat /\ Next1(d) <= v /\ Next1(d) # v
    BY <1>1, <1>3
  <2>. QED
    BY <1>2, <1>3, <1>7, <2>1 DEF Ahead
<1>. QED
  BY <1>5, <1>7, <1>8, <1>9, <1>10

LEMMA DeployKeepsMigrations ==
    ASSUME MigrationsInv, NEW d \in Deployments, NEW files \in Images,
           Deploy(d, files) \/ TakeLock(d)
    PROVE  MigrationsInv'
<1>1. UNCHANGED <<applied, done, index>> /\ Recorded' = Recorded
  BY DEF Deploy, TakeLock, Recorded
<1>2. CASE Deploy(d, files)
  <2>1. PICK r : r = [at |-> "lock", files |-> files, pending |-> {}]
    OBVIOUS
  <2>2. r \in Deployings
    BY <2>1 DEF Deployings
  <2>3. deployed' = [deployed EXCEPT ![d] = r] /\ lock' = lock
    BY <1>2, <2>1 DEF Deploy
  <2>4. \A e \in Deployments \ {d} : deployed'[e] # NULL /\ ~Runs(e, "lock")' => Ahead(e)'
    BY <1>1, <2>2, <2>3, DeployedGoesOn, OthersAhead DEF MigrationsInv, Runs
  <2>5. Runs(d, "lock")'
    BY <2>1, <2>2, <2>3, DeployedGoesOn, MigrationsAssumption DEF Runs
  <2>. QED
    BY <1>1, <2>2, <2>3, <2>4, <2>5, DeployedGoesOn DEF MigrationsInv
<1>3. CASE TakeLock(d) /\ TooOld(deployed[d].files)
  <2>1. deployed' = [deployed EXCEPT ![d] = NULL] /\ lock' = NULL /\ lock = NULL
    BY <1>3 DEF TakeLock, Ends
  <2>2. \A e \in Deployments : deployed[e] = NULL \/ Runs(e, "lock")
    BY <2>1, MigrationsAssumption DEF MigrationsInv, Ahead
  <2>3. \A e \in Deployments : deployed'[e] = NULL \/ Runs(e, "lock")'
    BY <2>1, <2>2, DeployedGoesOn DEF Runs
  <2>. QED
    BY <1>1, <2>1, <2>3, DeployedGoesOn DEF MigrationsInv
<1>4. CASE TakeLock(d) /\ ~TooOld(deployed[d].files)
  <2>1. deployed[d] \in Deployings /\ deployed[d] # NULL
    BY <1>4 DEF TakeLock, Runs, MigrationsInv
  <2>2. PICK r : r = [deployed[d] EXCEPT !.at = "next", !.pending = Unapplied(deployed[d].files)]
    OBVIOUS
  <2>3. r \in Deployings /\ r.at = "next" /\ r.pending = deployed[d].files \ Recorded
    BY <2>1, <2>2 DEF Deployings, Unapplied, Versions
  <2>4. deployed' = [deployed EXCEPT ![d] = r] /\ lock = NULL /\ lock' = d
    BY <1>4, <2>2 DEF TakeLock
  <2>5. \A e \in Deployments \ {d} : deployed'[e] = NULL \/ Runs(e, "lock")'
    BY <2>3, <2>4, DeployedGoesOn, MigrationsAssumption DEF MigrationsInv, Ahead, Runs
  <2>6. \A v \in r.pending, w \in Recorded : w < v
    <3>1. \A v \in r.pending, w \in Recorded : ~(v < w) /\ v # w
      BY <1>4, <2>3 DEF TooOld
    <3>2. r.pending \subseteq Nat /\ Recorded \subseteq Nat
      <4>1. DOMAIN applied = 1 .. Len(applied) /\ \A i \in DOMAIN applied : applied[i] \in Versions
        BY LenProperties, ElementOfSeq DEF MigrationsInv
      <4>2. r.pending \subseteq Versions
        BY <2>3 DEF Deployings
      <4>. QED
        BY <4>1, <4>2, MigrationsAssumption DEF Recorded
    <3>. QED
      BY <3>1, <3>2
  <2>7. Ahead(d)'
    BY <1>1, <2>3, <2>4, <2>6, DeployedGoesOn, MigrationsAssumption DEF Ahead, Runs
  <2>. QED
    BY <1>1, <2>3, <2>4, <2>5, <2>7, DeployedGoesOn DEF MigrationsInv
<1>. QED
  BY <1>2, <1>3, <1>4 DEF TakeLock

(* A run that gives up lets go of the lock, which it alone held. *)
LEMMA EndKeepsMigrations ==
    ASSUME MigrationsInv, NEW d \in Deployments, deployed[d] # NULL, ~Runs(d, "lock"), Ends(d),
           UNCHANGED <<applied, done>>, index' \in [Concurrent -> {"none", "building", "invalid", "valid"}],
           \A v \in Concurrent : index[v] = "valid" => index'[v] = "valid"
    PROVE  MigrationsInv'
<1>1. Recorded' = Recorded
  BY DEF Recorded
<1>2. \A e \in Deployments \ {d} : deployed[e] = NULL \/ Runs(e, "lock")
  BY DEF MigrationsInv, Ahead
<1>3. \A e \in Deployments : deployed'[e] = NULL \/ Runs(e, "lock")'
  BY <1>2, DeployedGoesOn DEF Runs, Ends
<1>. QED
  BY <1>1, <1>3, DeployedGoesOn DEF MigrationsInv, Ends

(* One that goes on within its file. *)
LEMMA IndexKeepsMigrations ==
    ASSUME MigrationsInv, NEW d \in Deployments, deployed[d] # NULL, ~Runs(d, "lock"),
           NEW at \in {"build", "check", "record"}, Continues(d, at),
           deployed[d].pending # {}, Next1(d) \in Concurrent,
           NEW i \in {"none", "building", "invalid", "valid"},
           index' = [index EXCEPT ![Next1(d)] = i],
           index[Next1(d)] = "valid" => i = "valid",
           at = "build" => i = "building", at = "check" => i # "none", at = "record" => i = "valid",
           UNCHANGED <<applied, done, lock>>
    PROVE  MigrationsInv'
<1>1. Recorded' = Recorded
  BY DEF Recorded
<1>2. deployed[d] \in Deployings /\ Ahead(d)
  BY DEF MigrationsInv
<1>3. PICK r : r = [deployed[d] EXCEPT !.at = at]
  OBVIOUS
<1>4. r \in Deployings /\ r.at = at /\ r.pending = deployed[d].pending
  BY <1>2, <1>3 DEF Deployings
<1>5. deployed' = [deployed EXCEPT ![d] = r]
  BY <1>3 DEF Continues
<1>6. /\ deployed' \in [Deployments -> Deployings \cup {NULL}] /\ deployed'[d] = r
      /\ \A e \in Deployments \ {d} : deployed'[e] = deployed[e]
  BY <1>4, <1>5, DeployedGoesOn
<1>7. \A e \in Deployments \ {d} : deployed'[e] = NULL \/ Runs(e, "lock")'
  BY <1>2, <1>6 DEF MigrationsInv, Ahead, Runs
<1>8. Next1(d)' = Next1(d)
  BY <1>4, <1>6 DEF Next1
<1>9. index'[Next1(d)] = i /\ \A v \in Concurrent : index[v] = "valid" => index'[v] = "valid"
  BY DEF MigrationsInv
<1>10. Ahead(d)'
  BY <1>1, <1>2, <1>4, <1>6, <1>8, <1>9 DEF Ahead, IndexStands, Runs
<1>11. index' \in [Concurrent -> {"none", "building", "invalid", "valid"}]
  BY DEF MigrationsInv
<1>. QED
  BY <1>1, <1>6, <1>7, <1>9, <1>10, <1>11 DEF MigrationsInv

(* One that has recorded its file and goes on to the next. *)
LEMMA RecordKeepsMigrations ==
    ASSUME MigrationsInv, NEW d \in Deployments, deployed[d] # NULL, ~Runs(d, "lock"),
           deployed[d].pending # {}, applied' = Append(applied, Next1(d)), NextFile(d),
           UNCHANGED <<index, lock>>,
           Next1(d) \in Concurrent => index[Next1(d)] = "valid",
           done' = IF Next1(d) \in Concurrent THEN done
                   ELSE [done EXCEPT ![Next1(d)] = done[Next1(d)] + 1]
    PROVE  MigrationsInv'
<1>1. deployed[d] \in Deployings /\ Ahead(d)
  BY DEF MigrationsInv
<1>2. /\ applied' \in Seq(Versions) /\ Recorded' = Recorded \cup {Next1(d)}
      /\ Next1(d) \notin Recorded
      /\ \A i \in 1 .. Len(applied') - 1 : applied'[i] < applied'[i + 1]
      /\ \A v \in deployed[d].pending \ {Next1(d)}, w \in Recorded' : w < v
  BY <1>1, RecordNext
<1>3. PICK r : r = [deployed[d] EXCEPT !.at = "next", !.pending = deployed[d].pending \ {Next1(d)}]
  OBVIOUS
<1>4. r \in Deployings /\ r.at = "next" /\ r.pending = deployed[d].pending \ {Next1(d)}
  BY <1>1, <1>3 DEF Deployings
<1>5. deployed' = [deployed EXCEPT ![d] = r]
  BY <1>3 DEF NextFile
<1>6. /\ deployed' \in [Deployments -> Deployings \cup {NULL}] /\ deployed'[d] = r
      /\ \A e \in Deployments \ {d} : deployed'[e] = deployed[e]
  BY <1>4, <1>5, DeployedGoesOn
<1>7. \A e \in Deployments \ {d} : deployed'[e] = NULL \/ Runs(e, "lock")'
  BY <1>1, <1>6 DEF MigrationsInv, Ahead, Runs
<1>8. Ahead(d)'
  BY <1>1, <1>2, <1>4, <1>6, MigrationsAssumption DEF Ahead, Runs
<1>9. Next1(d) \in Versions
  BY NextIsLeast
<1>10. /\ done' \in [Versions \ Concurrent -> Nat]
       /\ \A v \in Versions \ Concurrent : done'[v] = IF v \in Recorded' THEN 1 ELSE 0
  BY <1>2, <1>9 DEF MigrationsInv
<1>. QED
  BY <1>2, <1>6, <1>7, <1>8, <1>10 DEF MigrationsInv

LEMMA DiesKeepsMigrations ==
    ASSUME MigrationsInv, NEW d \in Deployments, DeploymentDies(d)
    PROVE  MigrationsInv'
<1>1. UNCHANGED <<applied, done>> /\ Recorded' = Recorded /\ deployed' = [deployed EXCEPT ![d] = NULL]
  BY DEF DeploymentDies, Recorded
<1>2. /\ deployed' \in [Deployments -> Deployings \cup {NULL}] /\ deployed'[d] = NULL
      /\ \A e \in Deployments \ {d} : deployed'[e] = deployed[e]
  BY <1>1, DeployedGoesOn
<1>3. CASE deployed[d].at = "build"
  <2>1. Ahead(d) /\ IndexStands(d) /\ index[Next1(d)] = "building"
    BY <1>3 DEF DeploymentDies, MigrationsInv, Ahead, IndexStands, Runs
  <2>2. \A e \in Deployments \ {d} : deployed'[e] = NULL \/ Runs(e, "lock")'
    BY <1>2, <2>1 DEF MigrationsInv, Ahead, Runs
  <2>3. /\ index' \in [Concurrent -> {"none", "building", "invalid", "valid"}]
        /\ \A v \in Concurrent : index[v] = "valid" => index'[v] = "valid"
    BY <1>3, <2>1 DEF DeploymentDies, MigrationsInv
  <2>. QED
    BY <1>1, <1>2, <2>2, <2>3 DEF MigrationsInv
<1>4. CASE deployed[d].at # "build"
  <2>1. lock' = (IF lock = d THEN NULL ELSE lock) /\ index' = index
    BY <1>4 DEF DeploymentDies
  <2>2. ASSUME NEW e \in Deployments \ {d}, deployed'[e] # NULL, ~Runs(e, "lock")'
        PROVE  Ahead(e)'
    <3>1. Ahead(e)
      BY <1>2, <2>2 DEF MigrationsInv, Runs
    <3>2. lock' = lock
      BY <2>1, <3>1 DEF Ahead
    <3>. QED
      BY <1>1, <1>2, <2>1, <3>1, <3>2, OthersAhead
  <2>. QED
    BY <1>1, <1>2, <2>1, <2>2 DEF MigrationsInv
<1>. QED
  BY <1>3, <1>4

LEMMA OperatorKeepsMigrations ==
    ASSUME MigrationsInv, SessionEnds \/ \E v \in Concurrent : DropInvalid(v)
    PROVE  MigrationsInv'
<1>1. UNCHANGED <<applied, done, deployed>> /\ Recorded' = Recorded
  BY DEF SessionEnds, DropInvalid, Recorded
<1>2. /\ index' \in [Concurrent -> {"none", "building", "invalid", "valid"}]
      /\ \A v \in Concurrent : index[v] = "valid" => index'[v] = "valid"
  BY DEF SessionEnds, DropInvalid, MigrationsInv
<1>3. \A e \in Deployments : deployed'[e] = NULL \/ Runs(e, "lock")'
  BY <1>1, MigrationsAssumption DEF SessionEnds, DropInvalid, MigrationsInv, Ahead, Runs
<1>. QED
  BY <1>1, <1>2, <1>3 DEF MigrationsInv

LEMMA FileKeepsMigrations ==
    ASSUME MigrationsInv, NEW d \in Deployments,
           \/ ApplyInTransaction(d) \/ FileFails(d) \/ StartBuild(d) \/ FinishBuild(d)
           \/ BuildFails(d) \/ CheckIndexes(d) \/ RecordBuilt(d) \/ DeployEnds(d)
    PROVE  MigrationsInv'
<1>1. deployed[d] # NULL /\ deployed[d] \in Deployings /\ ~Runs(d, "lock") /\ Ahead(d)
  BY DEF MigrationsInv, ApplyInTransaction, FileFails, StartBuild, FinishBuild, BuildFails,
         CheckIndexes, RecordBuilt, DeployEnds, AtFile, Runs
<1>2. deployed[d].pending # {} =>
         Next1(d) \in deployed[d].pending /\ Next1(d) \in Versions
  BY <1>1, NextIsLeast
<1>3. index \in [Concurrent -> {"none", "building", "invalid", "valid"}]
  BY DEF MigrationsInv
<1>4. CASE ApplyInTransaction(d)
  <2>1. /\ deployed[d].pending # {} /\ applied' = Append(applied, Next1(d)) /\ NextFile(d)
        /\ UNCHANGED <<index, lock>> /\ Next1(d) \notin Concurrent
        /\ done' = [done EXCEPT ![Next1(d)] = done[Next1(d)] + 1]
    BY <1>4 DEF ApplyInTransaction, AtFile
  <2>2. done' = IF Next1(d) \in Concurrent THEN done
                ELSE [done EXCEPT ![Next1(d)] = done[Next1(d)] + 1]
    BY <2>1
  <2>. QED
    BY <1>1, <2>1, <2>2, RecordKeepsMigrations
<1>5. CASE FileFails(d) \/ DeployEnds(d)
  BY <1>1, <1>3, <1>5, EndKeepsMigrations DEF FileFails, DeployEnds
<1>6. CASE StartBuild(d)
  <2>1. /\ deployed[d].pending # {} /\ Next1(d) \in Concurrent /\ UNCHANGED <<applied, done, lock>>
    BY <1>6 DEF StartBuild, AtFile
  <2>2. CASE index[Next1(d)] = "none"
    <3>1. index' = [index EXCEPT ![Next1(d)] = "building"] /\ Continues(d, "build")
      BY <1>6, <2>2 DEF StartBuild
    <3>. QED
      BY <1>1, <2>1, <2>2, <3>1, IndexKeepsMigrations
  <2>3. CASE index[Next1(d)] # "none"
    <3>1. index' = index /\ Continues(d, "check")
      BY <1>6, <2>3 DEF StartBuild
    <3>2. PICK i \in {"none", "building", "invalid", "valid"} : i = index[Next1(d)]
      BY <1>3, <2>1
    <3>3. index' = [index EXCEPT ![Next1(d)] = i]
      BY <1>3, <3>1, <3>2
    <3>. QED
      BY <1>1, <2>1, <2>3, <3>1, <3>2, <3>3, IndexKeepsMigrations
  <2>. QED
    BY <2>2, <2>3
<1>7. CASE FinishBuild(d)
  <2>1. /\ IndexStands(d) /\ UNCHANGED <<applied, done, lock>>
        /\ index' = [index EXCEPT ![Next1(d)] = "valid"] /\ Continues(d, "check")
    BY <1>1, <1>7 DEF FinishBuild, Ahead, Runs
  <2>. QED
    BY <1>1, <2>1, IndexKeepsMigrations DEF IndexStands
<1>8. CASE BuildFails(d)
  <2>1. /\ IndexStands(d) /\ index[Next1(d)] = "building" /\ UNCHANGED <<applied, done>>
        /\ index' = [index EXCEPT ![Next1(d)] = "invalid"] /\ Ends(d)
    BY <1>1, <1>8 DEF BuildFails, Ahead, Runs, IndexStands
  <2>2. /\ index' \in [Concurrent -> {"none", "building", "invalid", "valid"}]
        /\ \A v \in Concurrent : index[v] = "valid" => index'[v] = "valid"
    BY <1>3, <2>1
  <2>. QED
    BY <1>1, <2>1, <2>2, EndKeepsMigrations
<1>9. CASE CheckIndexes(d)
  <2>1. IndexStands(d) /\ index[Next1(d)] # "none" /\ UNCHANGED <<applied, done, index>>
    BY <1>1, <1>9 DEF CheckIndexes, Ahead, Runs, IndexStands
  <2>2. CASE InvalidIndexes # {}
    BY <1>1, <1>3, <1>9, <2>1, <2>2, EndKeepsMigrations DEF CheckIndexes
  <2>3. CASE InvalidIndexes = {}
    <3>1. Continues(d, "record") /\ lock' = lock
      BY <1>9, <2>3 DEF CheckIndexes
    <3>2. index[Next1(d)] = "valid"
      BY <1>3, <2>1, <2>3 DEF InvalidIndexes, IndexStands
    <3>3. index' = [index EXCEPT ![Next1(d)] = "valid"]
      BY <1>3, <2>1, <3>2
    <3>. QED
      BY <1>1, <2>1, <3>1, <3>2, <3>3, IndexKeepsMigrations DEF IndexStands
  <2>. QED
    BY <2>2, <2>3
<1>10. CASE RecordBuilt(d)
  <2>1. IndexStands(d) /\ index[Next1(d)] = "valid"
    BY <1>1, <1>10 DEF RecordBuilt, Ahead, Runs, IndexStands
  <2>2. /\ deployed[d].pending # {} /\ Next1(d) \in Concurrent
        /\ applied' = Append(applied, Next1(d)) /\ NextFile(d) /\ UNCHANGED <<done, index, lock>>
    BY <1>10, <2>1 DEF RecordBuilt, IndexStands
  <2>3. done' = IF Next1(d) \in Concurrent THEN done
                ELSE [done EXCEPT ![Next1(d)] = done[Next1(d)] + 1]
    BY <2>2
  <2>. QED
    BY <1>1, <2>1, <2>2, <2>3, RecordKeepsMigrations
<1>. QED
  BY <1>4, <1>5, <1>6, <1>7, <1>8, <1>9, <1>10

LEMMA MigrationsStep ==
    ASSUME MigrationsInv, MigrationsNext \/ UNCHANGED migrationVars
    PROVE  MigrationsInv'
<1>1. CASE UNCHANGED migrationVars
  <2>1. Recorded' = Recorded
    BY <1>1 DEF migrationVars, Recorded
  <2>2. \A e \in Deployments : Ahead(e) => Ahead(e)'
    BY <1>1, <2>1, OthersAhead DEF migrationVars
  <2>3. \A e \in Deployments : Runs(e, "lock")' <=> Runs(e, "lock")
    BY <1>1 DEF migrationVars, Runs
  <2>. QED
    BY <1>1, <2>1, <2>2, <2>3 DEF migrationVars, MigrationsInv
<1>2. CASE SessionEnds \/ \E v \in Concurrent : DropInvalid(v)
  BY <1>2, OperatorKeepsMigrations
<1>3. CASE \E d \in Deployments : DeploymentDies(d)
  BY <1>3, DiesKeepsMigrations
<1>4. ASSUME NEW d \in Deployments, (\E files \in Images : Deploy(d, files)) \/ TakeLock(d)
      PROVE  MigrationsInv'
  <2>1. \E files \in Images : Deploy(d, files) \/ TakeLock(d)
    BY <1>4 DEF TakeLock, Runs, MigrationsInv, Deployings
  <2>. QED
    BY <2>1, DeployKeepsMigrations
<1>5. ASSUME NEW d \in Deployments,
             \/ ApplyInTransaction(d) \/ FileFails(d) \/ StartBuild(d) \/ FinishBuild(d)
             \/ BuildFails(d) \/ CheckIndexes(d) \/ RecordBuilt(d) \/ DeployEnds(d)
      PROVE  MigrationsInv'
  BY <1>5, FileKeepsMigrations
<1>. QED
  BY <1>1, <1>2, <1>3, <1>4, <1>5 DEF MigrationsNext

(* What is recorded as applied was applied, once and in order, and its index is *)
(* valid, whatever deployments of whatever images meet or die (runMigrations()).*)
THEOREM RecordsAreTrue == Spec => []RecordedIsApplied
<1> DEFINE Inv == part = "migrations" => MigrationsInv
<1>1. Init => Inv
  BY MigrationsInitInv DEF Init
<1>2. Inv /\ [Next]_vars => Inv'
  BY PartKept, PartSteps, MigrationsStep
<1>3. Inv => RecordedIsApplied
  BY DEF MigrationsInv, RecordedIsApplied
<1>. QED
  BY <1>1, <1>2, <1>3, PTL DEF Spec

-----------------------------------------------------------------------------
(* RELATIONS.  The trail is about edges that can be, and explains each of     *)
(* them but the crossed ones; a request is about such an edge as well.        *)
Trails == [kind : {"added", "removed"}, edge : Joined]
PageRecords == [entity : FromNodes, manual : SUBSET Joined]
Places == {"check", "merge", "delete", "record"}
AskRecords == [op : {"add", "delete"}, edge : Joined, at : Places, now : Nat]

Explained(e) ==
    /\ begunBy[e] = "connector" => Present(e)
    /\ Manual(e) => begunBy[e] = "person"
    /\ e \notin crossed => (Manual(e) <=> LastOf(e) = "added")

RelationsInv ==
    /\ edges \in [Joined -> Drawn \cup {NULL}] /\ DOMAIN begunBy = Joined
    /\ linked \in [Linkers -> PageRecords \cup {NULL}]
    /\ asked \in [Linkers -> AskRecords \cup {NULL}]
    /\ trail \in Seq(Trails) /\ clock \in Nat
    /\ \A e \in Joined : Explained(e)

LEMMA RelationsInitInv == RelationsInit => RelationsInv
<1> SUFFICES ASSUME RelationsInit PROVE RelationsInv
  OBVIOUS
<1>1. trail \in Seq(Trails) /\ DOMAIN trail = {}
  BY EmptySeq DEF RelationsInit
<1>2. \A e \in Joined : LastOf(e) = "none" /\ ~Manual(e)
  BY <1>1 DEF RelationsInit, LastOf, Manual
<1>3. \A e \in Joined : begunBy[e] # "connector"
  BY RelationsAssumption DEF RelationsInit
<1>. QED
  BY <1>1, <1>2, <1>3 DEF RelationsInit, RelationsInv, Explained

(* An event is the last one about its edge, and of no other. *)
LEMMA RecordIsLast ==
    ASSUME RelationsInv, NEW e \in Joined, NEW kind \in {"added", "removed"}, Record(kind, e)
    PROVE  /\ trail' \in Seq(Trails) /\ LastOf(e)' = kind
           /\ \A f \in Joined \ {e} : LastOf(f)' = LastOf(f)
<1> DEFINE event == [kind |-> kind, edge |-> e]
           n == Len(trail)
<1>1. event \in Trails /\ event.kind = kind /\ event.edge = e
  BY DEF Trails
<1>2. trail \in Seq(Trails) /\ trail' = Append(trail, event)
  BY DEF RelationsInv, Record
<1>3. n \in Nat /\ DOMAIN trail = 1 .. n
  BY <1>2, LenProperties
<1> HIDE DEF event, n
<1>4. /\ trail' \in Seq(Trails) /\ Len(trail') = n + 1 /\ trail'[n + 1] = event
      /\ \A i \in 1 .. n : trail'[i] = trail[i]
  BY <1>1, <1>2, AppendProperties DEF n
<1>5. DOMAIN trail' = 1 .. n + 1
  BY <1>4, LenProperties
<1>6. DOMAIN trail' = (1 .. n) \cup {n + 1} /\ n + 1 \notin 1 .. n
  BY <1>3, <1>5
<1>7. LastOf(e)' = kind
  <2> DEFINE about == {i \in DOMAIN trail' : trail'[i].edge = e}
  <2>1. n + 1 \in about /\ about \subseteq 1 .. n + 1
    BY <1>1, <1>3, <1>4, <1>5, <1>6
  <2>2. \A i \in about : (\A j \in about : j <= i) <=> i = n + 1
    BY <1>3, <2>1
  <2>3. (CHOOSE i \in about : \A j \in about : j <= i) = n + 1
    BY <2>1, <2>2
  <2>. QED
    BY <1>1, <1>4, <2>1, <2>3 DEF LastOf
<1>8. ASSUME NEW f \in Joined \ {e} PROVE LastOf(f)' = LastOf(f)
  <2> DEFINE before == {i \in DOMAIN trail : trail[i].edge = f}
             after == {i \in DOMAIN trail' : trail'[i].edge = f}
  <2>1. after = before /\ \A i \in before : trail'[i] = trail[i]
    BY <1>1, <1>3, <1>4, <1>6
  <2>2. LastOf(f)' = IF after = {} THEN "none"
                     ELSE trail'[CHOOSE i \in after : \A j \in after : j <= i].kind
    BY DEF LastOf
  <2>3. LastOf(f) = IF before = {} THEN "none"
                    ELSE trail[CHOOSE i \in before : \A j \in before : j <= i].kind
    BY DEF LastOf
  <2> HIDE DEF before, after
  <2>4. CASE before = {}
    BY <2>1, <2>2, <2>3, <2>4
  <2>5. CASE before # {}
    <3>1. PICK top \in before : \A j \in before : j <= top
      <4>1. before \in SUBSET (1 .. n)
        BY <1>3 DEF before
      <4>. QED
        BY <1>3, <2>5, <4>1, GreatestBelow
    <3>2. (CHOOSE i \in before : \A j \in before : j <= i) \in before
      BY <3>1
    <3>. QED
      BY <2>1, <2>2, <2>3, <2>5, <3>2
  <2>. QED
    BY <2>4, <2>5
<1>. QED
  BY <1>4, <1>7, <1>8

(* The edges and the trail as they were. *)
LEMMA EdgesKept ==
    ASSUME RelationsInv, UNCHANGED <<edges, begunBy, trail, crossed>>
    PROVE  \A e \in Joined : Explained(e)'
<1>1. \A e \in Joined : LastOf(e)' = LastOf(e)
  BY DEF LastOf
<1>. QED
  BY <1>1 DEF RelationsInv, Explained, Manual, Present

LEMMA AnswerKeepsPages ==
    ASSUME RelationsInv, NEW u \in Linkers, Answered(u)
    PROVE  /\ linked' \in [Linkers -> PageRecords \cup {NULL}]
           /\ asked' \in [Linkers -> AskRecords \cup {NULL}]
BY DEF RelationsInv, Answered

(* A request goes on to its next statement. *)
LEMMA AskProceeds ==
    ASSUME RelationsInv, NEW u \in Linkers, asked[u] # NULL, NEW l \in Places, NEW t \in Nat,
           \/ asked' = [asked EXCEPT ![u].at = l]
           \/ asked' = [asked EXCEPT ![u].at = l, ![u].now = t]
    PROVE  asked' \in [Linkers -> AskRecords \cup {NULL}]
<1>1. asked[u] \in AskRecords /\ asked \in [Linkers -> AskRecords \cup {NULL}]
  BY DEF RelationsInv
<1>2. PICK r : asked' = [asked EXCEPT ![u] = r]
               /\ (r = [asked[u] EXCEPT !.at = l] \/ r = [asked[u] EXCEPT !.at = l, !.now = t])
  BY <1>1
<1>3. r \in AskRecords
  BY <1>1, <1>2 DEF AskRecords
<1>. QED
  BY <1>1, <1>2, <1>3

LEMMA PageKeepsRelations ==
    ASSUME RelationsInv, NEW u \in Linkers,
           \/ \E n \in FromNodes : OpenEntity(u, n)
           \/ \E t \in ToNodes : AskAdd(u, t)
           \/ \E e \in Joined : AskDelete(u, e)
           \/ CheckAdd(u) \/ CheckDelete(u)
    PROVE  RelationsInv'
<1>1. UNCHANGED <<edges, begunBy, trail, crossed, clock>>
  BY DEF OpenEntity, AskAdd, AskDelete, CheckAdd, CheckDelete
<1>2. linked' \in [Linkers -> PageRecords \cup {NULL}]
  <2>1. \A n \in FromNodes :
           [entity |-> n, manual |-> {e \in Joined : e[1] = n /\ Manual(e)}] \in PageRecords
    BY DEF PageRecords
  <2>. QED
    BY <2>1 DEF OpenEntity, AskAdd, AskDelete, CheckAdd, CheckDelete, Proceeds, Answered, RelationsInv
<1>3. asked' \in [Linkers -> AskRecords \cup {NULL}]
  <2>1. CASE \E n \in FromNodes : OpenEntity(u, n)
    BY <2>1 DEF OpenEntity, RelationsInv
  <2>2. CASE (\E t \in ToNodes : AskAdd(u, t)) \/ \E e \in Joined : AskDelete(u, e)
    <3>1. linked[u] \in PageRecords /\ clock \in Nat
      BY <2>2 DEF AskAdd, AskDelete, RelationsInv
    <3>2. PICK r \in AskRecords : asked' = [asked EXCEPT ![u] = r]
      BY <2>2, <3>1 DEF AskAdd, AskDelete, AskRecords, Places, PageRecords, Joined
    <3>. QED
      BY <3>2 DEF RelationsInv
  <2>3. CASE CheckAdd(u) \/ CheckDelete(u)
    <3>1. "merge" \in Places /\ "delete" \in Places /\ clock \in Nat /\ asked[u] # NULL
      BY <2>3 DEF Places, CheckAdd, CheckDelete, Asks, RelationsInv
    <3>. QED
      BY <2>3, <3>1, AskProceeds, AnswerKeepsPages DEF CheckAdd, CheckDelete, Proceeds
  <2>. QED
    BY <2>1, <2>2, <2>3
<1>. QED
  BY <1>1, <1>2, <1>3, EdgesKept DEF RelationsInv

LEMMA MergeKeepsRelations ==
    ASSUME RelationsInv, NEW e \in Joined, MergeEdge(e)
    PROVE  RelationsInv'
<1>1. UNCHANGED <<linked, asked, trail, crossed, clock>> /\ \A f \in Joined : LastOf(f)' = LastOf(f)
  BY DEF MergeEdge, LastOf
<1>2. PICK r : r = IF Present(e) THEN [edges[e] EXCEPT !.at = clock] ELSE [actor |-> NULL, at |-> clock]
  OBVIOUS
<1>3. r \in Drawn /\ r.actor = IF Present(e) THEN edges[e].actor ELSE NULL
  BY <1>2 DEF Drawn, Present, RelationsInv
<1>4. edges' = [edges EXCEPT ![e] = r]
  BY <1>2 DEF MergeEdge
<1>5. edges' \in [Joined -> Drawn \cup {NULL}] /\ DOMAIN begunBy' = Joined
  BY <1>3, <1>4 DEF RelationsInv, MergeEdge
<1>6. \A f \in Joined : (Manual(f)' <=> Manual(f)) /\ (Present(f)' <=> Present(f) \/ f = e)
  BY <1>3, <1>4, RelationsAssumption DEF RelationsInv, Manual, Present
<1>7. \A f \in Joined : f = e \/ Present(f) => begunBy'[f] = begunBy[f] \/ (f = e /\ ~Present(f))
  BY DEF RelationsInv, Present, MergeEdge
<1>8. \A f \in Joined : begunBy'[f] = "connector" => begunBy[f] = "connector" \/ f = e
  BY DEF RelationsInv, MergeEdge
<1>9. \A f \in Joined : Manual(f) => Present(f)
  BY DEF Manual, Present
<1>. QED
  BY <1>1, <1>5, <1>6, <1>7, <1>8, <1>9 DEF RelationsInv, Explained

(* A person's request makes or deletes an edge and records it: the trail      *)
(* explains that edge then, whatever it said before, and the others as before.*)
LEMMA ChangeKeepsRelations ==
    ASSUME RelationsInv, NEW u \in Linkers, NEW e \in Joined,
           NEW made \in {[actor |-> u, at |-> n] : n \in Nat} \cup {NULL},
           edges' = [edges EXCEPT ![e] = made],
           begunBy' = IF made = NULL THEN begunBy ELSE [begunBy EXCEPT ![e] = "person"],
           made = NULL => Manual(e),
           Record(IF made = NULL THEN "removed" ELSE "added", e),
           crossed' = crossed \ {e}, clock' = clock, Answered(u)
    PROVE  RelationsInv'
<1>1. made \in Drawn \cup {NULL} /\ (made # NULL => made.actor = u /\ u # NULL)
  BY RelationsAssumption DEF Drawn
<1>2. /\ trail' \in Seq(Trails)
      /\ LastOf(e)' = IF made = NULL THEN "removed" ELSE "added"
      /\ \A f \in Joined \ {e} : LastOf(f)' = LastOf(f)
  BY RecordIsLast
<1>3. /\ edges' \in [Joined -> Drawn \cup {NULL}] /\ DOMAIN begunBy' = Joined
      /\ edges'[e] = made /\ (made # NULL => begunBy'[e] = "person")
      /\ (made = NULL => begunBy'[e] = begunBy[e])
      /\ \A f \in Joined \ {e} : edges'[f] = edges[f] /\ begunBy'[f] = begunBy[f]
  BY <1>1 DEF RelationsInv
<1>4. (Manual(e)' <=> made # NULL) /\ (Present(e)' <=> made # NULL)
  BY <1>1, <1>3 DEF Manual, Present
<1>5. Explained(e)'
  BY <1>2, <1>3, <1>4 DEF RelationsInv, Explained
<1>6. \A f \in Joined \ {e} : Explained(f)'
  BY <1>2, <1>3 DEF RelationsInv, Explained, Manual, Present
<1>. QED
  BY <1>2, <1>3, <1>5, <1>6, AnswerKeepsPages DEF RelationsInv

(* A request that found its edge changed goes on without changing it. *)
LEMMA LostRaceKeepsRelations ==
    ASSUME RelationsInv, NEW u \in Linkers, asked[u] # NULL,
           Proceeds(u, "record") \/ Answered(u), UNCHANGED <<edges, begunBy, trail, crossed, clock>>
    PROVE  RelationsInv'
<1>1. "record" \in Places /\ clock \in Nat
  BY DEF Places, RelationsInv
<1>2. /\ linked' \in [Linkers -> PageRecords \cup {NULL}]
      /\ asked' \in [Linkers -> AskRecords \cup {NULL}]
  BY <1>1, AskProceeds, AnswerKeepsPages DEF Proceeds, RelationsInv
<1>. QED
  BY <1>2, EdgesKept DEF RelationsInv

LEMMA AddKeepsRelations ==
    ASSUME RelationsInv, NEW u \in Linkers, AddRelation(u)
    PROVE  RelationsInv'
<1>1. asked[u] # NULL /\ asked[u] \in AskRecords
  BY DEF AddRelation, Asks, RelationsInv
<1>2. PICK e \in Joined : e = asked[u].edge
  BY <1>1 DEF AskRecords
<1>3. PICK made : made = [actor |-> u, at |-> asked[u].now]
  OBVIOUS
<1>4. made \in {[actor |-> u, at |-> n] : n \in Nat} /\ made # NULL
  BY <1>1, <1>3, RelationsAssumption DEF AskRecords, Drawn
<1>5. CASE Present(e)
  BY <1>1, <1>2, <1>5, LostRaceKeepsRelations DEF AddRelation
<1>6. CASE ~Present(e)
  BY <1>2, <1>3, <1>4, <1>6, ChangeKeepsRelations DEF AddRelation
<1>. QED
  BY <1>5, <1>6

LEMMA DeleteKeepsRelations ==
    ASSUME RelationsInv, NEW u \in Linkers, DeleteRelation(u)
    PROVE  RelationsInv'
<1>1. asked[u] # NULL /\ asked[u] \in AskRecords
  BY DEF DeleteRelation, Asks, RelationsInv
<1>2. PICK e \in Joined : e = asked[u].edge
  BY <1>1 DEF AskRecords
<1>3. CASE ~Manual(e)
  BY <1>1, <1>2, <1>3, LostRaceKeepsRelations DEF DeleteRelation
<1>4. CASE Manual(e)
  BY <1>2, <1>4, ChangeKeepsRelations DEF DeleteRelation, Deleted
<1>. QED
  BY <1>3, <1>4

LEMMA RecordKeepsRelations ==
    ASSUME RelationsInv, NEW u \in Linkers, RecordRelation(u)
    PROVE  RelationsInv'
<1>1. asked[u] \in AskRecords
  BY DEF RecordRelation, RelationsInv
<1>2. PICK e \in Joined : e = asked[u].edge
  BY <1>1 DEF AskRecords
<1>3. PICK kind \in {"added", "removed"} : Record(kind, e)
  BY <1>2 DEF RecordRelation
<1>4. trail' \in Seq(Trails) /\ \A f \in Joined \ {e} : LastOf(f)' = LastOf(f)
  BY <1>3, RecordIsLast
<1>5. UNCHANGED <<edges, begunBy, clock>> /\ crossed' = crossed \cup {e}
  BY <1>2 DEF RecordRelation
<1>6. \A f \in Joined : Explained(f)'
  BY <1>4, <1>5 DEF RelationsInv, Explained, Manual, Present
<1>. QED
  BY <1>4, <1>5, <1>6, AnswerKeepsPages DEF RecordRelation, RelationsInv

LEMMA RelationsStep ==
    ASSUME RelationsInv, RelationsNext \/ UNCHANGED relationVars
    PROVE  RelationsInv'
<1>1. CASE Tock \/ UNCHANGED relationVars
  <2>1. UNCHANGED <<edges, begunBy, trail, crossed, linked, asked>> /\ clock' \in Nat
    BY <1>1 DEF Tock, relationVars, RelationsInv
  <2>. QED
    BY <2>1, EdgesKept DEF RelationsInv
<1>. QED
  BY <1>1, PageKeepsRelations, MergeKeepsRelations, AddKeepsRelations, DeleteKeepsRelations,
     RecordKeepsRelations
  DEF RelationsNext

(* No request deletes an edge that a connector made or puts a person's mark on   *)
(* one (deleteRelation()'s WHERE clause, addRelation()'s ON CREATE); and the     *)
(* trail explains the edges: one bears a person's mark exactly when its last     *)
(* event is an addition, but where that event is of a request that found its     *)
(* edge gone, or there already, when it came to change it.                       *)
THEOREM TrailIsTrue == Spec => []TrailExplainsEdges
<1> DEFINE Inv == part = "relations" => RelationsInv
<1>1. Init => Inv
  BY RelationsInitInv DEF Init
<1>2. Inv /\ [Next]_vars => Inv'
  BY PartKept, PartSteps, RelationsStep
<1>3. Inv => TrailExplainsEdges
  BY DEF RelationsInv, Explained, TrailExplainsEdges
<1>. QED
  BY <1>1, <1>2, <1>3, PTL DEF Spec

-----------------------------------------------------------------------------
(* CONTAINERS.  The invariant has four parts.  The types, for the records     *)
(* that wait between two statements:                                          *)
Listings == [exists : BOOLEAN, open : BOOLEAN]

StoreTyped ==
    /\ src \in [exists : BOOLEAN, open : BOOLEAN, docs : [Docs -> Nat], n : Nat, turns : Int]
    /\ row \in Rows \cup {NULL} /\ docs \in [Docs -> Indexed \cup {NULL}]
    /\ life \in Nat /\ conn \in Nat /\ born \in Nat /\ cachedLife \in Nat /\ consent \in BOOLEAN

RunTyped ==
    run # NULL =>
        /\ run = [mode |-> run.mode, at |-> run.at, stop |-> run.stop, ck |-> run.ck, got |-> run.got]
        /\ run.ck \in Nat /\ (run.at = "upsert" => run.got \in Listings)

RequestsTyped ==
    /\ refresh # NULL =>
         /\ refresh = [at |-> refresh.at, stop |-> refresh.stop, got |-> refresh.got]
         /\ refresh.at = "upsert" => refresh.got \in Listings
    /\ put # NULL =>
         /\ put = [id |-> put.id, sel |-> put.sel, ack |-> put.ack, stop |-> put.stop,
                   got |-> put.got, at |-> put.at]
         /\ put.sel \in BOOLEAN /\ put.ack \in BOOLEAN /\ put.id \in Nat
         /\ put.at = "upsert" => put.got \in Listings

ContainersTyped == StoreTyped /\ RunTyped /\ RequestsTyped

(* The lives: whose documents there are, and from when on those of an earlier *)
(* life cannot stay.  A run's life is the one the scheduler has cached, and   *)
(* no run is under way when a deletion is recorded.                           *)
OnItsWayOut == ~row.sel /\ row.purge /\ row.gone
Doomed(c) == \A d \in Held : docs[d].life # c => OnItsWayOut

LivesStand ==
    /\ conn \in {0, born} /\ life <= born /\ cachedLife <= born
    /\ \A d \in Held : docs[d].life \in 1 .. born
    /\ Held # {} => row # NULL
    /\ run # NULL => conn # 0 /\ cachedLife = conn /\ del \notin {"remove", "end"}
    /\ conn # 0 /\ cachedLife = conn => life = conn \/ del = "remove"
    /\ conn # 0 /\ life = conn => Doomed(conn)
    /\ del = "remove" \/ (conn = 0 /\ life = 0) => Doomed(0) /\ life = 0

(* The checkpoints: what the row's claims is there, what a batch brings is    *)
(* what the source had or has replaced since, and what a listing leaves out   *)
(* is not there, new, or everything, and then not to be believed.             *)
Complete(n) == \A d \in Docs : src.docs[d] \in 1 .. n => d \in Live /\ docs[d].ver = src.docs[d]

UpTo(batch) == IF batch.ck = 0 THEN run.ck ELSE batch.ck

Delivers(batch) ==
    /\ batch.ck \in Nat /\ run.ck <= UpTo(batch) /\ UpTo(batch) <= src.n
    /\ batch.ver \in [Docs -> Nat] /\ \A d \in batch.docs : batch.ver[d] > 0
    /\ \A d \in Docs : batch.ver[d] \in run.ck + 1 .. UpTo(batch) => d \in batch.docs
    /\ \A d \in batch.deleted : batch.ver[d] = 0
    /\ \A d \in Docs : src.docs[d] \in {0, batch.ver[d]} \/ src.docs[d] > UpTo(batch)

LeavesOut(listing) ==
    \/ \A d \in Docs \ listing : src.docs[d] = 0 \/ row = NULL \/ src.docs[d] > row.ck
    \/ listing = {} /\ ~lastEmpty

CheckpointsStand ==
    /\ row # NULL => row.ck <= src.n /\ Complete(row.ck)
    /\ run # NULL => run.ck <= src.n
    /\ RunAt("store") => Delivers(run.got)
    /\ RunAt("prune") => LeavesOut(run.got)
    /\ empty => lastEmpty

(* The consent: an acceptance that stands is an admin's. *)
ConsentStands == row # NULL /\ row.ack => consent

ContainersInv == ContainersTyped /\ LivesStand /\ CheckpointsStand /\ ConsentStands

LEMMA ContainersInitInv == ContainersInit => ContainersInv
<1> SUFFICES ASSUME ContainersInit PROVE ContainersInv
  OBVIOUS
<1>1. PICK left \in {0, 1} :
        /\ src = [exists |-> TRUE, open |-> left = 0, docs |-> [d \in Docs |-> left], n |-> left,
                  turns |-> MaxTurns]
        /\ row = IF left = 0 THEN NULL
                 ELSE [NoRow EXCEPT !.id = 1, !.sel = TRUE, !.ack = TRUE, !.open = FALSE, !.ck = 1]
        /\ docs = [d \in Docs |-> IF left = 0 THEN NULL ELSE [ver |-> 1, life |-> 1]]
        /\ life = left /\ born = left /\ consent = (left = 1)
  BY DEF ContainersInit
<1>2. /\ empty = FALSE /\ lastEmpty = FALSE /\ conn = 0 /\ cachedLife = 0
      /\ run = NULL /\ refresh = NULL /\ put = NULL /\ del = NULL
  BY DEF ContainersInit
<1>3. [ver |-> 1, life |-> 1] \in Indexed /\ [ver |-> 1, life |-> 1] # NULL
  BY ContainersAssumption DEF Indexed
<1>4. left = 1 => row \in Rows /\ row.ack /\ row.ck = 1 /\ row # NULL
  <2>1. PICK r : r = [NoRow EXCEPT !.id = 1, !.sel = TRUE, !.ack = TRUE, !.open = FALSE, !.ck = 1]
    OBVIOUS
  <2>2. r \in Rows /\ r.ack /\ r.ck = 1
    BY <2>1 DEF NoRow, Rows
  <2>3. left = 1 => row = r
    BY <1>1, <2>1
  <2>. QED
    BY <2>2, <2>3, ContainersAssumption
<1>5. StoreTyped
  BY <1>1, <1>2, <1>3, <1>4, ContainersAssumption DEF StoreTyped
<1>6. LivesStand
  BY <1>1, <1>2, <1>3, <1>4, ContainersAssumption DEF LivesStand, Held, Doomed
<1>7. CheckpointsStand
  <2>1. CASE left = 0
    BY <1>1, <1>2, <2>1 DEF CheckpointsStand, RunAt
  <2>2. CASE left = 1
    <3>1. \A d \in Docs : d \in Live /\ docs[d].ver = 1 /\ src.docs[d] = 1
      BY <1>1, <1>3, <2>2 DEF Live, Held
    <3>. QED
      BY <1>1, <1>2, <1>4, <2>2, <3>1 DEF CheckpointsStand, RunAt, Complete
  <2>. QED
    BY <2>1, <2>2
<1>. QED
  BY <1>1, <1>2, <1>4, <1>5, <1>6, <1>7
  DEF ContainersInv, ContainersTyped, RunTyped, RequestsTyped, ConsentStands

(* What a statement may make of the row while the documents stay: its         *)
(* checkpoint is kept or begun anew, documents keep a row, and a row on its   *)
(* way out stays that way.                                                    *)
RowMoves ==
    /\ row' \in Rows \cup {NULL}
    /\ row' # NULL /\ row'.ck # 0 => row # NULL /\ row'.ck = row.ck
    /\ row # NULL /\ Held # {} => row' # NULL
    /\ row # NULL /\ Held # {} /\ OnItsWayOut => OnItsWayOut'
    /\ row' # NULL /\ row'.ack => consent'

LEMMA RowRests == ContainersInv /\ UNCHANGED <<row, consent>> => RowMoves
BY DEF ContainersInv, ContainersTyped, StoreTyped, ConsentStands, RowMoves, OnItsWayOut

LEMMA ClearMoves ==
    ASSUME ContainersInv, ClearConnector
    PROVE  RowMoves /\ consent' = FALSE /\ (Held # {} => OnItsWayOut')
<1>1. row \in Rows \cup {NULL} /\ (Held # {} => row # NULL)
  BY DEF ContainersInv, ContainersTyped, StoreTyped, LivesStand
<1>2. consent' = FALSE /\ row' = Cleared
  BY DEF ClearConnector
<1>3. CASE row = NULL \/ Held = {}
  BY <1>1, <1>2, <1>3 DEF Cleared, RowMoves
<1>4. CASE ~(row = NULL \/ Held = {})
  <2>1. row' = [row EXCEPT !.sel = FALSE, !.ack = FALSE, !.purge = TRUE, !.gone = TRUE] /\ row \in Rows
    BY <1>1, <1>2, <1>4 DEF Cleared
  <2>2. row' \in Rows /\ ~row'.sel /\ ~row'.ack /\ row'.purge /\ row'.gone /\ row'.ck = row.ck
    BY <2>1 DEF Rows
  <2>. QED
    BY <1>2, <1>4, <2>2, ContainersAssumption DEF RowMoves, OnItsWayOut
<1>. QED
  BY <1>3, <1>4

LEMMA UpsertMoves ==
    ASSUME ContainersInv, NEW seen \in Listings, consent' = consent,
           UpsertContainer(seen) \/ UpsertContainers(seen)
    PROVE  RowMoves
<1>1. row \in Rows \cup {NULL} /\ (row # NULL /\ row.ack => consent)
  BY DEF ContainersInv, ContainersTyped, StoreTyped, ConsentStands
<1>2. CASE UpsertContainer(seen) /\ row = NULL
  <2>1. row' = [NoRow EXCEPT !.id = NewId, !.open = seen.open]
    BY <1>2 DEF UpsertContainer
  <2>2. row' \in Rows /\ row'.ck = 0 /\ ~row'.ack
    BY <2>1 DEF NoRow, Rows, NewId, Listings
  <2>. QED
    BY <1>2, <2>2 DEF RowMoves
<1>3. CASE UpsertContainer(seen) /\ row # NULL
  <2>1. PICK r : r = [row EXCEPT !.gone = row.gone /\ row.purge]
    OBVIOUS
  <2>2. row' = [r EXCEPT !.open = seen.open]
    BY <1>3, <2>1 DEF UpsertContainer, Relisted
  <2>3. (row.gone /\ row.purge) \in BOOLEAN
    BY <1>1, <1>3 DEF Rows
  <2>4. /\ r \in Rows /\ r.ck = row.ck /\ r.ack = row.ack /\ r.sel = row.sel /\ r.purge = row.purge
        /\ r.gone = (row.gone /\ row.purge)
    BY <1>1, <1>3, <2>1, <2>3 DEF Rows
  <2>5. /\ row' \in Rows /\ row'.ck = row.ck /\ row'.ack = row.ack /\ row'.sel = row.sel
        /\ row'.purge = row.purge /\ row'.gone = (row.gone /\ row.purge)
    BY <2>2, <2>4 DEF Rows, Listings
  <2>. QED
    BY <1>1, <1>3, <2>5, ContainersAssumption DEF RowMoves, OnItsWayOut
<1>4. CASE UpsertContainers(seen) /\ ~seen.exists
  <2>1. CASE row = NULL
    BY <1>4, <2>1 DEF UpsertContainers, RowMoves
  <2>2. CASE row # NULL
    <3>1. row' = [row EXCEPT !.gone = TRUE]
      BY <1>4, <2>2 DEF UpsertContainers
    <3>2. /\ row' \in Rows /\ row'.ck = row.ck /\ row'.ack = row.ack /\ row'.sel = row.sel
          /\ row'.purge = row.purge /\ row'.gone
      BY <1>1, <2>2, <3>1 DEF Rows
    <3>. QED
      BY <1>1, <2>2, <3>2, ContainersAssumption DEF RowMoves, OnItsWayOut
  <2>. QED
    BY <2>1, <2>2
<1>. QED
  BY <1>2, <1>3, <1>4 DEF UpsertContainers

LEMMA WriteMoves ==
    ASSUME ContainersInv, PutWrite
    PROVE  RowMoves /\ consent' \in BOOLEAN
<1>1. /\ row \in Rows \cup {NULL} /\ (row # NULL /\ row.ack => consent) /\ consent \in BOOLEAN
      /\ put.sel \in BOOLEAN /\ put.ack \in BOOLEAN
  BY DEF ContainersInv, ContainersTyped, StoreTyped, RequestsTyped, ConsentStands, PutWrite
<1>2. CASE ~Selectable
  BY <1>1, <1>2, RowRests DEF PutWrite
<1>3. CASE Selectable /\ put.sel
  <2>1. /\ row # NULL /\ ~row.gone /\ row' = Selected(row, put.ack)
        /\ consent' = (put.sel /\ (consent \/ put.ack))
    BY <1>3 DEF PutWrite, Selectable
  <2>2. PICK acked \in BOOLEAN : acked = (row.ack \/ (put.ack /\ ~row.open))
    BY <1>1, <2>1 DEF Rows
  <2>3. row' = [row EXCEPT !.sel = TRUE, !.ack = acked, !.purge = FALSE]
    BY <2>1, <2>2 DEF Selected
  <2>4. row' \in Rows /\ row'.ck = row.ck /\ row'.ack = acked
    BY <1>1, <2>1, <2>3 DEF Rows
  <2>5. acked => consent'
    BY <1>1, <1>3, <2>1, <2>2
  <2>. QED
    BY <1>1, <2>1, <2>4, <2>5, ContainersAssumption DEF RowMoves, OnItsWayOut
<1>4. CASE Selectable /\ ~put.sel
  <2>1. row # NULL /\ row' = Deselected(row) /\ consent' = (put.sel /\ (consent \/ put.ack))
    BY <1>4 DEF PutWrite, Selectable
  <2>2. /\ row' \in Rows /\ row'.ck = row.ck /\ ~row'.ack /\ ~row'.sel /\ row'.purge
        /\ row'.gone = row.gone
    BY <1>1, <2>1 DEF Rows, Deselected
  <2>. QED
    BY <1>1, <2>1, <2>2, ContainersAssumption DEF RowMoves, OnItsWayOut
<1>. QED
  BY <1>2, <1>3, <1>4

(* The lives stand whatever the row does, as long as the documents and the    *)
(* lives stay and no run begins.                                              *)
LEMMA LivesRest ==
    ASSUME ContainersInv, RowMoves, UNCHANGED <<docs, life, conn, born, cachedLife, del>>,
           run' # NULL => run # NULL
    PROVE  LivesStand'
<1>1. Held' = Held
  BY DEF Held
<1>2. \A c : Doomed(c) => Doomed(c)'
  BY <1>1 DEF Doomed, RowMoves, ContainersInv, LivesStand
<1>. QED
  BY <1>1, <1>2 DEF ContainersInv, LivesStand, RowMoves

(* Nor do the checkpoints mind, as long as the run has nothing new in hand.   *)
LEMMA CheckpointsRest ==
    ASSUME ContainersInv, RowMoves, UNCHANGED <<src, docs, empty, lastEmpty>>,
           run' # NULL =>
              \/ run' = run
              \/ /\ run'.ck \in Nat /\ run'.ck <= src.n
                 /\ run'.at = "store" => Delivers(run.got)'
                 /\ run'.at = "prune" => LeavesOut(run.got)'
    PROVE  CheckpointsStand'
<1>1. Live' = Live /\ src \in [exists : BOOLEAN, open : BOOLEAN, docs : [Docs -> Nat], n : Nat, turns : Int]
  BY DEF Live, Held, ContainersInv, ContainersTyped, StoreTyped
<1>2. src.n \in Nat /\ \A d \in Docs : src.docs[d] \in Nat
  BY <1>1
<1>3. row' # NULL => row'.ck <= src.n /\ (row'.ck = 0 \/ (row # NULL /\ row'.ck = row.ck))
  BY <1>2 DEF RowMoves, ContainersInv, CheckpointsStand, Rows
<1>4. row' # NULL => Complete(row.ck)'
  <2>1. SUFFICES ASSUME row' # NULL, NEW d \in Docs, src.docs[d] \in 1 .. row'.ck
                 PROVE  d \in Live' /\ docs'[d].ver = src.docs[d]
    BY DEF Complete
  <2>2. row # NULL /\ row'.ck = row.ck
    BY <1>2, <1>3, <2>1
  <2>. QED
    BY <1>1, <2>1, <2>2 DEF ContainersInv, CheckpointsStand, Complete
<1>5. ASSUME run' = run, RunAt("store") PROVE Delivers(run.got)'
  <2>1. Delivers(run.got)
    BY <1>5 DEF ContainersInv, CheckpointsStand
  <2>. QED
    BY <1>5, <2>1 DEF Delivers, UpTo
<1>6. ASSUME run' = run, RunAt("prune") PROVE LeavesOut(run.got)'
  <2>1. LeavesOut(run.got)
    BY <1>6 DEF ContainersInv, CheckpointsStand
  <2>2. \A d \in Docs : src.docs[d] = 0 \/ row = NULL \/ src.docs[d] > row.ck
           => src.docs[d] = 0 \/ row' = NULL \/ src.docs[d] > row'.ck
    BY <1>2, <1>3 DEF RowMoves
  <2>. QED
    BY <1>6, <2>1, <2>2 DEF LeavesOut
<1>7. run' # NULL => run'.ck <= src.n
  BY DEF ContainersInv, CheckpointsStand
<1>. QED
  BY <1>3, <1>4, <1>5, <1>6, <1>7 DEF ContainersInv, CheckpointsStand, RunAt

LEMMA RunRests == ContainersInv /\ (run' = run \/ run' = NULL) => RunTyped'
BY DEF ContainersInv, ContainersTyped, RunTyped

LEMMA RequestsRest ==
    ContainersInv /\ (refresh' = refresh \/ refresh' = NULL) /\ (put' = put \/ put' = NULL) => RequestsTyped'
BY DEF ContainersInv, ContainersTyped, RequestsTyped

(* Where the store and the registry rest, only what waits is new. *)
LEMMA StoreRests ==
    ASSUME ContainersInv, UNCHANGED <<src, store, lastEmpty, registry, cachedLife, del>>,
           RunTyped', RequestsTyped', run' # NULL => run # NULL,
           run' # NULL =>
              \/ run' = run
              \/ /\ run'.ck \in Nat /\ run'.ck <= src.n
                 /\ run'.at = "store" => Delivers(run.got)'
                 /\ run'.at = "prune" => LeavesOut(run.got)'
    PROVE  ContainersInv'
<1>1. UNCHANGED <<src, row, docs, life, empty, consent, lastEmpty, conn, born, cachedLife, del>>
  BY DEF store, registry
<1>2. RowMoves
  BY <1>1, RowRests
<1>3. LivesStand'
  BY <1>1, <1>2, LivesRest
<1>4. CheckpointsStand'
  BY <1>1, <1>2, CheckpointsRest
<1>5. StoreTyped' /\ ConsentStands'
  BY <1>1 DEF ContainersInv, ContainersTyped, StoreTyped, ConsentStands
<1>. QED
  BY <1>3, <1>4, <1>5 DEF ContainersInv, ContainersTyped

(* The run's steps that only ask the source. *)
LEMMA RunAsks ==
    ASSUME ContainersInv, RunEnds \/ RunList \/ RunSelect \/ RunPeople \/ RunFetch \/ RunIds
    PROVE  ContainersInv'
<1>1. run # NULL /\ UNCHANGED <<src, store, lastEmpty, registry, cachedLife, requests>>
  BY DEF RunEnds, RunList, RunSelect, RunPeople, RunFetch, RunIds, Asking, RunAt, store
<1>2. UNCHANGED <<src, row, docs, life, empty, consent, lastEmpty, conn, born, cachedLife>>
      /\ UNCHANGED <<refresh, put, del>>
  BY <1>1 DEF store, registry, requests
<1>3. RequestsTyped'
  BY <1>2, RequestsRest
<1>4. /\ run = [mode |-> run.mode, at |-> run.at, stop |-> run.stop, ck |-> run.ck, got |-> run.got]
      /\ run.ck \in Nat /\ run.ck <= src.n /\ src.n \in Nat /\ src.docs \in [Docs -> Nat]
      /\ row # NULL => row.ck \in Nat /\ row.ck <= src.n
  BY <1>1 DEF ContainersInv, ContainersTyped, StoreTyped, RunTyped, CheckpointsStand, Rows
<1>5. ASSUME NEW at, NEW got, RunGoes(at, got),
             at = "upsert" => got \in Listings,
             at = "store" => Delivers(got),
             at = "prune" => LeavesOut(got)
      PROVE  ContainersInv'
  <2>1. /\ run' = [mode |-> run.mode, at |-> at, stop |-> run.stop, ck |-> run.ck, got |-> got]
    BY <1>4, <1>5 DEF RunGoes
  <2>2. RunTyped'
    BY <1>4, <1>5, <2>1 DEF RunTyped
  <2>3. run'.at = "store" => Delivers(run.got)'
    BY <1>2, <1>5, <2>1 DEF Delivers, UpTo
  <2>4. run'.at = "prune" => LeavesOut(run.got)'
    BY <1>2, <1>5, <2>1 DEF LeavesOut
  <2>5. run'.ck \in Nat /\ run'.ck <= src.n
    BY <1>4, <2>1
  <2>. QED
    BY <1>1, <1>2, <1>3, <2>2, <2>3, <2>4, <2>5, StoreRests
<1>6. CASE RunEnds
  BY <1>1, <1>2, <1>3, <1>6, RunRests, StoreRests DEF RunEnds
<1>7. CASE RunList
  <2>1. Listed \in Listings
    BY DEF Listed, Listings, ContainersInv, ContainersTyped, StoreTyped
  <2>. QED
    BY <1>5, <1>7, <2>1 DEF RunList
<1>8. CASE RunSelect
  <2>1. CASE Eligible
    <3>1. PICK at \in {"fetch", "people"} : run' = [run EXCEPT !.at = at, !.ck = row.ck]
      BY <1>8, <2>1 DEF RunSelect
    <3>2. run' = [mode |-> run.mode, at |-> at, stop |-> run.stop, ck |-> row.ck, got |-> run.got]
      BY <1>4, <3>1
    <3>3. run'.at = at /\ run'.ck = row.ck /\ row.ck \in Nat /\ row.ck <= src.n
      BY <1>4, <2>1, <3>2 DEF Eligible
    <3>4. RunTyped'
      BY <3>2, <3>3 DEF RunTyped
    <3>. QED
      BY <1>1, <1>2, <1>3, <3>3, <3>4, StoreRests
  <2>2. CASE ~Eligible
    BY <1>1, <1>2, <1>3, <1>8, <2>2, RunRests, StoreRests DEF RunSelect
  <2>. QED
    BY <2>1, <2>2
<1>9. CASE RunPeople
  BY <1>5, <1>9 DEF RunPeople
<1>10. CASE RunFetch
  <2>1. CASE run.mode = "poll"
    <3>1. PICK b \in 1 .. src.n, deleted \in Deletions : b >= run.ck /\ RunGoes("store", Batch(b, deleted))
      BY <1>10, <2>1 DEF RunFetch
    <3>2. Delivers(Batch(b, deleted))
      <4>1. /\ Batch(b, deleted).ck = b /\ Batch(b, deleted).ver = src.docs
            /\ Batch(b, deleted).deleted = deleted
            /\ Batch(b, deleted).docs = {d \in Docs : src.docs[d] \in (run.ck + 1) .. b}
        BY DEF Batch
      <4>2. UpTo(Batch(b, deleted)) = b /\ b \in Nat /\ b <= src.n
        BY <1>4, <3>1, <4>1 DEF UpTo
      <4>3. \A d \in deleted : src.docs[d] = 0
        BY <3>1 DEF Deletions
      <4>4. \A d \in Batch(b, deleted).docs : src.docs[d] > 0
        BY <1>4, <4>1
      <4>. QED
        BY <1>4, <3>1, <4>1, <4>2, <4>3, <4>4 DEF Delivers
    <3>. QED
      BY <1>5, <3>1, <3>2
  <2>2. CASE run.mode # "poll"
    <3>1. Delivers(Rescan)
      <4>1. /\ Rescan.ck = 0 /\ Rescan.ver = src.docs /\ Rescan.deleted = {}
            /\ Rescan.docs = {d \in Docs : src.docs[d] > 0}
        BY DEF Rescan
      <4>2. UpTo(Rescan) = run.ck
        BY <4>1 DEF UpTo
      <4>. QED
        BY <1>4, <4>1, <4>2 DEF Delivers
    <3>. QED
      BY <1>5, <1>10, <2>2, <3>1 DEF RunFetch
  <2>. QED
    BY <2>1, <2>2
<1>11. CASE RunIds
  <2>1. LeavesOut({d \in Docs : src.docs[d] > 0})
    BY <1>4 DEF LeavesOut
  <2>2. ~lastEmpty => LeavesOut({})
    BY DEF LeavesOut
  <2>. QED
    BY <1>5, <1>11, <2>1, <2>2 DEF RunIds
<1>. QED
  BY <1>6, <1>7, <1>8, <1>9, <1>10, <1>11

(* Where only the row moves. *)
LEMMA RowStep ==
    ASSUME ContainersInv, RowMoves, consent' \in BOOLEAN,
           UNCHANGED <<src, docs, life, empty, lastEmpty, conn, born, cachedLife, del>>,
           RunTyped', RequestsTyped', run' # NULL => run # NULL,
           run' # NULL =>
              \/ run' = run
              \/ run'.ck \in Nat /\ run'.ck <= src.n /\ run'.at \notin {"store", "prune"}
    PROVE  ContainersInv'
<1>1. LivesStand' /\ CheckpointsStand'
  BY LivesRest, CheckpointsRest
<1>2. StoreTyped' /\ ConsentStands'
  BY DEF ContainersInv, ContainersTyped, StoreTyped, ConsentStands, RowMoves
<1>. QED
  BY <1>1, <1>2 DEF ContainersInv, ContainersTyped

LEMMA UpsertsKeepContainers ==
    ASSUME ContainersInv, RunUpsert \/ RefreshUpsert \/ PutUpsert
    PROVE  ContainersInv'
<1>1. UNCHANGED <<src, docs, life, empty, consent, lastEmpty, conn, born, cachedLife, del>>
  BY DEF RunUpsert, RefreshUpsert, PutUpsert, registry, requests
<1>2. consent' \in BOOLEAN
  BY <1>1 DEF ContainersInv, ContainersTyped, StoreTyped
<1>3. CASE RunUpsert
  <2>1. run # NULL /\ run.at = "upsert" /\ run.got \in Listings
    BY <1>3 DEF RunUpsert, RunAt, ContainersInv, ContainersTyped, RunTyped
  <2>2. RowMoves
    BY <1>1, <1>3, <2>1, UpsertMoves DEF RunUpsert
  <2>3. run' = [mode |-> run.mode, at |-> "select", stop |-> run.stop, ck |-> run.ck, got |-> NULL]
    BY <1>3, <2>1 DEF RunUpsert, RunGoes, ContainersInv, ContainersTyped, RunTyped
  <2>4. run'.ck = run.ck /\ run'.at = "select" /\ run.ck \in Nat /\ run.ck <= src.n
    BY <2>1, <2>3 DEF ContainersInv, ContainersTyped, RunTyped, CheckpointsStand
  <2>5. RunTyped' /\ RequestsTyped'
    BY <1>3, <2>3, <2>4, RequestsRest DEF RunUpsert, RunTyped, requests
  <2>. QED
    BY <1>1, <1>2, <2>1, <2>2, <2>4, <2>5, RowStep
<1>4. CASE RefreshUpsert
  <2>1. refresh # NULL /\ refresh.got \in Listings /\ UNCHANGED <<run, put>>
    BY <1>4 DEF RefreshUpsert, ContainersInv, ContainersTyped, RequestsTyped
  <2>2. RowMoves
    BY <1>1, <1>4, <2>1, UpsertMoves DEF RefreshUpsert
  <2>3. refresh' = [at |-> "people", stop |-> refresh.stop, got |-> refresh.got] \/ refresh' = NULL
    BY <1>4, <2>1 DEF RefreshUpsert, ContainersInv, ContainersTyped, RequestsTyped
  <2>4. RequestsTyped'
    BY <2>1, <2>3 DEF ContainersInv, ContainersTyped, RequestsTyped
  <2>. QED
    BY <1>1, <1>2, <2>1, <2>2, <2>4, RunRests, RowStep
<1>5. CASE PutUpsert
  <2>1. put # NULL /\ put.got \in Listings /\ UNCHANGED <<run, refresh>>
    BY <1>5 DEF PutUpsert, ContainersInv, ContainersTyped, RequestsTyped
  <2>2. RowMoves
    BY <1>1, <1>5, <2>1, UpsertMoves, RowRests DEF PutUpsert
  <2>3. \/ put' = [id |-> put.id, sel |-> put.sel, ack |-> put.ack, stop |-> put.stop,
                   got |-> put.got, at |-> "write"]
        \/ put' = NULL
    BY <1>5, <2>1 DEF PutUpsert, ContainersInv, ContainersTyped, RequestsTyped
  <2>4. RequestsTyped'
    BY <2>1, <2>3 DEF ContainersInv, ContainersTyped, RequestsTyped
  <2>. QED
    BY <1>1, <1>2, <2>1, <2>2, <2>4, RunRests, RowStep
<1>. QED
  BY <1>3, <1>4, <1>5

LEMMA WriteKeepsContainers ==
    ASSUME ContainersInv, PutWrite
    PROVE  ContainersInv'
<1>1. /\ UNCHANGED <<src, docs, life, empty, lastEmpty, conn, born, cachedLife, del>>
      /\ UNCHANGED <<run, refresh>> /\ put' = NULL
  BY DEF PutWrite, registry
<1>2. RunTyped' /\ RequestsTyped'
  BY <1>1, RunRests, RequestsRest
<1>. QED
  BY <1>1, <1>2, WriteMoves, RowStep

(* The refresh and the PUT while they wait, and the sources of a Listing. *)
LEMMA RequestsKeepContainers ==
    ASSUME ContainersInv, RefreshList \/ RefreshEnds \/ RefreshPeople \/ PutEnds
    PROVE  ContainersInv'
<1>1. UNCHANGED <<src, row, docs, life, empty, consent, lastEmpty, conn, born, cachedLife, del, run>>
  BY DEF RefreshList, RefreshEnds, RefreshPeople, PutEnds, store, registry
<1>2. RequestsTyped'
  <2>1. CASE RefreshList
    <3>1. Listed \in Listings
      BY DEF Listed, Listings, ContainersInv, ContainersTyped, StoreTyped
    <3>2. refresh' = [at |-> "upsert", stop |-> refresh.stop, got |-> Listed] /\ put' = put
      BY <2>1 DEF RefreshList, ContainersInv, ContainersTyped, RequestsTyped
    <3>. QED
      BY <3>1, <3>2 DEF ContainersInv, ContainersTyped, RequestsTyped
  <2>2. CASE RefreshEnds \/ RefreshPeople \/ PutEnds
    BY <2>2, RequestsRest DEF RefreshEnds, RefreshPeople, PutEnds
  <2>. QED
    BY <2>1, <2>2
<1>. QED
  BY <1>1, <1>2, RunRests, StoreRests DEF store, registry

(* A connector's next life begins where the last one's rows are on their way  *)
(* out.                                                                       *)
LEMMA EnsureKeepsLives ==
    ASSUME ContainersInv, conn # 0, EnsureLife, del # "remove", UNCHANGED <<docs, conn, born, del>>,
           run' # NULL => del' \notin {"remove", "end"}
    PROVE  RowMoves /\ consent' \in BOOLEAN /\ life' \in Nat /\ cachedLife' \in Nat /\ LivesStand'
<1>1. Held' = Held /\ cachedLife' = conn
  BY DEF Held, EnsureLife
<1>2. /\ conn \in {0, born} /\ life <= born /\ life \in Nat /\ conn \in Nat /\ born \in Nat
      /\ consent \in BOOLEAN
  BY DEF ContainersInv, ContainersTyped, StoreTyped, LivesStand
<1>3. CASE UNCHANGED <<row, life, consent>> /\ life = conn
  <2>1. RowMoves
    BY <1>3, RowRests
  <2>2. Doomed(conn)' /\ (Held' # {} => row' # NULL)
    BY <1>1, <1>3 DEF Doomed, OnItsWayOut, ContainersInv, LivesStand
  <2>. QED
    BY <1>1, <1>2, <1>3, <2>1, <2>2 DEF LivesStand, ContainersInv
<1>4. CASE ClearConnector /\ life' = conn
  <2>1. RowMoves /\ consent' = FALSE /\ (Held # {} => OnItsWayOut')
    BY <1>4, ClearMoves
  <2>2. Doomed(conn)'
    BY <1>1, <2>1 DEF Doomed
  <2>3. Held # {} => row' # NULL
    BY <2>1 DEF RowMoves, ContainersInv, LivesStand
  <2>. QED
    <3>1. conn <= born /\ life' = conn /\ cachedLife' = conn
      BY <1>1, <1>2, <1>4
    <3>2. (\A d \in Held' : docs'[d].life \in 1 .. born) /\ (Held' # {} => row' # NULL)
      BY <1>1, <2>3 DEF LivesStand, ContainersInv
    <3>3. LivesStand'
      BY <1>2, <2>2, <3>1, <3>2 DEF LivesStand
    <3>. QED
      BY <1>2, <2>1, <3>1, <3>3
<1>5. CASE cachedLife = conn
  BY <1>3, <1>5 DEF EnsureLife, ContainersInv, LivesStand
<1>6. CASE cachedLife # conn /\ life >= conn
  BY <1>2, <1>3, <1>6 DEF EnsureLife, BeginConnectorLife
<1>7. CASE cachedLife # conn /\ ~(life >= conn)
  BY <1>4, <1>7 DEF EnsureLife, BeginConnectorLife
<1>. QED
  BY <1>5, <1>6, <1>7

LEMMA BeginningsKeepContainers ==
    ASSUME ContainersInv,
           \/ \E mode \in {"poll", "reconcile"} : RunBegin(mode)
           \/ RefreshBegin
           \/ \E sel, ack \in BOOLEAN : (ack => sel) /\ PutBegin(sel, ack)
           \/ PutAsk
    PROVE  ContainersInv'
<1>1. conn # 0 /\ UNCHANGED <<src, docs, empty, lastEmpty, conn, born, del>>
  BY DEF RunBegin, RefreshBegin, PutBegin, PutAsk, registry, requests
<1>2. ASSUME EnsureLife, del = NULL, RunTyped', RequestsTyped',
             run' = run \/ run' = NULL \/ (run'.ck = 0 /\ run'.at \in {"list", "select"})
      PROVE  ContainersInv'
  <2>1. del # "remove" /\ del' \notin {"remove", "end"}
    BY <1>1, <1>2, ContainersAssumption
  <2>2. RowMoves /\ consent' \in BOOLEAN /\ life' \in Nat /\ cachedLife' \in Nat /\ LivesStand'
    BY <1>1, <1>2, <2>1, EnsureKeepsLives
  <2>3. src.n \in Nat
    BY DEF ContainersInv, ContainersTyped, StoreTyped
  <2>4. CheckpointsStand'
    BY <1>1, <1>2, <2>2, <2>3, CheckpointsRest
  <2>5. StoreTyped' /\ ConsentStands'
    BY <1>1, <2>2 DEF ContainersInv, ContainersTyped, StoreTyped, ConsentStands, RowMoves
  <2>. QED
    BY <1>2, <2>2, <2>4, <2>5 DEF ContainersInv, ContainersTyped
<1>3. ASSUME NEW mode \in {"poll", "reconcile"}, RunBegin(mode) PROVE ContainersInv'
  <2>1. PICK at \in {"list", "select"} :
           run' = [mode |-> mode, at |-> at, stop |-> FALSE, ck |-> 0, got |-> NULL]
    BY <1>3 DEF RunBegin
  <2>2. RunTyped'
    BY <2>1 DEF RunTyped
  <2>3. RequestsTyped'
    BY <1>3, RequestsRest DEF RunBegin, requests
  <2>. QED
    BY <1>2, <1>3, <2>1, <2>2, <2>3 DEF RunBegin
<1>4. CASE RefreshBegin
  <2>1. refresh' = [at |-> "list", stop |-> FALSE, got |-> NULL] /\ UNCHANGED <<run, put>>
    BY <1>4 DEF RefreshBegin
  <2>2. RequestsTyped'
    BY <2>1 DEF ContainersInv, ContainersTyped, RequestsTyped
  <2>. QED
    BY <1>2, <1>4, <2>1, <2>2, RunRests DEF RefreshBegin
<1>5. ASSUME NEW sel \in BOOLEAN, NEW ack \in BOOLEAN, PutBegin(sel, ack)
      PROVE  ContainersInv'
  <2>1. PICK at \in {"ask", "write"} :
           put' = [id |-> row'.id, sel |-> sel, ack |-> ack, stop |-> FALSE, got |-> NULL, at |-> at]
    BY <1>5 DEF PutBegin
  <2>2. row' # NULL /\ UNCHANGED <<run, refresh>>
    BY <1>5 DEF PutBegin
  <2>3. ASSUME RowMoves PROVE RequestsTyped'
    <3>1. row'.id \in Nat
      BY <2>2, <2>3 DEF RowMoves, Rows
    <3>. QED
      BY <2>1, <2>2, <3>1 DEF ContainersInv, ContainersTyped, RequestsTyped
  <2>4. CASE del = NULL
    <3>1. EnsureLife /\ del # "remove" /\ del' \notin {"remove", "end"}
      BY <1>1, <1>5, <2>4, ContainersAssumption DEF PutBegin
    <3>2. RowMoves
      BY <1>1, <3>1, EnsureKeepsLives
    <3>. QED
      BY <1>2, <2>2, <2>3, <2>4, <3>1, <3>2, RunRests
  <2>5. CASE del # NULL
    <3>1. UNCHANGED <<row, life, cachedLife, consent>>
      BY <1>5, <2>5 DEF PutBegin
    <3>2. RowMoves
      BY <3>1, RowRests
    <3>. QED
      BY <1>1, <2>2, <2>3, <3>1, <3>2, RunRests, StoreRests DEF store, registry
  <2>. QED
    BY <2>4, <2>5
<1>6. CASE PutAsk
  <2>1. \/ put' = [id |-> put.id, sel |-> put.sel, ack |-> put.ack, stop |-> put.stop,
                   got |-> Listed, at |-> "upsert"]
        \/ put' = NULL
    BY <1>6 DEF PutAsk, ContainersInv, ContainersTyped, RequestsTyped
  <2>2. Listed \in Listings
    BY DEF Listed, Listings, ContainersInv, ContainersTyped, StoreTyped
  <2>3. RequestsTyped'
    BY <1>6, <2>1, <2>2 DEF PutAsk, ContainersInv, ContainersTyped, RequestsTyped
  <2>. QED
    BY <1>2, <1>6, <2>3, RunRests DEF PutAsk
<1>. QED
  BY <1>3, <1>4, <1>5, <1>6

LEMMA SourceKeepsContainers ==
    ASSUME ContainersInv, Turn \/ \E d \in Docs : Change(d)
    PROVE  ContainersInv'
<1>1. /\ UNCHANGED <<row, docs, life, empty, consent, lastEmpty, conn, born, cachedLife>>
      /\ UNCHANGED <<run, refresh, put, del>>
  BY DEF Turn, Change, store, registry, requests
<1>2. src \in [exists : BOOLEAN, open : BOOLEAN, docs : [Docs -> Nat], n : Nat, turns : Int]
  BY DEF ContainersInv, ContainersTyped, StoreTyped
<1>3. /\ src' \in [exists : BOOLEAN, open : BOOLEAN, docs : [Docs -> Nat], n : Nat, turns : Int]
      /\ src.n <= src'.n
      /\ \A d \in Docs : src'.docs[d] \in {0, src.docs[d]} \/ src'.docs[d] > src.n
  <2> DEFINE Advanced ==
        /\ src' \in [exists : BOOLEAN, open : BOOLEAN, docs : [Docs -> Nat], n : Nat, turns : Int]
        /\ src.n <= src'.n
        /\ \A d \in Docs : src'.docs[d] \in {0, src.docs[d]} \/ src'.docs[d] > src.n
  <2>1. ASSUME Turn PROVE Advanced
    <3>1. \/ src' = [src EXCEPT !.open = ~src.open, !.turns = src.turns - 1]
          \/ src' = [src EXCEPT !.exists = ~src.exists, !.turns = src.turns - 1]
      BY <2>1 DEF Turn
    <3>2. PICK e \in BOOLEAN, o \in BOOLEAN, t \in Int :
             src' = [exists |-> e, open |-> o, docs |-> src.docs, n |-> src.n, turns |-> t]
      <4>1. PICK shut \in BOOLEAN, gone \in BOOLEAN : shut = (~src.open) /\ gone = (~src.exists)
        OBVIOUS
      <4>2. src.exists \in BOOLEAN /\ src.open \in BOOLEAN /\ src.turns - 1 \in Int
        BY <1>2
      <4>3. \/ src' = [exists |-> src.exists, open |-> shut, docs |-> src.docs, n |-> src.n,
                       turns |-> src.turns - 1]
            \/ src' = [exists |-> gone, open |-> src.open, docs |-> src.docs, n |-> src.n,
                       turns |-> src.turns - 1]
        BY <1>2, <3>1, <4>1
      <4>. QED
        BY <4>1, <4>2, <4>3
    <3>. QED
      BY <1>2, <3>2
  <2>2. ASSUME NEW d \in Docs, Change(d)
        PROVE  Advanced
    <3>1. PICK v \in {0, src.n + 1} : src' = [src EXCEPT !.docs[d] = v, !.n = src.n + 1]
      BY <2>2 DEF Change
    <3>2. src' = [exists |-> src.exists, open |-> src.open, docs |-> [src.docs EXCEPT ![d] = v],
                  n |-> src.n + 1, turns |-> src.turns]
      BY <1>2, <3>1
    <3>. QED
      BY <1>2, <3>2
  <2> HIDE DEF Advanced
  <2>3. Advanced
    BY <2>1, <2>2
  <2>. QED
    BY <2>3 DEF Advanced
<1>4. RowMoves
  BY <1>1, RowRests
<1>5. RunTyped' /\ RequestsTyped' /\ LivesStand'
  BY <1>1, <1>4, RunRests, RequestsRest, LivesRest
<1>6. StoreTyped' /\ ConsentStands'
  BY <1>1, <1>3 DEF ContainersInv, ContainersTyped, StoreTyped, ConsentStands
<1>7. CheckpointsStand'
  <2>1. row # NULL => row.ck \in Nat /\ row.ck <= src.n /\ Complete(row.ck)
    BY DEF ContainersInv, ContainersTyped, StoreTyped, CheckpointsStand, Rows
  <2>2. row # NULL => Complete(row.ck)'
    BY <1>1, <1>2, <1>3, <2>1 DEF Complete, Live, Held
  <2>3. ASSUME RunAt("store") PROVE Delivers(run.got)'
    <3>1. Delivers(run.got) /\ run.ck \in Nat /\ UpTo(run.got)' = UpTo(run.got) /\ UpTo(run.got) \in Nat
      BY <1>1, <2>3 DEF ContainersInv, ContainersTyped, RunTyped, CheckpointsStand, RunAt, UpTo, Delivers
    <3>2. \A d \in Docs : src'.docs[d] \in {0, run.got.ver[d]} \/ src'.docs[d] > UpTo(run.got)
      BY <1>2, <1>3, <3>1 DEF Delivers
    <3>3. UpTo(run.got) <= src'.n
      BY <1>2, <1>3, <3>1 DEF Delivers
    <3>. QED
      BY <1>1, <3>1, <3>2, <3>3 DEF Delivers
  <2>4. ASSUME RunAt("prune") PROVE LeavesOut(run.got)'
    <3>1. LeavesOut(run.got)
      BY <2>4 DEF ContainersInv, CheckpointsStand
    <3>. QED
      BY <1>1, <1>2, <1>3, <2>1, <3>1 DEF LeavesOut
  <2>5. run # NULL => run.ck \in Nat /\ run.ck <= src.n
    BY DEF ContainersInv, ContainersTyped, RunTyped, CheckpointsStand
  <2>6. (row # NULL => row.ck <= src'.n) /\ (run # NULL => run.ck <= src'.n)
    BY <1>2, <1>3, <2>1, <2>5
  <2>. QED
    BY <1>1, <2>2, <2>3, <2>4, <2>6 DEF ContainersInv, CheckpointsStand, RunAt
<1>. QED
  BY <1>5, <1>6, <1>7 DEF ContainersInv, ContainersTyped

(* Housekeeping: what waits for the purge goes, or what was a tombstone. *)
LEMMA PurgeKeepsContainers ==
    ASSUME ContainersInv, PurgeBatch
    PROVE  ContainersInv'
<1>1. /\ UNCHANGED <<src, life, empty, consent, lastEmpty, conn, born, cachedLife>>
      /\ UNCHANGED <<run, refresh, put, del>>
      /\ docs' = [d \in Docs |-> NULL] /\ Held' = {} /\ Live' = {}
  BY DEF PurgeBatch, registry, requests, Held, Live
<1>2. row \in Rows /\ row # NULL /\ (row.ack => consent)
  BY DEF PurgeBatch, ContainersInv, ContainersTyped, StoreTyped, ConsentStands
<1>3. row' = NULL \/ (row' \in Rows /\ row'.ck = 0 /\ row'.ack = row.ack)
  BY <1>2 DEF PurgeBatch, Rows
<1>4. RunTyped' /\ RequestsTyped'
  BY <1>1, RunRests, RequestsRest
<1>5. StoreTyped' /\ ConsentStands'
  BY <1>1, <1>2, <1>3 DEF ContainersInv, ContainersTyped, StoreTyped, ConsentStands
<1>6. LivesStand'
  BY <1>1 DEF ContainersInv, LivesStand, Doomed
<1>7. /\ src.n \in Nat /\ \A d \in Docs : src.docs[d] \in Nat
  BY DEF ContainersInv, ContainersTyped, StoreTyped
<1>8. CheckpointsStand'
  <2>1. row' # NULL => row'.ck <= src.n /\ Complete(row.ck)'
    BY <1>1, <1>3, <1>7 DEF Complete
  <2>2. ASSUME RunAt("store") PROVE Delivers(run.got)'
    BY <1>1, <2>2 DEF ContainersInv, CheckpointsStand, Delivers, UpTo, RunAt
  <2>3. ASSUME RunAt("prune") PROVE LeavesOut(run.got)'
    <3>1. \A d \in Docs : src.docs[d] = 0 \/ row' = NULL \/ src.docs[d] > row'.ck
      BY <1>3, <1>7
    <3>. QED
      BY <1>1, <3>1 DEF LeavesOut
  <2>. QED
    BY <1>1, <2>1, <2>2, <2>3 DEF ContainersInv, CheckpointsStand, RunAt
<1>. QED
  BY <1>4, <1>5, <1>6, <1>8 DEF ContainersInv, ContainersTyped

LEMMA TombstonesKeepContainers ==
    ASSUME ContainersInv, DeleteTombstones
    PROVE  ContainersInv'
<1>1. /\ UNCHANGED <<src, row, life, empty, consent, lastEmpty, conn, born, cachedLife>>
      /\ UNCHANGED <<run, refresh, put, del>>
      /\ docs' = [d \in Docs |-> IF d \in Live THEN docs[d] ELSE NULL]
  BY DEF DeleteTombstones, registry, requests
<1>2. Live \subseteq Docs /\ Live \subseteq Held /\ Held' \subseteq Live
  BY <1>1 DEF Live, Held
<1>3. Live' = Live /\ \A d \in Live : docs'[d] = docs[d]
  BY <1>1, <1>2 DEF Live, Held
<1>4. RunTyped' /\ RequestsTyped'
  BY <1>1, RunRests, RequestsRest
<1>5. StoreTyped' /\ ConsentStands'
  BY <1>1 DEF ContainersInv, ContainersTyped, StoreTyped, ConsentStands
<1>6. LivesStand'
  <2>1. \A c : Doomed(c) => Doomed(c)'
    BY <1>1, <1>2, <1>3 DEF Doomed, OnItsWayOut
  <2>2. Held' \subseteq Held /\ \A d \in Held' : docs'[d] = docs[d]
    BY <1>2, <1>3
  <2>. QED
    BY <1>1, <2>1, <2>2 DEF ContainersInv, LivesStand
<1>7. CheckpointsStand'
  <2>1. \A d \in Docs : (d \in Live /\ docs[d].ver = src.docs[d])
           => (d \in Live' /\ docs'[d].ver = src.docs[d])
    BY <1>3
  <2>2. row # NULL => Complete(row.ck)'
    BY <1>1, <2>1 DEF ContainersInv, CheckpointsStand, Complete
  <2>3. ASSUME RunAt("store") PROVE Delivers(run.got)'
    BY <1>1, <2>3 DEF ContainersInv, CheckpointsStand, Delivers, UpTo, RunAt
  <2>4. ASSUME RunAt("prune") PROVE LeavesOut(run.got)'
    BY <1>1, <2>4 DEF ContainersInv, CheckpointsStand, LeavesOut, RunAt
  <2>. QED
    BY <1>1, <2>2, <2>3, <2>4 DEF ContainersInv, CheckpointsStand, RunAt
<1>. QED
  BY <1>4, <1>5, <1>6, <1>7 DEF ContainersInv, ContainersTyped

(* The registry's steps: they leave documents and source alone. *)
LEMMA RegistryKeepsContainers ==
    ASSUME ContainersInv,
           \/ CreateConnector \/ DeleteBegin \/ DeleteMark \/ DeleteFails \/ DeleteRemove
           \/ DeleteEnd \/ ContainersRestart
    PROVE  ContainersInv'
<1>1. UNCHANGED <<src, docs, empty, lastEmpty>> /\ Held' = Held
  BY DEF CreateConnector, DeleteBegin, DeleteMark, DeleteFails, DeleteRemove, DeleteEnd,
         ContainersRestart, store, requests, Held
<1>2. /\ conn \in {0, born} /\ life <= born /\ cachedLife <= born
      /\ life \in Nat /\ conn \in Nat /\ born \in Nat /\ cachedLife \in Nat /\ consent \in BOOLEAN
  BY DEF ContainersInv, ContainersTyped, StoreTyped, LivesStand
<1>3. RowMoves /\ consent' \in BOOLEAN
  <2>1. CASE DeleteMark
    BY <2>1, ClearMoves DEF DeleteMark
  <2>2. CASE ~DeleteMark
    BY <1>2, <2>2, RowRests DEF CreateConnector, DeleteBegin, DeleteFails, DeleteRemove,
       DeleteEnd, ContainersRestart, store
  <2>. QED
    BY <2>1, <2>2
<1>4. ASSUME \A c : Doomed(c) => Doomed(c)',
             /\ conn' \in {0, born'} /\ life' <= born' /\ cachedLife' <= born' /\ born <= born'
             /\ life' \in Nat /\ conn' \in Nat /\ born' \in Nat /\ cachedLife' \in Nat,
             run' # NULL => conn' # 0 /\ cachedLife' = conn' /\ del' \notin {"remove", "end"},
             conn' # 0 /\ cachedLife' = conn' => life' = conn' \/ del' = "remove",
             conn' # 0 /\ life' = conn' => Doomed(conn)',
             del' = "remove" \/ (conn' = 0 /\ life' = 0) => Doomed(0)' /\ life' = 0,
             RunTyped', RequestsTyped',
             run' # NULL =>
                /\ run # NULL /\ run'.ck = run.ck /\ run'.at = run.at /\ run'.got = run.got
      PROVE  ContainersInv'
  <2>1. LivesStand'
    <3>1. \A d \in Held : docs[d].life \in 1 .. born /\ 1 .. born \subseteq 1 .. born'
      BY <1>2, <1>4 DEF ContainersInv, LivesStand
    <3>2. Held' # {} => row' # NULL
      BY <1>1, <1>3 DEF RowMoves, ContainersInv, LivesStand
    <3>. QED
      BY <1>1, <1>4, <3>1, <3>2 DEF LivesStand
  <2>2. run' # NULL => run'.ck \in Nat /\ run'.ck <= src.n
    BY <1>4 DEF ContainersInv, ContainersTyped, RunTyped, CheckpointsStand
  <2>3. ASSUME run' # NULL, run'.at = "store" PROVE Delivers(run.got)'
    <3>1. Delivers(run.got)
      BY <1>4, <2>3 DEF ContainersInv, CheckpointsStand, RunAt
    <3>. QED
      BY <1>1, <1>4, <2>3, <3>1 DEF Delivers, UpTo
  <2>4. ASSUME run' # NULL, run'.at = "prune" PROVE LeavesOut(run.got)'
    <3>1. LeavesOut(run.got)
      BY <1>4, <2>4 DEF ContainersInv, CheckpointsStand, RunAt
    <3>2. \A d \in Docs : src.docs[d] \in Nat
      BY DEF ContainersInv, ContainersTyped, StoreTyped
    <3>3. \A d \in Docs : src.docs[d] = 0 \/ row = NULL \/ src.docs[d] > row.ck
             => src.docs[d] = 0 \/ row' = NULL \/ src.docs[d] > row'.ck
      <4>1. row' # NULL => row'.ck = 0 \/ (row # NULL /\ row'.ck = row.ck)
        BY <1>3 DEF RowMoves
      <4>. QED
        BY <3>2, <4>1
    <3>. QED
      BY <1>1, <1>4, <2>4, <3>1, <3>3 DEF LeavesOut
  <2>5. CheckpointsStand'
    BY <1>1, <1>3, <2>2, <2>3, <2>4, CheckpointsRest
  <2>6. StoreTyped' /\ ConsentStands'
    BY <1>1, <1>3, <1>4 DEF ContainersInv, ContainersTyped, StoreTyped, ConsentStands, RowMoves
  <2>. QED
    BY <1>4, <2>1, <2>5, <2>6 DEF ContainersInv, ContainersTyped
<1>5. ~DeleteMark => UNCHANGED <<row, life, consent>>
  BY DEF CreateConnector, DeleteBegin, DeleteFails, DeleteRemove, DeleteEnd, ContainersRestart, store
<1>6. ~DeleteMark => \A c : Doomed(c) => Doomed(c)'
  BY <1>1, <1>5 DEF Doomed, OnItsWayOut
<1>7. del = "remove" => Doomed(0) /\ life = 0
  BY DEF ContainersInv, LivesStand
<1>8. CASE CreateConnector
  <2>1. /\ conn = 0 /\ born' = born + 1 /\ conn' = born + 1 /\ cachedLife' = cachedLife
        /\ UNCHANGED <<run, refresh, put, del, life>> /\ ~DeleteMark
    BY <1>8, <1>2 DEF CreateConnector, DeleteMark, store, requests, registry
  <2>2. run = NULL
    BY <2>1 DEF ContainersInv, LivesStand
  <2>3. RunTyped' /\ RequestsTyped'
    BY <2>1, RunRests, RequestsRest
  <2>4. conn' # 0 /\ cachedLife' # conn' /\ life' # conn' /\ born <= born' /\ life' <= born' /\ cachedLife' <= born'
    BY <1>2, <2>1
  <2>5. del' = "remove" => Doomed(0)' /\ life' = 0
    BY <1>6, <1>7, <2>1
  <2>. QED
    BY <1>2, <1>4, <1>6, <2>1, <2>2, <2>3, <2>4, <2>5
<1>9. CASE DeleteBegin
  <2>1. /\ UNCHANGED <<conn, born, cachedLife, life>> /\ del = NULL /\ del' = "wait"
        /\ run' = Stopped(run) /\ refresh' = Stopped(refresh) /\ put' \in {put, Stopped(put)}
    BY <1>9 DEF DeleteBegin, store, registry
  <2>2. del # "remove" /\ del' # "remove" /\ ~DeleteMark
    BY <2>1, ContainersAssumption DEF DeleteMark
  <2>3. run' # NULL =>
          /\ run # NULL
          /\ run' = [mode |-> run.mode, at |-> run.at, stop |-> TRUE, ck |-> run.ck, got |-> run.got]
    BY <2>1 DEF Stopped, ContainersInv, ContainersTyped, RunTyped
  <2>4. RunTyped'
    BY <2>3 DEF RunTyped, ContainersInv, ContainersTyped
  <2>5. RequestsTyped'
    <3>1. refresh' # NULL =>
            refresh # NULL /\ refresh' = [at |-> refresh.at, stop |-> TRUE, got |-> refresh.got]
      BY <2>1 DEF Stopped, ContainersInv, ContainersTyped, RequestsTyped
    <3>2. put' # NULL =>
            /\ put # NULL
            /\ \/ put' = put
               \/ put' = [id |-> put.id, sel |-> put.sel, ack |-> put.ack, stop |-> TRUE,
                          got |-> put.got, at |-> put.at]
      BY <2>1 DEF Stopped, ContainersInv, ContainersTyped, RequestsTyped
    <3>. QED
      BY <3>1, <3>2 DEF ContainersInv, ContainersTyped, RequestsTyped
  <2>6. run' # NULL => conn' # 0 /\ cachedLife' = conn' /\ del' \notin {"remove", "end"}
    BY <2>1, <2>3 DEF ContainersInv, LivesStand
  <2>7. /\ conn' # 0 /\ cachedLife' = conn' => life' = conn' \/ del' = "remove"
        /\ conn' # 0 /\ life' = conn' => Doomed(conn)
        /\ conn' = 0 /\ life' = 0 => Doomed(0)
    BY <2>1, <2>2 DEF ContainersInv, LivesStand
  <2>8. Doomed(conn) => Doomed(conn)'
    BY <1>1, <1>5, <2>1, <2>2 DEF Doomed, OnItsWayOut
  <2>. QED
    BY <1>2, <1>4, <1>6, <2>1, <2>2, <2>3, <2>4, <2>5, <2>6, <2>7, <2>8
<1>10. CASE DeleteMark
  <2>1. /\ UNCHANGED <<conn, born, cachedLife, run, refresh, put>> /\ run = NULL /\ life' = 0
        /\ ClearConnector /\ del' = IF conn = 0 THEN "end" ELSE "remove"
    BY <1>10 DEF DeleteMark, Retired, registry
  <2>2. Held # {} => OnItsWayOut'
    BY <2>1, ClearMoves
  <2>3. \A c : Doomed(c)'
    BY <1>1, <2>2 DEF Doomed
  <2>4. RunTyped' /\ RequestsTyped' /\ Doomed(conn)'
    BY <1>1, <2>1, <2>2, RunRests, RequestsRest DEF Doomed
  <2>. QED
    BY <1>2, <1>4, <2>1, <2>3, <2>4
<1>11. CASE DeleteFails \/ DeleteRemove \/ DeleteEnd \/ ContainersRestart
  <2>1. /\ UNCHANGED <<born, row>> /\ life' = life /\ run' = NULL
        /\ refresh' \in {refresh, NULL} /\ put' \in {put, NULL}
    BY <1>11 DEF DeleteFails, DeleteRemove, DeleteEnd, ContainersRestart, store, registry, requests,
       Retired, ContainersInv, LivesStand
  <2>2. RunTyped' /\ RequestsTyped'
    BY <2>1, RunRests, RequestsRest
  <2>3. \A c : Doomed(c) => Doomed(c)'
    BY <1>1, <2>1 DEF Doomed, OnItsWayOut
  <2>4. del' # "remove"
    BY <1>11, ContainersAssumption DEF DeleteFails, DeleteRemove, DeleteEnd, ContainersRestart
  <2>5. conn # 0 /\ cachedLife = conn => life = conn \/ del = "remove"
    BY DEF ContainersInv, LivesStand
  <2>6. /\ conn # 0 /\ life = conn => Doomed(conn)
        /\ conn = 0 /\ life = 0 => Doomed(0)
    BY DEF ContainersInv, LivesStand
  <2>7. CASE conn' = conn
    <3>1. Doomed(conn) => Doomed(conn)'
      BY <1>1, <2>1, <2>7 DEF Doomed, OnItsWayOut
    <3>2. conn # 0 => (cachedLife' = cachedLife /\ del # "remove") \/ cachedLife' = 0
      BY <1>11, <2>7, ContainersAssumption
      DEF DeleteFails, DeleteRemove, DeleteEnd, ContainersRestart, ContainersInv, LivesStand
    <3>3. conn' # 0 /\ cachedLife' = conn' => life' = conn'
      BY <2>1, <2>5, <2>7, <3>2
    <3>4. conn' # 0 /\ life' = conn' => Doomed(conn)'
      BY <2>1, <2>6, <2>7, <3>1
    <3>5. conn' = 0 /\ life' = 0 => Doomed(0)'
      BY <2>1, <2>3, <2>6, <2>7
    <3>6. cachedLife' \in {0, cachedLife}
      BY <1>11 DEF DeleteFails, DeleteRemove, DeleteEnd, ContainersRestart
    <3>7. conn' \in {0, born} /\ cachedLife' <= born /\ cachedLife' \in Nat /\ conn' \in Nat
      BY <1>2, <2>7, <3>6
    <3>. QED
      BY <1>2, <1>4, <2>1, <2>2, <2>3, <2>4, <3>3, <3>4, <3>5, <3>7
  <2>8. CASE conn' # conn
    <3>1. conn' = 0 /\ del = "remove" /\ cachedLife' = cachedLife
      BY <1>11, <2>8 DEF DeleteFails, DeleteRemove, DeleteEnd, ContainersRestart, registry
    <3>. QED
      BY <1>2, <1>4, <1>7, <2>1, <2>2, <2>3, <2>4, <3>1
  <2>. QED
    BY <2>7, <2>8
<1>. QED
  BY <1>8, <1>9, <1>10, <1>11

(* A tombstone keeps the life of its document. *)
LEMMA TombstonesKeepLives ==
    ASSUME ContainersInv, NEW gone, NEW d \in Docs
    PROVE  /\ Tombstoned(gone)[d] \in Indexed \cup {NULL}
           /\ Tombstoned(gone)[d] # NULL <=> d \in Held
           /\ d \in Held => Tombstoned(gone)[d].life = docs[d].life
           /\ d \notin gone => Tombstoned(gone)[d] = docs[d]
<1>1. docs[d] \in Indexed \cup {NULL} /\ Live \subseteq Held
  BY DEF ContainersInv, ContainersTyped, StoreTyped, Live
<1>2. CASE d \in gone /\ d \in Live
  <2>1. Tombstoned(gone)[d] = [docs[d] EXCEPT !.ver = 0] /\ d \in Held /\ docs[d] \in Indexed
    BY <1>1, <1>2 DEF Tombstoned, Held
  <2>2. Tombstoned(gone)[d] \in Indexed /\ Tombstoned(gone)[d].life = docs[d].life
    BY <2>1 DEF Indexed
  <2>. QED
    BY <1>2, <2>1, <2>2, ContainersAssumption
<1>3. CASE ~(d \in gone /\ d \in Live)
  <2>1. Tombstoned(gone)[d] = docs[d]
    BY <1>3 DEF Tombstoned
  <2>. QED
    BY <1>1, <2>1 DEF Held
<1>. QED
  BY <1>2, <1>3

LEMMA StoreKeepsContainers ==
    ASSUME ContainersInv, RunStore
    PROVE  ContainersInv'
<1>1. run # NULL /\ run.at = "store" /\ RequestsTyped'
      /\ UNCHANGED <<src, life, empty, consent, lastEmpty, conn, born, cachedLife, del>>
  BY RequestsRest DEF RunStore, RunAt, requests, registry
<1>2. CASE Changed
  BY <1>1, <1>2, RunRests, StoreRests DEF RunStore, store, registry
<1>3. CASE ~Changed
  <2> DEFINE batch == run.got
             n == UpTo(batch)
  <2>1. row \in Rows /\ row # NULL /\ row.sel /\ row.ck = run.ck /\ (row.ack => consent)
    BY <1>3 DEF Changed, ContainersInv, ContainersTyped, StoreTyped, ConsentStands
  <2>2. /\ Delivers(batch) /\ Complete(row.ck) /\ row.ck \in Nat
        /\ src.n \in Nat /\ \A d \in Docs : src.docs[d] \in Nat
    BY <1>1, <2>1 DEF ContainersInv, ContainersTyped, StoreTyped, CheckpointsStand, RunAt, Rows
  <2>3. /\ docs' = [d \in Docs |-> IF d \in batch.docs THEN [ver |-> batch.ver[d], life |-> conn]
                                   ELSE Tombstoned(batch.deleted)[d]]
        /\ row' = [row EXCEPT !.ck = n]
    BY <1>3, <2>1 DEF RunStore, StoreBatch, UpTo
  <2>4. n \in Nat /\ n <= src.n /\ row.ck <= n /\ batch.ver \in [Docs -> Nat]
    BY <2>1, <2>2 DEF Delivers, UpTo
  <2>5. row' \in Rows /\ row'.ck = n /\ row'.sel /\ row'.ack = row.ack /\ row' # NULL
    BY <2>1, <2>3, <2>4, ContainersAssumption DEF Rows
  <2>6. /\ conn # 0 /\ conn = born /\ conn \in Nat /\ cachedLife = conn /\ life = conn
        /\ del \notin {"remove", "end"}
    BY <1>1 DEF ContainersInv, ContainersTyped, StoreTyped, LivesStand
  <2>7. \A d \in Held : docs[d].life = conn
    BY <2>1, <2>6 DEF ContainersInv, LivesStand, Doomed, OnItsWayOut
  <2> HIDE DEF batch, n
  <2>8. ASSUME NEW d \in Docs
        PROVE  /\ docs'[d] \in Indexed \cup {NULL}
               /\ docs'[d] # NULL => docs'[d].life = conn
               /\ d \in batch.docs => docs'[d].ver = batch.ver[d] /\ docs'[d] # NULL
               /\ d \notin batch.docs /\ d \notin batch.deleted => docs'[d] = docs[d]
    <3>1. CASE d \in batch.docs
      <4>1. docs'[d] = [ver |-> batch.ver[d], life |-> conn] /\ batch.ver[d] \in Nat
        BY <2>3, <2>4, <3>1
      <4>2. docs'[d] \in Indexed /\ docs'[d].life = conn /\ docs'[d].ver = batch.ver[d]
        BY <2>6, <4>1 DEF Indexed
      <4>. QED
        BY <3>1, <4>2, ContainersAssumption
    <3>2. CASE d \notin batch.docs
      <4>1. docs'[d] = Tombstoned(batch.deleted)[d]
        BY <2>3, <3>2
      <4>. QED
        BY <2>7, <3>2, <4>1, TombstonesKeepLives
    <3>. QED
      BY <3>1, <3>2
  <2>9. docs' \in [Docs -> Indexed \cup {NULL}]
    BY <2>3, <2>8
  <2>10. Complete(row.ck)'
    <3>1. SUFFICES ASSUME NEW d \in Docs, src.docs[d] \in 1 .. n
                   PROVE  d \in Live' /\ docs'[d].ver = src.docs[d]
      BY <1>1, <2>5 DEF Complete
    <3>2. src.docs[d] = batch.ver[d] /\ d \notin batch.deleted
      BY <2>2, <2>4, <3>1 DEF Delivers, n
    <3>3. CASE d \in batch.docs
      <4>1. docs'[d].ver = src.docs[d] /\ docs'[d] # NULL
        BY <2>8, <3>2, <3>3
      <4>. QED
        BY <2>2, <3>1, <4>1 DEF Live, Held
    <3>4. CASE d \notin batch.docs
      <4>1. batch.ver[d] \notin run.ck + 1 .. n
        BY <2>2, <3>4 DEF Delivers, n
      <4>2. src.docs[d] \in 1 .. row.ck
        BY <2>1, <2>2, <2>4, <3>1, <3>2, <4>1
      <4>3. d \in Live /\ docs[d].ver = src.docs[d] /\ docs'[d] = docs[d]
        BY <2>2, <2>8, <3>2, <3>4, <4>2 DEF Complete
      <4>. QED
        BY <4>3 DEF Live, Held
    <3>. QED
      BY <3>3, <3>4
  <2>11. run' # NULL =>
           \E at \in {"fetch", "ids"} :
             run' = [mode |-> run.mode, at |-> at, stop |-> run.stop, ck |-> n, got |-> NULL]
    <3>1. CASE run' = NULL
      BY <3>1
    <3>2. CASE run' # NULL
      <4>1. PICK at \in {"fetch", "ids"} : run' = [run EXCEPT !.at = at, !.got = NULL, !.ck = row'.ck]
        BY <1>3, <3>2 DEF RunStore
      <4>. QED
        BY <1>1, <2>5, <4>1 DEF ContainersInv, ContainersTyped, RunTyped
    <3>. QED
      BY <3>1, <3>2
  <2>12. RunTyped' /\ (run' # NULL => run'.ck <= src.n)
    BY <2>4, <2>11 DEF RunTyped
  <2>13. StoreTyped' /\ ConsentStands'
    BY <1>1, <2>1, <2>5, <2>9 DEF ContainersInv, ContainersTyped, StoreTyped, ConsentStands
  <2>14. LivesStand'
    BY <1>1, <2>5, <2>6, <2>8, <2>11 DEF ContainersInv, LivesStand, Held, Doomed
  <2>15. CheckpointsStand'
    BY <1>1, <2>4, <2>5, <2>10, <2>11, <2>12 DEF ContainersInv, CheckpointsStand, RunAt
  <2>. QED
    BY <1>1, <2>12, <2>13, <2>14, <2>15 DEF ContainersInv, ContainersTyped
<1>. QED
  BY <1>2, <1>3

LEMMA PruneKeepsContainers ==
    ASSUME ContainersInv, RunPrune
    PROVE  ContainersInv'
<1>1. /\ run # NULL /\ run.at = "prune" /\ run' = NULL
      /\ UNCHANGED <<src, row, life, consent, conn, born, cachedLife, refresh, put, del>>
      /\ lastEmpty' = (run.got = {}) /\ empty' = Doubted
      /\ docs' = IF Doubted THEN docs ELSE Tombstoned(Unlisted)
  BY DEF RunPrune, RunAt, requests, registry
<1>2. LeavesOut(run.got) /\ (empty => lastEmpty) /\ docs \in [Docs -> Indexed \cup {NULL}]
  BY <1>1 DEF ContainersInv, ContainersTyped, StoreTyped, CheckpointsStand, RunAt
<1>3. ASSUME NEW d \in Docs
      PROVE  /\ docs'[d] \in Indexed \cup {NULL} /\ (docs'[d] # NULL <=> d \in Held)
             /\ d \in Held => docs'[d].life = docs[d].life
             /\ d \notin Unlisted \/ Doubted => docs'[d] = docs[d]
  <2>1. docs'[d] \in {docs[d], Tombstoned(Unlisted)[d]}
    BY <1>1
  <2>2. CASE Doubted
    BY <1>1, <1>2, <2>2 DEF Held
  <2>3. CASE ~Doubted
    <3>1. docs'[d] = Tombstoned(Unlisted)[d]
      BY <1>1, <2>3
    <3>. QED
      BY <2>3, <3>1, TombstonesKeepLives
  <2>. QED
    BY <2>2, <2>3
<1>4. docs' \in [Docs -> Indexed \cup {NULL}]
  BY <1>1, <1>2, <1>3 DEF Tombstoned
<1>5. Held' = Held
  BY <1>3 DEF Held
<1>6. RunTyped' /\ RequestsTyped'
  BY <1>1, RunRests, RequestsRest
<1>7. StoreTyped' /\ ConsentStands'
  BY <1>1, <1>4 DEF ContainersInv, ContainersTyped, StoreTyped, ConsentStands
<1>8. LivesStand'
  <2>1. \A d \in Held : docs'[d].life = docs[d].life
    BY <1>3 DEF Held
  <2>2. \A c : Doomed(c) => Doomed(c)'
    BY <1>1, <1>5, <2>1 DEF Doomed, OnItsWayOut
  <2>. QED
    BY <1>1, <1>5, <2>1, <2>2 DEF ContainersInv, LivesStand
<1>9. CheckpointsStand'
  <2>1. ASSUME row # NULL PROVE Complete(row.ck)'
    <3>1. SUFFICES ASSUME NEW d \in Docs, src.docs[d] \in 1 .. row.ck
                   PROVE  d \in Live' /\ docs'[d].ver = src.docs[d]
      BY <1>1 DEF Complete
    <3>2. d \in Live /\ docs[d].ver = src.docs[d]
      BY <2>1, <3>1 DEF ContainersInv, CheckpointsStand, Complete
    <3>3. docs'[d] = docs[d]
      <4>1. CASE run.got = {} /\ ~lastEmpty
        <5>1. Unlisted # {} /\ ~empty
          BY <1>2, <3>2, <4>1 DEF Unlisted
        <5>. QED
          BY <1>3, <4>1, <5>1 DEF Doubted
      <4>2. CASE \A e \in Docs \ run.got : src.docs[e] = 0 \/ row = NULL \/ src.docs[e] > row.ck
        <5>1. row.ck \in Nat
          BY <2>1 DEF ContainersInv, ContainersTyped, StoreTyped, Rows
        <5>2. d \in run.got
          BY <2>1, <3>1, <4>2, <5>1
        <5>. QED
          BY <1>3, <5>2 DEF Unlisted
      <4>. QED
        BY <1>2, <4>1, <4>2 DEF LeavesOut
    <3>. QED
      BY <3>2, <3>3 DEF Live, Held
  <2>2. empty' => lastEmpty'
    BY <1>1 DEF Doubted
  <2>. QED
    BY <1>1, <2>1, <2>2 DEF ContainersInv, CheckpointsStand, RunAt
<1>. QED
  BY <1>6, <1>7, <1>8, <1>9 DEF ContainersInv, ContainersTyped

LEMMA ContainersStep ==
    ASSUME ContainersInv, ContainersNext \/ UNCHANGED containerVars
    PROVE  ContainersInv'
<1>1. CASE UNCHANGED containerVars
  BY <1>1, RunRests, RequestsRest, StoreRests DEF containerVars, store, registry, requests
<1>. QED
  BY <1>1, SourceKeepsContainers, PurgeKeepsContainers, TombstonesKeepContainers,
     BeginningsKeepContainers, RunAsks, UpsertsKeepContainers, StoreKeepsContainers,
     PruneKeepsContainers, RequestsKeepContainers, WriteKeepsContainers, RegistryKeepsContainers
  DEF ContainersNext, RunStep, RefreshStep, PutStep, DeleteStep

LEMMA ContainersInvHolds == Spec => [](part = "containers" => ContainersInv)
<1> DEFINE Inv == part = "containers" => ContainersInv
<1>1. Init => Inv
  BY ContainersInitInv DEF Init
<1>2. Inv /\ [Next]_vars => Inv'
  BY PartKept, PartSteps, ContainersStep
<1>. QED
  BY <1>1, <1>2, PTL DEF Spec

(* Restricted content is fetched only while an admin's acceptance stands: what  *)
(* beginConnectorLife(), retire(), a deselection or a purge leaves of a row     *)
(* never carries one (selectedContainers(), selectContainer()).                 *)
THEOREM RestrictedIsAccepted == Spec => []RestrictedNeedsConsent
<1>1. (part = "containers" => ContainersInv) => RestrictedNeedsConsent
  BY DEF ContainersInv, ConsentStands, RestrictedNeedsConsent, Eligible
<1>. QED
  BY <1>1, ContainersInvHolds, PTL

(* What an earlier connector under the id indexed is deselected, gone and       *)
(* waiting for the purge, whatever runs, listings and selections race the       *)
(* deletion (deselectConnector(), beginConnectorLife(), storeBatch()).          *)
THEOREM EarlierLivesEnd == Spec => []EarlierLifeIsDoomed
<1>1. (part = "containers" => ContainersInv) => EarlierLifeIsDoomed
  <2>1. SUFFICES ASSUME ContainersInv, (conn # 0 /\ cachedLife = conn) \/ (conn = 0 /\ life = 0),
                        NEW d \in Held, docs[d].life # conn
                 PROVE  OnItsWayOut
    BY DEF EarlierLifeIsDoomed, OnItsWayOut
  <2>2. docs[d].life # 0
    BY <2>1 DEF ContainersInv, ContainersTyped, StoreTyped, LivesStand
  <2>. QED
    BY <2>1, <2>2 DEF ContainersInv, LivesStand, Doomed
<1>. QED
  BY <1>1, ContainersInvHolds, PTL

(* A checkpoint claims no change that is not stored, so that no poll skips a    *)
(* document the source still has (storeBatch(), pruneMissing(), purgeBatch()).  *)
THEOREM CheckpointsAreTrue == Spec => []NothingSkipped
<1>1. (part = "containers" => ContainersInv) => NothingSkipped
  BY DEF ContainersInv, CheckpointsStand, Complete, NothingSkipped
<1>. QED
  BY <1>1, ContainersInvHolds, PTL

-----------------------------------------------------------------------------
(* THE SOURCE IS READ.  A poll is a record of one shape, whatever it is at.   *)
Sources ==
    [tick : Nat, granted : BOOLEAN, issues : [Issues -> [at : Nat, ver : Nat]], files : [Paths -> Files]]
Checkpoints ==
    [cursor : Nat \cup {NULL}, since : Int, tree : [Paths -> Files] \cup {NULL},
     glob : Globs \cup {NULL}, files : [Paths -> Files]]
PollJobs ==
    [at : {"list", "fetch", "store", "head", "file"}, horizon : Int, stop : Nat \cup {NULL},
     start : BOOLEAN, glob : Globs, after : Refs \cup {NULL}, refs : Seq(Refs),
     got : Nat \cup {NULL} \cup SUBSET Paths, tree : [Paths -> Files] \cup {NULL},
     todo : Seq(Paths), cut : BOOLEAN]
NightJobs == [at : {"ids"}] \cup [at : {"prune"}, got : SUBSET Issues]

KnowledgeTyped ==
    /\ github \in Sources /\ chosen \in [days : Days, glob : Globs]
    /\ kept \in [Issues -> Nat] /\ keptFiles \in [Paths -> Files] /\ ck \in Checkpoints
    /\ mark \in BOOLEAN /\ job \in PollJobs \cup NightJobs \cup {NULL} /\ reach \in Int

(* The walk over the issues: every issue that there is has been listed as it  *)
(* is, lies behind the page, or has moved to the front since.  The refs go    *)
(* from the oldest to the latest, and none is older than where the walk stops. *)
Dated(i) == github.issues[i].at
Walking == SyncAt("list") \/ SyncAt("fetch") \/ SyncAt("store")
InRefs(i) == \E k \in 1 .. Len(job.refs) : job.refs[k] = [issue |-> i, at |-> Dated(i)]
InFront(i) == \A k \in 1 .. Len(job.refs) : job.refs[k].at <= Dated(i)

RefsStand ==
    /\ \A k \in 1 .. Len(job.refs) : job.refs[k].at <= github.tick /\ ~Walked(job.refs[k].at)
    /\ \A k, l \in 1 .. Len(job.refs) : k <= l => job.refs[k].at <= job.refs[l].at
    /\ job.start <=> job.stop = NULL
    /\ job.stop # NULL => ck.cursor # NULL /\ job.stop <= ck.cursor

ListStands ==
    /\ job.after = NULL => job.refs = <<>>
    /\ job.after # NULL => job.refs # <<>> /\ job.after = job.refs[1]
    /\ \A i \in Issues : Exists(i) => Beyond(i) \/ InRefs(i) \/ InFront(i)

FetchStands ==
    \A i \in Issues : Exists(i) =>
        kept[i] = github.issues[i].ver \/ InRefs(i) \/ InFront(i) \/ Walked(Dated(i))

(* What was fetched is the issue as it is, unless it has moved since. *)
GotStands ==
    /\ job.refs # <<>> /\ job.got \in Nat
    /\ \A i \in Issues : Exists(i) /\ i = job.refs[1].issue =>
          job.got = github.issues[i].ver \/ InFront(i)

PruneStands ==
    \/ job.got = {} /\ ~mark
    \/ \A i \in Issues : Exists(i) /\ i \notin job.got /\ ck.cursor # NULL => ck.cursor <= Dated(i)

NoneMissed ==
    ck.cursor # NULL =>
        /\ ck.cursor <= github.tick
        /\ \A i \in Issues : Exists(i) /\ Dated(i) >= reach =>
              kept[i] = github.issues[i].ver \/ Dated(i) >= ck.cursor

IssuesStand ==
    /\ \A i \in Issues : Dated(i) <= github.tick
    /\ NoneMissed
    /\ Walking => RefsStand
    /\ SyncAt("list") => ListStands
    /\ SyncAt("fetch") \/ SyncAt("store") => FetchStands
    /\ SyncAt("store") => GotStands
    /\ SyncAt("prune") => PruneStands

(* The files: a reading under way is of another tree or another setting than  *)
(* the one on record, and what it has yet to store is all that is missing.    *)
Wanted == Chosen(job.tree, job.glob)
Todo == {job.todo[k] : k \in 1 .. Len(job.todo)}

ReadingStands ==
    /\ job.tree \in [Paths -> Files] /\ job.got \in SUBSET Paths
    /\ job.tree # ck.tree \/ job.glob # ck.glob
    /\ \A p \in Todo : Wanted[p] # 0
    /\ \A p \in job.got : Wanted[p] = 0
    /\ ~job.cut => \A p \in Paths : ck.files[p] = Wanted[p] \/ p \in Todo \/ p \in job.got

FilesStand ==
    /\ ck.files = keptFiles
    /\ ck.tree # NULL /\ lastRead = <<ck.tree, ck.glob>> => keptFiles = Chosen(ck.tree, ck.glob)
    /\ SyncAt("file") => ReadingStands

KnowledgeInv == KnowledgeTyped /\ IssuesStand /\ FilesStand

LEMMA KnowledgeInitInv == KnowledgeInit => KnowledgeInv
<1> SUFFICES ASSUME KnowledgeInit PROVE KnowledgeInv
  OBVIOUS
<1> USE KnowledgeAssumption
<1>1. PICK granted \in BOOLEAN, at \in 1 .. 2 :
         github = [tick |-> 2, granted |-> granted, files |-> NoFiles,
                   issues |-> [i \in Issues |-> [at |-> at, ver |-> 1]]]
  BY DEF KnowledgeInit
<1>2. NoFiles \in [Paths -> Files] /\ github \in Sources /\ ck \in Checkpoints
  BY <1>1 DEF KnowledgeInit, NoFiles, Files, Sources, Checkpoints, Fresh
<1>3. KnowledgeTyped
  <2>1. PICK d \in Days, g \in Globs : chosen = [days |-> d, glob |-> g]
    BY DEF KnowledgeInit
  <2>2. kept = [i \in Issues |-> 0] /\ keptFiles = NoFiles /\ mark = FALSE /\ reach = 0
    BY Zenon DEF KnowledgeInit
  <2>3. job = NULL
    BY Zenon DEF KnowledgeInit
  <2>. QED
    <3>1. chosen \in [days : Days, glob : Globs]
      BY <2>1
    <3>2. kept \in [Issues -> Nat] /\ keptFiles \in [Paths -> Files] /\ reach \in Int
      BY <1>2, <2>2
    <3>3. mark \in BOOLEAN /\ job \in PollJobs \cup NightJobs \cup {NULL}
      BY <2>2, <2>3, Zenon
    <3>. QED
      BY <1>2, <3>1, <3>2, <3>3 DEF KnowledgeTyped
<1>4. IssuesStand
  BY <1>1 DEF KnowledgeInit, IssuesStand, NoneMissed, Walking, SyncAt, Fresh, Dated
<1>5. FilesStand
  BY DEF KnowledgeInit, FilesStand, SyncAt, Fresh
<1>. QED
  BY <1>3, <1>4, <1>5 DEF KnowledgeInv

(* The source changes: an issue that is another one now has moved to the front. *)
SourceMoves ==
    /\ github.tick <= github'.tick
    /\ \A i \in Issues :
          \/ github'.issues[i] = github.issues[i]
          \/ github'.issues[i].ver = 0 /\ github'.issues[i].at <= github'.tick
          \/ github'.issues[i].at = github.tick

LEMMA MovesKeepIssues ==
    ASSUME KnowledgeInv, SourceMoves, github' \in Sources, UNCHANGED <<kept, ck, mark, job, reach>>
    PROVE  IssuesStand'
<1> USE KnowledgeAssumption
<1>1. /\ github.tick \in Nat /\ github'.tick \in Nat /\ github.tick <= github'.tick
      /\ \A i \in Issues : Dated(i) \in Nat /\ Dated(i)' \in Nat
  BY DEF KnowledgeInv, KnowledgeTyped, Sources, SourceMoves, Dated
<1>2. /\ job.refs' = job.refs /\ job.after' = job.after
      /\ \A at : SyncAt(at)' <=> SyncAt(at)
  BY DEF SyncAt
<1>3. Walking' <=> Walking
  BY <1>2 DEF Walking
<1>4. \A i \in Issues : Exists(i)' =>
         \/ github'.issues[i] = github.issues[i] /\ Exists(i) /\ Dated(i)' = Dated(i)
         \/ Dated(i)' = github.tick
  BY DEF SourceMoves, Exists, Dated
<1>5. \A i \in Issues : Dated(i)' <= github'.tick
  BY <1>1 DEF SourceMoves, Dated, KnowledgeInv, IssuesStand
<1>6. NoneMissed'
  BY <1>1, <1>4 DEF KnowledgeInv, KnowledgeTyped, Checkpoints, IssuesStand, NoneMissed
<1>7. ASSUME Walking PROVE RefsStand'
  <2>1. job \in PollJobs /\ RefsStand
    BY <1>7 DEF Walking, SyncAt, KnowledgeInv, KnowledgeTyped, IssuesStand, NightJobs
  <2>2. job.refs \in Seq(Refs)
    BY <2>1 DEF PollJobs
  <2>3. \A k \in 1 .. Len(job.refs) : job.refs[k].at \in Nat
    BY <2>2, ElementOfSeq DEF Refs
  <2>4. \A k \in 1 .. Len(job.refs) : job.refs[k].at <= github'.tick
    BY <1>1, <2>1, <2>3 DEF RefsStand
  <2>. QED
    BY <2>1, <2>4 DEF RefsStand, Walked
<1>8. ASSUME Walking, NEW i \in Issues, Exists(i)'
      PROVE  \/ /\ github'.issues[i] = github.issues[i] /\ Exists(i) /\ Dated(i)' = Dated(i)
                /\ (InRefs(i) => InRefs(i)') /\ (InFront(i) => InFront(i)')
             \/ InFront(i)'
  <2>1. RefsStand
    BY <1>8 DEF KnowledgeInv, IssuesStand
  <2>. QED
    BY <1>4, <1>8, <2>1 DEF RefsStand, InRefs, InFront
<1>9. ASSUME SyncAt("list") PROVE ListStands'
  <2>1. ListStands /\ Walking
    BY <1>9 DEF KnowledgeInv, IssuesStand, Walking
  <2>2. ASSUME NEW i \in Issues, github'.issues[i] = github.issues[i], Beyond(i) PROVE Beyond(i)'
    BY <2>2 DEF Beyond
  <2>. QED
    BY <1>8, <2>1, <2>2 DEF ListStands
<1>10. ASSUME SyncAt("fetch") \/ SyncAt("store") PROVE FetchStands'
  <2>1. FetchStands /\ Walking
    BY <1>10 DEF KnowledgeInv, IssuesStand, Walking
  <2>. QED
    BY <1>8, <2>1 DEF FetchStands, Walked
<1>11. ASSUME SyncAt("store") PROVE GotStands'
  <2>1. GotStands /\ Walking
    BY <1>11 DEF KnowledgeInv, IssuesStand, Walking
  <2>. QED
    BY <1>8, <2>1 DEF GotStands
<1>12. ASSUME SyncAt("prune") PROVE PruneStands'
  <2>1. PruneStands /\ NoneMissed
    BY <1>12 DEF KnowledgeInv, IssuesStand
  <2>. QED
    BY <1>1, <1>4, <2>1 DEF PruneStands, NoneMissed
<1>. QED
  BY <1>2, <1>3, <1>5, <1>6, <1>7, <1>9, <1>10, <1>11, <1>12 DEF IssuesStand

LEMMA SourceKeepsKnowledge ==
    ASSUME KnowledgeInv,
           \/ SecondPasses \/ Granted
           \/ \E i \in Issues : IssueChanges(i) \/ IssueLeaves(i)
           \/ \E tree \in [Paths -> Contents] : Pushed(tree)
           \/ \E d \in Days, g \in Globs : Configured(d, g)
           \/ UNCHANGED githubVars
    PROVE  KnowledgeInv'
<1> USE KnowledgeAssumption
<1>1. github \in Sources
  BY DEF KnowledgeInv, KnowledgeTyped
<1>2. UNCHANGED <<storeVars, job>>
  BY DEF SecondPasses, Granted, IssueChanges, IssueLeaves, Pushed, Configured, AtSource, githubVars, storeVars
<1>3. chosen' \in [days : Days, glob : Globs]
  BY DEF SecondPasses, Granted, IssueChanges, IssueLeaves, Pushed, Configured, AtSource, githubVars,
         KnowledgeInv, KnowledgeTyped
<1>4. SourceMoves /\ github' \in Sources
  <2>1. CASE SecondPasses
    BY <1>1, <2>1 DEF SecondPasses, SourceMoves, Sources
  <2>2. CASE Granted
    <3>1. PICK b \in BOOLEAN : b = ~github.granted
      OBVIOUS
    <3>2. github' = [github EXCEPT !.granted = b]
      BY <2>2, <3>1, Zenon DEF Granted
    <3>. QED
      BY <1>1, <3>2 DEF SourceMoves, Sources
  <2>3. ASSUME NEW i \in Issues, IssueChanges(i) PROVE SourceMoves /\ github' \in Sources
    <3>1. PICK x : x = [at |-> github.tick, ver |-> github.issues[i].ver + 1]
      OBVIOUS
    <3>2. x \in [at : Nat, ver : Nat] /\ x.at = github.tick
      BY <1>1, <3>1 DEF Sources
    <3>3. github' = [github EXCEPT !.issues = [github.issues EXCEPT ![i] = x]]
      BY <1>1, <2>3, <3>1 DEF IssueChanges, Sources
    <3>. QED
      BY <1>1, <3>2, <3>3 DEF SourceMoves, Sources
  <2>4. ASSUME NEW i \in Issues, IssueLeaves(i) PROVE SourceMoves /\ github' \in Sources
    <3>1. PICK x : x = [at |-> 0, ver |-> 0]
      OBVIOUS
    <3>2. x \in [at : Nat, ver : Nat] /\ x.at = 0 /\ x.ver = 0
      BY <3>1
    <3>3. github' = [github EXCEPT !.issues = [github.issues EXCEPT ![i] = x]]
      BY <1>1, <2>4, <3>1 DEF IssueLeaves, Sources
    <3>. QED
      BY <1>1, <3>2, <3>3 DEF SourceMoves, Sources
  <2>5. ASSUME NEW tree \in [Paths -> Contents], Pushed(tree) PROVE SourceMoves /\ github' \in Sources
    BY <1>1, <2>5 DEF Pushed, SourceMoves, Sources, Files
  <2>6. CASE UNCHANGED github
    BY <1>1, <2>6 DEF SourceMoves, Sources
  <2>. QED
    BY <2>1, <2>2, <2>3, <2>4, <2>5, <2>6 DEF Configured, githubVars
<1>5. KnowledgeTyped'
  BY <1>2, <1>3, <1>4 DEF KnowledgeInv, KnowledgeTyped, storeVars
<1>6. IssuesStand'
  BY <1>2, <1>4, MovesKeepIssues DEF storeVars
<1>7. FilesStand'
  BY <1>2 DEF KnowledgeInv, FilesStand, ReadingStands, SyncAt, Wanted, Todo, Chosen, storeVars
<1>. QED
  BY <1>5, <1>6, <1>7 DEF KnowledgeInv

LEMMA StartKeepsKnowledge ==
    ASSUME KnowledgeInv,
           StartPoll \/ RunIsCut \/ IssuesFail \/ ListForbidden \/ StartReconcile \/ IdsForbidden
    PROVE  KnowledgeInv'
<1> USE KnowledgeAssumption
<1>1. KnowledgeTyped /\ IssuesStand /\ FilesStand
  BY DEF KnowledgeInv
<1>2. UNCHANGED <<github, chosen, kept, keptFiles, ck, mark, reach, lastRead>>
  BY DEF StartPoll, RunIsCut, IssuesFail, ListForbidden, StartReconcile, IdsForbidden, storeVars
<1>3. NoneMissed' /\ \A i \in Issues : Dated(i)' <= github'.tick
  BY <1>1, <1>2 DEF IssuesStand, NoneMissed, Exists, Dated
<1>4. ASSUME StartPoll PROVE KnowledgeInv'
  <2>1. PICK h : h = Horizon(chosen.days)
    OBVIOUS
  <2>2. h \in Int
    BY <1>1, <2>1 DEF Horizon, KnowledgeTyped, Sources
  <2>3. PICK cursor : cursor = IF ck.cursor # NULL /\ FurtherBack(h) THEN NULL ELSE ck.cursor
    OBVIOUS
  <2>4. cursor \in Nat \cup {NULL} /\ (cursor # NULL => cursor = ck.cursor)
    BY <1>1, <2>3 DEF KnowledgeTyped, Checkpoints
  <2>5. PICK to \in {"list", "head"} : to = IF github.granted THEN "list" ELSE "head"
    OBVIOUS
  <2>6. PICK start \in BOOLEAN : start <=> cursor = NULL
    OBVIOUS
  <2>7. job' = [at |-> to, horizon |-> h, stop |-> cursor,
                start |-> cursor = NULL, glob |-> chosen.glob, after |-> NULL, refs |-> <<>>,
                got |-> NULL, tree |-> NULL, todo |-> <<>>, cut |-> FALSE]
    BY <1>4, <2>1, <2>3, <2>5, Zenon DEF StartPoll
  <2>8. /\ job'.at = to /\ job'.horizon = h /\ job'.stop = cursor /\ job'.glob = chosen.glob
        /\ job'.after = NULL /\ job'.refs = <<>> /\ (job'.start <=> cursor = NULL)
    BY <2>7
  <2>9. job' \in PollJobs
    <3>1. <<>> \in Seq(Refs) /\ <<>> \in Seq(Paths) /\ chosen.glob \in Globs
      BY <1>1 DEF KnowledgeTyped
    <3>2. (cursor = NULL) \in BOOLEAN
      OBVIOUS
    <3>. QED
      BY <2>2, <2>4, <2>7, <3>1, <3>2 DEF PollJobs
  <2>10. KnowledgeTyped'
    BY <1>1, <1>2, <2>9 DEF KnowledgeTyped
  <2>11. Len(job'.refs) = 0
    BY <2>8
  <2>12. SyncAt("list")' => RefsStand' /\ ListStands'
    <3>1. RefsStand'
      BY <1>1, <1>2, <2>4, <2>8, <2>11 DEF RefsStand, KnowledgeTyped, Checkpoints
    <3>2. ListStands'
      BY <2>8, <2>11 DEF ListStands, InFront
    <3>. QED
      BY <3>1, <3>2
  <2>13. IssuesStand'
    BY <1>3, <2>8, <2>12 DEF IssuesStand, Walking, SyncAt
  <2>14. FilesStand'
    BY <1>1, <1>2, <2>8 DEF FilesStand, SyncAt
  <2>. QED
    BY <2>10, <2>13, <2>14 DEF KnowledgeInv
<1>5. ASSUME \/ job' = NULL
             \/ job' = [at |-> "ids"]
             \/ job \in PollJobs /\ job' = [job EXCEPT !.at = "head"]
      PROVE  KnowledgeInv'
  <2>1. job' # NULL => job'.at \in {"ids", "head"}
    BY <1>5 DEF PollJobs
  <2>2. job' \in PollJobs \cup NightJobs \cup {NULL}
    BY <1>5 DEF PollJobs, NightJobs
  <2>3. KnowledgeTyped'
    BY <1>1, <1>2, <2>2 DEF KnowledgeTyped
  <2>4. IssuesStand'
    BY <1>3, <2>1 DEF IssuesStand, Walking, SyncAt
  <2>5. FilesStand'
    BY <1>1, <1>2, <2>1 DEF FilesStand, SyncAt
  <2>. QED
    BY <2>3, <2>4, <2>5 DEF KnowledgeInv
<1>6. SyncAt("list") \/ SyncAt("fetch") => job \in PollJobs
  BY <1>1 DEF KnowledgeTyped, SyncAt, NightJobs
<1>. QED
  BY <1>4, <1>5, <1>6
  DEF RunIsCut, IssuesFail, ListForbidden, StartReconcile, IdsForbidden, Goes

(* A set of numbers below a bound, and a finite one, has a greatest member. *)
LEMMA GreatestUpTo ==
    ASSUME NEW n \in Nat, NEW S \in SUBSET (0 .. n), S # {}
    PROVE  \E m \in S : \A k \in S : k <= m
<1> DEFINE T == {k + 1 : k \in S}
<1>1. T \in SUBSET (1 .. n + 1) /\ T # {}
  <2>1. \A k \in S : k + 1 \in 1 .. n + 1
    OBVIOUS
  <2>. QED
    BY <2>1
<1>2. PICK t \in T : \A k \in T : k <= t
  <2>1. n + 1 \in Nat
    OBVIOUS
  <2> HIDE DEF T
  <2>. QED
    BY <1>1, <2>1, GreatestBelow
<1>3. PICK m \in S : t = m + 1
  OBVIOUS
<1>4. \A k \in S : k + 1 <= m + 1
  BY <1>2, <1>3
<1>. QED
  BY <1>4

LEMMA FiniteIsBounded ==
    ASSUME NEW S \in SUBSET Nat, IsFiniteSet(S)
    PROVE  \E n \in Nat : S \subseteq 0 .. n
<1> DEFINE Bounded(T) == \E n \in Nat : T \subseteq 0 .. n
           Sizes == {k \in Nat : \E T \in SUBSET S : Cardinality(T) = k /\ ~Bounded(T)}
<1>1. SUFFICES ASSUME ~Bounded(S) PROVE FALSE
  OBVIOUS
<1>2. Cardinality(S) \in Sizes
  BY <1>1, FS_CardinalityType
<1>3. PICK k \in Sizes : \A l \in Sizes : k <= l
  BY <1>2, LeastNatural
<1>4. PICK T \in SUBSET S : Cardinality(T) = k /\ ~Bounded(T)
  OBVIOUS
<1>5. T # {}
  BY <1>4
<1>6. PICK x \in T : TRUE
  BY <1>5
<1>7. IsFiniteSet(T)
  BY FS_Subset
<1>8. Cardinality(T \ {x}) = k - 1
  BY <1>4, <1>6, <1>7, FS_RemoveElement
<1>9. IsFiniteSet(T \ {x})
  BY <1>7, FS_RemoveElement
<1>10. Cardinality(T \ {x}) \in Nat
  BY <1>9, FS_CardinalityType
<1>11. T \ {x} \in SUBSET S /\ Bounded(T \ {x})
  <2>1. k - 1 \notin Sizes
    BY <1>3
  <2>2. T \ {x} \in SUBSET S
    OBVIOUS
  <2>. QED
    BY <1>8, <1>10, <2>1, <2>2
<1>12. PICK n \in Nat : T \ {x} \subseteq 0 .. n
  BY <1>11
<1>13. PICK top \in Nat : top = IF x <= n THEN n ELSE x
  BY <1>6
<1>14. x \in 0 .. top /\ (0 .. n) \subseteq 0 .. top
  BY <1>6, <1>12, <1>13
<1>15. T \subseteq 0 .. top
  BY <1>12, <1>14
<1>. QED
  BY <1>4, <1>15

(* The latest issue not yet listed, if there is one left. *)
LEMMA PageIsLatest ==
    ASSUME KnowledgeInv
    PROVE  /\ Page = {} => \A i \in Issues : Exists(i) => ~Beyond(i)
           /\ \A i \in Page : Page = {i}
<1> USE KnowledgeAssumption
<1>1. /\ github.tick \in Nat
      /\ \A i \in Issues : i \in Nat /\ github.issues[i].at \in 0 .. github.tick
  BY DEF KnowledgeInv, KnowledgeTyped, Sources, IssuesStand, Dated
<1>2. ASSUME NEW i \in Page PROVE Page = {i}
  <2>1. SUFFICES ASSUME NEW j \in Page, j # i PROVE FALSE
    BY <1>2
  <2>2. i \in Issues /\ j \in Issues /\ Later(i, j) /\ Later(j, i)
    BY <1>2, <2>1 DEF Page
  <2>3. i \in Nat /\ j \in Nat
    BY <1>1, <2>2
  <2>4. PICK a \in Nat, b \in Nat : a = github.issues[i].at /\ b = github.issues[j].at
    BY <1>1, <2>2
  <2>5. (a > b \/ (a = b /\ i > j)) /\ (b > a \/ (b = a /\ j > i))
    BY <2>2, <2>4, Zenon DEF Later
  <2>. QED
    BY <2>3, <2>4, <2>5
<1>3. ASSUME NEW x \in Issues, Exists(x), Beyond(x) PROVE Page # {}
  <2> DEFINE Left == {i \in Issues : Exists(i) /\ Beyond(i)}
             Times == {github.issues[i].at : i \in Left}
  <2>1. Times \in SUBSET (0 .. github.tick) /\ Times # {}
    BY <1>1, <1>3
  <2>2. PICK top \in Times : \A t \in Times : t <= top
    <3> HIDE DEF Times
    <3>. QED
      BY <1>1, <2>1, GreatestUpTo
  <2> DEFINE Latest == {i \in Left : github.issues[i].at = top}
  <2>3. Latest # {} /\ Latest \subseteq Issues
    BY <2>2
  <2>4. PICK n \in Nat : Issues \subseteq 0 .. n
    BY FiniteIsBounded
  <2>5. PICK i \in Latest : \A j \in Latest : j <= i
    <3>1. Latest \in SUBSET (0 .. n)
      BY <2>3, <2>4
    <3> HIDE DEF Latest
    <3>. QED
      BY <2>3, <3>1, GreatestUpTo
  <2>6. i \in Issues /\ Exists(i) /\ Beyond(i) /\ github.issues[i].at = top
    BY <2>5
  <2>7. ASSUME NEW j \in Issues \ {i}, Exists(j), Beyond(j) PROVE Later(i, j)
    <3>1. j \in Left /\ github.issues[j].at <= top
      BY <2>2, <2>7
    <3>2. CASE github.issues[j].at = top
      <4>1. j <= i /\ j # i
        BY <2>5, <2>7, <3>1, <3>2
      <4>. QED
        BY <1>1, <2>6, <3>2, <4>1 DEF Later
    <3>3. CASE github.issues[j].at # top
      BY <1>1, <2>6, <3>1, <3>3 DEF Later
    <3>. QED
      BY <3>2, <3>3
  <2>8. i \in Page
    BY <2>6, <2>7 DEF Page
  <2>. QED
    BY <2>8
<1>. QED
  BY <1>2, <1>3

(* A poll that walks, and its refs. *)
LEMMA WalkJob ==
    ASSUME KnowledgeInv, Walking
    PROVE  /\ job \in PollJobs /\ job # NULL /\ job.refs \in Seq(Refs) /\ Len(job.refs) \in Nat
           /\ \A k \in 1 .. Len(job.refs) : job.refs[k] \in Refs /\ job.refs[k].at \in Nat
           /\ RefsStand
<1>1. job \in PollJobs /\ job # NULL
  BY DEF Walking, SyncAt, KnowledgeInv, KnowledgeTyped, NightJobs
<1>2. job.refs \in Seq(Refs)
  BY <1>1 DEF PollJobs
<1>3. Len(job.refs) \in Nat /\ \A k \in 1 .. Len(job.refs) : job.refs[k] \in Refs
  BY <1>2, ElementOfSeq, LenProperties
<1>. QED
  BY <1>1, <1>2, <1>3 DEF Refs, KnowledgeInv, IssuesStand

LEMMA ListKeepsKnowledge ==
    ASSUME KnowledgeInv, ListPage
    PROVE  KnowledgeInv'
<1> USE KnowledgeAssumption
<1>1. KnowledgeTyped /\ IssuesStand /\ FilesStand /\ SyncAt("list") /\ Walking /\ ListStands
  BY DEF KnowledgeInv, ListPage, Walking, IssuesStand
<1>2. UNCHANGED <<github, chosen, kept, keptFiles, ck, mark, reach, lastRead>>
  BY DEF ListPage, storeVars
<1>3. NoneMissed' /\ \A i \in Issues : Dated(i)' <= github'.tick
  BY <1>1, <1>2 DEF IssuesStand, NoneMissed, Exists, Dated
<1>4. /\ job \in PollJobs /\ job # NULL /\ job.refs \in Seq(Refs) /\ Len(job.refs) \in Nat
      /\ \A k \in 1 .. Len(job.refs) : job.refs[k] \in Refs /\ job.refs[k].at \in Nat
      /\ RefsStand
  BY <1>1, WalkJob
<1>5. github.tick \in Nat /\ \A i \in Issues : i \in Nat /\ Dated(i) \in Nat /\ Dated(i) <= github.tick
  BY <1>1 DEF KnowledgeTyped, Sources, IssuesStand, Dated
<1>6. ASSUME Page = {} \/ \E i \in Page : Walked(Dated(i)), job' = [job EXCEPT !.at = "fetch"]
      PROVE  KnowledgeInv'
  <2>1. job' \in PollJobs /\ job'.at = "fetch" /\ \A k \in {"refs", "horizon", "stop", "start"} : job'[k] = job[k]
    BY <1>4, <1>6 DEF PollJobs
  <2>2. job'.refs = job.refs /\ job'.horizon = job.horizon /\ job'.stop = job.stop /\ job'.start = job.start
    BY <1>4, <1>6 DEF PollJobs
  <2>3. RefsStand'
    BY <1>2, <1>4, <2>2 DEF RefsStand, Walked
  <2>4. ASSUME NEW i \in Issues, Exists(i) PROVE InRefs(i) \/ InFront(i) \/ Walked(Dated(i))
    <3>1. CASE Beyond(i)
      <4>1. Page # {}
        BY <2>4, <3>1, PageIsLatest
      <4>2. PICK p \in Page : Walked(Dated(p))
        BY <1>6, <4>1
      <4>3. i = p \/ Later(p, i)
        BY <2>4, <3>1 DEF Page
      <4>4. Dated(i) <= Dated(p) /\ p \in Issues
        BY <1>5, <4>2, <4>3 DEF Later, Dated, Page
      <4>. QED
        BY <1>4, <1>5, <4>2, <4>4 DEF Walked, PollJobs
    <3>. QED
      BY <1>1, <2>4, <3>1 DEF ListStands
  <2>5. FetchStands'
    BY <1>2, <2>2, <2>4 DEF FetchStands, InRefs, InFront, Walked, Exists, Dated
  <2>6. KnowledgeTyped'
    BY <1>1, <1>2, <2>1 DEF KnowledgeTyped
  <2>7. IssuesStand'
    BY <1>3, <2>1, <2>3, <2>5 DEF IssuesStand, SyncAt
  <2>8. FilesStand'
    BY <1>1, <1>2, <2>1 DEF FilesStand, SyncAt
  <2>. QED
    BY <2>6, <2>7, <2>8 DEF KnowledgeInv
<1>7. ASSUME NEW p \in Page, ~Walked(Dated(p)), NEW ref, ref = [issue |-> p, at |-> Dated(p)],
             job' = [job EXCEPT !.refs = <<ref>> \o job.refs, !.after = ref]
      PROVE  KnowledgeInv'
  <2>1. p \in Issues /\ Exists(p) /\ Beyond(p) /\ \A j \in Issues \ {p} : Exists(j) /\ Beyond(j) => Later(p, j)
    BY DEF Page
  <2>2. ref \in Refs /\ ref.issue = p /\ ref.at = Dated(p) /\ ref # NULL
    BY <1>5, <1>7, <2>1 DEF Refs
  <2>3. PICK all : all = <<ref>> \o job.refs
    OBVIOUS
  <2>4. /\ all \in Seq(Refs) /\ Len(all) = Len(job.refs) + 1 /\ all # <<>>
        /\ all[1] = ref /\ \A k \in 1 .. Len(job.refs) : all[k + 1] = job.refs[k]
    <3>1. <<ref>> \in Seq(Refs) /\ Len(<<ref>>) = 1 /\ <<ref>>[1] = ref
      BY <2>2
    <3>2. /\ all \in Seq(Refs) /\ Len(all) = 1 + Len(job.refs)
          /\ \A k \in 1 .. 1 + Len(job.refs) : all[k] = IF k <= 1 THEN <<ref>>[k] ELSE job.refs[k - 1]
      BY <1>4, <2>3, <3>1, ConcatProperties
    <3>3. all # <<>>
      <4>1. Len(all) # 0
        BY <1>4, <3>2
      <4>. QED
        BY <4>1
    <3>4. all[1] = ref
      <4>1. 1 \in 1 .. 1 + Len(job.refs)
        BY <1>4
      <4>. QED
        BY <3>1, <3>2, <4>1
    <3>5. ASSUME NEW k \in 1 .. Len(job.refs) PROVE all[k + 1] = job.refs[k]
      <4>1. k + 1 \in 1 .. 1 + Len(job.refs) /\ ~(k + 1 <= 1) /\ (k + 1) - 1 = k
        BY <1>4
      <4>2. all[k + 1] = job.refs[(k + 1) - 1]
        BY <3>2, <4>1
      <4>. QED
        BY <4>1, <4>2
    <3>6. Len(all) = Len(job.refs) + 1
      BY <1>4, <3>2
    <3>. QED
      BY <3>2, <3>3, <3>4, <3>5, <3>6
  <2>5. \A k \in 1 .. Len(all) : k = 1 \/ (k - 1 \in 1 .. Len(job.refs) /\ all[k] = job.refs[k - 1])
    BY <1>4, <2>4
  <2>6. /\ job' \in PollJobs /\ job'.at = "list" /\ job'.refs = all /\ job'.after = ref
        /\ job'.horizon = job.horizon /\ job'.stop = job.stop /\ job'.start = job.start
    BY <1>1, <1>4, <1>7, <2>2, <2>3, <2>4 DEF PollJobs, SyncAt
  <2>7. \A k \in 1 .. Len(job.refs) : Dated(p) <= job.refs[k].at
    <3>1. CASE job.after = NULL
      BY <1>1, <1>4, <3>1 DEF ListStands
    <3>2. CASE job.after # NULL
      <4>1. job.refs # <<>> /\ job.after = job.refs[1] /\ 1 \in 1 .. Len(job.refs)
        BY <1>1, <1>4, <3>2, EmptySeq DEF ListStands
      <4>2. Dated(p) <= job.refs[1].at
        BY <1>4, <1>5, <2>1, <3>2, <4>1 DEF Beyond, Dated
      <4>3. \A k \in 1 .. Len(job.refs) : job.refs[1].at <= job.refs[k].at
        BY <1>4, <4>1 DEF RefsStand
      <4>. QED
        BY <1>4, <1>5, <2>1, <4>1, <4>2, <4>3
    <3>. QED
      BY <3>1, <3>2
  <2>8. RefsStand'
    <3>1. \A k \in 1 .. Len(all) : all[k].at <= github.tick /\ ~Walked(all[k].at)
      <4>1. SUFFICES ASSUME NEW k \in 1 .. Len(all) PROVE all[k].at <= github.tick /\ ~Walked(all[k].at)
        OBVIOUS
      <4>2. CASE k = 1
        BY <1>5, <1>7, <2>1, <2>2, <2>4, <4>2
      <4>3. CASE k # 1
        BY <1>4, <2>5, <4>1, <4>3 DEF RefsStand
      <4>. QED
        BY <4>2, <4>3
    <3>2. \A k, l \in 1 .. Len(all) : k <= l => all[k].at <= all[l].at
      <4>1. SUFFICES ASSUME NEW k \in 1 .. Len(all), NEW l \in 1 .. Len(all), k <= l
                     PROVE  all[k].at <= all[l].at
        OBVIOUS
      <4>2. CASE l = 1
        BY <1>5, <2>1, <2>2, <2>4, <4>1, <4>2
      <4>3. CASE k = 1 /\ l # 1
        <5>1. l - 1 \in 1 .. Len(job.refs) /\ all[l] = job.refs[l - 1]
          BY <2>5, <4>1, <4>3
        <5>. QED
          BY <2>2, <2>4, <2>7, <4>3, <5>1
      <4>4. CASE k # 1 /\ l # 1
        <5>1. /\ k - 1 \in 1 .. Len(job.refs) /\ all[k] = job.refs[k - 1]
              /\ l - 1 \in 1 .. Len(job.refs) /\ all[l] = job.refs[l - 1] /\ k - 1 <= l - 1
          BY <2>5, <4>1, <4>4
        <5>. QED
          BY <1>4, <5>1 DEF RefsStand
      <4>. QED
        BY <4>2, <4>3, <4>4
    <3>. QED
      BY <1>2, <1>4, <2>6, <3>1, <3>2 DEF RefsStand, Walked
  <2>9. ListStands'
    <3>1. SUFFICES ASSUME NEW j \in Issues, Exists(j) PROVE Beyond(j)' \/ InRefs(j)' \/ InFront(j)'
      BY <1>2, <2>4, <2>6 DEF ListStands, Exists
    <3>2. CASE j = p
      BY <1>2, <1>4, <1>7, <2>4, <2>6, <3>2 DEF InRefs, Dated
    <3>3. CASE j # p /\ Beyond(j)
      BY <1>2, <1>5, <2>1, <2>2, <2>6, <3>1, <3>3 DEF Beyond, Later, Dated
    <3>4. CASE InRefs(j)
      <4>1. PICK k \in 1 .. Len(job.refs) : job.refs[k] = [issue |-> j, at |-> Dated(j)]
        BY <3>4 DEF InRefs
      <4>2. k + 1 \in 1 .. Len(all) /\ all[k + 1] = [issue |-> j, at |-> Dated(j)]
        BY <1>4, <2>4, <4>1
      <4>3. job'.refs[k + 1] = [issue |-> j, at |-> Dated(j)'] /\ k + 1 \in 1 .. Len(job'.refs)
        BY <1>2, <2>6, <4>2 DEF Dated
      <4>. QED
        BY <4>3 DEF InRefs, Dated
    <3>5. CASE InFront(j) /\ ~Beyond(j)
      <4>1. job.after # NULL
        BY <3>5 DEF Beyond
      <4>2. 1 \in 1 .. Len(job.refs)
        BY <1>1, <1>4, <4>1, EmptySeq DEF ListStands
      <4>3. Dated(p) <= Dated(j)
        <5>1. Dated(p) <= job.refs[1].at /\ job.refs[1].at <= Dated(j)
          BY <2>7, <3>5, <4>2 DEF InFront
        <5>2. Dated(p) \in Nat /\ Dated(j) \in Nat /\ job.refs[1].at \in Nat
          BY <1>4, <1>5, <2>1, <3>1, <4>2
        <5>. QED
          BY <5>1, <5>2
      <4>. QED
        BY <1>2, <2>2, <2>4, <2>5, <2>6, <3>5, <4>3 DEF InFront, Dated
    <3>. QED
      BY <1>1, <3>1, <3>2, <3>3, <3>4, <3>5 DEF ListStands
  <2>10. KnowledgeTyped'
    BY <1>1, <1>2, <2>6 DEF KnowledgeTyped
  <2>11. IssuesStand'
    BY <1>3, <2>6, <2>8, <2>9 DEF IssuesStand, SyncAt
  <2>12. FilesStand'
    BY <1>1, <1>2, <2>6 DEF FilesStand, SyncAt
  <2>. QED
    BY <2>10, <2>11, <2>12 DEF KnowledgeInv
<1>8. CASE Page = {} \/ \E i \in Page : Walked(Dated(i))
  BY <1>6, <1>8 DEF ListPage, Dated
<1>9. CASE ~(Page = {} \/ \E i \in Page : Walked(Dated(i)))
  <2>1. PICK p \in Page : Page = {p}
    BY <1>9, PageIsLatest
  <2>2. (CHOOSE i \in Page : TRUE) = p
    BY <2>1
  <2>3. PICK ref : ref = [issue |-> p, at |-> Dated(p)]
    OBVIOUS
  <2>4. job' = [job EXCEPT !.refs = <<ref>> \o job.refs, !.after = ref]
    BY <1>4, <1>9, <2>2, <2>3 DEF ListPage, Dated, PollJobs
  <2>. QED
    BY <1>7, <1>9, <2>3, <2>4
<1>. QED
  BY <1>8, <1>9

LEMMA FetchKeepsKnowledge ==
    ASSUME KnowledgeInv, FetchIssue
    PROVE  KnowledgeInv'
<1> USE KnowledgeAssumption
<1>1. KnowledgeTyped /\ IssuesStand /\ FilesStand /\ SyncAt("fetch") /\ Walking /\ FetchStands
  BY DEF KnowledgeInv, FetchIssue, Walking, IssuesStand
<1>2. UNCHANGED <<github, chosen, kept, keptFiles, ck, mark, reach, lastRead>>
  BY DEF FetchIssue, storeVars
<1>3. NoneMissed' /\ \A i \in Issues : Dated(i)' <= github'.tick
  BY <1>1, <1>2 DEF IssuesStand, NoneMissed, Exists, Dated
<1>4. /\ job \in PollJobs /\ job # NULL /\ job.refs \in Seq(Refs) /\ Len(job.refs) \in Nat
      /\ \A k \in 1 .. Len(job.refs) : job.refs[k] \in Refs /\ job.refs[k].at \in Nat
      /\ RefsStand
  BY <1>1, WalkJob
<1>5. CASE job.refs = <<>>
  <2>1. job' \in PollJobs /\ job'.at = "head"
    BY <1>4, <1>5 DEF FetchIssue, PollJobs
  <2>2. KnowledgeTyped'
    BY <1>1, <1>2, <2>1 DEF KnowledgeTyped
  <2>3. IssuesStand'
    BY <1>3, <2>1 DEF IssuesStand, Walking, SyncAt
  <2>4. FilesStand'
    BY <1>1, <1>2, <2>1 DEF FilesStand, SyncAt
  <2>. QED
    BY <2>2, <2>3, <2>4 DEF KnowledgeInv
<1>6. CASE job.refs # <<>>
  <2>1. 1 \in 1 .. Len(job.refs) /\ Head(job.refs) = job.refs[1] /\ job.refs[1].issue \in Issues
    BY <1>4, <1>6, EmptySeq DEF Refs
  <2>2. PICK got : got = github.issues[job.refs[1].issue].ver
    OBVIOUS
  <2>3. got \in Nat
    BY <1>1, <2>1, <2>2 DEF KnowledgeTyped, Sources
  <2>4. job' = [job EXCEPT !.at = "store", !.got = got]
    BY <1>6, <2>1, <2>2 DEF FetchIssue, IssueDocument
  <2>5. /\ job' \in PollJobs /\ job'.at = "store" /\ job'.got = got /\ job'.refs = job.refs
        /\ job'.horizon = job.horizon /\ job'.stop = job.stop /\ job'.start = job.start
    BY <1>4, <2>3, <2>4 DEF PollJobs
  <2>6. RefsStand'
    BY <1>2, <1>4, <2>5 DEF RefsStand, Walked
  <2>7. FetchStands'
    BY <1>1, <1>2, <2>5 DEF FetchStands, InRefs, InFront, Walked, Exists, Dated
  <2>8. GotStands'
    BY <1>2, <1>6, <2>2, <2>3, <2>5 DEF GotStands
  <2>9. KnowledgeTyped'
    BY <1>1, <1>2, <2>5 DEF KnowledgeTyped
  <2>10. IssuesStand'
    BY <1>3, <2>5, <2>6, <2>7, <2>8 DEF IssuesStand, SyncAt
  <2>11. FilesStand'
    BY <1>1, <1>2, <2>5 DEF FilesStand, SyncAt
  <2>. QED
    BY <2>9, <2>10, <2>11 DEF KnowledgeInv
<1>. QED
  BY <1>5, <1>6

LEMMA StoreIssueKeepsKnowledge ==
    ASSUME KnowledgeInv, StoreIssue
    PROVE  KnowledgeInv'
<1> USE KnowledgeAssumption
<1>1. KnowledgeTyped /\ IssuesStand /\ FilesStand /\ SyncAt("store") /\ Walking /\ FetchStands /\ GotStands
  BY DEF KnowledgeInv, StoreIssue, Walking, IssuesStand
<1>2. UNCHANGED <<github, chosen, keptFiles, mark, lastRead>>
  BY DEF StoreIssue
<1>3. /\ job \in PollJobs /\ job # NULL /\ job.refs \in Seq(Refs) /\ Len(job.refs) \in Nat
      /\ \A k \in 1 .. Len(job.refs) : job.refs[k] \in Refs /\ job.refs[k].at \in Nat
      /\ RefsStand
  BY <1>1, WalkJob
<1>4. /\ github.tick \in Nat
      /\ \A i \in Issues : Dated(i) \in Nat /\ Dated(i) <= github.tick /\ github.issues[i].ver \in Nat
  BY <1>1 DEF KnowledgeTyped, Sources, IssuesStand, Dated
<1>5. PICK ref : ref = Head(job.refs)
  OBVIOUS
<1>6. /\ 1 \in 1 .. Len(job.refs) /\ ref = job.refs[1] /\ ref \in Refs
      /\ ref.issue \in Issues /\ ref.at \in Nat /\ ref.at # NULL
  BY <1>1, <1>3, <1>5, EmptySeq DEF GotStands, Refs
<1>7. PICK rest : rest = Tail(job.refs)
  OBVIOUS
<1>8. /\ rest \in Seq(Refs) /\ Len(rest) = Len(job.refs) - 1
      /\ \A k \in 1 .. Len(rest) : k + 1 \in 1 .. Len(job.refs) /\ rest[k] = job.refs[k + 1]
  BY <1>1, <1>3, <1>7, HeadTailProperties DEF GotStands
<1>9. \A k \in 1 .. Len(job.refs) : k = 1 \/ (k - 1 \in 1 .. Len(rest) /\ job.refs[k] = rest[k - 1])
  BY <1>3, <1>8
<1>10. job' = [job EXCEPT !.at = "fetch", !.refs = rest, !.got = NULL]
  BY <1>7 DEF StoreIssue
<1>11. /\ job' \in PollJobs /\ job'.at = "fetch" /\ job'.refs = rest
       /\ job'.horizon = job.horizon /\ job'.stop = job.stop /\ job'.start = job.start
  BY <1>3, <1>8, <1>10 DEF PollJobs
<1>12. /\ kept' \in [Issues -> Nat]
       /\ \A i \in Issues : kept'[i] = IF i = ref.issue /\ job.got # 0 THEN job.got ELSE kept[i]
  BY <1>1, <1>5, <1>6 DEF StoreIssue, GotStands, KnowledgeTyped
<1>13. PICK since : since = IF job.start THEN job.horizon ELSE ck.since
  OBVIOUS
<1>14. since \in Int /\ ck' = [ck EXCEPT !.cursor = ref.at, !.since = since]
  BY <1>1, <1>3, <1>5, <1>13 DEF StoreIssue, KnowledgeTyped, Checkpoints, PollJobs
<1>15. /\ ck' \in Checkpoints /\ ck'.cursor = ref.at /\ ck'.files = ck.files /\ ck'.tree = ck.tree
       /\ ck'.glob = ck.glob
  BY <1>1, <1>6, <1>14 DEF KnowledgeTyped, Checkpoints
<1>16. /\ reach' \in Int /\ reach' >= job.horizon /\ (~job.start => reach' >= reach)
  BY <1>1, <1>3 DEF StoreIssue, Furthest, KnowledgeTyped, PollJobs
<1>17. /\ job.horizon \in Int /\ job.start \in BOOLEAN
       /\ job.stop # NULL => ck.cursor # NULL /\ ck.cursor \in Nat /\ job.stop \in Nat
                             /\ job.stop <= ck.cursor /\ job.stop <= ref.at
  BY <1>1, <1>3, <1>6 DEF RefsStand, Walked, PollJobs, KnowledgeTyped, Checkpoints
<1>18. \A k \in 1 .. Len(job.refs) : ref.at <= job.refs[k].at
  <2>1. \A k, l \in 1 .. Len(job.refs) : k <= l => job.refs[k].at <= job.refs[l].at
    BY <1>3, Zenon DEF RefsStand
  <2>2. \A k \in 1 .. Len(job.refs) : 1 <= k
    BY <1>3
  <2>. QED
    BY <1>6, <2>1, <2>2, Zenon
(* The issue of the ref is stored as it is, or has moved to the front. *)
<1>19. \A i \in Issues : Exists(i) /\ i = ref.issue => kept'[i] = github.issues[i].ver \/ InFront(i)
  <2>1. SUFFICES ASSUME NEW i \in Issues, Exists(i), i = ref.issue, ~InFront(i)
                 PROVE  kept'[i] = github.issues[i].ver
    OBVIOUS
  <2>2. job.got = github.issues[i].ver /\ job.got # 0
    <3>1. i = job.refs[1].issue
      BY <1>6, <2>1
    <3>2. job.got = github.issues[i].ver
      BY <1>1, <2>1, <3>1 DEF GotStands
    <3>3. github.issues[i].ver > 0 /\ github.issues[i].ver \in Nat
      BY <1>4, <2>1 DEF Exists
    <3>. QED
      BY <3>2, <3>3
  <2>. QED
    BY <1>12, <2>1, <2>2
<1>20. ASSUME NEW i \in Issues, Exists(i)
       PROVE  \/ kept'[i] = github.issues[i].ver \/ InFront(i) \/ Walked(Dated(i))
              \/ \E k \in 1 .. Len(rest) : rest[k] = [issue |-> i, at |-> Dated(i)]
  <2>1. CASE i = ref.issue
    BY <1>19, <1>20, <2>1
  <2>2. CASE i # ref.issue
    <3>1. kept'[i] = kept[i]
      BY <1>12, <2>2
    <3>2. ASSUME InRefs(i) PROVE \E k \in 1 .. Len(rest) : rest[k] = [issue |-> i, at |-> Dated(i)]
      <4>1. PICK k \in 1 .. Len(job.refs) : job.refs[k] = [issue |-> i, at |-> Dated(i)]
        BY <3>2 DEF InRefs
      <4>2. job.refs[k].issue = i
        BY <4>1
      <4>3. k # 1
        BY <1>6, <2>2, <4>2
      <4>. QED
        BY <1>9, <4>1, <4>3
    <3>. QED
      BY <1>1, <1>20, <3>1, <3>2 DEF FetchStands
  <2>. QED
    BY <2>1, <2>2
<1>21. \A i \in Issues : InFront(i) => ref.at <= Dated(i) /\ \A k \in 1 .. Len(rest) : rest[k].at <= Dated(i)
  BY <1>6, <1>8 DEF InFront
<1>22. FetchStands'
  BY <1>2, <1>11, <1>20, <1>21 DEF FetchStands, InRefs, InFront, Walked, Exists, Dated
<1>23. RefsStand'
  <2>1. \A k \in 1 .. Len(rest) : rest[k].at <= github.tick /\ ~Walked(rest[k].at)
    BY <1>3, <1>8 DEF RefsStand
  <2>2. \A k, l \in 1 .. Len(rest) : k <= l => rest[k].at <= rest[l].at
    <3>1. SUFFICES ASSUME NEW k \in 1 .. Len(rest), NEW l \in 1 .. Len(rest), k <= l
                   PROVE  rest[k].at <= rest[l].at
      OBVIOUS
    <3>2. k + 1 \in 1 .. Len(job.refs) /\ l + 1 \in 1 .. Len(job.refs) /\ k + 1 <= l + 1
      BY <1>8, <3>1
    <3>. QED
      BY <1>3, <1>8, <3>1, <3>2 DEF RefsStand
  <2>3. job.start <=> job.stop = NULL
    BY <1>3 DEF RefsStand
  <2>. QED
    BY <1>2, <1>6, <1>11, <1>15, <1>17, <2>1, <2>2, <2>3 DEF RefsStand, Walked
<1>24. NoneMissed'
  <2>1. ref.at <= github.tick
    BY <1>3, <1>6 DEF RefsStand
  <2>2. ASSUME NEW i \in Issues, Exists(i), Dated(i) >= reach'
        PROVE  kept'[i] = github.issues[i].ver \/ Dated(i) >= ref.at
    <3>1. CASE InFront(i)
      BY <1>21, <3>1
    <3>2. CASE \E k \in 1 .. Len(rest) : rest[k] = [issue |-> i, at |-> Dated(i)]
      <4>1. PICK k \in 1 .. Len(rest) : rest[k] = [issue |-> i, at |-> Dated(i)]
        BY <3>2
      <4>. QED
        BY <1>8, <1>18, <4>1
    <3>3. CASE Walked(Dated(i)) /\ ~InFront(i)
      <4>1. job.stop # NULL /\ Dated(i) < job.stop
        BY <1>4, <1>16, <1>17, <2>2, <3>3 DEF Walked
      <4>2. ~job.start
        BY <1>3, <4>1 DEF RefsStand
      <4>3. Dated(i) < ck.cursor /\ Dated(i) >= reach
        BY <1>1, <1>4, <1>16, <1>17, <2>2, <4>1, <4>2 DEF KnowledgeTyped
      <4>4. kept[i] = github.issues[i].ver
        BY <1>1, <1>4, <1>17, <2>2, <4>1, <4>3 DEF IssuesStand, NoneMissed
      <4>5. CASE i = ref.issue
        BY <1>19, <2>2, <3>3, <4>5
      <4>6. CASE i # ref.issue
        BY <1>12, <4>4, <4>6
      <4>. QED
        BY <4>5, <4>6
    <3>. QED
      BY <1>20, <2>2, <3>1, <3>2, <3>3
  <2>. QED
    BY <1>2, <1>15, <2>1, <2>2 DEF NoneMissed, Exists, Dated
<1>25. KnowledgeTyped'
  BY <1>1, <1>2, <1>11, <1>12, <1>15, <1>16 DEF KnowledgeTyped
<1>26. IssuesStand'
  <2>1. \A i \in Issues : Dated(i)' <= github'.tick
    BY <1>2, <1>4 DEF Dated
  <2>. QED
    BY <1>11, <1>22, <1>23, <1>24, <2>1 DEF IssuesStand, SyncAt
<1>27. FilesStand'
  BY <1>1, <1>2, <1>11, <1>15 DEF FilesStand, SyncAt
<1>. QED
  BY <1>25, <1>26, <1>27 DEF KnowledgeInv

(* The order of the files to store has all of them, and nothing else. *)
LEMMA OrderOfASet ==
    ASSUME NEW S \in SUBSET Paths
    PROVE  InOrder(S) \in Seq(S) /\ {InOrder(S)[k] : k \in 1 .. Len(InOrder(S))} = S
<1>1. IsFiniteSet(S)
  BY KnowledgeAssumption, FS_Subset
<1>2. PICK n \in Nat : n = Cardinality(S)
  BY <1>1, FS_CardinalityType
<1>3. \E s \in [1 .. n -> S] : \A i, j \in DOMAIN s : i # j => s[i] # s[j]
  <2>1. PICK s \in Bijection(1 .. n, S) : TRUE
    BY <1>1, <1>2, FS_CardinalityType DEF ExistsBijection
  <2>. QED
    BY <2>1 DEF Bijection, Injection, IsInjective
<1>4. PICK s : s = InOrder(S)
  OBVIOUS
<1>5. s \in [1 .. n -> S] /\ \A i, j \in DOMAIN s : i # j => s[i] # s[j]
  BY <1>2, <1>3, <1>4 DEF InOrder
<1>6. s \in Injection(1 .. n, S)
  BY <1>5 DEF Injection, IsInjective
<1>7. Cardinality(1 .. n) = n
  BY FS_Interval
<1>8. s \in Surjection(1 .. n, S)
  BY <1>1, <1>2, <1>6, <1>7, FS_Injection
<1>9. s \in Seq(S) /\ Len(s) = n
  BY <1>5
<1>. QED
  BY <1>4, <1>5, <1>8, <1>9 DEF Surjection

(* A reading under way. *)
LEMMA FileJob ==
    ASSUME KnowledgeInv, SyncAt("head") \/ SyncAt("file")
    PROVE  /\ job \in PollJobs /\ job # NULL /\ job.todo \in Seq(Paths) /\ job.glob \in Globs
           /\ IssuesStand /\ KnowledgeTyped /\ FilesStand
<1>1. job \in PollJobs /\ job # NULL
  BY DEF SyncAt, KnowledgeInv, KnowledgeTyped, NightJobs
<1>. QED
  BY <1>1 DEF PollJobs, KnowledgeInv

LEMMA ReadKeepsKnowledge ==
    ASSUME KnowledgeInv, NEW cut \in BOOLEAN, NEW present \in SUBSET Paths, cut \/ present = Paths,
           ReadTree(cut, present)
    PROVE  KnowledgeInv'
<1> USE KnowledgeAssumption
<1>1. /\ job \in PollJobs /\ job # NULL /\ job.glob \in Globs
      /\ IssuesStand /\ KnowledgeTyped /\ FilesStand
  BY FileJob DEF ReadTree
<1>2. UNCHANGED <<github, chosen, kept, keptFiles, ck, mark, reach, lastRead>>
  BY DEF ReadTree, storeVars
<1>3. NoneMissed' /\ \A i \in Issues : Dated(i)' <= github'.tick
  BY <1>1, <1>2 DEF IssuesStand, NoneMissed, Exists, Dated
<1>4. CASE job' = NULL
  BY <1>1, <1>2, <1>3, <1>4
  DEF KnowledgeInv, KnowledgeTyped, IssuesStand, FilesStand, Walking, SyncAt
<1>5. CASE ~(github.files = ck.tree /\ job.glob = ck.glob)
  <2>1. PICK files : files = Chosen(github.files, job.glob)
    OBVIOUS
  <2>2. /\ github.files \in [Paths -> Files] /\ ck.files \in [Paths -> Files]
        /\ files \in [Paths -> Files]
    BY <1>1, <2>1 DEF KnowledgeTyped, Sources, Checkpoints, Chosen, Files
  <2>3. PICK S \in SUBSET Paths : S = {p \in {q \in Paths : files[q] # 0 /\ q \in present} : ck.files[p] # files[p]}
    OBVIOUS
  <2>4. PICK got \in SUBSET Paths : got = IF cut THEN {} ELSE {p \in Paths : ck.files[p] # 0 /\ files[p] = 0}
    OBVIOUS
  <2>5. PICK todo : todo = InOrder(S)
    OBVIOUS
  <2>6. todo \in Seq(Paths) /\ {todo[k] : k \in 1 .. Len(todo)} = S
    <3>1. todo \in Seq(S) /\ {todo[k] : k \in 1 .. Len(todo)} = S
      BY <2>5, OrderOfASet
    <3>. QED
      BY <3>1
  <2>7. job' = [job EXCEPT !.at = "file", !.tree = github.files, !.cut = cut, !.todo = todo, !.got = got]
    BY <1>5, <2>1, <2>3, <2>4, <2>5 DEF ReadTree
  <2>8. /\ job' \in PollJobs /\ job'.at = "file" /\ job'.tree = github.files /\ job'.cut = cut
        /\ job'.todo = todo /\ job'.got = got /\ job'.glob = job.glob
    BY <1>1, <2>2, <2>6, <2>7 DEF PollJobs
  <2>9. Todo' = S /\ Wanted' = files
    BY <2>1, <2>6, <2>8 DEF Todo, Wanted
  <2>10. ~cut => \A p \in Paths : ck.files[p] = files[p] \/ p \in S \/ p \in got
    BY <2>3, <2>4
  <2>11. ReadingStands'
    <3>1. (\A p \in S : files[p] # 0) /\ (\A p \in got : files[p] = 0)
      BY <2>3, <2>4
    <3>. QED
      BY <1>2, <1>5, <2>2, <2>8, <2>9, <2>10, <3>1 DEF ReadingStands
  <2>12. KnowledgeTyped'
    BY <1>1, <1>2, <2>8 DEF KnowledgeTyped
  <2>13. IssuesStand'
    BY <1>3, <2>8 DEF IssuesStand, Walking, SyncAt
  <2>14. FilesStand'
    BY <1>1, <1>2, <2>11 DEF FilesStand
  <2>. QED
    BY <2>12, <2>13, <2>14 DEF KnowledgeInv
<1>. QED
  BY <1>4, <1>5 DEF ReadTree

LEMMA StoreFileKeepsKnowledge ==
    ASSUME KnowledgeInv, StoreFile
    PROVE  KnowledgeInv'
<1> USE KnowledgeAssumption
<1>1. /\ job \in PollJobs /\ job # NULL /\ job.todo \in Seq(Paths) /\ job.glob \in Globs
      /\ IssuesStand /\ KnowledgeTyped /\ FilesStand /\ ReadingStands
  BY FileJob DEF StoreFile, FilesStand
<1>2. UNCHANGED <<github, chosen, kept, mark, reach>>
  BY DEF StoreFile
<1>3. PICK changed : changed = IF job.todo = <<>> THEN {} ELSE {Head(job.todo)}
  OBVIOUS
<1>4. /\ Len(job.todo) \in Nat
      /\ job.todo # <<>> => 1 \in 1 .. Len(job.todo) /\ Head(job.todo) = job.todo[1]
      /\ \A k \in 1 .. Len(job.todo) : job.todo[k] \in Paths
  BY <1>1, EmptySeq, ElementOfSeq, LenProperties
<1>5. changed \subseteq Todo /\ Todo \subseteq Paths
  BY <1>3, <1>4 DEF Todo
<1>6. PICK filed : filed = [p \in Paths |-> IF p \in changed THEN job.tree[p]
                                        ELSE IF p \in job.got THEN 0 ELSE ck.files[p]]
  OBVIOUS
<1>7. filed \in [Paths -> Files] /\ ck.files \in [Paths -> Files] /\ job.tree \in [Paths -> Files]
  BY <1>1, <1>6 DEF ReadingStands, Files, KnowledgeTyped, Checkpoints
<1>8. keptFiles' = filed
  <2>1. keptFiles' = [p \in Paths |-> IF p \in changed \cup job.got THEN filed[p] ELSE keptFiles[p]]
    BY <1>3, <1>6 DEF StoreFile, FileDocument
  <2>2. keptFiles = ck.files
    BY <1>1 DEF FilesStand
  <2>. QED
    BY <1>6, <1>7, <2>1, <2>2
<1>9. lastRead' = <<job.tree, job.glob>>
  BY DEF StoreFile
<1>10. ck' = IF Seen THEN [ck EXCEPT !.files = filed, !.tree = job.tree, !.glob = job.glob]
             ELSE [ck EXCEPT !.files = filed]
  BY <1>3, <1>6 DEF StoreFile, FileDocument
<1>11. /\ ck' \in Checkpoints /\ ck'.cursor = ck.cursor /\ ck'.files = filed
       /\ Seen => ck'.tree = job.tree /\ ck'.glob = job.glob
       /\ ~Seen => ck'.tree = ck.tree /\ ck'.glob = ck.glob
  BY <1>1, <1>7, <1>10 DEF KnowledgeTyped, Checkpoints
<1>12. NoneMissed' /\ \A i \in Issues : Dated(i)' <= github'.tick
  BY <1>1, <1>2, <1>11 DEF IssuesStand, NoneMissed, Exists, Dated
(* What is stored of this reading is as it is wanted. *)
<1>13. ~job.cut => \A p \in Paths : filed[p] = Wanted[p] \/ p \in Todo \ changed
  <2>1. \A p \in Todo : job.tree[p] = Wanted[p]
    BY <1>1, <1>5 DEF ReadingStands, Wanted, Chosen
  <2>. QED
    BY <1>1, <1>5, <1>6, <2>1 DEF ReadingStands
<1>14. ck'.tree # NULL /\ lastRead' = <<ck'.tree, ck'.glob>> => keptFiles' = Chosen(ck'.tree, ck'.glob)
  <2>1. CASE Seen
    <3>1. ~job.cut /\ Todo \subseteq changed
      BY <1>3, <1>4, <2>1 DEF Seen, Todo
    <3>2. \A p \in Paths : filed[p] = Wanted[p]
      BY <1>13, <3>1
    <3>3. Wanted \in [Paths -> Files]
      BY <1>7 DEF Wanted, Chosen, Files
    <3>4. filed = Wanted
      BY <1>7, <3>2, <3>3
    <3>. QED
      BY <1>8, <1>11, <2>1, <3>4 DEF Wanted
  <2>2. CASE ~Seen
    BY <1>1, <1>9, <1>11, <2>2 DEF ReadingStands
  <2>. QED
    BY <2>1, <2>2
<1>15. CASE Len(job.todo) <= 1
  <2>1. job' = NULL
    BY <1>15 DEF StoreFile
  <2>2. KnowledgeTyped'
    BY <1>1, <1>2, <1>7, <1>8, <1>11, <2>1 DEF KnowledgeTyped
  <2>3. IssuesStand'
    BY <1>12, <2>1 DEF IssuesStand, Walking, SyncAt
  <2>4. FilesStand'
    BY <1>8, <1>11, <1>14, <2>1 DEF FilesStand, SyncAt
  <2>. QED
    BY <2>2, <2>3, <2>4 DEF KnowledgeInv
<1>16. CASE ~(Len(job.todo) <= 1)
  <2>1. PICK rest : rest = Tail(job.todo)
    OBVIOUS
  <2>2. /\ rest \in Seq(Paths) /\ Len(rest) = Len(job.todo) - 1 /\ job.todo # <<>>
        /\ \A k \in 1 .. Len(rest) : rest[k] = job.todo[k + 1]
    BY <1>1, <1>4, <1>16, <2>1, HeadTailProperties
  <2>3. job' = [job EXCEPT !.todo = rest, !.got = {}]
    BY <1>16, <2>1 DEF StoreFile
  <2>4. /\ job' \in PollJobs /\ job'.at = "file" /\ job'.todo = rest /\ job'.got = {}
        /\ job'.tree = job.tree /\ job'.glob = job.glob /\ job'.cut = job.cut
    BY <1>1, <2>2, <2>3 DEF PollJobs, StoreFile, SyncAt
  <2>5. Wanted' = Wanted
    BY <2>4 DEF Wanted
  <2>6. Todo' \subseteq Todo /\ Todo \ changed \subseteq Todo'
    <3>1. Todo' = {rest[k] : k \in 1 .. Len(rest)}
      BY <2>4 DEF Todo
    <3>2. \A k \in 1 .. Len(rest) : k + 1 \in 1 .. Len(job.todo)
      BY <1>4, <2>2
    <3>3. \A k \in 1 .. Len(job.todo) : k = 1 \/ (k - 1 \in 1 .. Len(rest) /\ job.todo[k] = rest[k - 1])
      BY <1>4, <2>2
    <3>4. changed = {job.todo[1]}
      BY <1>3, <1>4, <2>2
    <3>5. Todo' \subseteq Todo
      BY <2>2, <3>1, <3>2 DEF Todo
    <3>6. \A p \in Todo \ changed : p \in Todo'
      <4>1. SUFFICES ASSUME NEW k \in 1 .. Len(job.todo), job.todo[k] \notin changed
                     PROVE  job.todo[k] \in Todo'
        BY DEF Todo
      <4>2. k # 1
        BY <3>4, <4>1
      <4>. QED
        BY <3>1, <3>3, <4>2
    <3>. QED
      BY <3>5, <3>6
  <2>7. ReadingStands'
    <3>1. job'.tree # ck'.tree \/ job'.glob # ck'.glob
      BY <1>1, <1>11, <1>16, <2>4 DEF Seen, ReadingStands
    <3>2. \A p \in Todo' : Wanted'[p] # 0
      BY <1>1, <2>5, <2>6 DEF ReadingStands
    <3>3. ~job'.cut => \A p \in Paths : ck'.files[p] = Wanted'[p] \/ p \in Todo' \/ p \in job'.got
      BY <1>11, <1>13, <2>4, <2>5, <2>6
    <3>. QED
      BY <1>7, <2>4, <3>1, <3>2, <3>3 DEF ReadingStands
  <2>8. KnowledgeTyped'
    BY <1>1, <1>2, <1>7, <1>8, <1>11, <2>4 DEF KnowledgeTyped
  <2>9. IssuesStand'
    BY <1>12, <2>4 DEF IssuesStand, Walking, SyncAt
  <2>10. FilesStand'
    BY <1>8, <1>11, <1>14, <2>7 DEF FilesStand
  <2>. QED
    BY <2>8, <2>9, <2>10 DEF KnowledgeInv
<1>. QED
  BY <1>15, <1>16

LEMMA NightKeepsKnowledge ==
    ASSUME KnowledgeInv, ListIds \/ PruneIssues
    PROVE  KnowledgeInv'
<1> USE KnowledgeAssumption
<1>1. KnowledgeTyped /\ IssuesStand /\ FilesStand
  BY DEF KnowledgeInv
<1>2. CASE ListIds
  <2>1. UNCHANGED <<github, chosen, kept, keptFiles, ck, mark, reach, lastRead>>
    BY <1>2 DEF ListIds, storeVars
  <2>2. PICK S \in SUBSET Issues : /\ job' = [at |-> "prune", got |-> S]
                                   /\ S = {i \in Issues : Exists(i)} \/ (S = {} /\ ~mark)
    <3>1. PICK all \in SUBSET Issues : all = {i \in Issues : Exists(i)}
      OBVIOUS
    <3>2. PICK S \in {all} \cup (IF mark THEN {} ELSE {{}}) : job' = [at |-> "prune", got |-> S]
      BY <1>2, <3>1, Zenon DEF ListIds
    <3>. QED
      BY <3>1, <3>2
  <2>3. job' \in NightJobs /\ job'.at = "prune" /\ job'.got = S
    BY <2>2 DEF NightJobs
  <2>4. PruneStands'
    BY <2>1, <2>2, <2>3 DEF PruneStands, Exists
  <2>5. KnowledgeTyped'
    BY <1>1, <2>1, <2>3 DEF KnowledgeTyped
  <2>6. NoneMissed' /\ \A i \in Issues : Dated(i)' <= github'.tick
    BY <1>1, <2>1 DEF IssuesStand, NoneMissed, Exists, Dated
  <2>7. IssuesStand'
    BY <2>3, <2>4, <2>6 DEF IssuesStand, Walking, SyncAt
  <2>8. FilesStand'
    BY <1>1, <2>1, <2>3 DEF FilesStand, SyncAt
  <2>. QED
    BY <2>5, <2>7, <2>8 DEF KnowledgeInv
<1>3. CASE PruneIssues
  <2>1. UNCHANGED <<github, chosen, keptFiles, ck, reach, lastRead>> /\ job' = NULL
    BY <1>3 DEF PruneIssues
  <2>2. PICK missing \in SUBSET Issues : missing = {i \in Issues : kept[i] # 0 /\ i \notin job.got}
    OBVIOUS
  <2>3. PICK doubted \in BOOLEAN : doubted <=> (job.got = {} /\ missing # {} /\ ~mark)
    OBVIOUS
  <2>4. /\ mark' \in BOOLEAN
        /\ kept' = IF doubted THEN kept ELSE [i \in Issues |-> IF i \in missing THEN 0 ELSE kept[i]]
    BY <1>3, <2>2, <2>3 DEF PruneIssues
  <2>5. kept' \in [Issues -> Nat]
    BY <1>1, <2>4 DEF KnowledgeTyped
  <2>6. PruneStands
    BY <1>1, <1>3 DEF IssuesStand, PruneIssues
  <2>7. ASSUME NEW i \in Issues, Exists(i), ck.cursor # NULL
        PROVE  kept'[i] = kept[i] \/ ck.cursor <= Dated(i)
    BY <1>1, <2>2, <2>3, <2>4, <2>6, <2>7 DEF PruneStands, KnowledgeTyped
  <2>8. NoneMissed'
    <3>1. \A i \in Issues : Dated(i) \in Nat
      BY <1>1 DEF KnowledgeTyped, Sources, Dated
    <3>2. ck.cursor # NULL => ck.cursor \in Nat
      BY <1>1 DEF KnowledgeTyped, Checkpoints
    <3>. QED
      BY <1>1, <2>1, <2>7, <3>1, <3>2 DEF IssuesStand, NoneMissed, Exists, Dated
  <2>9. KnowledgeTyped'
    BY <1>1, <2>1, <2>4, <2>5 DEF KnowledgeTyped
  <2>10. IssuesStand'
    BY <1>1, <2>1, <2>8 DEF IssuesStand, Walking, SyncAt, Dated
  <2>11. FilesStand'
    BY <1>1, <2>1 DEF FilesStand, SyncAt
  <2>. QED
    BY <2>9, <2>10, <2>11 DEF KnowledgeInv
<1>. QED
  BY <1>2, <1>3

LEMMA KnowledgeStep ==
    ASSUME KnowledgeInv, KnowledgeNext \/ UNCHANGED githubVars
    PROVE  KnowledgeInv'
<1>1. CASE ReadTree(FALSE, Paths)
  BY <1>1, ReadKeepsKnowledge
<1>2. CASE \E present \in SUBSET Paths : ReadTree(TRUE, present)
  BY <1>2, ReadKeepsKnowledge
<1>3. CASE StartPoll \/ RunIsCut \/ IssuesFail \/ ListForbidden \/ StartReconcile \/ IdsForbidden
  BY <1>3, StartKeepsKnowledge
<1>4. CASE ListPage \/ FetchIssue \/ StoreIssue \/ StoreFile \/ ListIds \/ PruneIssues
  BY <1>4, ListKeepsKnowledge, FetchKeepsKnowledge, StoreIssueKeepsKnowledge, StoreFileKeepsKnowledge,
     NightKeepsKnowledge
<1>5. CASE UNCHANGED githubVars
  BY <1>5, SourceKeepsKnowledge
<1>. QED
  BY <1>1, <1>2, <1>3, <1>4, <1>5, SourceKeepsKnowledge DEF KnowledgeNext

LEMMA KnowledgeInvHolds == Spec => [](part = "github" => KnowledgeInv)
<1> DEFINE Inv == part = "github" => KnowledgeInv
<1>1. Init => Inv
  BY KnowledgeInitInv DEF Init
<1>2. Inv /\ [Next]_vars => Inv'
  BY PartKept, PartSteps, KnowledgeStep
<1>. QED
  BY <1>1, <1>2, PTL DEF Spec

(* No issue that is as new as the horizons is missed, whatever changes while a  *)
(* listing is walked, fetched and stored and wherever runs are cut; and the      *)
(* files on record are the ones stored, and those of the tree the checkpoint    *)
(* names if its reading is the last one (listUpdated(), syncDocs(), reconcile()). *)
THEOREM TheSourceIsRead == Spec => []SourceIsRead
<1>1. (part = "github" => KnowledgeInv) => SourceIsRead
  BY DEF KnowledgeInv, IssuesStand, FilesStand, NoneMissed, Dated, SourceIsRead, NoIssueMissed,
         FilesAreTheTree
<1>. QED
  BY <1>1, KnowledgeInvHolds, PTL

-----------------------------------------------------------------------------
(* OVERRIDES.  Every claim is a record of one shape, and so is every merge;   *)
(* what a reviewer's request has read is still so, since nothing but its      *)
(* transaction changes it while reviews do not overlap.                       *)
ClaimShaped(c) ==
    c = Claim(c.by, c.user, c.id, c.value, c.at) /\ (c.by = "manual" => c.user \in Users)

CandidateRecords == [pair : Pairs, status : {"pending", "rejected", "confirmed", "distinct"}]
ReviewRecords == [op : {"confirm", "distinct"}, cand : Candidates, survivor : Nodes, loser : Nodes]
MergesMade == {merges[m] : m \in 1 .. Len(merges)}

EditsTyped ==
    /\ DOMAIN claims = Nodes /\ \A n \in Nodes : \A c \in claims[n] : ClaimShaped(c)
    /\ DOMAIN told = Users /\ \A u \in Users : DOMAIN told[u] = Nodes
    /\ cand \in [Candidates -> CandidateRecords \cup {NULL}]
    /\ merges \in Seq(MergesMade)
    /\ \A r \in MergesMade :
          /\ r.survivor \in Nodes
          /\ r = [survivor |-> r.survivor, loser |-> r.loser, reversed |-> r.reversed,
                  moved |-> r.moved, events |-> r.events]

ReviewStands ==
    pending # NULL =>
        /\ pending.op \in {"confirm", "distinct"} =>
              pending \in ReviewRecords /\ cand[pending.cand] # NULL
        /\ pending.op = "split" =>
              pending.merge \in 1 .. Len(merges) /\ pending.record = merges[pending.merge]

(* A claim of another node is on record; a user's own is there under its node. *)
OnRecord(n, i) ==
    \E m \in 1 .. Len(merges) : ~merges[m].reversed /\ merges[m].survivor = n /\ i \in merges[m].moved
MigratedStand ==
    \A n \in Nodes : \A c \in claims[n] : Human(c) /\ c.id # n => OnRecord(n, Identity(c))

MergedOver(u, n) ==
    \E m \in 1 .. Len(merges) : merges[m].survivor = n /\ <<"manual", u, n>> \in merges[m].moved
Owns(S, u, n, v) == \E c \in S : Identity(c) = <<"manual", u, n>> /\ c.value = v
OwnStand ==
    \A u \in Users, n \in Nodes :
        told[u][n] # NULL /\ ~MergedOver(u, n) => Owns(claims[n], u, n, told[u][n])

EditsInv == EditsTyped /\ ReviewStands /\ MigratedStand /\ OwnStand

LEMMA EditsInitInv == EditsInit => EditsInv
<1> SUFFICES ASSUME EditsInit PROVE EditsInv
  OBVIOUS
<1>1. merges = <<>> /\ Len(merges) = 0 /\ pending = NULL
  BY DEF EditsInit
<1>2. claims = [n \in Nodes |-> {}] /\ told = [u \in Users |-> [n \in Nodes |-> NULL]]
  BY DEF EditsInit
<1>3. cand \in [Candidates -> CandidateRecords \cup {NULL}]
  BY DEF EditsInit
<1>4. EditsTyped
  BY <1>1, <1>2, <1>3 DEF EditsTyped, MergesMade
<1>. QED
  BY <1>1, <1>2, <1>4 DEF EditsInv, ReviewStands, MigratedStand, OwnStand

(* What an edit of one node's claims has to see to. *)
LEMMA EditKeepsOverrides ==
    ASSUME EditsInv, UNCHANGED mergeVars, NEW n \in Nodes, NEW new,
           claims' = [claims EXCEPT ![n] = new],
           \A c \in new :
              /\ ClaimShaped(c)
              /\ Human(c) /\ c.id # n => \E d \in claims[n] : Human(d) /\ Identity(d) = Identity(c),
           DOMAIN told' = Users, \A u \in Users : DOMAIN (told'[u]) = Nodes,
           \A u \in Users, m \in Nodes \ {n} : told'[u][m] = told[u][m],
           \A u \in Users : told'[u][n] # NULL =>
              \/ Owns(new, u, n, told'[u][n])
              \/ told[u][n] # NULL /\ (Owns(claims[n], u, n, told[u][n]) => Owns(new, u, n, told'[u][n]))
    PROVE  EditsInv'
<1>1. EditsTyped /\ ReviewStands /\ MigratedStand /\ OwnStand
  BY DEF EditsInv
<1>2. UNCHANGED <<cand, merges, pending>>
  BY DEF mergeVars
<1>3. DOMAIN claims' = Nodes /\ claims'[n] = new /\ \A m \in Nodes \ {n} : claims'[m] = claims[m]
  BY <1>1 DEF EditsTyped
<1>4. EditsTyped'
  BY <1>1, <1>2, <1>3 DEF EditsTyped, MergesMade, ClaimShaped, Claim
<1>5. ReviewStands'
  BY <1>1, <1>2 DEF ReviewStands
<1>6. MigratedStand'
  <2>1. SUFFICES ASSUME NEW m \in Nodes, NEW c \in claims'[m], Human(c), c.id # m
                 PROVE  OnRecord(m, Identity(c))
    BY <1>2 DEF MigratedStand, OnRecord, Human, Identity
  <2>2. CASE m # n
    BY <1>1, <1>3, <2>1, <2>2 DEF MigratedStand
  <2>3. CASE m = n
    <3>1. PICK d \in claims[n] : Human(d) /\ Identity(d) = Identity(c)
      BY <1>3, <2>1, <2>3
    <3>2. d.id = c.id
      BY <3>1 DEF Identity
    <3>3. OnRecord(n, Identity(d))
      BY <1>1, <2>1, <2>3, <3>1, <3>2 DEF MigratedStand
    <3>. QED
      BY <2>3, <3>1, <3>3
  <2>. QED
    BY <2>2, <2>3
<1>7. OwnStand'
  <2>1. SUFFICES ASSUME NEW u \in Users, NEW m \in Nodes, told'[u][m] # NULL, ~MergedOver(u, m)
                 PROVE  Owns(claims'[m], u, m, told'[u][m])
    BY <1>2 DEF OwnStand, MergedOver, Owns, Identity
  <2>2. CASE m # n
    BY <1>1, <1>3, <2>1, <2>2 DEF OwnStand
  <2>3. CASE m = n
    BY <1>1, <1>3, <2>1, <2>3 DEF OwnStand
  <2>. QED
    BY <2>2, <2>3
<1>. QED
  BY <1>4, <1>5, <1>6, <1>7 DEF EditsInv

LEMMA ClaimFields ==
    ASSUME NEW by, NEW u, NEW n, NEW v, NEW at
    PROVE  LET c == Claim(by, u, n, v, at)
           IN  c.by = by /\ c.user = u /\ c.id = n /\ c.value = v /\ c.at = at
BY DEF Claim

LEMMA ClaimsKeepOverrides ==
    ASSUME EditsInv, EditClaims
    PROVE  EditsInv'
<1>1. EditsTyped
  BY DEF EditsInv
<1>2. ASSUME NEW n \in Nodes, NEW v, ConnectorSync(n, v) PROVE EditsInv'
  <2>1. PICK c : c = Claim("connector", NULL, n, v, now + Skew)
    OBVIOUS
  <2>2. c.by = "connector" /\ ClaimShaped(c) /\ ~Human(c)
    BY <2>1 DEF Claim, ClaimShaped, Human
  <2>3. PICK new : new = {d \in claims[n] : Human(d)} \cup {c}
    OBVIOUS
  <2>4. claims' = [claims EXCEPT ![n] = new] /\ UNCHANGED <<told, mergeVars>>
    BY <1>1, <1>2, <2>1, <2>3 DEF ConnectorSync, EditsTyped
  <2>5. \A d \in new : ClaimShaped(d) /\ (Human(d) => d \in claims[n])
    BY <1>1, <2>2, <2>3 DEF EditsTyped
  <2>6. \A u \in Users : Owns(claims[n], u, n, told[u][n]) => Owns(new, u, n, told[u][n])
    BY <2>3 DEF Owns, Identity, Human
  <2>. QED
    BY <1>1, <2>4, <2>5, <2>6, EditKeepsOverrides DEF EditsTyped, mergeVars
<1>3. ASSUME NEW n \in Nodes, NEW u \in Users, NEW v, SetManualClaim(u, n, v) PROVE EditsInv'
  <2>1. PICK c : c = Claim("manual", u, n, v, now)
    OBVIOUS
  <2>2. c.by = "manual" /\ c.user = u /\ c.id = n /\ c.value = v /\ ClaimShaped(c)
    BY <2>1 DEF Claim, ClaimShaped
  <2>3. PICK new : new = {d \in claims[n] : ~SameSource(d, c)} \cup {c}
    OBVIOUS
  <2>4. /\ claims' = [claims EXCEPT ![n] = new] /\ UNCHANGED mergeVars
        /\ told' = [told EXCEPT ![u][n] = v]
    BY <1>1, <1>3, <2>1, <2>3 DEF SetManualClaim, EditsTyped
  <2>5. /\ DOMAIN told' = Users /\ \A x \in Users : DOMAIN (told'[x]) = Nodes
        /\ \A x \in Users, m \in Nodes : told'[x][m] = IF x = u /\ m = n THEN v ELSE told[x][m]
    BY <1>1, <2>4 DEF EditsTyped
  <2>6. \A d \in new : ClaimShaped(d) /\ (d.id # n => d \in claims[n])
    BY <1>1, <2>2, <2>3 DEF EditsTyped
  <2>7. Owns(new, u, n, v)
    BY <2>2, <2>3 DEF Owns, Identity
  <2>8. \A x \in Users \ {u} : Owns(claims[n], x, n, told[x][n]) => Owns(new, x, n, told[x][n])
    BY <2>2, <2>3 DEF Owns, Identity, SameSource
  <2>9. \A x \in Users : told'[x][n] # NULL =>
           \/ Owns(new, x, n, told'[x][n])
           \/ told[x][n] # NULL /\ (Owns(claims[n], x, n, told[x][n]) => Owns(new, x, n, told'[x][n]))
    BY <2>5, <2>7, <2>8
  <2>. QED
    BY <2>4, <2>5, <2>6, <2>9, EditKeepsOverrides
<1>4. ASSUME NEW n \in Nodes, NEW u \in Users, RevertManualClaim(u, n) PROVE EditsInv'
  <2>1. PICK new : new = {d \in claims[n] : ~(d.by = "manual" /\ d.user = u)}
    OBVIOUS
  <2>2. /\ claims' = [claims EXCEPT ![n] = new] /\ UNCHANGED mergeVars
        /\ told' = [told EXCEPT ![u][n] = NULL]
    BY <1>1, <1>4, <2>1 DEF RevertManualClaim, EditsTyped
  <2>3. /\ DOMAIN told' = Users /\ \A x \in Users : DOMAIN (told'[x]) = Nodes
        /\ \A x \in Users, m \in Nodes : told'[x][m] = IF x = u /\ m = n THEN NULL ELSE told[x][m]
    BY <1>1, <2>2 DEF EditsTyped
  <2>4. \A d \in new : ClaimShaped(d) /\ d \in claims[n]
    BY <1>1, <2>1 DEF EditsTyped
  <2>5. \A x \in Users \ {u} : Owns(claims[n], x, n, told[x][n]) => Owns(new, x, n, told[x][n])
    BY <2>1 DEF Owns, Identity
  <2>6. \A x \in Users : told'[x][n] # NULL =>
           \/ Owns(new, x, n, told'[x][n])
           \/ told[x][n] # NULL /\ (Owns(claims[n], x, n, told[x][n]) => Owns(new, x, n, told'[x][n]))
    BY <2>3, <2>5
  <2>. QED
    BY <2>2, <2>3, <2>4, <2>6, EditKeepsOverrides
<1>5. ASSUME NEW n \in Nodes, NEW u \in Users, NEW v, Verify(u, n, v) PROVE EditsInv'
  <2>1. PICK c : c = Claim("verified", u, n, v, now)
    OBVIOUS
  <2>2. c.by = "verified" /\ c.id = n /\ ClaimShaped(c)
    BY <2>1 DEF Claim, ClaimShaped
  <2>3. PICK new : new = (claims[n] \ Replaced(n)) \cup {c}
    OBVIOUS
  <2>4. claims' = [claims EXCEPT ![n] = new] /\ UNCHANGED <<told, mergeVars>>
    BY <1>1, <1>5, <2>1, <2>3 DEF Verify, EditsTyped
  <2>5. \A d \in new : ClaimShaped(d) /\ (d.id # n => d \in claims[n])
    BY <1>1, <2>2, <2>3 DEF EditsTyped
  <2>6. \A x \in Users : Owns(claims[n], x, n, told[x][n]) => Owns(new, x, n, told[x][n])
    BY <2>3 DEF Owns, Identity, Replaced
  <2>. QED
    BY <1>1, <2>4, <2>5, <2>6, EditKeepsOverrides DEF EditsTyped, mergeVars
<1>6. ASSUME NEW n \in Nodes, ListReviewQueue(n) PROVE EditsInv'
  <2>1. UNCHANGED <<claims, told, cand, merges, pending>>
    BY <1>6 DEF ListReviewQueue, editVars, mergeVars
  <2>. QED
    BY <2>1 DEF EditsInv, EditsTyped, MergesMade, ReviewStands, MigratedStand, OnRecord, OwnStand, MergedOver
<1>7. ASSUME NEW n \in Nodes, NEW accept \in BOOLEAN, ResolveReview(n, accept) PROVE EditsInv'
  <2>1. PICK o \in Overrides(n) :
           LET newer == Contradicting(n, o)
               value == IF accept /\ newer # {}
                        THEN (CHOOSE c \in newer : \A d \in newer : d.at <= c.at).value
                        ELSE o.value
               pinned == {c \in claims[n] : SameSource(c, o)}
           IN /\ claims' = [claims EXCEPT ![n] = (@ \ pinned) \cup
                              {[c EXCEPT !.value = value, !.at = PinTime(n)] : c \in pinned}]
              /\ told' = IF o.by = "manual" /\ told[o.user][n] # NULL
                         THEN [told EXCEPT ![o.user][n] = value] ELSE told
    BY <1>7, Zenon DEF ResolveReview
  <2>2. UNCHANGED mergeVars
    BY <1>7 DEF ResolveReview
  <2> DEFINE value == IF accept /\ Contradicting(n, o) # {}
                     THEN (CHOOSE c \in Contradicting(n, o) :
                               \A d \in Contradicting(n, o) : d.at <= c.at).value
                     ELSE o.value
  <2>16. told' = IF o.by = "manual" /\ told[o.user][n] # NULL
                 THEN [told EXCEPT ![o.user][n] = value] ELSE told
    BY <2>1, Zenon
  <2>3. o \in claims[n] /\ Human(o) /\ ClaimShaped(o)
    BY <1>1, <2>1 DEF Overrides, EditsTyped
  <2>4. PICK time : time = PinTime(n)
    OBVIOUS
  <2>5. PICK pinned \in SUBSET claims[n] : pinned = {c \in claims[n] : SameSource(c, o)}
    OBVIOUS
  <2>6. PICK new : new = (claims[n] \ pinned) \cup {[c EXCEPT !.value = value, !.at = time] : c \in pinned}
    OBVIOUS
  <2>7. claims' = [claims EXCEPT ![n] = new]
    <3>1. claims' = [claims EXCEPT ![n] = (@ \ pinned) \cup
                              {[c EXCEPT !.value = value, !.at = time] : c \in pinned}]
      BY <2>1, <2>4, <2>5, Zenon
    <3>. QED
      BY <1>1, <2>6, <3>1 DEF EditsTyped
  <2> HIDE DEF value
  <2>8. \A c \in pinned : LET d == [c EXCEPT !.value = value, !.at = time]
                          IN d = Claim(c.by, c.user, c.id, value, time)
    <3>1. SUFFICES ASSUME NEW c \in pinned
                   PROVE  [c EXCEPT !.value = value, !.at = time] = Claim(c.by, c.user, c.id, value, time)
      OBVIOUS
    <3>2. c = Claim(c.by, c.user, c.id, c.value, c.at)
      BY <1>1, <2>5 DEF EditsTyped, ClaimShaped
    <3>3. PICK by, u, id, v, at : by = c.by /\ u = c.user /\ id = c.id /\ v = c.value /\ at = c.at
      OBVIOUS
    <3>4. c = [by |-> by, user |-> u, id |-> id, value |-> v, at |-> at]
      BY <3>2, <3>3, Zenon DEF Claim
    <3>5. c \in [by : {by}, user : {u}, id : {id}, value : {v}, at : {at}]
      BY <3>4
    <3>6. [c EXCEPT !.value = value, !.at = time]
             \in [by : {by}, user : {u}, id : {id}, value : {value}, at : {time}]
      BY <3>5
    <3>. QED
      <4>1. [c EXCEPT !.value = value, !.at = time]
               = [by |-> by, user |-> u, id |-> id, value |-> value, at |-> time]
        <5>1. [by |-> by, user |-> u, id |-> id, value |-> value, at |-> time]
                 \in [by : {by}, user : {u}, id : {id}, value : {value}, at : {time}]
          OBVIOUS
        <5>. QED
          BY <3>6, <5>1
      <4>. QED
        BY <3>3, <4>1, Zenon DEF Claim
  <2>9. \A c \in pinned : Claim(c.by, c.user, c.id, value, time) \in new
    BY <2>6, <2>8
  <2>10. \A d \in new : d \in claims[n] \ pinned
                        \/ \E c \in pinned : d = Claim(c.by, c.user, c.id, value, time)
    BY <2>6, <2>8
  <2>11. \A d \in new : /\ ClaimShaped(d)
                        /\ \E c \in claims[n] : Human(c) = Human(d) /\ Identity(c) = Identity(d)
    <3>1. SUFFICES ASSUME NEW d \in new
                   PROVE  /\ ClaimShaped(d)
                          /\ \E c \in claims[n] : Human(c) = Human(d) /\ Identity(c) = Identity(d)
      OBVIOUS
    <3>2. CASE d \in claims[n]
      BY <1>1, <3>2 DEF EditsTyped
    <3>3. CASE \E c \in pinned : d = Claim(c.by, c.user, c.id, value, time)
      <4>1. PICK c \in pinned : d = Claim(c.by, c.user, c.id, value, time)
        BY <3>3
      <4>2. d.by = c.by /\ d.user = c.user /\ d.id = c.id /\ d.value = value /\ d.at = time
        BY <4>1, ClaimFields
      <4>3. c \in claims[n] /\ ClaimShaped(c)
        BY <1>1 DEF EditsTyped
      <4>4. ClaimShaped(d)
        BY <4>1, <4>2, <4>3 DEF ClaimShaped
      <4>. QED
        BY <4>2, <4>3, <4>4 DEF Human, Identity
    <3>. QED
      BY <2>10, <3>2, <3>3
  <2>12. ASSUME NEW x \in Users, NEW v, Owns(claims[n], x, n, v)
         PROVE  Owns(new, x, n, IF o.by = "manual" /\ x = o.user THEN value ELSE v)
    <3>1. PICK c \in claims[n] : Identity(c) = <<"manual", x, n>> /\ c.value = v
      BY <2>12 DEF Owns
    <3>2. c.by = "manual" /\ c.user = x /\ c.id = n
      BY <3>1 DEF Identity
    <3>3. CASE o.by = "manual" /\ x = o.user
      <4>1. c \in pinned
        BY <2>5, <3>2, <3>3 DEF SameSource
      <4>2. PICK d \in new : d = Claim(c.by, c.user, c.id, value, time)
        BY <2>9, <4>1
      <4>3. d.by = c.by /\ d.user = c.user /\ d.id = c.id /\ d.value = value
        BY <4>2, ClaimFields
      <4>. QED
        BY <3>2, <3>3, <4>3 DEF Owns, Identity
    <3>4. CASE ~(o.by = "manual" /\ x = o.user)
      <4>1. c \notin pinned
        BY <2>5, <3>2, <3>4 DEF SameSource
      <4>. QED
        BY <2>6, <3>1, <3>4, <4>1 DEF Owns
    <3>. QED
      BY <3>3, <3>4
  <2>13. CASE o.by = "manual" /\ told[o.user][n] # NULL
    <3>1. o.user \in Users /\ told' = [told EXCEPT ![o.user][n] = value]
      BY <2>16, <2>3, <2>13 DEF ClaimShaped
    <3>2. /\ DOMAIN told' = Users /\ \A x \in Users : DOMAIN (told'[x]) = Nodes
          /\ \A x \in Users, m \in Nodes : told'[x][m] = IF x = o.user /\ m = n THEN value ELSE told[x][m]
      BY <1>1, <3>1 DEF EditsTyped
    <3>3. \A x \in Users : told'[x][n] # NULL =>
             told[x][n] # NULL /\ (Owns(claims[n], x, n, told[x][n]) => Owns(new, x, n, told'[x][n]))
      BY <2>12, <2>13, <3>2
    <3>. QED
      <4>1. \A x \in Users, m \in Nodes \ {n} : told'[x][m] = told[x][m]
        BY <3>2
      <4>2. \A c \in new :
               /\ ClaimShaped(c)
               /\ Human(c) /\ c.id # n => \E d \in claims[n] : Human(d) /\ Identity(d) = Identity(c)
        BY <2>11
      <4>3. \A x \in Users : DOMAIN (told'[x]) = Nodes
        BY <3>2
      <4>. QED
        BY <2>2, <2>7, <3>2, <3>3, <4>1, <4>2, <4>3, EditKeepsOverrides
  <2>14. CASE ~(o.by = "manual" /\ told[o.user][n] # NULL)
    <3>1. told' = told
      BY <2>16, <2>14
    <3>2. \A x \in Users : told'[x][n] # NULL =>
             told[x][n] # NULL /\ (Owns(claims[n], x, n, told[x][n]) => Owns(new, x, n, told'[x][n]))
      BY <2>12, <2>14, <3>1
    <3>. QED
      BY <1>1, <2>2, <2>7, <2>11, <3>1, <3>2, EditKeepsOverrides DEF EditsTyped
  <2>. QED
    BY <2>13, <2>14
<1>. QED
  BY <1>2, <1>3, <1>4, <1>5, <1>6, <1>7 DEF EditClaims

(* What moves in a review: candidates and requests only. *)
LEMMA ReviewKeepsOverrides ==
    ASSUME EditsInv, ~OverlapReviews,
           \/ ResetPending \/ MarkDistinct \/ \E m \in DOMAIN merges : ReadMerge(m)
           \/ \E c \in Candidates : \/ Scan(c) \/ Reject(c)
                                    \/ ReadCandidate(c, "confirm") \/ ReadCandidate(c, "distinct")
    PROVE  EditsInv'
<1>1. EditsTyped /\ ReviewStands /\ MigratedStand /\ OwnStand
  BY DEF EditsInv
<1>2. UNCHANGED <<claims, told, merges>>
  BY DEF ResetPending, MarkDistinct, ReadMerge, Scan, Reject, ReadCandidate, editVars
<1>3. MigratedStand' /\ OwnStand'
  BY <1>1, <1>2 DEF MigratedStand, OnRecord, OwnStand, MergedOver
<1>4. ASSUME cand' \in [Candidates -> CandidateRecords \cup {NULL}], ReviewStands'
      PROVE  EditsInv'
  <2>1. EditsTyped'
    BY <1>1, <1>2, <1>4 DEF EditsTyped, MergesMade
  <2>. QED
    BY <1>3, <1>4, <2>1 DEF EditsInv
<1>5. cand \in [Candidates -> CandidateRecords \cup {NULL}]
  BY <1>1 DEF EditsTyped
<1>6. CASE ResetPending
  <2>1. pending = NULL /\ pending' = pending
    BY <1>6 DEF ResetPending, Alone
  <2>2. cand' \in [Candidates -> CandidateRecords \cup {NULL}]
    BY <1>5, <1>6 DEF ResetPending
  <2>. QED
    BY <1>4, <2>1, <2>2 DEF ReviewStands
<1>7. CASE MarkDistinct
  <2>1. pending \in ReviewRecords /\ cand[pending.cand] # NULL /\ pending' = NULL
    BY <1>1, <1>7 DEF MarkDistinct, ReviewStands
  <2>2. PICK c \in Candidates : c = pending.cand
    BY <2>1 DEF ReviewRecords
  <2>3. cand[c] \in CandidateRecords /\ cand' = [cand EXCEPT ![c].status = "distinct"]
    BY <1>5, <1>7, <2>1, <2>2 DEF MarkDistinct
  <2>4. cand' \in [Candidates -> CandidateRecords \cup {NULL}]
    BY <1>5, <2>3 DEF CandidateRecords
  <2>. QED
    BY <1>4, <2>1, <2>4 DEF ReviewStands
<1>8. ASSUME NEW m \in DOMAIN merges, ReadMerge(m) PROVE EditsInv'
  <2>1. m \in 1 .. Len(merges) /\ UNCHANGED cand
    BY <1>1, <1>8 DEF EditsTyped, ReadMerge
  <2>2. pending' = [op |-> "split", merge |-> m, record |-> merges[m]]
    BY <1>8 DEF ReadMerge
  <2>3. ReviewStands'
    BY <1>2, <2>1, <2>2 DEF ReviewStands
  <2>. QED
    BY <1>4, <1>5, <2>1, <2>3
<1>9. ASSUME NEW c \in Candidates, Scan(c) PROVE EditsInv'
  <2>1. PICK p \in Pairs : cand' = [cand EXCEPT ![c] = [pair |-> p, status |-> "pending"]]
    BY <1>9 DEF Scan
  <2>2. cand[c] = NULL /\ pending' = pending
    BY <1>9 DEF Scan
  <2>3. cand' \in [Candidates -> CandidateRecords \cup {NULL}]
    BY <1>5, <2>1 DEF CandidateRecords
  <2>4. \A x \in Candidates \ {c} : cand'[x] = cand[x]
    BY <1>5, <2>1
  <2>5. ReviewStands'
    BY <1>1, <1>2, <2>2, <2>4 DEF ReviewStands, ReviewRecords
  <2>. QED
    BY <1>4, <2>3, <2>5
<1>10. ASSUME NEW c \in Candidates, Reject(c) PROVE EditsInv'
  <2>1. pending = NULL /\ pending' = pending /\ cand[c] \in CandidateRecords
    BY <1>5, <1>10 DEF Reject, Alone, Pending
  <2>2. cand' = [cand EXCEPT ![c].status = "rejected"]
    BY <1>10 DEF Reject
  <2>3. cand' \in [Candidates -> CandidateRecords \cup {NULL}]
    BY <1>5, <2>1, <2>2 DEF CandidateRecords
  <2>. QED
    BY <1>4, <2>1, <2>3 DEF ReviewStands
<1>11. ASSUME NEW c \in Candidates, NEW op \in {"confirm", "distinct"}, ReadCandidate(c, op)
       PROVE  EditsInv'
  <2>1. UNCHANGED cand /\ cand[c] # NULL /\ cand[c].pair \in Pairs
    BY <1>5, <1>11 DEF ReadCandidate, Pending, CandidateRecords
  <2>2. PICK s \in cand[c].pair :
           pending' = [op |-> op, cand |-> c, survivor |-> s, loser |-> CHOOSE l \in cand[c].pair : l # s]
    BY <1>11 DEF ReadCandidate
  <2>3. PICK l : l = CHOOSE x \in cand[c].pair : x # s
    OBVIOUS
  <2>4. s \in Nodes /\ l \in Nodes
    <3>1. cand[c].pair \subseteq Nodes /\ Cardinality(cand[c].pair) = 2
      BY <2>1 DEF Pairs
    <3>2. \E x \in cand[c].pair : x # s
      <4>1. SUFFICES ASSUME cand[c].pair = {s} PROVE FALSE
        BY <2>2
      <4>2. Cardinality({s}) = 1
        BY FS_Singleton
      <4>. QED
        BY <3>1, <4>1, <4>2
    <3>. QED
      BY <2>3, <3>1, <3>2
  <2>5. pending' = [op |-> op, cand |-> c, survivor |-> s, loser |-> l]
    BY <2>2, <2>3
  <2>6. ReviewStands'
    BY <2>1, <2>4, <2>5 DEF ReviewStands, ReviewRecords
  <2>. QED
    BY <1>4, <1>5, <2>1, <2>6
<1>. QED
  BY <1>6, <1>7, <1>8, <1>9, <1>10, <1>11

LEMMA ConfirmKeepsOverrides ==
    ASSUME EditsInv, ConfirmMerge
    PROVE  EditsInv'
<1>1. EditsTyped /\ ReviewStands /\ MigratedStand /\ OwnStand
  BY DEF EditsInv
<1>2. pending \in ReviewRecords /\ cand[pending.cand] # NULL /\ pending' = NULL /\ UNCHANGED told
  BY <1>1 DEF ConfirmMerge, ReviewStands
<1>3. PICK s \in Nodes, l \in Nodes, k \in Candidates : s = pending.survivor /\ l = pending.loser /\ k = pending.cand
  BY <1>2 DEF ReviewRecords
<1>4. PICK moved : moved = MigrateHumanClaims(l, s)
  OBVIOUS
<1>5. moved \subseteq claims[l]
  BY <1>4 DEF MigrateHumanClaims
<1>6. PICK ids : ids = {e.id : e \in {x \in events : x.on = l}}
  OBVIOUS
<1>7. PICK rec : rec = [survivor |-> s, loser |-> l, reversed |-> FALSE,
                        moved |-> {Identity(c) : c \in moved}, events |-> ids]
  OBVIOUS
<1>8. /\ claims' = [claims EXCEPT ![s] = claims[s] \cup moved]
      /\ merges' = Append(merges, rec) /\ cand' = [cand EXCEPT ![k].status = "confirmed"]
  BY <1>1, <1>2, <1>3, <1>4, <1>6, <1>7 DEF ConfirmMerge, EditsTyped
<1>9. rec.survivor = s /\ rec.reversed = FALSE /\ rec.moved = {Identity(c) : c \in moved}
  BY <1>7
<1>10. /\ DOMAIN claims' = Nodes /\ claims'[s] = claims[s] \cup moved
       /\ \A n \in Nodes \ {s} : claims'[n] = claims[n]
  BY <1>1, <1>8 DEF EditsTyped
<1>11. /\ Len(merges) \in Nat /\ Len(merges') = Len(merges) + 1 /\ merges'[Len(merges) + 1] = rec
       /\ \A m \in 1 .. Len(merges) : merges'[m] = merges[m]
       /\ merges' \in Seq(MergesMade \cup {rec})
  <2>1. PICK S : S = MergesMade \cup {rec}
    OBVIOUS
  <2>2. merges \in Seq(S) /\ rec \in S
    BY <1>1, <2>1 DEF EditsTyped
  <2>. QED
    BY <1>8, <2>1, <2>2, AppendProperties, LenProperties
<1>12. MergesMade' = MergesMade \cup {rec}
  <2>1. 1 .. Len(merges') = (1 .. Len(merges)) \cup {Len(merges) + 1}
    BY <1>11
  <2>. QED
    BY <1>11, <2>1 DEF MergesMade
<1>13. EditsTyped'
  <2>1. cand' \in [Candidates -> CandidateRecords \cup {NULL}]
    <3>1. cand \in [Candidates -> CandidateRecords \cup {NULL}] /\ cand[k] \in CandidateRecords
      BY <1>1, <1>2, <1>3 DEF EditsTyped
    <3>. QED
      BY <1>8, <3>1 DEF CandidateRecords
  <2>2. \A n \in Nodes : \A c \in claims'[n] : ClaimShaped(c)
    BY <1>1, <1>5, <1>10 DEF EditsTyped
  <2>3. merges' \in Seq(MergesMade')
    BY <1>11, <1>12
  <2>4. rec.survivor \in Nodes /\
        rec = [survivor |-> rec.survivor, loser |-> rec.loser, reversed |-> rec.reversed,
               moved |-> rec.moved, events |-> rec.events]
    BY <1>7
  <2>. QED
    BY <1>1, <1>2, <1>10, <1>12, <2>1, <2>2, <2>3, <2>4 DEF EditsTyped, ClaimShaped
<1>14. \A n, i : OnRecord(n, i) => OnRecord(n, i)'
  BY <1>11 DEF OnRecord
<1>15. MigratedStand'
  <2>1. SUFFICES ASSUME NEW n \in Nodes, NEW c \in claims'[n], Human(c), c.id # n
                 PROVE  OnRecord(n, Identity(c))'
    BY DEF MigratedStand, Human, Identity, OnRecord
  <2>2. CASE c \in claims[n]
    BY <1>1, <1>14, <2>1, <2>2 DEF MigratedStand
  <2>3. CASE c \notin claims[n]
    <3>1. n = s /\ c \in moved
      BY <1>10, <2>1, <2>3
    <3>2. Len(merges) + 1 \in 1 .. Len(merges')
      BY <1>11
    <3>3. Identity(c) \in rec.moved
      BY <1>9, <3>1
    <3>. QED
      BY <1>9, <1>11, <3>1, <3>2, <3>3 DEF OnRecord, Identity
  <2>. QED
    BY <2>2, <2>3
<1>16. OwnStand'
  <2>1. \A u, n : MergedOver(u, n) => MergedOver(u, n)'
    BY <1>11 DEF MergedOver
  <2>2. \A n \in Nodes : claims[n] \subseteq claims'[n]
    BY <1>10
  <2>3. \A n \in Nodes : \A u, v : Owns(claims[n], u, n, v) => Owns(claims'[n], u, n, v)
    BY <2>2 DEF Owns
  <2>4. SUFFICES ASSUME NEW u \in Users, NEW n \in Nodes, told[u][n] # NULL, ~MergedOver(u, n)'
                 PROVE  Owns(claims'[n], u, n, told[u][n])
    BY <1>2 DEF OwnStand, MergedOver, Owns, Identity
  <2>. QED
    BY <1>1, <2>1, <2>3, <2>4 DEF OwnStand
<1>17. ReviewStands'
  BY <1>2 DEF ReviewStands
<1>. QED
  BY <1>13, <1>15, <1>16, <1>17 DEF EditsInv

LEMMA SplitKeepsOverrides ==
    ASSUME EditsInv, SplitMerge
    PROVE  EditsInv'
<1>1. EditsTyped /\ ReviewStands /\ MigratedStand /\ OwnStand
  BY DEF EditsInv
<1>2. /\ pending.merge \in 1 .. Len(merges) /\ pending.record = merges[pending.merge]
      /\ pending' = NULL /\ UNCHANGED <<told, cand>>
  BY <1>1 DEF SplitMerge, ReviewStands
<1>3. PICK k \in 1 .. Len(merges) : k = pending.merge
  BY <1>2
<1>4. PICK r : r = merges[k]
  OBVIOUS
<1>5. /\ r \in MergesMade /\ r.survivor \in Nodes
      /\ r = [survivor |-> r.survivor, loser |-> r.loser, reversed |-> r.reversed,
              moved |-> r.moved, events |-> r.events]
  BY <1>1, <1>4 DEF MergesMade, EditsTyped
<1>6. PICK q : q = [survivor |-> r.survivor, loser |-> r.loser, reversed |-> TRUE,
                    moved |-> r.moved, events |-> r.events]
  OBVIOUS
<1>7. q.survivor = r.survivor /\ q.reversed = TRUE /\ q.moved = r.moved /\ q.loser = r.loser /\ q.events = r.events
  BY <1>6
<1>8. merges' = [merges EXCEPT ![k] = q]
  <2>1. merges' = [merges EXCEPT ![k] = [merges[k] EXCEPT !.reversed = TRUE]]
    BY <1>1, <1>3 DEF SplitMerge, EditsTyped
  <2>2. [r EXCEPT !.reversed = TRUE] = q
    <3>1. PICK l, mv, ev : l = r.loser /\ mv = r.moved /\ ev = r.events
      OBVIOUS
    <3>2. PICK rev, sv : rev = r.reversed /\ sv = r.survivor
      OBVIOUS
    <3>3. r = [survivor |-> sv, loser |-> l, reversed |-> rev, moved |-> mv, events |-> ev]
      BY <1>5, <3>1, <3>2, Zenon
    <3>4. r \in [survivor : {sv}, loser : {l}, reversed : {rev}, moved : {mv}, events : {ev}]
      BY <3>3
    <3>5. [r EXCEPT !.reversed = TRUE]
             \in [survivor : {sv}, loser : {l}, reversed : {TRUE}, moved : {mv}, events : {ev}]
      BY <3>4
    <3>6. q \in [survivor : {sv}, loser : {l}, reversed : {TRUE}, moved : {mv}, events : {ev}]
      BY <1>6, <3>1, <3>2
    <3>. QED
      BY <3>5, <3>6
  <2>. QED
    BY <1>4, <2>1, <2>2
<1>9. /\ Len(merges') = Len(merges) /\ Len(merges) \in Nat /\ merges'[k] = q
      /\ \A m \in 1 .. Len(merges) \ {k} : merges'[m] = merges[m]
      /\ merges' \in Seq(MergesMade')
  <2>1. merges \in [1 .. Len(merges) -> MergesMade] /\ Len(merges) \in Nat
    BY <1>1 DEF EditsTyped
  <2>2. merges' \in [1 .. Len(merges) -> MergesMade \cup {q}] /\ merges'[k] = q
        /\ \A m \in 1 .. Len(merges) \ {k} : merges'[m] = merges[m]
    BY <1>8, <2>1
  <2>3. Len(merges') = Len(merges)
    BY <2>1, <2>2
  <2>4. MergesMade' = {merges'[m] : m \in 1 .. Len(merges)}
    BY <2>3 DEF MergesMade
  <2>5. merges' \in [1 .. Len(merges) -> MergesMade']
    BY <2>2, <2>4
  <2>. QED
    BY <2>1, <2>2, <2>3, <2>5
<1>10. PICK n \in Nodes : n = r.survivor
  BY <1>5
<1>11. /\ DOMAIN claims' = Nodes
       /\ \A m \in Nodes : claims'[m] \subseteq claims[m] /\ (m # n => claims'[m] = claims[m])
       /\ r.reversed => claims' = claims
       /\ ~r.reversed => claims'[n] = {c \in claims[n] : Identity(c) \notin r.moved}
       /\ \A c \in claims[n] : Identity(c) \notin r.moved => c \in claims'[n]
  <2>1. r = pending.record
    BY <1>2, <1>3, <1>4
  <2>2. CASE r.reversed
    BY <1>1, <2>1, <2>2 DEF SplitMerge, EditsTyped
  <2>3. CASE ~r.reversed
    <3>1. claims' = [claims EXCEPT ![n] = Unmigrated(n, r.moved)]
      BY <1>10, <2>1, <2>3, Zenon DEF SplitMerge
    <3>. QED
      BY <1>1, <2>3, <3>1 DEF Unmigrated, EditsTyped
  <2>. QED
    BY <2>2, <2>3
<1>12. EditsTyped'
  <2>1. \A x \in MergesMade' : x \in MergesMade \/ x = q
    BY <1>9 DEF MergesMade
  <2>2. \A m \in Nodes : \A c \in claims'[m] : ClaimShaped(c)
    BY <1>1, <1>11 DEF EditsTyped
  <2>. QED
    BY <1>1, <1>2, <1>5, <1>6, <1>7, <1>9, <1>11, <2>1, <2>2 DEF EditsTyped, ClaimShaped
<1>13. MigratedStand'
  <2>1. SUFFICES ASSUME NEW m \in Nodes, NEW c \in claims'[m], Human(c), c.id # m
                 PROVE  OnRecord(m, Identity(c))'
    BY DEF MigratedStand, Human, Identity, OnRecord
  <2>2. PICK x \in 1 .. Len(merges) :
           ~merges[x].reversed /\ merges[x].survivor = m /\ Identity(c) \in merges[x].moved
    BY <1>1, <1>11, <2>1 DEF MigratedStand, OnRecord
  <2>3. x # k
    BY <1>4, <1>10, <1>11, <2>1, <2>2
  <2>4. merges'[x] = merges[x] /\ x \in 1 .. Len(merges')
    BY <1>9, <2>2, <2>3
  <2>. QED
    BY <2>2, <2>4 DEF OnRecord, Identity
<1>14. OwnStand'
  <2>1. \A u, m : MergedOver(u, m) => MergedOver(u, m)'
    BY <1>4, <1>7, <1>9 DEF MergedOver
  <2>2. SUFFICES ASSUME NEW u \in Users, NEW m \in Nodes, told[u][m] # NULL, ~MergedOver(u, m)'
                 PROVE  Owns(claims'[m], u, m, told[u][m])
    BY <1>2 DEF OwnStand, MergedOver, Owns, Identity
  <2>3. ~MergedOver(u, m)
    BY <2>1, <2>2
  <2>4. PICK c \in claims[m] : Identity(c) = <<"manual", u, m>> /\ c.value = told[u][m]
    BY <1>1, <2>2, <2>3 DEF OwnStand, Owns
  <2>5. c \in claims'[m]
    <3>1. CASE m # n
      BY <1>11, <3>1
    <3>2. CASE m = n
      <4>1. <<"manual", u, m>> \notin r.moved
        BY <1>4, <1>10, <2>3, <3>2 DEF MergedOver
      <4>. QED
        BY <1>11, <2>4, <3>2, <4>1
    <3>. QED
      BY <3>1, <3>2
  <2>. QED
    BY <2>4, <2>5 DEF Owns
<1>15. ReviewStands'
  BY <1>2 DEF ReviewStands
<1>. QED
  BY <1>12, <1>13, <1>14, <1>15 DEF EditsInv

LEMMA EditsStep ==
    ASSUME EditsInv, ~OverlapReviews, EditsNext \/ UNCHANGED graphEditVars
    PROVE  EditsInv'
<1>1. CASE UNCHANGED graphEditVars
  BY <1>1 DEF graphEditVars, editVars, mergeVars, EditsInv, EditsTyped, MergesMade, ReviewStands,
     MigratedStand, OnRecord, OwnStand, MergedOver
<1>. QED
  BY <1>1, ClaimsKeepOverrides, ReviewKeepsOverrides, ConfirmKeepsOverrides, SplitKeepsOverrides
  DEF EditsNext, Reconcile

LEMMA OverridesFollow == EditsInv => MigratedIsRecorded /\ OwnClaimStands
<1> SUFFICES ASSUME EditsInv PROVE MigratedIsRecorded /\ OwnClaimStands
  OBVIOUS
<1>1. DOMAIN merges = 1 .. Len(merges) /\ MigratedStand /\ OwnStand
  BY DEF EditsInv, EditsTyped
<1>2. MigratedIsRecorded
  BY <1>1 DEF MigratedStand, OnRecord, MigratedIsRecorded
<1>3. OwnClaimStands
  <2>1. SUFFICES ASSUME NEW u \in Users, NEW n \in Nodes, told[u][n] # NULL, ~MergedOver(u, n)
                 PROVE  \E c \in claims[n] : c.by = "manual" /\ c.user = u /\ c.value = told[u][n]
    BY <1>1 DEF OwnClaimStands, MergedOver
  <2>. QED
    BY <1>1, <2>1 DEF OwnStand, Owns, Identity
<1>. QED
  BY <1>2, <1>3

(* While reviews do not overlap, a claim that a merge brought is on record, so   *)
(* that the split can take it back, and what a user set stands as it was last   *)
(* told (setManualClaim(), resolveReview(), confirmMerge(), splitMerge()).      *)
THEOREM OverridesAreKept == ~OverlapReviews /\ Spec => []OverridesKept
<1> DEFINE Inv == part = "edits" => EditsInv
<1>1. Init => Inv
  BY EditsInitInv DEF Init
<1>2. ~OverlapReviews /\ Inv /\ [Next]_vars => Inv'
  BY PartKept, PartSteps, EditsStep
<1>3. Inv => OverridesKept
  BY OverridesFollow DEF OverridesKept
<1>4. ASSUME ~OverlapReviews PROVE Spec => []OverridesKept
  <2>1. Inv /\ [Next]_vars => Inv'
    BY <1>2, <1>4
  <2>. QED
    BY <1>1, <1>3, <2>1, PTL DEF Spec
<1>. QED
  BY <1>4

-----------------------------------------------------------------------------
(* INDUCTION, over sets of numbers and from the least of those left out.      *)
LEMMA Inductively ==
    ASSUME NEW n \in Nat, NEW P \in SUBSET (0 .. n), 0 \in P, \A i \in 1 .. n : i - 1 \in P => i \in P
    PROVE  P = 0 .. n
<1>1. SUFFICES ASSUME (0 .. n) \ P # {} PROVE FALSE
  OBVIOUS
<1>2. PICK m \in (0 .. n) \ P : \A k \in (0 .. n) \ P : m <= k
  <2>1. (0 .. n) \ P \in SUBSET Nat
    OBVIOUS
  <2>. QED
    BY <1>1, <2>1, LeastNatural
<1>3. m \in 1 .. n /\ m - 1 \in 0 .. n /\ ~(m <= m - 1)
  BY <1>2
<1>4. m - 1 \in P
  BY <1>2, <1>3
<1>. QED
  BY <1>2, <1>3, <1>4

(* So a recursive definition over the numbers up to n does define a function. *)
Stepping(n, X, x0, step) ==
    n \in Nat /\ x0 \in X /\ \A i \in 1 .. n : \A x \in X : step[i][x] \in X
Follows(f, n, X, x0, step) ==
    f \in [0 .. n -> X] /\ f[0] = x0 /\ \A i \in 1 .. n : f[i] = step[i][f[i - 1]]

LEMMA RecursionDefines ==
    ASSUME NEW n, NEW X, NEW x0, NEW step, Stepping(n, X, x0, step)
    PROVE  \E f : Follows(f, n, X, x0, step)
<1>0. n \in Nat /\ x0 \in X /\ \A i \in 1 .. n : \A x \in X : step[i][x] \in X
  BY DEF Stepping
<1> DEFINE P == {m \in 0 .. n : \E f \in [0 .. m -> X] :
                     f[0] = x0 /\ \A i \in 1 .. m : f[i] = step[i][f[i - 1]]}
<1>1. 0 \in P
  <2>1. PICK f : f = [k \in 0 .. 0 |-> x0]
    OBVIOUS
  <2>2. f \in [0 .. 0 -> X] /\ f[0] = x0 /\ 0 \in 0 .. n
    BY <1>0, <2>1
  <2>3. \A i \in 1 .. 0 : f[i] = step[i][f[i - 1]]
    OBVIOUS
  <2>. QED
    BY <2>2, <2>3
<1>2. ASSUME NEW m \in 1 .. n, m - 1 \in P PROVE m \in P
  <2>1. PICK f \in [0 .. (m - 1) -> X] :
           f[0] = x0 /\ \A i \in 1 .. (m - 1) : f[i] = step[i][f[i - 1]]
    BY <1>2
  <2>2. m - 1 \in 0 .. (m - 1) /\ f[m - 1] \in X
    BY <1>0
  <2>3. PICK x : x = step[m][f[m - 1]]
    OBVIOUS
  <2>4. x \in X
    BY <1>0, <1>2, <2>2, <2>3
  <2>5. PICK g : g = [k \in 0 .. m |-> IF k = m THEN x ELSE f[k]]
    OBVIOUS
  <2>6. \A k \in 0 .. m : k # m => k \in 0 .. (m - 1)
    BY <1>0
  <2>7. g \in [0 .. m -> X] /\ g[m] = x /\ \A k \in 0 .. m : k # m => g[k] = f[k]
    BY <1>0, <2>4, <2>5, <2>6
  <2>8. g[0] = x0
    BY <1>0, <2>1, <2>7
  <2>9. ASSUME NEW i \in 1 .. m PROVE g[i] = step[i][g[i - 1]]
    <3>1. i - 1 \in 0 .. m /\ i - 1 # m /\ g[i - 1] = f[i - 1]
      BY <1>0, <2>7
    <3>2. CASE i = m
      BY <2>3, <2>7, <3>1, <3>2
    <3>3. CASE i # m
      <4>1. i \in 1 .. (m - 1) /\ i \in 0 .. m
        BY <1>0, <3>3
      <4>. QED
        BY <2>1, <2>7, <3>1, <3>3, <4>1
    <3>. QED
      BY <3>2, <3>3
  <2>. QED
    BY <2>7, <2>8, <2>9
<1>3. P \in SUBSET (0 .. n)
  OBVIOUS
<1>4. \A i \in 1 .. n : i - 1 \in P => i \in P
  BY <1>2
<1> HIDE DEF P
<1>5. P = 0 .. n
  BY <1>0, <1>1, <1>3, <1>4, Inductively
<1>6. n \in P
  BY <1>0, <1>5
<1>. QED
  BY <1>6 DEF P, Follows

(* What a filtered sequence holds. *)
KeptFrom(h, s, keep) ==
    \A c : (\E j \in 1 .. Len(h) : h[j] = c) <=> (c \in keep /\ \E i \in 1 .. Len(s) : s[i] = c)

LEMMA OnlyHolds ==
    ASSUME NEW C, NEW s \in Seq(C), NEW keep
    PROVE  /\ Only(s, keep) \in Seq(C)
           /\ KeptFrom(Only(s, keep), s, keep)
<1> DEFINE step == [i \in 1 .. Len(s) |-> [t \in Seq(C) |-> IF s[i] \in keep THEN Append(t, s[i]) ELSE t]]
           Unfold(g) == [n \in 0 .. Len(s) |->
                            IF n = 0 THEN <<>> ELSE IF s[n] \in keep THEN Append(g[n - 1], s[n]) ELSE g[n - 1]]
           F == CHOOSE g : g = Unfold(g)
<1>1. Len(s) \in Nat /\ <<>> \in Seq(C)
  OBVIOUS
<1>2. \A i \in 1 .. Len(s) : \A t \in Seq(C) : step[i][t] \in Seq(C)
  <2>1. \A i \in 1 .. Len(s) : s[i] \in C
    OBVIOUS
  <2>2. \A t \in Seq(C), c \in C : Append(t, c) \in Seq(C)
    OBVIOUS
  <2>. QED
    BY <2>1, <2>2
<1>3. PICK f \in [0 .. Len(s) -> Seq(C)] : f[0] = <<>> /\ \A i \in 1 .. Len(s) : f[i] = step[i][f[i - 1]]
  <2> HIDE DEF step
  <2>1. PICK X, x0, n, st : X = Seq(C) /\ x0 = <<>> /\ n = Len(s) /\ st = step
    OBVIOUS
  <2>2. Stepping(n, X, x0, st)
    BY <1>1, <1>2, <2>1 DEF Stepping
  <2>3. PICK f : Follows(f, n, X, x0, st)
    BY <2>2, RecursionDefines
  <2>. QED
    BY <2>1, <2>3 DEF Follows
<1>4. \A i \in 1 .. Len(s) : f[i] = IF s[i] \in keep THEN Append(f[i - 1], s[i]) ELSE f[i - 1]
  <2>1. \A i \in 1 .. Len(s) : i - 1 \in 0 .. Len(s) /\ f[i - 1] \in Seq(C)
    BY <1>1
  <2>. QED
    BY <1>3, <2>1
<1>5. f = Unfold(f)
  <2>1. \A n \in 0 .. Len(s) : n # 0 => n \in 1 .. Len(s)
    OBVIOUS
  <2>2. \A n \in 0 .. Len(s) :
          f[n] = IF n = 0 THEN <<>> ELSE IF s[n] \in keep THEN Append(f[n - 1], s[n]) ELSE f[n - 1]
    BY <1>3, <1>4, <2>1
  <2>. QED
    BY <2>2
<1>6. F = Unfold(F)
  <2>1. \E g : g = Unfold(g)
    BY <1>5
  <2> HIDE DEF Unfold
  <2>. QED
    BY <2>1
<1>7. Only(s, keep) = F[Len(s)]
  BY DEF Only
<1> HIDE DEF step, F
<1>8. /\ F[0] = <<>>
      /\ \A n \in 1 .. Len(s) : F[n] = IF s[n] \in keep THEN Append(F[n - 1], s[n]) ELSE F[n - 1]
  <2>1. 0 \in 0 .. Len(s) /\ \A n \in 1 .. Len(s) : n \in 0 .. Len(s) /\ n # 0
    BY <1>1
  <2>2. \A n \in 0 .. Len(s) : Unfold(F)[n] =
           IF n = 0 THEN <<>> ELSE IF s[n] \in keep THEN Append(F[n - 1], s[n]) ELSE F[n - 1]
    OBVIOUS
  <2>3. \A n \in 0 .. Len(s) : F[n] =
           IF n = 0 THEN <<>> ELSE IF s[n] \in keep THEN Append(F[n - 1], s[n]) ELSE F[n - 1]
    BY <1>6, <2>2
  <2>. QED
    BY <2>1, <2>3
<1> HIDE DEF Unfold
<1> DEFINE Holds(t, n) == \A c : (\E j \in 1 .. Len(t) : t[j] = c) <=> (c \in keep /\ \E i \in 1 .. n : s[i] = c)
           P == {n \in 0 .. Len(s) : F[n] \in Seq(C) /\ Holds(F[n], n)}
<1>9. 0 \in P
  <2>1. F[0] = <<>> /\ Len(<<>>) = 0 /\ 0 \in 0 .. Len(s)
    BY <1>1, <1>8
  <2>2. ASSUME NEW c PROVE ~(\E j \in 1 .. Len(F[0]) : F[0][j] = c) /\ ~(\E i \in 1 .. 0 : s[i] = c)
    BY <2>1
  <2>3. Holds(F[0], 0)
    BY <2>2
  <2>. QED
    BY <1>1, <2>1, <2>3
<1>10. ASSUME NEW n \in 1 .. Len(s), n - 1 \in P PROVE n \in P
  <2>1. F[n - 1] \in Seq(C) /\ Holds(F[n - 1], n - 1) /\ s[n] \in C /\ n \in Nat
    BY <1>1, <1>10
  <2>2. PICK t, u : t = F[n - 1] /\ u = F[n]
    OBVIOUS
  <2>3. \A i : i \in 1 .. n <=> (i \in 1 .. (n - 1) \/ i = n)
    BY <2>1
  <2>6. F[n] \in Seq(C) /\ Holds(F[n], n) => n \in P
    BY <1>1
  <2>4. CASE s[n] \in keep
    <3>1. u = Append(t, s[n])
      BY <1>8, <2>2, <2>4
    <3>2. /\ u \in Seq(C) /\ Len(t) \in Nat /\ Len(u) = Len(t) + 1 /\ u[Len(t) + 1] = s[n]
          /\ \A j \in 1 .. Len(t) : u[j] = t[j]
      BY <2>1, <2>2, <3>1, AppendProperties, LenProperties
    <3>3. \A j : j \in 1 .. Len(u) <=> (j \in 1 .. Len(t) \/ j = Len(t) + 1)
      BY <3>2
    <3>4. ASSUME NEW c
          PROVE  (\E j \in 1 .. Len(u) : u[j] = c) <=> (\E j \in 1 .. Len(t) : t[j] = c) \/ c = s[n]
      BY <3>2, <3>3
    <3>5. Holds(u, n)
      BY <2>1, <2>2, <2>3, <2>4, <3>4
    <3>. QED
      BY <2>1, <2>2, <3>2, <3>5, <2>6
  <2>5. CASE s[n] \notin keep
    <3>1. u = t
      BY <1>8, <2>2, <2>5
    <3>2. Holds(u, n)
      BY <2>1, <2>2, <2>3, <2>5, <3>1
    <3>. QED
      BY <2>1, <2>2, <3>1, <3>2, <2>6
  <2>. QED
    BY <2>4, <2>5
<1>11. \A n \in 1 .. Len(s) : n - 1 \in P => n \in P
  BY <1>10
<1>12. P \in SUBSET (0 .. Len(s)) /\ Len(s) \in 0 .. Len(s)
  BY <1>1
<1> HIDE DEF P
<1>13. P = 0 .. Len(s)
  BY <1>1, <1>9, <1>11, <1>12, Inductively
<1>14. Len(s) \in P
  BY <1>12, <1>13
<1>. QED
  BY <1>7, <1>14 DEF P, KeptFrom

(* THE CLAIMS of a property.  A sort's first claim, once there is one. *)
Leads(s, before, i) ==
    i \in DOMAIN s /\ \A j \in DOMAIN s \ {i} :
        <<j, i>> \notin before /\ (j < i => <<i, j>> \in before)

LEMMA FirstLeads ==
    ASSUME NEW s, NEW before, NEW i, Leads(s, before, i)
    PROVE  \E k : Leads(s, before, k) /\ First(s, before) = s[k]
<1> DEFINE k == CHOOSE k \in DOMAIN s : \A j \in DOMAIN s \ {k} :
                    <<j, k>> \notin before /\ (j < k => <<k, j>> \in before)
<1>1. Leads(s, before, k)
  BY DEF Leads
<1>2. First(s, before) = s[k]
  BY DEF First
<1>. QED
  BY <1>1, <1>2

(* The highest of the numbers that the members of a set are given. *)
LEMMA Highest ==
    ASSUME NEW S, S # {}, NEW g, NEW n \in Nat, \A i \in S : g[i] \in 0 .. n
    PROVE  \E i \in S : \A j \in S : g[j] <= g[i]
<1> DEFINE T == {g[i] : i \in S}
<1>1. T \in SUBSET (0 .. n) /\ T # {}
  OBVIOUS
<1>2. PICK m \in T : \A k \in T : k <= m
  <2> HIDE DEF T
  <2>. QED
    BY <1>1, GreatestUpTo
<1>. QED
  BY <1>2

LEMMA Lowest ==
    ASSUME NEW S, S # {}, NEW g, \A i \in S : g[i] \in Nat
    PROVE  \E i \in S : \A j \in S : g[i] <= g[j]
<1> DEFINE T == {g[i] : i \in S}
<1>1. T \in SUBSET Nat /\ T # {}
  OBVIOUS
<1>2. PICK m \in T : \A k \in T : m <= k
  <2> HIDE DEF T
  <2>. QED
    BY <1>1, LeastNatural
<1>. QED
  BY <1>2

(* The claim that ByConfidence() takes at a time, and that there is one. *)
Known(s, t) == s \in Seq(Claims) /\ t \in Nat /\ \A i \in DOMAIN s : s[i].at <= t
Scores(s, t) == [i \in DOMAIN s |-> EffectiveConfidence(s[i], t)]
Dates(s) == [i \in DOMAIN s |-> s[i].at]

Above(g, h, i, j) == g[i] > g[j] \/ (g[i] = g[j] /\ (h[i] > h[j] \/ (h[i] = h[j] /\ i < j)))
Tops(s, t, i) == i \in DOMAIN s /\ \A j \in DOMAIN s \ {i} : Above(Scores(s, t), Dates(s), i, j)

LEMMA ScoreOfClaim ==
    ASSUME NEW c \in Claims, NEW t \in Nat, c.at <= t
    PROVE  /\ c.at \in Nat /\ c.conf \in Nat /\ c.at \in 0 .. t
           /\ EffectiveConfidence(c, t) \in Nat /\ EffectiveConfidence(c, t) \in 0 .. 100
<1>1. c.at \in Nat /\ c.conf \in Nat /\ c.conf <= 100 /\ c.at \in 0 .. t
  BY DEF Claims
<1>2. PICK x : x = c.conf - (t - c.at)
  OBVIOUS
<1>3. x \in Int /\ x <= 100
  BY <1>1, <1>2
<1>4. AtLeast0(x) \in Nat /\ AtLeast0(x) \in 0 .. 100
  BY <1>3 DEF AtLeast0
<1>. QED
  BY <1>1, <1>2, <1>4 DEF EffectiveConfidence

LEMMA Scored ==
    ASSUME NEW s, NEW t, Known(s, t)
    PROVE  /\ t \in Nat /\ Len(s) \in Nat /\ DOMAIN s = 1 .. Len(s)
           /\ Scores(s, t) \in [DOMAIN s -> 0 .. 100] /\ Dates(s) \in [DOMAIN s -> 0 .. t]
<1>1. \A i \in DOMAIN s : s[i] \in Claims /\ s[i].at <= t
  BY DEF Known
<1>2. t \in Nat /\ Len(s) \in Nat /\ DOMAIN s = 1 .. Len(s)
  BY DEF Known
<1>3. \A i \in DOMAIN s : EffectiveConfidence(s[i], t) \in 0 .. 100 /\ s[i].at \in 0 .. t
  BY <1>1, <1>2, ScoreOfClaim
<1>. QED
  BY <1>2, <1>3 DEF Scores, Dates

LEMMA Rankings ==
    ASSUME NEW s, NEW t, Known(s, t), NEW i \in DOMAIN s, NEW j \in DOMAIN s
    PROVE  /\ i \in Int /\ j \in Int
           /\ Scores(s, t)[i] \in Int /\ Scores(s, t)[j] \in Int
           /\ Dates(s)[i] \in Int /\ Dates(s)[j] \in Int
<1>1. PICK g, h, d : g = Scores(s, t) /\ h = Dates(s) /\ d = DOMAIN s
  OBVIOUS
<1>2. /\ t \in Nat /\ Len(s) \in Nat /\ d = 1 .. Len(s) /\ g \in [d -> 0 .. 100] /\ h \in [d -> 0 .. t]
      /\ i \in d /\ j \in d
  BY <1>1, Scored
<1>3. g[i] \in 0 .. 100 /\ g[j] \in 0 .. 100 /\ h[i] \in 0 .. t /\ h[j] \in 0 .. t
  BY <1>2
<1>4. g[i] \in Int /\ g[j] \in Int /\ h[i] \in Int /\ h[j] \in Int /\ i \in Int /\ j \in Int
  <2>1. /\ \A x \in 0 .. 100 : x \in Int
        /\ \A x \in 0 .. t : x \in Int
        /\ \A x \in 1 .. Len(s) : x \in Int
    OBVIOUS
  <2>. QED
    BY <1>2, <1>3, <2>1, Zenon
<1>. QED
  BY <1>1, <1>4

LEMMA TopsExists ==
    ASSUME NEW s, NEW t, Known(s, t), s # <<>>
    PROVE  \E i : Tops(s, t, i)
<1>1. PICK g, h, All : g = Scores(s, t) /\ h = Dates(s) /\ All = DOMAIN s
  OBVIOUS
<1>2. /\ t \in Nat /\ Len(s) \in Nat /\ All = 1 .. Len(s) /\ s \in Seq(Claims)
      /\ g \in [All -> 0 .. 100] /\ h \in [All -> 0 .. t]
  BY <1>1, Scored DEF Known
<1>3. All # {} /\ All \in SUBSET Nat
  BY <1>2, EmptySeq
<1>4. PICK a \in All : \A j \in All : g[j] <= g[a]
  <2>1. \A i \in All : g[i] \in 0 .. 100
    BY <1>2
  <2>. QED
    BY <1>3, <2>1, Highest
<1> DEFINE Best == {j \in All : g[j] = g[a]}
<1>5. PICK b \in Best : \A j \in Best : h[j] <= h[b]
  <2>1. \A i \in Best : h[i] \in 0 .. t
    BY <1>2
  <2>2. Best # {}
    BY <1>4
  <2> HIDE DEF Best
  <2>. QED
    BY <1>2, <2>1, <2>2, Highest
<1> DEFINE Latest == {j \in Best : h[j] = h[b]}
<1>6. PICK c \in Latest : \A j \in Latest : c <= j
  <2>1. Latest \in SUBSET Nat /\ Latest # {}
    BY <1>3, <1>5
  <2> HIDE DEF Latest
  <2>. QED
    BY <2>1, LeastNatural
<1>7. c \in All /\ g[c] = g[a] /\ h[c] = h[b]
  BY <1>6
<1>8. ASSUME NEW j \in All \ {c} PROVE Above(g, h, c, j)
  <2>1. /\ g[j] <= g[c] /\ (g[j] = g[c] => h[j] <= h[c])
        /\ (g[j] = g[c] /\ h[j] = h[c] => c <= j)
    <3>1. g[j] <= g[c]
      BY <1>4, <1>7, <1>8
    <3>2. g[j] = g[c] => h[j] <= h[c]
      BY <1>5, <1>7, <1>8
    <3>3. g[j] = g[c] /\ h[j] = h[c] => c <= j
      BY <1>6, <1>7, <1>8
    <3>. QED
      BY <3>1, <3>2, <3>3
  <2>2. j \in DOMAIN s /\ c \in DOMAIN s /\ j # c
    BY <1>1, <1>7, <1>8
  <2> HIDE DEF Latest, Best
  <2>3. /\ c \in Int /\ j \in Int /\ g[c] \in Int /\ g[j] \in Int /\ h[c] \in Int /\ h[j] \in Int
    BY <1>1, <2>2, Rankings
  <2>. QED
    BY <2>1, <2>2, <2>3 DEF Above
<1>. QED
  BY <1>1, <1>7, <1>8 DEF Tops

LEMMA TopsUnique ==
    ASSUME NEW s, NEW t, Known(s, t), NEW i, NEW j, Tops(s, t, i), Tops(s, t, j)
    PROVE  i = j
<1>1. PICK g, h : g = Scores(s, t) /\ h = Dates(s)
  OBVIOUS
<1>2. i \in DOMAIN s /\ j \in DOMAIN s
  BY DEF Tops
<1>3. /\ i \in Int /\ j \in Int /\ g[i] \in Int /\ g[j] \in Int /\ h[i] \in Int /\ h[j] \in Int
  BY <1>1, <1>2, Rankings
<1>4. i # j => Above(g, h, i, j) /\ Above(g, h, j, i)
  BY <1>1, <1>2 DEF Tops
<1>. QED
  BY <1>3, <1>4 DEF Above

LEMMA ByConfidenceTops ==
    ASSUME NEW s, NEW t, Known(s, t), s # <<>>
    PROVE  \E i : Tops(s, t, i) /\ ByConfidence(s, t) = s[i]
<1> DEFINE score(i) == EffectiveConfidence(s[i], t)
           before == {p \in Positions(s) : score(p[1]) > score(p[2])}
                     \cup {p \in LaterFirst(s) : score(p[1]) = score(p[2])}
<1>1. PICK g, h : g = Scores(s, t) /\ h = Dates(s)
  OBVIOUS
<1>2. \A i, j \in DOMAIN s : <<i, j>> \in before <=> g[i] > g[j] \/ (g[i] = g[j] /\ h[i] > h[j])
  <2>1. \A i \in DOMAIN s : g[i] = score(i) /\ h[i] = s[i].at
    BY <1>1 DEF Scores, Dates
  <2>2. \A i, j \in DOMAIN s : <<i, j>> \in before <=>
           score(i) > score(j) \/ (score(i) = score(j) /\ s[i].at > s[j].at)
    <3> HIDE DEF score
    <3>. QED
      BY DEF Positions, LaterFirst
  <2> HIDE DEF score, before
  <2>3. SUFFICES ASSUME NEW i \in DOMAIN s, NEW j \in DOMAIN s
                 PROVE  <<i, j>> \in before <=> g[i] > g[j] \/ (g[i] = g[j] /\ h[i] > h[j])
    BY Zenon
  <2>4. g[i] = score(i) /\ h[i] = s[i].at /\ g[j] = score(j) /\ h[j] = s[j].at
    BY <2>1
  <2>5. <<i, j>> \in before <=> score(i) > score(j) \/ (score(i) = score(j) /\ s[i].at > s[j].at)
    BY <2>2
  <2>. QED
    BY <2>4, <2>5, Zenon
<1>3. ByConfidence(s, t) = First(s, before)
  BY DEF ByConfidence
<1> HIDE DEF before, score
<1>4. ASSUME NEW i \in DOMAIN s, NEW j \in DOMAIN s \ {i}
      PROVE  Above(g, h, i, j) <=> <<j, i>> \notin before /\ (j < i => <<i, j>> \in before)
  <2>1. /\ i \in Int /\ j \in Int /\ g[i] \in Int /\ g[j] \in Int /\ h[i] \in Int /\ h[j] \in Int
    BY <1>1, <1>4, Rankings
  <2>2. /\ <<i, j>> \in before <=> g[i] > g[j] \/ (g[i] = g[j] /\ h[i] > h[j])
        /\ <<j, i>> \in before <=> g[j] > g[i] \/ (g[j] = g[i] /\ h[j] > h[i])
    BY <1>2, <1>4
  <2>. QED
    BY <1>4, <2>1, <2>2 DEF Above
<1>5. \A i : Tops(s, t, i) <=> Leads(s, before, i)
  BY <1>1, <1>4 DEF Tops, Leads
<1>7. PICK i : Tops(s, t, i)
  BY TopsExists
<1>8. PICK k : Leads(s, before, k) /\ First(s, before) = s[k]
  BY <1>5, <1>7, FirstLeads
<1>. QED
  BY <1>3, <1>5, <1>8

(* A claim that leads with any confidence left has led all along.          *)
LEMMA TopHasLed ==
    ASSUME NEW s, NEW t, NEW w, Known(s, t), w \in Nat, t <= w, NEW i,
           Tops(s, w, i), EffectiveConfidence(s[i], w) > 0
    PROVE  Tops(s, t, i)
<1>1. i \in DOMAIN s /\ t \in Nat /\ \A k \in DOMAIN s : s[k] \in Claims /\ s[k].at <= t
  BY DEF Tops, Known
<1>2. ASSUME NEW j \in DOMAIN s \ {i} PROVE Above(Scores(s, t), Dates(s), i, j)
  <2>1. PICK c, d : c = s[i] /\ d = s[j]
    OBVIOUS
  <2>2. /\ Scores(s, t)[i] = EffectiveConfidence(c, t) /\ Scores(s, t)[j] = EffectiveConfidence(d, t)
        /\ Scores(s, w)[i] = EffectiveConfidence(c, w) /\ Scores(s, w)[j] = EffectiveConfidence(d, w)
    BY <1>1, <1>2, <2>1 DEF Scores
  <2>3. /\ c.at \in Nat /\ d.at \in Nat /\ c.conf \in Nat /\ d.conf \in Nat
    <3>1. c \in Claims /\ d \in Claims /\ c.at <= t /\ d.at <= t
      BY <1>1, <1>2, <2>1
    <3>. QED
      BY <1>1, <3>1, ScoreOfClaim
  <2>4. PICK x, y, u, v : /\ x = c.conf - (w - c.at) /\ y = d.conf - (w - d.at)
                          /\ u = c.conf - (t - c.at) /\ v = d.conf - (t - d.at)
    OBVIOUS
  <2>5. x \in Int /\ y \in Int /\ u = x + (w - t) /\ v = y + (w - t) /\ u \in Int /\ v \in Int
    BY <1>1, <2>3, <2>4
  <2>6. /\ EffectiveConfidence(c, w) = AtLeast0(x) /\ EffectiveConfidence(d, w) = AtLeast0(y)
        /\ EffectiveConfidence(c, t) = AtLeast0(u) /\ EffectiveConfidence(d, t) = AtLeast0(v)
    BY <2>4 DEF EffectiveConfidence
  <2>7. AtLeast0(x) > 0
    BY <2>1, <2>6
  <2>8. /\ AtLeast0(x) > AtLeast0(y) => AtLeast0(u) > AtLeast0(v)
        /\ AtLeast0(x) = AtLeast0(y) => AtLeast0(u) = AtLeast0(v)
    BY <1>1, <2>5, <2>7 DEF AtLeast0
  <2>9. Above(Scores(s, w), Dates(s), i, j)
    BY <1>2 DEF Tops
  <2>. QED
    BY <2>2, <2>6, <2>8, <2>9 DEF Above
<1>. QED
  BY <1>1, <1>2 DEF Tops

GroupStands(s, t) == Known(s, t) /\ \A i \in DOMAIN s : IsHuman(s[i]) => s[i].by \in Members

StoredStands ==
    stored # NULL /\ ~edited =>
        \E t \in 0 .. week, i \in DOMAIN group : Known(group, t) /\ Tops(group, t, i) /\ group[i].value = stored
AttestedStands ==
    attested # NULL =>
        /\ \E i \in DOMAIN group : group[i].key = "verified"
        /\ \A i \in DOMAIN group : group[i].key = "verified" => group[i].value = attested
ShownStand ==
    /\ shown = [m \in Members |-> shown[m]]
    /\ \A m \in Members : shown[m] # NULL => shown[m].winner \in Claims
ClaimsInv ==
    strategy \in {"HIGHEST_CONFIDENCE", "MANUAL_OVERRIDE_FIRST"} =>
        GroupStands(group, week) /\ edited \in BOOLEAN /\ StoredStands /\ AttestedStands /\ ShownStand

LEMMA ClaimsInitInv == ValuesInit => ClaimsInv
<1> SUFFICES ASSUME ValuesInit PROVE ClaimsInv
  OBVIOUS
<1>1. /\ group = <<>> /\ week = 0 /\ stored = NULL /\ edited = FALSE /\ attested = NULL
      /\ shown = [m \in Members |-> NULL]
  BY DEF ValuesInit
<1>2. GroupStands(group, week)
  <2>1. group \in Seq(Claims) /\ DOMAIN group = {} /\ week \in Nat
    BY <1>1
  <2>. QED
    BY <2>1 DEF GroupStands, Known
<1>. QED
  BY <1>1, <1>2 DEF ClaimsInv, StoredStands, AttestedStands, ShownStand

(* SOURCE_PRIORITY_ORDER puts what people verified first and what they set  *)
(* second.                                                                 *)
LEMMA RankOfHuman ==
    ASSUME NEW c
    PROVE  (c.key = "verified" => Rank(c) = 1) /\ (c.key = "manual" => Rank(c) = 2)
<1> DEFINE n == CHOOSE i \in DOMAIN PriorityOrder : PriorityOrder[i] = c.key
<1>1. DOMAIN PriorityOrder = {1, 2, 3, 4, 5, 6}
  <2>1. DOMAIN PriorityOrder = 1 .. 6
    BY DEF PriorityOrder
  <2>. QED
    BY <2>1
<1>2. /\ PriorityOrder[1] = "verified" /\ PriorityOrder[2] = "manual" /\ PriorityOrder[3] = "backstage"
      /\ PriorityOrder[4] = "github" /\ PriorityOrder[5] = "login" /\ PriorityOrder[6] = "kubernetes"
  BY DEF PriorityOrder
<1>3. ASSUME NEW k \in {1, 2}, PriorityOrder[k] = c.key PROVE n = k
  <2>1. n \in DOMAIN PriorityOrder /\ PriorityOrder[n] = c.key
    BY <1>1, <1>3
  <2> HIDE DEF n
  <2>. QED
    BY <1>1, <1>2, <1>3, <2>1
<1>4. Rank(c) = n
  BY DEF Rank
<1> HIDE DEF n
<1>. QED
  BY <1>2, <1>3, <1>4

(* What setManualClaim(), verify() and revert leave of the claims.          *)
LeftOf(h, s, keep) ==
    \A c : (\E j \in DOMAIN h : h[j] = c) <=> (c \in keep /\ \E i \in DOMAIN s : s[i] = c)

LEMMA OnlyStands ==
    ASSUME NEW s, NEW t, GroupStands(s, t), NEW keep
    PROVE  /\ GroupStands(Only(s, keep), t)
           /\ LeftOf(Only(s, keep), s, keep)
<1>1. s \in Seq(Claims) /\ t \in Nat /\ \A i \in DOMAIN s : s[i].at <= t
  BY DEF GroupStands, Known
<1>2. PICK h : h = Only(s, keep)
  OBVIOUS
<1>3. /\ h \in Seq(Claims)
      /\ \A c : (\E j \in 1 .. Len(h) : h[j] = c) <=> (c \in keep /\ \E i \in 1 .. Len(s) : s[i] = c)
  <2>1. PICK C : C = Claims
    OBVIOUS
  <2>2. s \in Seq(C)
    BY <1>1, <2>1
  <2>3. Only(s, keep) \in Seq(C) /\ KeptFrom(Only(s, keep), s, keep)
    BY <2>2, OnlyHolds
  <2>. QED
    BY <1>2, <2>1, <2>3 DEF KeptFrom
<1>4. DOMAIN h = 1 .. Len(h) /\ DOMAIN s = 1 .. Len(s)
  BY <1>1, <1>3
<1>5. \A c : (\E j \in DOMAIN h : h[j] = c) <=> (c \in keep /\ \E i \in DOMAIN s : s[i] = c)
  BY <1>3, <1>4
<1>6. ASSUME NEW j \in DOMAIN h PROVE h[j].at <= t /\ (IsHuman(h[j]) => h[j].by \in Members)
  <2>1. PICK i \in DOMAIN s : s[i] = h[j]
    BY <1>5, <1>6
  <2>. QED
    BY <1>1, <2>1 DEF GroupStands
<1>. QED
  BY <1>1, <1>2, <1>3, <1>5, <1>6 DEF GroupStands, Known, LeftOf

(* pickManualOverride() takes a claim of a person, a verified one if there is one. *)
LEMMA OverrideIsHuman ==
    ASSUME NEW s, NEW t, GroupStands(s, t), \E i \in DOMAIN s : IsHuman(s[i])
    PROVE  \E k \in DOMAIN s : /\ Override(s) = s[k] /\ IsHuman(s[k])
                               /\ (\E i \in DOMAIN s : s[i].key = "verified") => s[k].key = "verified"
<1>1. PICK h, All : h = Only(s, HumanClaims) /\ All = DOMAIN h
  OBVIOUS
<1>2. /\ GroupStands(h, t)
      /\ \A c : (\E j \in All : h[j] = c) <=> (c \in HumanClaims /\ \E i \in DOMAIN s : s[i] = c)
  BY <1>1, OnlyStands DEF LeftOf
<1>3. /\ h \in Seq(Claims) /\ t \in Nat /\ All = 1 .. Len(h) /\ Len(h) \in Nat
      /\ \A i \in DOMAIN s : s[i] \in Claims
  BY <1>1, <1>2 DEF GroupStands, Known
<1>4. \A i \in DOMAIN s : IsHuman(s[i]) => \E j \in All : h[j] = s[i]
  BY <1>2, <1>3 DEF HumanClaims
<1>5. \A j \in All : IsHuman(h[j]) /\ \E i \in DOMAIN s : s[i] = h[j]
  BY <1>2 DEF HumanClaims
<1>6. All # {} /\ All \in SUBSET Nat
  BY <1>3, <1>4
<1>7. PICK r, d, b : /\ r = [j \in All |-> Rank(h[j])] /\ d = [j \in All |-> h[j].at]
                     /\ b = [j \in All |-> h[j].by]
  OBVIOUS
<1>8. ASSUME NEW j \in All PROVE r[j] \in {1, 2} /\ d[j] \in 0 .. t /\ b[j] \in Nat
  <2>1. r[j] \in {1, 2}
    BY <1>5, <1>7, <1>8, RankOfHuman DEF IsHuman
  <2>2. d[j] \in 0 .. t
    <3>1. h[j] \in Claims /\ h[j].at <= t
      BY <1>1, <1>2, <1>3, <1>8 DEF GroupStands, Known
    <3>. QED
      BY <1>3, <1>7, <1>8, <3>1, ScoreOfClaim
  <2>3. b[j] \in Nat
    BY <1>1, <1>2, <1>5, <1>7, <1>8, ClaimsAssumption DEF GroupStands
  <2>. QED
    BY <2>1, <2>2, <2>3
<1>9. \A j \in All : r[j] \in Nat /\ d[j] \in Nat /\ b[j] \in Nat
  <2>1. \A x \in {1, 2} : x \in Nat
    OBVIOUS
  <2>2. \A x \in 0 .. t : x \in Nat
    BY <1>3
  <2>. QED
    BY <1>8, <2>1, <2>2
<1>10. PICK x1 \in All : \A j \in All : r[x1] <= r[j]
  BY <1>6, <1>9, Lowest
<1> DEFINE Level == {j \in All : r[j] = r[x1]}
<1>11. PICK x2 \in Level : \A j \in Level : d[j] <= d[x2]
  <2>1. Level # {} /\ \A j \in Level : d[j] \in 0 .. t
    BY <1>8, <1>10
  <2> HIDE DEF Level
  <2>. QED
    BY <1>3, <2>1, Highest
<1> DEFINE Latest == {j \in Level : d[j] = d[x2]}
<1>12. PICK x3 \in Latest : \A j \in Latest : b[x3] <= b[j]
  <2>1. Latest # {} /\ \A j \in Latest : b[j] \in Nat
    BY <1>9, <1>11
  <2> HIDE DEF Latest
  <2>. QED
    BY <2>1, Lowest
<1> DEFINE Namesakes == {j \in Latest : b[j] = b[x3]}
<1>13. PICK x \in Namesakes : \A j \in Namesakes : x <= j
  <2>1. Namesakes # {} /\ Namesakes \in SUBSET Nat
    BY <1>6, <1>12
  <2> HIDE DEF Namesakes
  <2>. QED
    BY <2>1, LeastNatural
<1>14. /\ x \in All /\ \A j \in All : r[x] <= r[j]
       /\ \A j \in All : r[j] = r[x] => d[j] <= d[x]
       /\ \A j \in All : r[j] = r[x] /\ d[j] = d[x] => b[x] <= b[j]
       /\ \A j \in All : r[j] = r[x] /\ d[j] = d[x] /\ b[j] = b[x] => x <= j
  BY <1>10, <1>11, <1>12, <1>13
<1> HIDE DEF Level, Latest, Namesakes
<1> DEFINE level == {p \in Positions(h) : Rank(h[p[1]]) = Rank(h[p[2]])}
           named == {p \in level : h[p[1]].at = h[p[2]].at /\ h[p[1]].by < h[p[2]].by}
           before == LowerRankFirst(h) \cup (level \cap LaterFirst(h)) \cup named
<1>15. Override(s) = First(h, before)
  BY <1>1 DEF Override
<1>16. \A i, j \in All : <<i, j>> \in before <=>
          \/ r[i] < r[j]
          \/ r[i] = r[j] /\ d[i] > d[j]
          \/ r[i] = r[j] /\ d[i] = d[j] /\ b[i] < b[j]
  <2>1. \A i, j \in All : <<i, j>> \in before <=>
          \/ Rank(h[i]) < Rank(h[j])
          \/ Rank(h[i]) = Rank(h[j]) /\ h[i].at > h[j].at
          \/ Rank(h[i]) = Rank(h[j]) /\ h[i].at = h[j].at /\ h[i].by < h[j].by
    BY <1>1 DEF Positions, LaterFirst, LowerRankFirst
  <2>2. \A i \in All : r[i] = Rank(h[i]) /\ d[i] = h[i].at /\ b[i] = h[i].by
    BY <1>7
  <2> HIDE DEF before
  <2>3. SUFFICES ASSUME NEW i \in All, NEW j \in All
                 PROVE  <<i, j>> \in before <=>
                           \/ r[i] < r[j]
                           \/ r[i] = r[j] /\ d[i] > d[j]
                           \/ r[i] = r[j] /\ d[i] = d[j] /\ b[i] < b[j]
    BY Zenon
  <2>4. /\ r[i] = Rank(h[i]) /\ d[i] = h[i].at /\ b[i] = h[i].by
        /\ r[j] = Rank(h[j]) /\ d[j] = h[j].at /\ b[j] = h[j].by
    BY <2>2
  <2>5. <<i, j>> \in before <=>
          \/ Rank(h[i]) < Rank(h[j])
          \/ Rank(h[i]) = Rank(h[j]) /\ h[i].at > h[j].at
          \/ Rank(h[i]) = Rank(h[j]) /\ h[i].at = h[j].at /\ h[i].by < h[j].by
    BY <2>1
  <2>. QED
    BY <2>4, <2>5, Zenon
<1> HIDE DEF before
<1>17. ASSUME NEW j \in All \ {x} PROVE <<j, x>> \notin before /\ (j < x => <<x, j>> \in before)
  <2>1. /\ j \in Nat /\ x \in Nat /\ r[j] \in Nat /\ r[x] \in Nat /\ d[j] \in Nat /\ d[x] \in Nat
        /\ b[j] \in Nat /\ b[x] \in Nat
    BY <1>6, <1>9, <1>14, <1>17
  <2>2. /\ <<j, x>> \in before <=> \/ r[j] < r[x]
                                   \/ r[j] = r[x] /\ d[j] > d[x]
                                   \/ r[j] = r[x] /\ d[j] = d[x] /\ b[j] < b[x]
        /\ <<x, j>> \in before <=> \/ r[x] < r[j]
                                   \/ r[x] = r[j] /\ d[x] > d[j]
                                   \/ r[x] = r[j] /\ d[x] = d[j] /\ b[x] < b[j]
    BY <1>14, <1>16, <1>17
  <2>3. /\ r[x] <= r[j] /\ (r[j] = r[x] => d[j] <= d[x])
        /\ (r[j] = r[x] /\ d[j] = d[x] => b[x] <= b[j])
        /\ (r[j] = r[x] /\ d[j] = d[x] /\ b[j] = b[x] => x <= j)
    BY <1>14, <1>17
  <2>. QED
    BY <2>1, <2>2, <2>3
<1>18. Leads(h, before, x)
  BY <1>1, <1>14, <1>17 DEF Leads
<1>19. PICK k : Leads(h, before, k) /\ First(h, before) = h[k]
  BY <1>18, FirstLeads
<1>20. k \in All /\ \A j \in All : ~(r[j] < r[k])
  <2>1. k \in All /\ \A j \in All \ {k} : <<j, k>> \notin before
    BY <1>1, <1>19 DEF Leads
  <2>2. \A j \in All : r[j] \in Nat /\ ~(r[k] < r[k])
    BY <1>9, <2>1
  <2>. QED
    BY <1>16, <2>1, <2>2
<1>21. ASSUME NEW i \in DOMAIN s, s[i].key = "verified" PROVE h[k].key = "verified"
  <2>1. PICK j \in All : h[j] = s[i]
    BY <1>4, <1>21 DEF IsHuman
  <2>2. r[j] = 1 /\ r[k] \in {1, 2} /\ ~(r[j] < r[k])
    BY <1>7, <1>8, <1>20, <1>21, <2>1, RankOfHuman
  <2>3. h[k].key \in {"verified", "manual"} /\ r[k] = Rank(h[k])
    BY <1>5, <1>7, <1>20 DEF IsHuman
  <2>4. r[k] # 2
    BY <2>2
  <2>. QED
    BY <2>3, <2>4, RankOfHuman
<1>22. PICK i \in DOMAIN s : s[i] = h[k] /\ IsHuman(h[k])
  BY <1>5, <1>20
<1>. QED
  BY <1>15, <1>19, <1>21, <1>22

(* A verified value is shown as verified, with the confidence of the floor. *)
LEMMA VerifiedIsShown ==
    ASSUME NEW s, NEW t, Known(s, t), NEW k \in DOMAIN s, s[k].key = "verified"
    PROVE  Status(s, s[k], t) = "USER_VERIFIED" /\ FieldConfidence(s, s[k], t) >= 98
<1>1. PICK w : w = s[k]
  OBVIOUS
<1>2. w \in Claims /\ w.at <= t /\ t \in Nat /\ Len(s) \in Nat /\ DOMAIN s = 1 .. Len(s)
  BY <1>1 DEF Known
<1>3. Verified(s, w)
  BY <1>1 DEF Verified, Agreeing
<1>4. Status(s, w, t) = "USER_VERIFIED"
  BY <1>3 DEF Status
<1>5. IsFiniteSet(DOMAIN s)
  BY <1>2, FS_Interval
<1>6. ASSUME NEW T \in SUBSET DOMAIN s
      PROVE  Cardinality({Group[s[i].key] : i \in T}) \in Nat
  <2>1. IsFiniteSet(T)
    BY <1>5, FS_Subset
  <2>2. IsFiniteSet({Group[s[i].key] : i \in T})
    <3>1. PICK U, f : U = {Group[s[i].key] : i \in T} /\ f = [i \in T |-> Group[s[i].key]]
      OBVIOUS
    <3>2. f \in [T -> U] /\ \A u \in U : \E i \in T : f[i] = u
      BY <3>1
    <3>3. f \in Surjection(T, U)
      BY <3>2 DEF Surjection
    <3>. QED
      BY <2>1, <3>1, <3>3, FS_Surjection
  <2>. QED
    BY <2>2, FS_CardinalityType
<1>7. Cardinality(Dissenting(s, w)) \in Nat
  BY <1>6 DEF Dissenting
<1>8. Cardinality(Corroborating(s, w)) \in Nat
  <2>1. {j \in Agreeing(s, w) : s[j].key # w.key /\ ~Derived(s[j].key, w.key)} \in SUBSET DOMAIN s
    BY DEF Agreeing
  <2>. QED
    BY <1>6, <2>1 DEF Corroborating
<1>9. PICK decay, dissent, earned, lost :
         /\ decay = IF Decays(w.key) THEN t - w.at ELSE 0
         /\ dissent = Cardinality(Dissenting(s, w))
         /\ earned = Capped(3 * Cardinality(Corroborating(s, w)), 8)
         /\ lost = IF dissent = 0 THEN 0 ELSE 10 + 5 * (dissent - 1)
  OBVIOUS
<1>10. w.at \in Nat /\ w.conf \in Nat
  BY <1>2, ScoreOfClaim
<1>11. decay \in Int /\ lost \in Int
  BY <1>2, <1>7, <1>9, <1>10
<1>12. earned \in Int
  <2>1. PICK n : n = Cardinality(Corroborating(s, w))
    OBVIOUS
  <2>2. n \in Nat
    BY <1>8, <2>1
  <2>. QED
    BY <1>9, <2>1, <2>2 DEF Capped
<1>13. PICK e : e = Capped(AtLeast0(w.conf - decay + earned - lost), 100)
  OBVIOUS
<1>14. e \in Int
  <2>1. w.conf - decay + earned - lost \in Int
    BY <1>10, <1>11, <1>12
  <2>. QED
    BY <1>13, <2>1 DEF Capped, AtLeast0
<1>15. FieldConfidence(s, w, t) = IF e < 98 THEN 98 ELSE e
  BY <1>3, <1>9, <1>13 DEF FieldConfidence
<1>16. FieldConfidence(s, w, t) >= 98
  BY <1>14, <1>15
<1>. QED
  BY <1>1, <1>4, <1>16

(* What the invariant says of the values that are stored and shown.        *)
LEMMA ClaimsFollow == part = "claims" /\ ClaimsInv => ShownIsWhatCounts
<1> SUFFICES ASSUME part = "claims", ClaimsInv PROVE ShownIsWhatCounts
  OBVIOUS
<1>1. ASSUME strategy = "HIGHEST_CONFIDENCE", stored # NULL, ~edited,
             EffectiveConfidence(ByConfidence(group, week), week) > 0
      PROVE  ByConfidence(group, week).value = stored
  <2>1. GroupStands(group, week) /\ StoredStands
    BY <1>1 DEF ClaimsInv
  <2>2. PICK t \in 0 .. week, i \in DOMAIN group :
           Known(group, t) /\ Tops(group, t, i) /\ group[i].value = stored
    BY <1>1, <2>1 DEF StoredStands
  <2>3. Known(group, week) /\ week \in Nat /\ group \in Seq(Claims) /\ t <= week
    BY <2>1, <2>2 DEF GroupStands, Known
  <2>4. group # <<>>
    BY <2>2
  <2>5. PICK k : Tops(group, week, k) /\ ByConfidence(group, week) = group[k]
    BY <2>3, <2>4, ByConfidenceTops
  <2>6. Tops(group, t, k)
    BY <1>1, <2>2, <2>3, <2>5, TopHasLed
  <2>7. k = i
    BY <2>2, <2>6, TopsUnique
  <2>. QED
    BY <2>2, <2>5, <2>7
<1>2. ASSUME strategy = "MANUAL_OVERRIDE_FIRST", attested # NULL
      PROVE  /\ Resolved.winner.value = attested /\ Resolved.status = "USER_VERIFIED"
             /\ Resolved.confidence >= 98
  <2>1. GroupStands(group, week) /\ AttestedStands
    BY <1>2 DEF ClaimsInv
  <2>2. PICK i \in DOMAIN group : group[i].key = "verified"
    BY <1>2, <2>1 DEF AttestedStands
  <2>3. IsHuman(group[i])
    BY <2>2 DEF IsHuman
  <2>4. PICK k \in DOMAIN group : Override(group) = group[k] /\ group[k].key = "verified"
    BY <2>1, <2>2, <2>3, OverrideIsHuman
  <2>5. Winner(group, strategy, week) = group[k]
    BY <1>2, <2>3, <2>4 DEF Winner
  <2>6. group[k].value = attested
    BY <1>2, <2>1, <2>4 DEF AttestedStands
  <2>7. Status(group, group[k], week) = "USER_VERIFIED" /\ FieldConfidence(group, group[k], week) >= 98
    BY <2>1, <2>4, VerifiedIsShown DEF GroupStands
  <2>8. /\ Resolved.winner = Winner(group, strategy, week)
        /\ Resolved.status = Status(group, Winner(group, strategy, week), week)
        /\ Resolved.confidence = FieldConfidence(group, Winner(group, strategy, week), week)
    BY DEF Resolved
  <2>. QED
    BY <2>5, <2>6, <2>7, <2>8
<1>. QED
  BY <1>1, <1>2 DEF ShownIsWhatCounts, StoredIsShown, VerifiedStands

(* A page shows a claim.                                                    *)
LEMMA WinnerIsClaim ==
    ASSUME NEW s, NEW t, GroupStands(s, t), s # <<>>,
           NEW how \in {"HIGHEST_CONFIDENCE", "MANUAL_OVERRIDE_FIRST"}
    PROVE  Winner(s, how, t) \in Claims
<1>1. Known(s, t) /\ \A i \in DOMAIN s : s[i] \in Claims
  BY DEF GroupStands, Known
<1>2. CASE how = "MANUAL_OVERRIDE_FIRST" /\ \E i \in DOMAIN s : IsHuman(s[i])
  <2>1. Winner(s, how, t) = Override(s)
    BY <1>2 DEF Winner
  <2>. QED
    BY <1>1, <1>2, <2>1, OverrideIsHuman
<1>3. CASE ~(how = "MANUAL_OVERRIDE_FIRST" /\ \E i \in DOMAIN s : IsHuman(s[i]))
  <2>1. Winner(s, how, t) = ByConfidence(s, t)
    BY <1>3 DEF Winner
  <2>2. PICK i : Tops(s, t, i) /\ ByConfidence(s, t) = s[i]
    BY <1>1, ByConfidenceTops
  <2>. QED
    BY <1>1, <2>1, <2>2 DEF Tops
<1>. QED
  BY <1>2, <1>3

LEMMA NewClaim ==
    ASSUME NEW k \in Keys, NEW by \in Members \cup {NULL}, NEW v \in Shades, week \in Nat
    PROVE  /\ Claimed(k, by, v) \in Claims /\ Claimed(k, by, v).at = week
           /\ Claimed(k, by, v).key = k /\ Claimed(k, by, v).by = by /\ Claimed(k, by, v).value = v
<1>1. Reliability[k] \in 0 .. 100
  BY DEF Keys, Reliability
<1>. QED
  BY <1>1 DEF Claimed, Claims

(* One more claim, at the end.                                              *)
OneMore(u, s, c) ==
    \A d : (\E i \in DOMAIN u : u[i] = d) <=> (d = c \/ \E i \in DOMAIN s : s[i] = d)

LEMMA Appended ==
    ASSUME NEW s, NEW t, GroupStands(s, t), NEW c \in Claims, c.at <= t,
           IsHuman(c) => c.by \in Members, NEW u, u = Append(s, c)
    PROVE  /\ GroupStands(u, t) /\ u # <<>>
           /\ OneMore(u, s, c)
<1>1. s \in Seq(Claims) /\ t \in Nat /\ Len(s) \in Nat /\ DOMAIN s = 1 .. Len(s)
  BY DEF GroupStands, Known
<1>2. /\ u \in Seq(Claims) /\ Len(u) = Len(s) + 1 /\ u[Len(s) + 1] = c
      /\ \A i \in 1 .. Len(s) : u[i] = s[i]
  BY <1>1, AppendProperties
<1>3. DOMAIN u = 1 .. Len(s) + 1
  BY <1>2
<1>4. \A i : i \in DOMAIN u <=> (i \in DOMAIN s \/ i = Len(s) + 1)
  BY <1>1, <1>3
<1>5. u # <<>>
  BY <1>1, <1>2
<1>6. \A d : (\E i \in DOMAIN u : u[i] = d) <=> (d = c \/ \E i \in DOMAIN s : s[i] = d)
  BY <1>1, <1>2, <1>4
<1>7. \A i \in DOMAIN u : u[i].at <= t /\ (IsHuman(u[i]) => u[i].by \in Members)
  <2>1. SUFFICES ASSUME NEW i \in DOMAIN u
                 PROVE  u[i].at <= t /\ (IsHuman(u[i]) => u[i].by \in Members)
    OBVIOUS
  <2>2. CASE u[i] = c
    BY <2>2
  <2>3. CASE \E j \in DOMAIN s : s[j] = u[i]
    BY <2>3 DEF GroupStands, Known
  <2>. QED
    BY <1>6, <2>1, <2>2, <2>3
<1>. QED
  BY <1>1, <1>2, <1>5, <1>6, <1>7 DEF GroupStands, Known, OneMore

(* A connector's claim in place of its last ones. *)
Put(u, s, c, old) == \A i \in DOMAIN s : u[i] = IF i \in old THEN c ELSE s[i]

LEMMA InPlace ==
    ASSUME NEW s, NEW t, GroupStands(s, t), NEW c \in Claims, c.at <= t, ~IsHuman(c),
           NEW old \in SUBSET DOMAIN s, old # {},
           NEW u, u = [i \in DOMAIN s |-> IF i \in old THEN c ELSE s[i]]
    PROVE  /\ GroupStands(u, t) /\ u # <<>> /\ DOMAIN u = DOMAIN s
           /\ Put(u, s, c, old)
<1>1. s \in Seq(Claims) /\ t \in Nat /\ Len(s) \in Nat /\ DOMAIN s = 1 .. Len(s)
  BY DEF GroupStands, Known
<1>2. DOMAIN u = DOMAIN s /\ \A i \in DOMAIN s : u[i] = IF i \in old THEN c ELSE s[i]
  OBVIOUS
<1>3. \A i \in DOMAIN s : s[i] \in Claims /\ s[i].at <= t /\ (IsHuman(s[i]) => s[i].by \in Members)
  BY <1>1 DEF GroupStands, Known
<1>4. ASSUME NEW i \in DOMAIN u
      PROVE  u[i] \in Claims /\ u[i].at <= t /\ (IsHuman(u[i]) => u[i].by \in Members)
  BY <1>2, <1>3, <1>4
<1>5. u \in Seq(Claims)
  <2>1. u \in [1 .. Len(s) -> Claims]
    BY <1>1, <1>2, <1>4
  <2>. QED
    BY <1>1, <2>1
<1>6. u # <<>>
  BY <1>2
<1>. QED
  BY <1>1, <1>2, <1>4, <1>5, <1>6 DEF GroupStands, Known, Put

(* The verified claims stay the ones they were.                             *)
SameVerified(u) ==
    /\ \A i \in DOMAIN u : u[i].key = "verified" => \E j \in DOMAIN group : group[j] = u[i]
    /\ \A j \in DOMAIN group : group[j].key = "verified" => \E i \in DOMAIN u : u[i] = group[j]

LEMMA AttestedStaysTrue ==
    ASSUME AttestedStands, attested' = attested, NEW u, u = group', SameVerified(u)
    PROVE  AttestedStands'
<1> SUFFICES ASSUME attested # NULL
             PROVE  /\ \E i \in DOMAIN u : u[i].key = "verified"
                    /\ \A i \in DOMAIN u : u[i].key = "verified" => u[i].value = attested
  BY DEF AttestedStands
<1>1. PICK j \in DOMAIN group : group[j].key = "verified"
  BY DEF AttestedStands
<1>2. PICK i \in DOMAIN u : u[i] = group[j]
  BY <1>1 DEF SameVerified
<1>3. ASSUME NEW k \in DOMAIN u, u[k].key = "verified" PROVE u[k].value = attested
  <2>1. PICK l \in DOMAIN group : group[l] = u[k]
    BY <1>3 DEF SameVerified
  <2>. QED
    BY <1>3, <2>1 DEF AttestedStands
<1>. QED
  BY <1>1, <1>2, <1>3

LEMMA IngestKeepsClaims ==
    ASSUME ClaimsInv, NEW k \in Claimants, NEW v \in Shades, Ingest(k, v)
    PROVE  ClaimsInv'
<1> SUFFICES ASSUME strategy' \in {"HIGHEST_CONFIDENCE", "MANUAL_OVERRIDE_FIRST"}
             PROVE  (GroupStands(group, week) /\ edited \in BOOLEAN /\ StoredStands
                     /\ AttestedStands /\ ShownStand)'
  BY DEF ClaimsInv
<1>1. /\ strategy' = strategy /\ week' = week /\ shown' = shown /\ attested' = attested
      /\ edited' = FALSE
  BY DEF Ingest
<1>2. GroupStands(group, week) /\ AttestedStands /\ ShownStand
  BY <1>1 DEF ClaimsInv
<1>3. PICK c : c = Claimed(k, NULL, v)
  OBVIOUS
<1>4. /\ k \in Keys /\ k # "verified" /\ k # "manual" /\ week \in Nat /\ NULL \in Members \cup {NULL}
      /\ group \in Seq(Claims) /\ Len(group) \in Nat /\ DOMAIN group = 1 .. Len(group)
  BY <1>2, ClaimsAssumption DEF GroupStands, Known
<1>5. c \in Claims /\ c.at = week /\ c.at <= week /\ c.key = k /\ ~IsHuman(c)
  <2>1. c \in Claims /\ c.at = week /\ c.key = k
    <3>1. PICK by : by = NULL /\ by \in Members \cup {NULL}
      OBVIOUS
    <3>2. Claimed(k, by, v) \in Claims /\ Claimed(k, by, v).at = week /\ Claimed(k, by, v).key = k
      <4>1. k \in Keys /\ week \in Nat /\ v \in Shades
        BY <1>4
      <4>. QED
        BY <3>1, <4>1, NewClaim
    <3>. QED
      BY <1>3, <3>1, <3>2
  <2>. QED
    BY <1>4, <2>1 DEF IsHuman
<1>6. PICK u, old : /\ u = group' /\ old = {i \in DOMAIN group : group[i].key = k}
                    /\ u = IF old = {} THEN Append(group, c)
                           ELSE [i \in DOMAIN group |-> IF i \in old THEN c ELSE group[i]]
                    /\ stored' = ByConfidence(u, week).value
  BY <1>3 DEF Ingest
<1>7. /\ GroupStands(u, week) /\ u # <<>>
      /\ \A d : d.key = "verified" => ((\E i \in DOMAIN u : u[i] = d) <=> \E i \in DOMAIN group : group[i] = d)
  <2>1. CASE old = {}
    <3>1. u = Append(group, c)
      BY <1>6, <2>1
    <3>2. /\ GroupStands(u, week) /\ u # <<>>
          /\ \A d : (\E i \in DOMAIN u : u[i] = d) <=> (d = c \/ \E i \in DOMAIN group : group[i] = d)
      <4>1. GroupStands(u, week) /\ u # <<>> /\ OneMore(u, group, c)
        BY <1>2, <1>5, <3>1, Appended
      <4>. QED
        BY <4>1 DEF OneMore
    <3>. QED
      BY <1>4, <1>5, <3>2
  <2>2. CASE old # {}
    <3>1. u = [i \in DOMAIN group |-> IF i \in old THEN c ELSE group[i]] /\ old \in SUBSET DOMAIN group
      BY <1>6, <2>2
    <3>2. /\ GroupStands(u, week) /\ u # <<>> /\ DOMAIN u = DOMAIN group
          /\ \A i \in DOMAIN group : u[i] = IF i \in old THEN c ELSE group[i]
      <4>1. GroupStands(u, week) /\ u # <<>> /\ DOMAIN u = DOMAIN group /\ Put(u, group, c, old)
        BY <1>2, <1>5, <2>2, <3>1, InPlace
      <4>. QED
        BY <4>1 DEF Put
    <3>. QED
      BY <1>4, <1>5, <1>6, <3>2
  <2>. QED
    BY <2>1, <2>2
<1>8. StoredStands'
  <2>1. Known(u, week)
    BY <1>7 DEF GroupStands
  <2>2. PICK i : Tops(u, week, i) /\ ByConfidence(u, week) = u[i]
    BY <1>7, <2>1, ByConfidenceTops
  <2>3. i \in DOMAIN u /\ week \in 0 .. week
    BY <1>4, <2>2 DEF Tops
  <2>. QED
    BY <1>1, <1>6, <2>1, <2>2, <2>3 DEF StoredStands
<1>9. AttestedStands'
  <2>1. \A i \in DOMAIN u : u[i].key = "verified" => \E j \in DOMAIN group : group[j] = u[i]
    BY <1>7
  <2>2. \A j \in DOMAIN group : group[j].key = "verified" => \E i \in DOMAIN u : u[i] = group[j]
    BY <1>7
  <2>. QED
    BY <1>1, <1>2, <1>6, <2>1, <2>2, AttestedStaysTrue DEF SameVerified
<1>. QED
  BY <1>1, <1>2, <1>6, <1>7, <1>8, <1>9 DEF ShownStand

(* A person's edit, verification or revert: some claims go, one may come.   *)
LEMMA PersonKeepsClaims ==
    ASSUME ClaimsInv, NEW m \in Members, Leaves(m), strategy' = strategy, week' = week,
           strategy \in {"HIGHEST_CONFIDENCE", "MANUAL_OVERRIDE_FIRST"}
    PROVE  ShownStand'
<1>1. ShownStand
  BY DEF ClaimsInv
<1>. QED
  BY <1>1 DEF ShownStand, Leaves

LEMMA SaveKeepsClaims ==
    ASSUME ClaimsInv, NEW m \in Members, NEW v \in Shades, SaveEdit(m, v)
    PROVE  ClaimsInv'
<1> SUFFICES ASSUME strategy' \in {"HIGHEST_CONFIDENCE", "MANUAL_OVERRIDE_FIRST"}
             PROVE  (GroupStands(group, week) /\ edited \in BOOLEAN /\ StoredStands
                     /\ AttestedStands /\ ShownStand)'
  BY DEF ClaimsInv
<1>1. strategy' = strategy /\ week' = week /\ attested' = attested /\ edited' = TRUE /\ Leaves(m)
  BY DEF SaveEdit
<1>2. GroupStands(group, week) /\ AttestedStands /\ ShownStand'
  BY <1>1, PersonKeepsClaims DEF ClaimsInv
<1>3. PICK left, c, u, keep :
         /\ keep = {d \in Claims : ~(d.key = "manual" /\ d.by \in {m})} /\ left = Only(group, keep)
         /\ c = Claimed("manual", m, v) /\ u = group' /\ u = Append(left, c)
  BY DEF SaveEdit, Without
<1>4. /\ GroupStands(left, week)
      /\ \A d : (\E j \in DOMAIN left : left[j] = d) <=> (d \in keep /\ \E i \in DOMAIN group : group[i] = d)
  <2>1. GroupStands(left, week) /\ LeftOf(left, group, keep)
    BY <1>2, <1>3, OnlyStands
  <2>. QED
    BY <2>1 DEF LeftOf
<1>5. week \in Nat /\ \A i \in DOMAIN group : group[i] \in Claims
  BY <1>2 DEF GroupStands, Known
<1>6. c \in Claims /\ c.at <= week /\ c.key = "manual" /\ c.by = m
  <2>1. "manual" \in Keys /\ m \in Members \cup {NULL}
    BY DEF Keys
  <2>2. c \in Claims /\ c.at = week /\ c.key = "manual" /\ c.by = m
    BY <1>3, <1>5, <2>1, NewClaim
  <2>. QED
    BY <1>5, <2>2
<1>7. /\ GroupStands(u, week)
      /\ \A d : (\E i \in DOMAIN u : u[i] = d) <=> (d = c \/ \E i \in DOMAIN left : left[i] = d)
  <2>1. GroupStands(u, week) /\ OneMore(u, left, c)
    <3>1. (IsHuman(c) => c.by \in Members) /\ u = Append(left, c)
      BY <1>3, <1>6
    <3>. QED
      BY <1>4, <1>6, <3>1, Appended
  <2>. QED
    BY <2>1 DEF OneMore
<1>8. AttestedStands'
  <2>1. ASSUME NEW i \in DOMAIN u, u[i].key = "verified" PROVE \E j \in DOMAIN group : group[j] = u[i]
    <3>1. u[i] # c
      BY <1>6, <2>1
    <3>2. \E l \in DOMAIN left : left[l] = u[i]
      BY <1>7, <3>1
    <3>. QED
      BY <1>4, <3>2
  <2>2. \A j \in DOMAIN group : group[j].key = "verified" => group[j] \in keep
    BY <1>3, <1>5
  <2>3. ASSUME NEW j \in DOMAIN group, group[j].key = "verified" PROVE \E i \in DOMAIN u : u[i] = group[j]
    <3>1. \E l \in DOMAIN left : left[l] = group[j]
      BY <1>4, <2>2, <2>3
    <3>. QED
      BY <1>7, <3>1
  <2>4. SameVerified(u)
    BY <2>1, <2>3 DEF SameVerified
  <2>. QED
    BY <1>1, <1>2, <1>3, <2>4, AttestedStaysTrue
<1>. QED
  BY <1>1, <1>2, <1>3, <1>7, <1>8 DEF StoredStands

LEMMA VerifyKeepsClaims ==
    ASSUME ClaimsInv, NEW m \in Members, VerifyShown(m)
    PROVE  ClaimsInv'
<1> SUFFICES ASSUME strategy' \in {"HIGHEST_CONFIDENCE", "MANUAL_OVERRIDE_FIRST"}
             PROVE  (GroupStands(group, week) /\ edited \in BOOLEAN /\ StoredStands
                     /\ AttestedStands /\ ShownStand)'
  BY DEF ClaimsInv
<1>1. strategy' = strategy /\ week' = week /\ edited' = TRUE /\ Leaves(m)
  BY DEF VerifyShown
<1>2. GroupStands(group, week) /\ ShownStand /\ ShownStand'
  BY <1>1, PersonKeepsClaims DEF ClaimsInv
<1>3. PICK v : v = shown[m].winner.value
  OBVIOUS
<1>4. v \in Shades
  BY <1>2, <1>3 DEF VerifyShown, ShownStand, Claims
<1>5. PICK left, c, u, keep :
         /\ keep = {d \in Claims : ~(d.key = "verified" /\ d.by \in Members)} /\ left = Only(group, keep)
         /\ c = Claimed("verified", m, v) /\ u = group' /\ u = Append(left, c) /\ attested' = v
  BY <1>3 DEF VerifyShown, Without
<1>6. /\ GroupStands(left, week)
      /\ \A d : (\E j \in DOMAIN left : left[j] = d) <=> (d \in keep /\ \E i \in DOMAIN group : group[i] = d)
  <2>1. GroupStands(left, week) /\ LeftOf(left, group, keep)
    BY <1>2, <1>5, OnlyStands
  <2>. QED
    BY <2>1 DEF LeftOf
<1>7. week \in Nat
  BY <1>2 DEF GroupStands, Known
<1>8. c \in Claims /\ c.at <= week /\ c.key = "verified" /\ c.by = m /\ c.value = v
  <2>1. "verified" \in Keys /\ m \in Members \cup {NULL}
    BY DEF Keys
  <2>2. c \in Claims /\ c.at = week /\ c.key = "verified" /\ c.by = m /\ c.value = v
    BY <1>4, <1>5, <1>7, <2>1, NewClaim
  <2>. QED
    BY <1>7, <2>2
<1>9. /\ GroupStands(u, week)
      /\ \A d : (\E i \in DOMAIN u : u[i] = d) <=> (d = c \/ \E i \in DOMAIN left : left[i] = d)
  <2>1. GroupStands(u, week) /\ OneMore(u, left, c)
    <3>1. (IsHuman(c) => c.by \in Members) /\ u = Append(left, c)
      BY <1>5, <1>8
    <3>. QED
      BY <1>6, <1>8, <3>1, Appended
  <2>. QED
    BY <2>1 DEF OneMore
<1>10. AttestedStands'
  <2>1. ASSUME NEW j \in DOMAIN left PROVE left[j].key # "verified"
    <3>1. left[j] \in keep /\ (IsHuman(left[j]) => left[j].by \in Members)
      BY <1>6, <2>1 DEF GroupStands
    <3>. QED
      BY <1>5, <3>1 DEF IsHuman
  <2>2. \A i \in DOMAIN u : u[i].key = "verified" => u[i] = c
    BY <1>9, <2>1
  <2>3. \E i \in DOMAIN u : u[i] = c
    BY <1>9
  <2>. QED
    BY <1>5, <1>8, <2>2, <2>3 DEF AttestedStands
<1>. QED
  BY <1>1, <1>2, <1>5, <1>9, <1>10 DEF StoredStands

LEMMA RevertKeepsClaims ==
    ASSUME ClaimsInv, NEW m \in Members, RevertShown(m)
    PROVE  ClaimsInv'
<1> SUFFICES ASSUME strategy' \in {"HIGHEST_CONFIDENCE", "MANUAL_OVERRIDE_FIRST"}
             PROVE  (GroupStands(group, week) /\ edited \in BOOLEAN /\ StoredStands
                     /\ AttestedStands /\ ShownStand)'
  BY DEF ClaimsInv
<1>1. /\ strategy' = strategy /\ week' = week /\ attested' = attested /\ stored' = stored
      /\ edited' = (edited \/ group' # group) /\ Leaves(m)
  BY DEF RevertShown
<1>2. GroupStands(group, week) /\ AttestedStands /\ StoredStands /\ edited \in BOOLEAN /\ ShownStand'
  BY <1>1, PersonKeepsClaims DEF ClaimsInv
<1>3. PICK by : by = shown[m].winner.by
  OBVIOUS
<1>4. PICK keep, u : /\ keep = {d \in Claims : ~(d.key = "manual" /\ d.by \in {by})}
                     /\ u = group' /\ u = Only(group, keep)
  BY <1>3 DEF RevertShown, Without
<1>5. /\ GroupStands(u, week)
      /\ \A d : (\E j \in DOMAIN u : u[j] = d) <=> (d \in keep /\ \E i \in DOMAIN group : group[i] = d)
  <2>1. GroupStands(u, week) /\ LeftOf(u, group, keep)
    BY <1>2, <1>4, OnlyStands
  <2>. QED
    BY <2>1 DEF LeftOf
<1>6. AttestedStands'
  <2>1. \A i \in DOMAIN group : group[i] \in Claims
    BY <1>2 DEF GroupStands, Known
  <2>2. \A j \in DOMAIN group : group[j].key = "verified" => group[j] \in keep
    BY <1>4, <2>1
  <2>3. \A j \in DOMAIN group : group[j].key = "verified" => \E i \in DOMAIN u : u[i] = group[j]
    BY <1>5, <2>2
  <2>4. \A i \in DOMAIN u : \E j \in DOMAIN group : group[j] = u[i]
    BY <1>5
  <2>5. SameVerified(u)
    BY <2>3, <2>4 DEF SameVerified
  <2>. QED
    BY <1>1, <1>2, <1>4, <2>5, AttestedStaysTrue
<1>7. StoredStands'
  <2>1. CASE group' = group
    BY <1>1, <1>2, <2>1 DEF StoredStands
  <2>2. CASE group' # group
    BY <1>1, <2>2 DEF StoredStands
  <2>. QED
    BY <2>1, <2>2
<1>. QED
  BY <1>1, <1>2, <1>4, <1>5, <1>6, <1>7

LEMMA WeeksKeepClaims ==
    ASSUME ClaimsInv, NEW n \in Waits, WeeksPass(n)
    PROVE  ClaimsInv'
<1> SUFFICES ASSUME strategy' \in {"HIGHEST_CONFIDENCE", "MANUAL_OVERRIDE_FIRST"}
             PROVE  (GroupStands(group, week) /\ edited \in BOOLEAN /\ StoredStands
                     /\ AttestedStands /\ ShownStand)'
  BY DEF ClaimsInv
<1>1. /\ strategy' = strategy /\ week' = week + n /\ attested' = attested /\ stored' = stored
      /\ edited' = edited /\ group' = group /\ shown' = shown
  BY DEF WeeksPass
<1>2. GroupStands(group, week) /\ AttestedStands /\ StoredStands /\ edited \in BOOLEAN /\ ShownStand
  BY <1>1 DEF ClaimsInv
<1>3. PICK w : w = week + n
  OBVIOUS
<1>4. week \in Nat /\ w \in Nat /\ week <= w /\ group \in Seq(Claims)
  BY <1>2, <1>3, ClaimsAssumption DEF GroupStands, Known
<1>5. GroupStands(group, w)
  <2>1. ASSUME NEW i \in DOMAIN group PROVE group[i].at <= w
    <3>1. group[i] \in Claims /\ group[i].at <= week
      BY <1>2, <2>1 DEF GroupStands, Known
    <3>2. group[i].at \in Nat
      BY <1>4, <3>1, ScoreOfClaim
    <3>. QED
      BY <1>4, <3>1, <3>2
  <2>. QED
    BY <1>2, <1>4, <2>1 DEF GroupStands, Known
<1>6. StoredStands'
  <2>1. \A t \in 0 .. week : t \in 0 .. w
    BY <1>4
  <2>. QED
    BY <1>1, <1>2, <1>3, <2>1 DEF StoredStands
<1>. QED
  BY <1>1, <1>2, <1>3, <1>5, <1>6 DEF AttestedStands, ShownStand

LEMMA PageKeepsClaims ==
    ASSUME ClaimsInv, NEW m \in Members, OpenPage(m)
    PROVE  ClaimsInv'
<1> SUFFICES ASSUME strategy' \in {"HIGHEST_CONFIDENCE", "MANUAL_OVERRIDE_FIRST"}
             PROVE  (GroupStands(group, week) /\ edited \in BOOLEAN /\ StoredStands
                     /\ AttestedStands /\ ShownStand)'
  BY DEF ClaimsInv
<1>1. /\ strategy' = strategy /\ week' = week /\ attested' = attested /\ stored' = stored
      /\ edited' = edited /\ group' = group /\ group # <<>>
  BY DEF OpenPage
<1>2. GroupStands(group, week) /\ AttestedStands /\ StoredStands /\ edited \in BOOLEAN /\ ShownStand
  BY <1>1 DEF ClaimsInv
<1>3. PICK r : r = Resolved
  OBVIOUS
<1>4. r.winner \in Claims
  <2>1. r.winner = Winner(group, strategy, week)
    BY <1>3 DEF Resolved
  <2>. QED
    BY <1>1, <1>2, <2>1, WinnerIsClaim
<1>5. shown' = [shown EXCEPT ![m] = r]
  BY <1>3 DEF OpenPage
<1>6. ShownStand'
  BY <1>2, <1>4, <1>5 DEF ShownStand
<1>. QED
  BY <1>1, <1>2, <1>6 DEF StoredStands, AttestedStands

LEMMA ClaimsStep ==
    ASSUME ClaimsInv, ValuesNext \/ UNCHANGED valueVars
    PROVE  ClaimsInv'
<1>1. CASE UNCHANGED valueVars
  BY <1>1 DEF valueVars, ClaimsInv, StoredStands, AttestedStands, ShownStand
<1>. QED
  BY <1>1, IngestKeepsClaims, WeeksKeepClaims, PageKeepsClaims, SaveKeepsClaims, VerifyKeepsClaims,
     RevertKeepsClaims DEF ValuesNext

(* What the page of an entity shows is what counts: what was stored, or what *)
(* people decided (ClaimService.resolveProperty(), pickByStrategy()).         *)
THEOREM WhatCountsIsShown == Spec => []ShownIsWhatCounts
<1> DEFINE Inv == part = "claims" => ClaimsInv
<1>1. Init => Inv
  BY ClaimsInitInv DEF Init
<1>2. Inv /\ [Next]_vars => Inv'
  <2>1. part = "claims" /\ [Next]_vars => ValuesNext \/ UNCHANGED valueVars
    BY DEF Next, vars
  <2>. QED
    BY <2>1, PartKept, ClaimsStep
<1>3. Inv => ShownIsWhatCounts
  BY ClaimsFollow DEF ShownIsWhatCounts, StoredIsShown, VerifiedStands
<1>. QED
  BY <1>1, <1>2, <1>3, PTL DEF Spec
=============================================================================
