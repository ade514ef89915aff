----------------------------- MODULE GraphEdits ------------------------------
(***************************************************************************)
(* What people do to the graph through the api-server: manual claims and   *)
(* verifications of one property, the review of overrides a connector      *)
(* contradicts, and the reconciliation of nodes that are the same thing    *)
(* (services manual-edit, verification and reconciliation, with their      *)
(* routes).                                                                *)
(*                                                                         *)
(* A write transaction is one action; what a request reads before its      *)
(* transaction is an action of its own, with the request pending between.  *)
(* The connector's writes are GraphWriter's, here one step each.  `now` is *)
(* the api-server's clock; an edit takes a tick, so it names its event.    *)
(***************************************************************************)
EXTENDS Platform, FiniteSetsExt

CONSTANTS
    Nodes,
    Users,
    Values,
    Skew,       \* how far the connector's clock is ahead
    Candidates, \* bound: candidate records
    MaxEdits,   \* bound: edits of claims and emitted events
    MaxSyncs,   \* bound: the connector's writes
    OverlapReviews     \* whether the reviewers' requests may overlap

ASSUME EditsAssumption ==
    /\ NULL \notin Nodes \cup Users \cup Values
    /\ {Skew, MaxEdits, MaxSyncs} \subseteq Nat /\ OverlapReviews \in BOOLEAN

VARIABLES
    edits, syncs,
    claims,     \* per node: its set of claims
    hidden,     \* per node: _deleted
    events,     \* GraphEditEvents and VerificationEvents, each on the node it hangs on
    cand,       \* per candidate id: the candidate, or NULL
    distinct,   \* pairs marked DISTINCT_FROM
    merges,     \* MergeEvents
    pending,    \* the reviewer's request between its read and its transaction, or NULL
    told        \* per user and node: the manual value the user was told is set (history)

editVars == <<claims, told>>
mergeVars == <<hidden, cand, distinct, merges, pending>>
graphEditVars == <<edits, syncs, editVars, mergeVars, events>>

Pairs == {p \in SUBSET Nodes : Cardinality(p) = 2}

EditsInit ==
    /\ edits = 0 /\ syncs = 0
    /\ claims = [n \in Nodes |-> {}]
    /\ hidden = [n \in Nodes |-> FALSE]
    /\ events = {}
    /\ cand = [c \in Candidates |-> NULL]
    /\ distinct = {}
    /\ merges = <<>>
    /\ pending = NULL
    /\ told = [u \in Users |-> [n \in Nodes |-> NULL]]

now == 1 + edits + syncs
Tick == edits < MaxEdits /\ edits' = edits + 1 /\ UNCHANGED syncs

(* recordEvent(): an event on a node, here with the node it was recorded for. *)
Event(kind, n, about) == [id |-> now, kind |-> kind, origin |-> n, on |-> n, about |-> about]
RecordEvent(kind, n, about) == events' = events \cup {Event(kind, n, about)}

-----------------------------------------------------------------------------
(* Claims.  `by` and `user` are the source, `id` the node of the source_id. *)
Claim(by, u, n, v, at) == [by |-> by, user |-> u, id |-> n, value |-> v, at |-> at]
Human(c) == c.by \in {"manual", "verified"}
SameSource(c, d) == c.by = d.by /\ c.user = d.user
Identity(c) == <<c.by, c.user, c.id>>

(* pickManualOverride(): verified before manual, then the latest; equals all. *)
Overrides(n) ==
    LET human == {c \in claims[n] : Human(c)}
        top == IF \E c \in human : c.by = "verified"
               THEN {c \in human : c.by = "verified"} ELSE human
    IN {c \in top : \A d \in top : d.at <= c.at}

(* A connector's claim that differs from the override and is newer. *)
Contradicting(n, o) == {c \in claims[n] : ~Human(c) /\ c.value # o.value /\ c.at > o.at}
InReview(n) == \E o \in Overrides(n) : Contradicting(n, o) # {}

(* The connector's write, where it changes the claim (mergeClaims()). *)
ConnectorSync(n, v) ==
    /\ syncs < MaxSyncs /\ syncs' = syncs + 1
    /\ claims' = [claims EXCEPT ![n] = {c \in @ : Human(c)}
                                         \cup {Claim("connector", NULL, n, v, now + Skew)}]
    /\ UNCHANGED <<edits, told, mergeVars, events>>

(* setManualClaim(): replaces the user's claim, whatever node it was made on. *)
SetManualClaim(u, n, v) ==
    /\ Tick
    /\ LET claim == Claim("manual", u, n, v, now)
       IN claims' = [claims EXCEPT ![n] = {c \in @ : ~SameSource(c, claim)} \cup {claim}]
    /\ told' = [told EXCEPT ![u][n] = v]
    /\ RecordEvent("manual_set", n, NULL)
    /\ UNCHANGED <<mergeVars>>

RevertManualClaim(u, n) ==
    /\ Tick
    /\ \E c \in claims[n] : c.by = "manual" /\ c.user = u
    /\ claims' = [claims EXCEPT ![n] = {c \in @ : ~(c.by = "manual" /\ c.user = u)}]
    /\ told' = [told EXCEPT ![u][n] = NULL]
    /\ RecordEvent("manual_revert", n, NULL)
    /\ UNCHANGED <<mergeVars>>

(* verify() replaces the verification made on this node, by whomever. *)
Replaced(n) == {c \in claims[n] : c.by = "verified" /\ c.id = n}

Verify(u, n, v) ==
    /\ Tick
    /\ claims' = [claims EXCEPT ![n] = (@ \ Replaced(n)) \cup {Claim("verified", u, n, v, now)}]
    /\ RecordEvent("verified", n, NULL)
    /\ UNCHANGED <<told, mergeVars>>

(* A time later than every claim of the node, also one from a clock ahead. *)
PinTime(n) == Max({now} \cup {c.at + 1 : c \in claims[n]})

(* resolveReview(): the override is pinned again, with the newest contradicting *)
(* value if that is accepted, so that it leaves the queue.                      *)
ResolveReview(n, accept) ==
    /\ Tick
    /\ \E o \in Overrides(n) :
         LET newer == Contradicting(n, o)
             value == IF accept /\ newer # {}
                      THEN (CHOOSE c \in newer : \A d \in newer : d.at <= c.at).value
                      ELSE o.value
             pinned == {c \in claims[n] : SameSource(c, o)}
         IN /\ claims' = [claims EXCEPT ![n] = (@ \ pinned) \cup
                            {[c EXCEPT !.value = value, !.at = PinTime(n)] : c \in pinned}]
            /\ told' = IF o.by = "manual" /\ told[o.user][n] # NULL
                       THEN [told EXCEPT ![o.user][n] = value] ELSE told
    /\ RecordEvent("resolved", n, NULL)
    /\ UNCHANGED <<mergeVars>>

Contradicted == {<<e.origin, e.about>> : e \in {x \in events : x.kind = "contradicted"}}

(* listReviewQueue(), for one row: a `contradicted` event, unless there is one *)
(* of this value (emitContradictions(), whose failure is swallowed).           *)
ListReviewQueue(n) ==
    /\ Tick
    /\ \E o \in Overrides(n) : \E c \in Contradicting(n, o) :
         <<n, c.value>> \notin Contradicted /\ RecordEvent("contradicted", n, c.value)
    /\ UNCHANGED <<editVars, mergeVars>>

-----------------------------------------------------------------------------
(* Reconciliation. *)
(* loadSkipPairs(): what was decided and what is pending. *)
SkipPairs ==
    distinct \cup {cand[c].pair : c \in {d \in Candidates : cand[d] # NULL
                                   /\ cand[d].status \in {"pending", "rejected", "confirmed"}}}

(* One reviewer at a time, unless OverlapReviews. *)
Alone == OverlapReviews \/ pending = NULL

(* scan(), for one pair: visible nodes that are alike (any) and not to be skipped. *)
(* One scan runs at a time; nothing then makes its reads stale before the write.   *)
Scan(c) ==
    /\ cand[c] = NULL
    /\ \E p \in Pairs \ SkipPairs :
         /\ \A n \in p : ~hidden[n]
         /\ cand' = [cand EXCEPT ![c] = [pair |-> p, status |-> "pending"]]
    /\ UNCHANGED <<edits, syncs, editVars, hidden, distinct, merges, pending, events>>

Pending(c) == cand[c] # NULL /\ cand[c].status = "pending"

(* resetPending() *)
ResetPending ==
    /\ Alone
    /\ \E c \in Candidates : Pending(c)
    /\ cand' = [c \in Candidates |-> IF Pending(c) THEN NULL ELSE cand[c]]
    /\ UNCHANGED <<edits, syncs, editVars, hidden, distinct, merges, pending, events>>

Reject(c) ==
    /\ Alone
    /\ Pending(c)
    /\ cand' = [cand EXCEPT ![c].status = "rejected"]
    /\ UNCHANGED <<edits, syncs, editVars, hidden, distinct, merges, pending, events>>

(* getCandidate(), with which confirmMerge() and markDistinct() begin, and the *)
(* survivor pickSurvivor() takes from the properties: either.                  *)
ReadCandidate(c, op) ==
    /\ pending = NULL
    /\ Pending(c)
    /\ \E s \in cand[c].pair :
         pending' = [op |-> op, cand |-> c, survivor |-> s,
                     loser |-> CHOOSE l \in cand[c].pair : l # s]
    /\ UNCHANGED <<edits, syncs, editVars, hidden, cand, distinct, merges, events>>

(* migrateHumanClaims(): the loser's, but those whose identity the survivor has. *)
MigrateHumanClaims(loser, survivor) ==
    {c \in claims[loser] : Human(c)
        /\ \A d \in claims[survivor] : Identity(d) # Identity(c)}

Repoint(from, to, ids) ==
    events' = {IF e.on = from /\ e.id \in ids THEN [e EXCEPT !.on = to] ELSE e : e \in events}

(* confirmMerge()'s transaction.  The merge event, the hiding of the loser and *)
(* the candidate's status are one statement, which matches the candidate.      *)
ConfirmMerge ==
    /\ pending # NULL /\ pending.op = "confirm"
    /\ LET s == pending.survivor
           l == pending.loser
           moved == MigrateHumanClaims(l, s)
           ids == {e.id : e \in {x \in events : x.on = l}}
       IN /\ claims' = [claims EXCEPT ![s] = @ \cup moved]
          /\ Repoint(l, s, ids)
          /\ IF cand[pending.cand] = NULL THEN UNCHANGED <<merges, hidden, cand>>
             ELSE /\ merges' = Append(merges, [survivor |-> s, loser |-> l, reversed |-> FALSE,
                                   moved |-> {Identity(c) : c \in moved}, events |-> ids])
                  /\ hidden' = [hidden EXCEPT ![l] = TRUE]
                  /\ cand' = [cand EXCEPT ![pending.cand].status = "confirmed"]
    /\ pending' = NULL
    /\ UNCHANGED <<edits, syncs, told, distinct>>

(* markDistinct()'s statement. *)
MarkDistinct ==
    /\ pending # NULL /\ pending.op = "distinct"
    /\ IF cand[pending.cand] = NULL THEN UNCHANGED <<distinct, cand>>
       ELSE /\ distinct' = distinct \cup {cand[pending.cand].pair}
            /\ cand' = [cand EXCEPT ![pending.cand].status = "distinct"]
    /\ pending' = NULL
    /\ UNCHANGED <<edits, syncs, editVars, hidden, merges, events>>

(* splitMerge(): what the merge recorded is read, *)
ReadMerge(m) ==
    /\ pending = NULL
    /\ pending' = [op |-> "split", merge |-> m, record |-> merges[m]]
    /\ UNCHANGED <<edits, syncs, editVars, hidden, cand, distinct, merges, events>>

(* Faulty variants of Unmigrated: nothing is taken back; all of the same source is. *)
UnmigratedNothing(n, moved) == claims[n]
UnmigratedBySource(n, moved) ==
    {c \in claims[n] : \A i \in moved : <<i[1], i[2]>> # <<c.by, c.user>>}

Unmigrated(n, moved) == {c \in claims[n] : Identity(c) \notin moved}

Restored(r) == r.loser

(* and then taken back, unless it was before; the loser is shown in any case. *)
SplitMerge ==
    /\ pending # NULL /\ pending.op = "split"
    /\ LET r == pending.record
       IN /\ IF r.reversed THEN UNCHANGED <<claims, events>>
             ELSE /\ claims' = [claims EXCEPT ![r.survivor] = Unmigrated(r.survivor, r.moved)]
                  /\ Repoint(r.survivor, r.loser, r.events)
          /\ hidden' = [hidden EXCEPT ![Restored(r)] = FALSE]
    /\ merges' = [merges EXCEPT ![pending.merge].reversed = TRUE]
    /\ pending' = NULL
    /\ UNCHANGED <<edits, syncs, told, cand, distinct>>

-----------------------------------------------------------------------------
EditClaims ==
    \E n \in Nodes :
        \/ \E v \in Values : ConnectorSync(n, v)
        \/ \E u \in Users, v \in Values : SetManualClaim(u, n, v) \/ Verify(u, n, v)
        \/ \E u \in Users : RevertManualClaim(u, n)
        \/ ListReviewQueue(n)
        \/ \E accept \in BOOLEAN : ResolveReview(n, accept)

Reconcile ==
    \/ ResetPending \/ ConfirmMerge \/ MarkDistinct \/ SplitMerge
    \/ \E c \in Candidates : \/ Scan(c) \/ Reject(c)
                             \/ ReadCandidate(c, "confirm") \/ ReadCandidate(c, "distinct")
    \/ \E m \in DOMAIN merges : ReadMerge(m)

EditsNext == EditClaims \/ Reconcile

-----------------------------------------------------------------------------
(* A human claim that came to a node from another is recorded by a merge that *)
(* is not reversed, so that splitMerge() can take it back.                    *)
MigratedIsRecorded ==
    \A n \in Nodes, c \in UNION {claims[x] : x \in Nodes} :
        c \in claims[n] /\ Human(c) /\ c.id # n =>
            \E m \in DOMAIN merges : /\ ~merges[m].reversed /\ merges[m].survivor = n
                                    /\ Identity(c) \in merges[m].moved

(* What a user set on a node is there, with the value last told, until the     *)
(* user takes it back: no merge and no split touches a claim its node owns,    *)
(* save one that a merge brought there under the same identity.                *)
OwnClaimStands ==
    \A u \in Users, n \in Nodes :
        told[u][n] # NULL /\ (\A m \in DOMAIN merges : merges[m].survivor = n =>
                                 <<"manual", u, n>> \notin merges[m].moved)
            => \E c \in claims[n] : c.by = "manual" /\ c.user = u /\ c.value = told[u][n]

(* Overrides are where people, merges and splits left them.                    *)
OverridesKept == part = "edits" => MigratedIsRecorded /\ OwnClaimStands
=============================================================================
