----------------------------- MODULE ClaimValues ------------------------------
(***************************************************************************)
(* The claims of one property of one entity and the values made of them:   *)
(* the one the core-writer stores on the node (claims/resolver,            *)
(* claims/strategies), the one the api-server shows (claim-service,        *)
(* shared/utils/confidence, shared/config/source-reliability), and what    *)
(* people do about it on the entity's page (claim-list, routes/claims).    *)
(* Confidence is in hundredths and time in weeks, so that a week costs a   *)
(* decaying claim one.                                                     *)
(***************************************************************************)
EXTENDS Platform

CONSTANTS
    Claimants,   \* the connectors that claim the property
    Members,    \* the people who edit it, numbered in the order of their names
    Shades,     \* its values
    Admins,     \* those of them who are administrators
    Waits       \* bound: how many weeks pass at a time

Keys == {"verified", "manual", "backstage", "github", "login", "kubernetes"}
(* A claim: its source's key, whoever made it if a person did, its value,   *)
(* its base confidence, and the week it was ingested in.                    *)
Claims == [key : Keys, by : Members \cup {NULL}, value : Shades, conf : 0 .. 100, at : Nat]

ASSUME ClaimsAssumption ==
    /\ Claimants \subseteq Keys \ {"verified", "manual"}
    /\ Members \subseteq Nat /\ Waits \subseteq Nat

VARIABLES
    strategy,   \* the property's resolution strategy in the schema
    group,      \* the claims, in the order they are kept in
    week,
    stored,     \* the value on the node, NULL before the first sync
    edited,     \* whether a person changed the claims since then (history)
    shown,      \* per member: the winner and its status on the open page, or NULL
    attested    \* the value verified last, or NULL (history)

valueVars == <<strategy, group, week, stored, edited, shown, attested>>

Strategies == {"HIGHEST_CONFIDENCE", "MANUAL_OVERRIDE_FIRST", "AUTHORITATIVE_ORDER", "LATEST_TIMESTAMP"}

ValuesInit ==
    /\ strategy \in Strategies
    /\ group = <<>> /\ week = 0 /\ stored = NULL /\ edited = FALSE
    /\ shown = [m \in Members |-> NULL] /\ attested = NULL

-----------------------------------------------------------------------------
(* SOURCE_RELIABILITY and SOURCE_PRIORITY_ORDER *)
PriorityOrder == <<"verified", "manual", "backstage", "github", "login", "kubernetes">>
Reliability ==
    [verified |-> 99, manual |-> 95, backstage |-> 85, github |-> 90, login |-> 85, kubernetes |-> 85]
Group ==
    [verified |-> "human", manual |-> "human", backstage |-> "catalog", github |-> "scm",
     login |-> "scm", kubernetes |-> "runtime"]
DerivesFrom(k) == IF k \in {"backstage", "login"} THEN {"github"} ELSE {}
Decays(k) == k \notin {"verified", "manual"}

Rank(c) == CHOOSE i \in DOMAIN PriorityOrder : PriorityOrder[i] = c.key
IsHuman(c) == c.key \in {"verified", "manual"}
AtLeast0(x) == IF x < 0 THEN 0 ELSE x

(* computeEffectiveConfidence() *)
EffectiveConfidence(c, now) == AtLeast0(c.conf - (now - c.at))

(* filter(), as a function that can be reasoned about. *)
Only(s, kept) ==
    LET only[n \in 0 .. Len(s)] ==
            IF n = 0 THEN <<>>
            ELSE IF s[n] \in kept THEN Append(only[n - 1], s[n]) ELSE only[n - 1]
    IN  only[Len(s)]
HumanClaims == {c \in Claims : IsHuman(c)}

(* A stable sort's first claim; `before` holds the pairs of positions of    *)
(* which the first is to come first.                                        *)
First(s, before) ==
    s[CHOOSE i \in DOMAIN s : \A j \in DOMAIN s \ {i} :
        <<j, i>> \notin before /\ (j < i => <<i, j>> \in before)]

Positions(s) == (DOMAIN s) \X (DOMAIN s)
LaterFirst(s) == {p \in Positions(s) : s[p[1]].at > s[p[2]].at}
LowerRankFirst(s) == {p \in Positions(s) : Rank(s[p[1]]) < Rank(s[p[2]])}

ByConfidence(s, now) ==
    LET score(i) == EffectiveConfidence(s[i], now)
    IN First(s, {p \in Positions(s) : score(p[1]) > score(p[2])}
                \cup {p \in LaterFirst(s) : score(p[1]) = score(p[2])})

(* Faulty variant of Override: the latest, whoever it is from. *)
OverrideLatest(s) == LET human == Only(s, HumanClaims) IN First(human, LaterFirst(human))

(* pickManualOverride(): by rank, then the latest, then by name. *)
Override(s) ==
    LET human == Only(s, HumanClaims)
        level == {p \in Positions(human) : Rank(human[p[1]]) = Rank(human[p[2]])}
        named == {p \in level : /\ human[p[1]].at = human[p[2]].at
                                /\ human[p[1]].by < human[p[2]].by}
    IN First(human, LowerRankFirst(human) \cup (level \cap LaterFirst(human)) \cup named)

(* pickByStrategy() *)
Winner(s, how, now) ==
    CASE how = "MANUAL_OVERRIDE_FIRST" /\ (\E i \in DOMAIN s : IsHuman(s[i])) -> Override(s)
      [] how = "AUTHORITATIVE_ORDER" -> First(s, LowerRankFirst(s))
      [] how = "LATEST_TIMESTAMP" -> First(s, LaterFirst(s))
      [] OTHER -> ByConfidence(s, now)

-----------------------------------------------------------------------------
(* computeFieldConfidence(): independent agreement and dissent, counted by  *)
(* group, and the floor of a value a person has verified.                   *)
Agreeing(s, w) == {i \in DOMAIN s : s[i].value = w.value}
Derived(k, w) == w \in DerivesFrom(k) \/ Group[k] = Group[w]
Corroborating(s, w) ==
    {Group[s[i].key] : i \in {j \in Agreeing(s, w) : s[j].key # w.key /\ ~Derived(s[j].key, w.key)}}
Dissenting(s, w) == {Group[s[i].key] : i \in DOMAIN s \ Agreeing(s, w)}
Verified(s, w) == \E i \in Agreeing(s, w) : s[i].key = "verified"

Capped(x, cap) == IF x > cap THEN cap ELSE x
FieldConfidence(s, w, now) ==
    LET decay == IF Decays(w.key) THEN now - w.at ELSE 0
        dissent == Cardinality(Dissenting(s, w))
        earned == Capped(3 * Cardinality(Corroborating(s, w)), 8)
        lost == IF dissent = 0 THEN 0 ELSE 10 + 5 * (dissent - 1)
        effective == Capped(AtLeast0(w.conf - decay + earned - lost), 100)
    IN IF Verified(s, w) /\ effective < 98 THEN 98 ELSE effective

(* computeNeedsReview(): a later claim that is not the first verified one's. *)
NeedsReview(s) ==
    LET verified == Only(s, {c \in Claims : c.key = "verified"})
    IN verified # <<>> /\ \E i \in DOMAIN s :
           s[i].key # "verified" /\ s[i].value # verified[1].value /\ s[i].at > verified[1].at

(* hasConflict() and deriveVerificationStatus() *)
HasConflict(s) == \E i \in DOMAIN s : s[i].value # s[1].value
Status(s, w, now) ==
    CASE Verified(s, w) -> "USER_VERIFIED"
      [] ~Verified(s, w) /\ HasConflict(s) -> "DISPUTED"
      [] ~Verified(s, w) /\ ~HasConflict(s) /\ now - w.at > 12 -> "STALE"
      [] OTHER -> IF Corroborating(s, w) # {} THEN "CORROBORATED" ELSE "UNVERIFIED"

(* ClaimService.resolveProperty() *)
Resolved ==
    LET w == Winner(group, strategy, week)
    IN [winner |-> w, status |-> Status(group, w, week), confidence |-> FieldConfidence(group, w, week),
        review |-> NeedsReview(group)]

-----------------------------------------------------------------------------
Claimed(k, by, v) ==
    [key |-> k, by |-> by, value |-> v, conf |-> Reliability[k], at |-> week]
Without(key, people) == Only(group, {c \in Claims : ~(c.key = key /\ c.by \in people)})

(* The core-writer merges a connector's claim: in place of the connector's  *)
(* last one, or at the end.  Its resolver is made without a strategy.       *)
Ingest(k, v) ==
    /\ Op
    /\ LET old == {i \in DOMAIN group : group[i].key = k}
           merged == IF old = {} THEN Append(group, Claimed(k, NULL, v))
                     ELSE [i \in DOMAIN group |-> IF i \in old THEN Claimed(k, NULL, v) ELSE group[i]]
       IN group' = merged /\ stored' = ByConfidence(merged, week).value
    /\ edited' = FALSE
    /\ UNCHANGED <<strategy, week, shown, attested>>

WeeksPass(n) ==
    /\ Op /\ group # <<>> /\ week' = week + n
    /\ UNCHANGED <<strategy, group, stored, edited, shown, attested>>

(* The page takes the claims as they are and keeps them. *)
OpenPage(m) ==
    /\ NoOp /\ shown[m] = NULL /\ group # <<>>
    /\ shown' = [shown EXCEPT ![m] = Resolved]
    /\ UNCHANGED <<strategy, group, week, stored, edited, attested>>

Leaves(m) == shown' = [shown EXCEPT ![m] = NULL]

(* setManualClaim(): the member's own claim goes to the end. *)
SaveEdit(m, v) ==
    /\ Op /\ shown[m] # NULL
    /\ group' = Append(Without("manual", {m}), Claimed("manual", m, v))
    /\ edited' = TRUE /\ Leaves(m)
    /\ UNCHANGED <<strategy, week, stored, attested>>

(* verify() takes the value the page shows, which may be an old one, and    *)
(* replaces whosever verification there is.                                 *)
VerifyShown(m) ==
    /\ Op /\ shown[m] # NULL
    /\ LET v == shown[m].winner.value
       IN /\ group' = Append(Without("verified", Members), Claimed("verified", m, v))
          /\ attested' = v
    /\ edited' = TRUE /\ Leaves(m)
    /\ UNCHANGED <<strategy, week, stored>>

(* The page offers to revert the override it shows: one's own, or to an     *)
(* administrator anyone's.  One that is gone already is no error.           *)
RevertShown(m) ==
    /\ Op /\ shown[m] # NULL /\ shown[m].winner.key = "manual"
    /\ shown[m].winner.by = m \/ m \in Admins
    /\ group' = Without("manual", {shown[m].winner.by})
    /\ edited' = (edited \/ group' # group) /\ Leaves(m)
    /\ UNCHANGED <<strategy, week, stored, attested>>

ValuesNext ==
    \/ \E k \in Claimants, v \in Shades : Ingest(k, v)
    \/ \E n \in Waits : WeeksPass(n)
    \/ \E m \in Members :
         \/ OpenPage(m) \/ VerifyShown(m) \/ RevertShown(m)
         \/ \E v \in Shades : SaveEdit(m, v)

-----------------------------------------------------------------------------
(* A property that goes by confidence: what the core-writer stored at the   *)
(* last sync is what the api-server makes of the same claims at any later   *)
(* time, although every confidence has changed meanwhile, as long as any of *)
(* it is left: claims that have all come down to nothing are told apart by  *)
(* their dates alone, and the latest is shown, whatever was stored.         *)
StoredIsShown ==
    part = "claims" /\ strategy = "HIGHEST_CONFIDENCE" /\ stored # NULL /\ ~edited
    /\ EffectiveConfidence(ByConfidence(group, week), week) > 0
        => ByConfidence(group, week).value = stored

(* A property people decide: the value verified last is shown as verified,  *)
(* with the floor's confidence, whatever connectors and editors claim after.*)
VerifiedStands ==
    part = "claims" /\ strategy = "MANUAL_OVERRIDE_FIRST" /\ attested # NULL
        => /\ Resolved.winner.value = attested /\ Resolved.status = "USER_VERIFIED"
           /\ Resolved.confidence >= 98

(* What a person is shown is what counts: under either strategy. *)
ShownIsWhatCounts == StoredIsShown /\ VerifiedStands

(* docs/schema-guide.md:141: "Claims from people always win", and so in     *)
(* what the core-writer stores.                                             *)
PeopleWin ==
    part = "claims" /\ strategy = "MANUAL_OVERRIDE_FIRST" /\ stored # NULL /\ ~edited
    /\ (\E i \in DOMAIN group : IsHuman(group[i])) => stored = Override(group).value
=============================================================================
