---------------------------- MODULE KnowledgeIndex ----------------------------
(***************************************************************************)
(* The index of ONE knowledge document: its row and its chunks             *)
(* (packages/knowledge/src/store.ts), the sink that stores what connectors *)
(* fetch, and the workers that claim, embed and write it (index-loop.ts,   *)
(* index-pipeline.ts).  Postgres is the queue; each statement or           *)
(* transaction is one action.  Documents do not share state, so one is     *)
(* enough.                                                                 *)
(*                                                                         *)
(* A content stands for its hash.  Chunks stand for the content they were  *)
(* made from.  `overdue` is "index_claimed_at is older than the window of  *)
(* the present status": the stale window of a claim, the backoff of a      *)
(* failure.  INDEX_VERSION does not change while a database is in use, so  *)
(* index_version is set exactly when indexed_hash is.                      *)
(***************************************************************************)
EXTENDS Naturals

CONSTANTS
    Workers,        \* knowledge-worker processes; one works on a document once at a time
    Texts,          \* contents with something to index
    Blank,          \* a content without segments
    NULL,
    MaxAttempts,    \* MAX_INDEX_ATTEMPTS
    MaxStores       \* bound: commits of the sink that touch the document

ASSUME ContentAssumption == Blank \notin Texts /\ NULL \notin Texts \cup {Blank}

ASSUME AttemptsAssumption == MaxAttempts \in Nat \ {0} /\ MaxStores \in Nat

Contents == Texts \cup {Blank}

VARIABLES
    status,        \* index_status, or "absent" when there is no row
    content,       \* content_hash; NULL for a tombstone or a restricted stub
    restricted,
    deleted,
    indexedHash,
    chunks,
    attempts,
    overdue,
    pc,            \* per worker: "idle", "claimed" or "embed"
    doc,           \* per worker: content and indexed hash its claim returned
    attached,      \* workers whose claimed id is still the row's
    stores

rowVars == <<status, content, restricted, deleted, indexedHash, chunks, attempts, overdue>>
workVars == <<pc, doc, attached>>
vars == <<rowVars, workVars, stores>>

NoDoc == [content |-> NULL, indexedHash |-> NULL]

Statuses == {"absent", "pending", "indexing", "indexed", "skipped", "failed"}

Init ==
    /\ status = "absent"
    /\ content = NULL /\ restricted = FALSE /\ deleted = FALSE
    /\ indexedHash = NULL /\ chunks = NULL /\ attempts = 0 /\ overdue = FALSE
    /\ pc = [w \in Workers |-> "idle"]
    /\ doc = [w \in Workers |-> NoDoc]
    /\ attached = {}
    /\ stores = 0

-----------------------------------------------------------------------------
(* The sink. *)
Commit == stores < MaxStores /\ stores' = stores + 1

(* The upsert's test: a new row, a row that comes back, or another content. *)
Moved(c) == status = "absent" \/ deleted \/ content # c

(* storeBatch() with the document, not restricted. *)
StoreDocument(c) ==
    /\ Commit
    /\ status' = IF Moved(c) THEN "pending" ELSE status
    /\ overdue' = IF Moved(c) THEN FALSE ELSE overdue
    /\ attempts' = IF content # c THEN 0 ELSE attempts
    /\ content' = c
    /\ restricted' = FALSE
    /\ deleted' = FALSE
    /\ UNCHANGED <<indexedHash, chunks, workVars>>

(* storeBatch() with a restricted stub: nothing of it stays searchable. *)
StoreRestricted ==
    /\ Commit
    /\ status' = "skipped"
    /\ overdue' = FALSE
    /\ attempts' = IF content # NULL THEN 0 ELSE attempts
    /\ content' = NULL
    /\ restricted' = TRUE
    /\ deleted' = FALSE
    /\ indexedHash' = NULL
    /\ chunks' = NULL
    /\ UNCHANGED workVars

(* tombstone(): a deletion the source reported, or pruneMissing() found. *)
Tombstone ==
    /\ status # "absent" /\ ~deleted
    /\ Commit
    /\ deleted' = TRUE
    /\ content' = NULL
    /\ indexedHash' = NULL
    /\ status' = "skipped"
    /\ overdue' = FALSE
    /\ chunks' = NULL
    /\ UNCHANGED <<restricted, attempts, workVars>>

(* purgeBatch() of a deselected container, or deleteTombstonesOlderThan(): the *)
(* row goes; the document stored again has a new id.                           *)
RemoveRow ==
    /\ status # "absent"
    /\ status' = "absent"
    /\ content' = NULL /\ restricted' = FALSE /\ deleted' = FALSE
    /\ indexedHash' = NULL /\ chunks' = NULL /\ attempts' = 0 /\ overdue' = FALSE
    /\ attached' = {}
    /\ UNCHANGED <<pc, doc, stores>>

-----------------------------------------------------------------------------
(* The workers. *)

(* Faulty variant of MayClaim: a claim whose worker died is not taken again. *)
ClaimsPendingOnly ==
    ~deleted /\ (status = "pending" \/ (status = "failed" /\ attempts < MaxAttempts /\ overdue))

(* claimPending()'s condition. *)
MayClaim ==
    /\ ~deleted
    /\ \/ status = "pending"
       \/ status = "indexing" /\ overdue
       \/ status = "failed" /\ attempts < MaxAttempts /\ overdue

ClaimPending(w) ==
    /\ pc[w] = "idle"
    /\ MayClaim
    /\ status' = "indexing"
    /\ overdue' = FALSE
    /\ pc' = [pc EXCEPT ![w] = "claimed"]
    /\ doc' = [doc EXCEPT ![w] = [content |-> content, indexedHash |-> indexedHash]]
    /\ attached' = attached \cup {w}
    /\ UNCHANGED <<content, restricted, deleted, indexedHash, chunks, attempts, stores>>

Done(w) ==
    /\ pc' = [pc EXCEPT ![w] = "idle"]
    /\ doc' = [doc EXCEPT ![w] = NoDoc]
    /\ attached' = attached \ {w}
    /\ UNCHANGED stores

(* The condition of the marks, of markFailed() and of releaseClaim(). *)
StillIndexing(w) == w \in attached /\ status = "indexing"

(* Faulty variants of StillTheClaim: the content, or the status, is not compared. *)
AnyClaim(w) == StillIndexing(w) /\ ~deleted /\ ~restricted
SameRow(w) == w \in attached

(* STILL_THE_CLAIM: the condition of replaceChunks() and keepClaim(). *)
StillTheClaim(w) ==
    /\ StillIndexing(w)
    /\ content = doc[w].content
    /\ ~deleted /\ ~restricted

(* indexDocument(): nothing to index. *)
MarkSkipped(w) ==
    /\ pc[w] = "claimed" /\ doc[w].content = Blank
    /\ \/ /\ StillIndexing(w)
          /\ status' = "skipped"
          /\ overdue' = FALSE
          /\ indexedHash' = NULL
          /\ chunks' = NULL
          /\ UNCHANGED <<content, restricted, deleted, attempts>>
       \/ ~StillIndexing(w) /\ UNCHANGED rowVars
    /\ Done(w)

(* indexDocument(): the chunks are those of this content already. *)
MarkUnchanged(w) ==
    /\ pc[w] = "claimed" /\ doc[w].content \in Texts /\ doc[w].indexedHash = doc[w].content
    /\ \/ /\ StillIndexing(w)
          /\ status' = "indexed"
          /\ overdue' = FALSE
          /\ UNCHANGED <<content, restricted, deleted, indexedHash, chunks, attempts>>
       \/ ~StillIndexing(w) /\ UNCHANGED rowVars
    /\ Done(w)

(* indexDocument(): chunk the document and send its first embedding request. *)
Embed(w) ==
    /\ pc[w] = "claimed" /\ doc[w].content \in Texts /\ doc[w].indexedHash # doc[w].content
    /\ pc' = [pc EXCEPT ![w] = "embed"]
    /\ UNCHANGED <<rowVars, doc, attached, stores>>

(* Before every further request, and before a retry: keepClaim(), or give up. *)
KeepClaim(w) ==
    /\ pc[w] = "embed"
    /\ \/ /\ StillTheClaim(w)
          /\ overdue' = FALSE
          /\ UNCHANGED <<status, content, restricted, deleted, indexedHash, chunks, attempts>>
          /\ UNCHANGED <<workVars, stores>>
       \/ ~StillTheClaim(w) /\ Done(w) /\ UNCHANGED rowVars

(* replaceChunks(): the chunks and the row in one transaction, or nothing. *)
ReplaceChunks(w) ==
    /\ pc[w] = "embed"
    /\ \/ /\ StillTheClaim(w)
          /\ chunks' = doc[w].content
          /\ indexedHash' = doc[w].content
          /\ status' = "indexed"
          /\ attempts' = 0
          /\ overdue' = FALSE
          /\ UNCHANGED <<content, restricted, deleted>>
       \/ ~StillTheClaim(w) /\ UNCHANGED rowVars
    /\ Done(w)

(* runOnce(): the document's processing threw: markFailed(). *)
MarkFailed(w) ==
    /\ pc[w] # "idle"
    /\ \/ /\ StillIndexing(w)
          /\ status' = "failed"
          /\ attempts' = attempts + 1
          /\ overdue' = FALSE
          /\ UNCHANGED <<content, restricted, deleted, indexedHash, chunks>>
       \/ ~StillIndexing(w) /\ UNCHANGED rowVars
    /\ Done(w)

(* runOnce() of a worker that is stopping hands the claim back: releaseClaim(). *)
ReleaseClaim(w) ==
    /\ pc[w] # "idle"
    /\ \/ /\ StillIndexing(w)
          /\ status' = "pending"
          /\ UNCHANGED <<content, restricted, deleted, indexedHash, chunks, attempts, overdue>>
       \/ ~StillIndexing(w) /\ UNCHANGED rowVars
    /\ Done(w)

(* The process dies, or cannot reach Postgres to record what happened. *)
Crash(w) == pc[w] # "idle" /\ Done(w) /\ UNCHANGED rowVars

(* The database clock passes the window. *)
WindowPasses ==
    /\ status \in {"indexing", "failed"} /\ ~overdue
    /\ overdue' = TRUE
    /\ UNCHANGED <<status, content, restricted, deleted, indexedHash, chunks, attempts>>
    /\ UNCHANGED <<workVars, stores>>

Sink == (\E c \in Contents : StoreDocument(c)) \/ StoreRestricted \/ Tombstone \/ RemoveRow

(* A claimed document is seen through. *)
Finish(w) ==
    MarkSkipped(w) \/ MarkUnchanged(w) \/ ReplaceChunks(w) \/ MarkFailed(w)

Work(w) ==
    ClaimPending(w) \/ Embed(w) \/ KeepClaim(w) \/ Finish(w) \/ ReleaseClaim(w) \/ Crash(w)

Next == Sink \/ (\E w \in Workers : Work(w)) \/ WindowPasses

Spec == Init /\ [][Next]_vars

(* The loop polls, time passes, and a worker that gets documents again and    *)
(* again is not killed or stopped in the middle of each one.                  *)
Fairness ==
    /\ WF_vars(WindowPasses)
    /\ \A w \in Workers :
         /\ WF_vars(ClaimPending(w))
         /\ SF_vars(Embed(w))
         /\ SF_vars(Finish(w))

FairSpec == Spec /\ Fairness

-----------------------------------------------------------------------------
(* What the source restricts or deleted is not searchable, whichever worker   *)
(* was embedding it at the time (replaceChunks' comment).                     *)
HiddenIsUnsearchable == deleted \/ restricted => chunks = NULL

LandsCurrent == chunks' # chunks => chunks' \in {NULL, content}

(* A late worker never puts the text of an older version into the index. *)
OnlyCurrentContentLands == [][LandsCurrent]_vars

(* A document at rest is searchable with its current content: "indexed" has    *)
(* the chunks of what is stored, and only a document with nothing to index is  *)
(* skipped.                                                                    *)
SettledIsCurrent ==
    /\ status = "indexed" => chunks = content
    /\ status = "skipped" /\ ~deleted /\ ~restricted => content = Blank

(* A stored document is indexed, or skipped, or has failed for good: claims of  *)
(* workers that died are taken again.                                           *)
EventuallyIndexed ==
    status \in {"pending", "indexing", "failed"} ~>
        \/ status \in {"indexed", "skipped", "absent"}
        \/ attempts = MaxAttempts
=============================================================================
