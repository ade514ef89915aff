------------------------- MODULE KnowledgeIndexProof -------------------------
(***************************************************************************)
(* Proofs about KnowledgeIndex: what is hidden is not searchable and what  *)
(* lands is current, for any number of workers; that a document at rest is *)
(* searchable with what is stored, for one worker.                         *)
(***************************************************************************)
EXTENDS KnowledgeIndex, TLAPS

(* The steps of the system, one by one. *)
LEMMA NextCases ==
    ASSUME Next
    PROVE  \/ \E c \in Contents : StoreDocument(c)
           \/ StoreRestricted \/ Tombstone \/ RemoveRow
           \/ \E w \in Workers :
                \/ ClaimPending(w) \/ Embed(w) \/ KeepClaim(w) \/ MarkSkipped(w)
                \/ MarkUnchanged(w) \/ ReplaceChunks(w) \/ MarkFailed(w)
                \/ ReleaseClaim(w) \/ Crash(w)
           \/ WindowPasses
BY DEF Next, Sink, Work, Finish

-----------------------------------------------------------------------------
(* HIDDEN.  No interleaving of the sink with any number of late workers leaves *)
(* chunks of a restricted or deleted document.                                 *)
THEOREM HiddenStaysHidden == Spec => []HiddenIsUnsearchable
<1>1. Init => HiddenIsUnsearchable
  BY DEF Init, HiddenIsUnsearchable
<1>2. ASSUME HiddenIsUnsearchable, [Next]_vars PROVE HiddenIsUnsearchable'
  <2> USE <1>2 DEF HiddenIsUnsearchable
  <2>1. CASE \E c \in Contents : StoreDocument(c)
    BY <2>1 DEF StoreDocument
  <2>2. CASE StoreRestricted \/ Tombstone \/ RemoveRow \/ WindowPasses
    BY <2>2 DEF StoreRestricted, Tombstone, RemoveRow, WindowPasses
  <2>3. ASSUME NEW w \in Workers, ReplaceChunks(w) PROVE HiddenIsUnsearchable'
    BY <2>3 DEF ReplaceChunks, StillTheClaim, rowVars
  <2>4. ASSUME NEW w \in Workers,
               ClaimPending(w) \/ Embed(w) \/ KeepClaim(w) \/ MarkSkipped(w)
                 \/ MarkUnchanged(w) \/ MarkFailed(w) \/ ReleaseClaim(w) \/ Crash(w)
        PROVE  HiddenIsUnsearchable'
    BY <2>4
    DEF ClaimPending, Embed, KeepClaim, MarkSkipped, MarkUnchanged, MarkFailed,
        ReleaseClaim, Crash, rowVars
  <2>5. CASE UNCHANGED vars
    BY <2>5 DEF vars, rowVars
  <2>. QED
    BY <2>1, <2>2, <2>3, <2>4, <2>5, NextCases
<1>. QED
  BY <1>1, <1>2, PTL DEF Spec

(* LANDING.  Whatever worker writes the index, and however late, it writes the *)
(* chunks of the content stored at that moment, or removes them.               *)
THEOREM OnlyCurrentLands == Spec => OnlyCurrentContentLands
<1>1. ASSUME [Next]_vars PROVE [LandsCurrent]_vars
  <2> USE <1>1 DEF LandsCurrent
  <2>1. CASE \E c \in Contents : StoreDocument(c)
    BY <2>1 DEF StoreDocument
  <2>2. CASE StoreRestricted \/ Tombstone \/ RemoveRow \/ WindowPasses
    BY <2>2 DEF StoreRestricted, Tombstone, RemoveRow, WindowPasses
  <2>3. ASSUME NEW w \in Workers, ReplaceChunks(w) PROVE LandsCurrent
    BY <2>3 DEF ReplaceChunks, StillTheClaim, rowVars
  <2>4. ASSUME NEW w \in Workers,
               ClaimPending(w) \/ Embed(w) \/ KeepClaim(w) \/ MarkSkipped(w)
                 \/ MarkUnchanged(w) \/ MarkFailed(w) \/ ReleaseClaim(w) \/ Crash(w)
        PROVE  LandsCurrent
    BY <2>4
    DEF ClaimPending, Embed, KeepClaim, MarkSkipped, MarkUnchanged, MarkFailed,
        ReleaseClaim, Crash, rowVars
  <2>. QED
    BY <2>1, <2>2, <2>3, <2>4, NextCases
<1>. QED
  BY <1>1, PTL DEF Spec, OnlyCurrentContentLands

-----------------------------------------------------------------------------
(* One worker process, as the deployment has it (OneWorker): the claim it      *)
(* holds is of what is stored, for as long as its verdict would be recorded.   *)
ClaimIsCurrent ==
    \A w \in Workers :
        pc[w] # "idle" /\ w \in attached /\ status = "indexing" =>
            doc[w] = [content |-> content, indexedHash |-> indexedHash]

WorkTypeOK == DOMAIN pc = Workers /\ DOMAIN doc = Workers

(* What is recorded as indexed is what the chunks were made from; a stub has   *)
(* no content, so a document that comes back from restriction is new to it.    *)
IndexInv ==
    /\ WorkTypeOK
    /\ indexedHash = chunks
    /\ restricted => content = NULL
    /\ ClaimIsCurrent
    /\ SettledIsCurrent

OneWorker == \A v, w \in Workers : v = w

LEMMA SinkKeepsIndexInv ==
    ASSUME IndexInv,
           \/ \E c \in Contents : StoreDocument(c)
           \/ StoreRestricted \/ Tombstone \/ RemoveRow \/ WindowPasses
    PROVE  IndexInv'
<1> USE ContentAssumption DEF IndexInv, ClaimIsCurrent, SettledIsCurrent, WorkTypeOK, workVars
<1>1. ASSUME NEW c \in Contents, StoreDocument(c) PROVE IndexInv'
  BY <1>1 DEF StoreDocument, Moved, Contents
<1>2. CASE StoreRestricted
  BY <1>2 DEF StoreRestricted
<1>3. CASE Tombstone
  BY <1>3 DEF Tombstone
<1>4. CASE RemoveRow
  BY <1>4 DEF RemoveRow
<1>5. CASE WindowPasses
  BY <1>5 DEF WindowPasses
<1>. QED
  BY <1>1, <1>2, <1>3, <1>4, <1>5

LEMMA WorkerKeepsIndexInv ==
    ASSUME OneWorker, IndexInv, NEW w \in Workers,
           \/ ClaimPending(w) \/ Embed(w) \/ KeepClaim(w) \/ MarkSkipped(w)
           \/ MarkUnchanged(w) \/ ReplaceChunks(w) \/ MarkFailed(w)
           \/ ReleaseClaim(w) \/ Crash(w)
    PROVE  IndexInv'
<1> USE ContentAssumption DEF IndexInv, WorkTypeOK, SettledIsCurrent
<1>a. ASSUME Done(w)
      PROVE  /\ \A v \in Workers : pc'[v] = "idle"
             /\ DOMAIN pc' = Workers /\ DOMAIN doc' = Workers
  BY <1>a DEF Done, OneWorker
<1>1. CASE ClaimPending(w)
  <2>1. /\ \A v \in Workers : doc'[v] = [content |-> content, indexedHash |-> indexedHash]
        /\ DOMAIN pc' = Workers /\ DOMAIN doc' = Workers
    BY <1>1 DEF ClaimPending, OneWorker
  <2>. QED
    BY <1>1, <2>1 DEF ClaimPending, ClaimIsCurrent
<1>2. CASE Embed(w)
  BY <1>2 DEF Embed, ClaimIsCurrent, rowVars, OneWorker
<1>3. CASE KeepClaim(w)
  BY <1>3, <1>a DEF KeepClaim, ClaimIsCurrent, rowVars, workVars
<1>4. CASE MarkSkipped(w)
  BY <1>4, <1>a DEF MarkSkipped, StillIndexing, ClaimIsCurrent, rowVars
<1>5. CASE MarkUnchanged(w)
  BY <1>5, <1>a DEF MarkUnchanged, StillIndexing, ClaimIsCurrent, rowVars
<1>6. CASE ReplaceChunks(w)
  BY <1>6, <1>a DEF ReplaceChunks, StillTheClaim, ClaimIsCurrent, rowVars
<1>7. CASE MarkFailed(w) \/ ReleaseClaim(w) \/ Crash(w)
  BY <1>7, <1>a DEF MarkFailed, ReleaseClaim, Crash, ClaimIsCurrent, rowVars
<1>. QED
  BY <1>1, <1>2, <1>3, <1>4, <1>5, <1>6, <1>7

(* AT REST.  With one worker process, an indexed document has the chunks of     *)
(* what is stored, and only one with nothing to index is skipped, however the   *)
(* sink edits, restricts, deletes and restores it while it is being indexed.    *)
(* Two processes break it: index_late_verdict shows how.                        *)
THEOREM SettledDocumentIsCurrent == OneWorker /\ Spec => []SettledIsCurrent
<1>1. Init => IndexInv
  BY DEF Init, IndexInv, WorkTypeOK, ClaimIsCurrent, SettledIsCurrent
<1>2. ASSUME OneWorker, IndexInv, [Next]_vars PROVE IndexInv'
  <2>1. CASE UNCHANGED vars
    BY <1>2, <2>1
    DEF vars, rowVars, workVars, IndexInv, WorkTypeOK, ClaimIsCurrent, SettledIsCurrent
  <2>. QED
    BY <1>2, <2>1, NextCases, SinkKeepsIndexInv, WorkerKeepsIndexInv
<1>3. IndexInv => SettledIsCurrent
  BY DEF IndexInv
<1>. QED
  <2>1. ASSUME OneWorker PROVE Spec => []SettledIsCurrent
    BY <2>1, <1>1, <1>2, <1>3, PTL DEF Spec
  <2>. QED
    BY <2>1
=============================================================================
