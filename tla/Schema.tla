------------------------------- MODULE Schema --------------------------------
(***************************************************************************)
(* The schema of the graph: the file and its history, the copy in memory,  *)
(* the routes, and the schema editor in several browsers (schema-service,  *)
(* schema-migration-preview, routes/schema, the editor's page, canvas and  *)
(* history drawer).  A schema gives every type and relationship a          *)
(* definition, 0 for none; its hash is its content.                        *)
(***************************************************************************)
EXTENDS Platform

CONSTANTS
    Types,
    Rels,           \* relationship types, as pairs of the types they join
    Editors,
    HistoryLimit,   \* HISTORY_LIMIT
    OverlapSaves    \* whether the server may work on two updates at a time

ASSUME SchemaAssumption ==
    Rels \subseteq Types \X Types /\ HistoryLimit \in Nat /\ OverlapSaves \in BOOLEAN

VARIABLES
    schemaFile, \* the schema on disk
    history,    \* snapshots of earlier schemas, the newest first
    memory,     \* the server's schema, whose hash is the ETag
    updates,    \* the updates the server works on
    editor,     \* per editor: the page
    known       \* per editor: what it loaded or accepted to overwrite (history)

schemaVars == <<schemaFile, history, memory, updates, editor, known>>
schemaDisk == <<schemaFile, history, memory>>

Names == Types \cup Rels
Plain == [n \in Names |-> IF n \in Types THEN 1 ELSE 0]

SchemaInit ==
    /\ schemaFile = Plain /\ memory = schemaFile /\ history = <<>> /\ updates = {}
    /\ editor = [e \in Editors |->
         [shown |-> Plain, draft |-> Plain, base |-> Plain, dialog |-> "none",
          impacts |-> {}, theirs |-> NULL, waits |-> FALSE]]
    /\ known = [e \in Editors |-> {Plain}]

-----------------------------------------------------------------------------
(* diffSchemas() and buildMigrationPreview(): what the review shows.       *)
DiffSchemas(prev, next) ==
    [added   |-> {n \in Names : prev[n] = 0 /\ next[n] # 0},
     removed |-> {n \in Names : prev[n] # 0 /\ next[n] = 0},
     changed |-> {n \in Names : prev[n] # 0 /\ next[n] # 0 /\ prev[n] # next[n]}]
MigrationPreview(diff) == diff.removed \cup diff.changed

(* The page's draft.  Deleting a type takes its relationships along.       *)
DeleteNodeType(draft, t) ==
    [n \in Names |-> IF n = t \/ (n \in Rels /\ t \in {n[1], n[2]}) THEN 0 ELSE draft[n]]
AddNodeType(draft, t) == [draft EXCEPT ![t] = 1]
UpdateNodeType(draft, n) == [draft EXCEPT ![n] = 3 - @]
AddRelationship(draft, r) == [draft EXCEPT ![r] = 1]
DeleteRelationship(draft, r) == [draft EXCEPT ![r] = 0]

Edits(draft) ==
    {DeleteNodeType(draft, t) : t \in {t \in Types : draft[t] # 0}}
    \cup {AddNodeType(draft, t) : t \in {t \in Types : draft[t] = 0}}
    \cup {UpdateNodeType(draft, n) : n \in {n \in Names : draft[n] # 0}}
    \cup {AddRelationship(draft, r) : r \in {r \in Rels : draft[r] = 0 /\ draft[r[1]] # 0 /\ draft[r[2]] # 0}}
    \cup {DeleteRelationship(draft, r) : r \in {r \in Rels : draft[r] # 0}}

Idle(e) == editor[e].dialog = "none" /\ ~editor[e].waits

Edit(e, next) ==
    /\ Op /\ Idle(e) /\ next \in Edits(editor[e].draft)
    /\ editor' = [editor EXCEPT ![e].draft = next]
    /\ UNCHANGED <<schemaDisk, updates, known>>

(* A payload that differs from the one shown replaces draft and base.      *)
Shown(ed, schema) ==
    IF schema = ed.shown THEN ed ELSE [ed EXCEPT !.shown = schema, !.draft = schema, !.base = schema]

(* A refetch in the background, as after a lost connection.                *)
Refetch(e) ==
    /\ Op /\ ~editor[e].waits /\ memory # editor[e].shown
    /\ editor' = [editor EXCEPT ![e] = Shown(@, memory)]
    /\ known' = [known EXCEPT ![e] = {memory}]
    /\ UNCHANGED <<schemaDisk, updates>>

-----------------------------------------------------------------------------
(* "Save changes": the review shows the diff against the server's schema.  *)
OpenSaveDialog(e) ==
    /\ NoOp /\ Idle(e) /\ editor[e].draft # editor[e].shown
    /\ editor' = [editor EXCEPT ![e].dialog = "review",
         ![e].impacts = MigrationPreview(DiffSchemas(memory, editor[e].draft))]
    /\ UNCHANGED <<schemaDisk, updates, known>>

CloseDialog(e) ==
    /\ NoOp /\ editor[e].dialog # "none" /\ ~editor[e].waits
    /\ editor' = [editor EXCEPT ![e].dialog = "none", ![e].impacts = {}, ![e].theirs = NULL]
    /\ UNCHANGED <<schemaDisk, updates, known>>

Begins == OverlapSaves \/ updates = {}
Update(e, kind, schema) == [by |-> e, kind |-> kind, schema |-> schema, at |-> "snapshot"]

(* "Apply", with the base as If-Match. *)
ConfirmSave(e) ==
    /\ NoOp /\ editor[e].dialog = "review" /\ ~editor[e].waits /\ Begins
    /\ editor[e].base = memory
    /\ updates' = updates \cup {Update(e, "save", editor[e].draft)}
    /\ editor' = [editor EXCEPT ![e].waits = TRUE]
    /\ UNCHANGED <<schemaDisk, known>>

(* Faulty variant of SaveConflict: the page takes the server's hash as its base.   *)
SaveConflictRebases(e) ==
    /\ NoOp /\ editor[e].dialog = "review" /\ ~editor[e].waits /\ Begins
    /\ editor[e].base # memory
    /\ editor' = [editor EXCEPT ![e].dialog = "conflict", ![e].impacts = {}, ![e].theirs = memory,
                                ![e].base = memory]
    /\ UNCHANGED <<schemaDisk, updates, known>>

(* 409: the schema has changed under the draft. *)
SaveConflict(e) ==
    /\ NoOp /\ editor[e].dialog = "review" /\ ~editor[e].waits /\ Begins
    /\ editor[e].base # memory
    /\ editor' = [editor EXCEPT ![e].dialog = "conflict", ![e].impacts = {}, ![e].theirs = memory]
    /\ UNCHANGED <<schemaDisk, updates, known>>

(* "Keep my edits" and "Discard + reload". *)
KeepEditingAgainstNewBase(e) ==
    /\ NoOp /\ editor[e].dialog = "conflict"
    /\ editor' = [editor EXCEPT ![e].base = editor[e].theirs, ![e].dialog = "none", ![e].theirs = NULL]
    /\ known' = [known EXCEPT ![e] = @ \cup {editor[e].theirs}]
    /\ UNCHANGED <<schemaDisk, updates>>

DiscardAndReload(e) ==
    /\ NoOp /\ editor[e].dialog = "conflict"
    /\ editor' = [editor EXCEPT ![e] = [Shown(@, memory) EXCEPT !.dialog = "none", !.theirs = NULL]]
    /\ known' = [known EXCEPT ![e] = IF memory = editor[e].shown THEN @ ELSE {memory}]
    /\ UNCHANGED <<schemaDisk, updates>>

(* The history drawer; a rollback carries no If-Match. *)
OpenHistory(e) ==
    /\ Op /\ Idle(e) /\ editor' = [editor EXCEPT ![e].dialog = "history"]
    /\ UNCHANGED <<schemaDisk, updates, known>>

RollbackTo(e, k) ==
    /\ NoOp /\ editor[e].dialog = "history" /\ ~editor[e].waits /\ Begins /\ k \in 1 .. Len(history)
    /\ updates' = updates \cup {Update(e, "rollback", history[k])}
    /\ editor' = [editor EXCEPT ![e].waits = TRUE]
    /\ UNCHANGED <<schemaDisk, known>>

(* A client of the API that sends no If-Match. *)
PutSchema(next) ==
    /\ Op /\ Begins /\ next \in Edits(memory)
    /\ updates' = updates \cup {Update(NULL, "save", next)}
    /\ UNCHANGED <<schemaDisk, editor, known>>

-----------------------------------------------------------------------------
(* updateSchema() after its check: the snapshot of the file, whose failure *)
(* is ignored; the file; the copy in memory and the answer, after which    *)
(* the page loads the schema again.                                        *)
MoveTo(u, at) == updates' = (updates \ {u}) \cup {[u EXCEPT !.at = at]}

WriteSnapshot(u) ==
    /\ NoOp /\ u \in updates /\ u.at = "snapshot"
    /\ history' = SubSeq(<<schemaFile>> \o history, 1,
                       IF Len(history) < HistoryLimit THEN Len(history) + 1 ELSE HistoryLimit)
    /\ MoveTo(u, "file")
    /\ UNCHANGED <<schemaFile, memory, editor, known>>

SnapshotFails(u) ==
    /\ Op /\ u \in updates /\ u.at = "snapshot" /\ MoveTo(u, "file")
    /\ UNCHANGED <<schemaDisk, editor, known>>

ReplaceFile(u) ==
    /\ NoOp /\ u \in updates /\ u.at = "file" /\ schemaFile' = u.schema /\ MoveTo(u, "memory")
    /\ UNCHANGED <<history, memory, editor, known>>

Told(u, f(_)) == editor' = IF u.by = NULL THEN editor ELSE [editor EXCEPT ![u.by] = f(@)]

(* The write or the rename fails: an error, and the dialog stays open.     *)
StillOpen(ed) == [ed EXCEPT !.waits = FALSE]
ReplaceFails(u) ==
    /\ Op /\ u \in updates /\ u.at = "file" /\ updates' = updates \ {u} /\ Told(u, StillOpen)
    /\ UNCHANGED <<schemaDisk, known>>

Settle(u) ==
    /\ NoOp /\ u \in updates /\ u.at = "memory"
    /\ memory' = u.schema /\ updates' = updates \ {u}
    /\ Told(u, LAMBDA ed : [Shown(ed, u.schema) EXCEPT !.waits = FALSE, !.dialog = "none", !.impacts = {}])
    /\ known' = IF u.by = NULL THEN known
                ELSE [known EXCEPT ![u.by] = IF u.schema = editor[u.by].shown THEN @ ELSE {u.schema}]
    /\ UNCHANGED <<schemaFile, history>>

(* The api-server dies and loadSchema() reads the file. *)
ServerRestarts ==
    /\ Op /\ updates' = {} /\ memory' = schemaFile
    /\ editor' = [e \in Editors |-> StillOpen(editor[e])]
    /\ UNCHANGED <<schemaFile, history, known>>

SchemaNext ==
    \/ \E e \in Editors :
         \/ \E next \in Edits(editor[e].draft) : Edit(e, next)
         \/ Refetch(e) \/ OpenSaveDialog(e) \/ CloseDialog(e)
         \/ ConfirmSave(e) \/ SaveConflict(e)
         \/ KeepEditingAgainstNewBase(e) \/ DiscardAndReload(e)
         \/ OpenHistory(e)
         \/ \E k \in 1 .. HistoryLimit : RollbackTo(e, k)
    \/ \E next \in Edits(memory) : PutSchema(next)
    \/ \E u \in updates :
         \/ WriteSnapshot(u) \/ SnapshotFails(u) \/ ReplaceFile(u) \/ ReplaceFails(u) \/ Settle(u)
    \/ ServerRestarts

-----------------------------------------------------------------------------
(* A save from the editor replaces only a schema that its draft was made   *)
(* from, or that the person was told of after a conflict and chose to      *)
(* overwrite: what another writer saved meanwhile is never overwritten     *)
(* unseen, also when the conflict dialog is closed without a choice and    *)
(* when the server restarts.  Requires that updates do not overlap in the  *)
(* server, which checks the hash before its first await only.              *)
NoBlindOverwrite ==
    part = "schema" => \A u \in updates :
        u.by # NULL /\ u.kind = "save" /\ u.at # "memory" => schemaFile \in known[u.by]
=============================================================================
