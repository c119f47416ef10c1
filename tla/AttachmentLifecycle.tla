------------------------- MODULE AttachmentLifecycle -------------------------
(***************************************************************************)
(* The attachments of one property: the rows of tables attachment and      *)
(* attachment_text, the encrypted file each row names, the HTTP handlers   *)
(* that upload, patch, delete, correct, re-extract and read, and the       *)
(* extraction workers that poll the table.                                 *)
(*                                                                         *)
(* PostgreSQL runs the transactions at READ COMMITTED, so a handler is     *)
(* split where another session can commit between two of its statements:   *)
(* every "...Load" step takes the snapshot that a later step of the same   *)
(* request uses, stale or not.  A request that is refused before it        *)
(* changes anything is not a step.                                         *)
(***************************************************************************)
EXTENDS Naturals, FiniteSets

CONSTANTS
    AttId,          \* attachment identifiers (uuid.New values, never repeated)
    Client,         \* slots for concurrent HTTP requests
    Worker,         \* extraction loops; one per server process
    MaxAttempts,    \* len(retryDelays), also the CHECK on extract_attempts
    MaxCrashes,     \* bound on server crashes
    Faults          \* faults the environment may inject, see below

(***************************************************************************)
(* "lostAck": COMMIT is applied by the database and reported as an error   *)
(* to the handler (the connection, or the request context, is gone).       *)
(* "remove": deleting a file fails.                                        *)
(***************************************************************************)
ASSUME FaultsAssumption == Faults \subseteq {"lostAck", "remove"}
ASSUME BoundsAssumption == MaxAttempts \in Nat \ {0} /\ MaxCrashes \in Nat
ASSUME SetsAssumption == AttId # {} /\ Worker # {}

VARIABLES
    att,            \* table attachment
    text,           \* table attachment_text
    file,           \* the blob store
    issued,         \* identifiers handed out by uuid.New
    archived,       \* property.archived_at IS NOT NULL
    audit,          \* committed audit_log rows, as <<action, attachment>>
    answers,        \* how content requests ended, as <<answer, attachment>>
    cl,             \* request handlers in flight
    wk,             \* workers
    crashes         \* server crashes so far

tables == <<att, text, audit>>
vars == <<att, text, file, issued, archived, audit, answers, cl, wk, crashes>>

-----------------------------------------------------------------------------
(* Rows.                                                                   *)

ExtractState == {"pending", "done", "empty", "not_eligible", "too_large", "failed"}
Terminal == ExtractState \ {"pending"}

(* extract_next_at: NULL, a time that has passed, a time still to come.    *)
Due == {"none", "now", "later"}

AttRow == [live: BOOLEAN, sensitive: BOOLEAN, state: ExtractState,
           attempts: 0..MaxAttempts, due: Due]
NoRow == [live |-> FALSE, sensitive |-> FALSE, state |-> "pending",
          attempts |-> 0, due |-> "none"]
NewRow(s) == [NoRow EXCEPT !.live = TRUE, !.sensitive = s]

(* The one_shape CHECK of 0017: readable columns or cipher columns, never  *)
(* both.  A body is empty, read by a tool whole or cut at the cap, or      *)
(* typed by a person.                                                      *)
Shape == {"none", "readable", "sealed"}
Body == {"empty", "machine", "cut", "hand"}
TextRow == [shape: Shape, body: Body, corrected: BOOLEAN, truncated: BOOLEAN]
NoText == [shape |-> "none", body |-> "empty", corrected |-> FALSE, truncated |-> FALSE]
ShapeFor(s) == IF s THEN "sealed" ELSE "readable"

FileState == {"none", "partial", "whole"}

(* Mutant: the CHECKs are missing.                                         *)
NoRowChecks(r) == TRUE

(* Every CHECK of 0016 an UPDATE of the extraction columns can trip.       *)
RowChecks(r) == r.attempts <= MaxAttempts /\ (r.due # "none" => r.state = "pending")

-----------------------------------------------------------------------------
(* Requests and workers.                                                   *)

ClientPC == {"idle", "uploading", "uploaded", "uploadRefused",
             "patchLoaded", "patchUpdated", "deleteLoaded", "deleteCommitted",
             "correctLoaded", "reextractLoaded", "readLoaded", "readAudited"}
Want == {"absent", "true", "false"}

(* sens: the is_sensitive the request read; want: body.IsSensitive; seal   *)
(* and body: whether a PATCH found a text to seal, and which.              *)
ClientState == [pc: ClientPC, id: AttId, sens: BOOLEAN, want: Want,
                seal: BOOLEAN, body: Body]
WorkerPC == {"idle", "claimed", "extracting", "storedText", "storedEmpty"}
WorkerState == [pc: WorkerPC, id: AttId, attempts: 0..MaxAttempts, sens: BOOLEAN]

AnyId == CHOOSE a \in AttId : TRUE
IdleClient == [pc |-> "idle", id |-> AnyId, sens |-> FALSE, want |-> "absent",
               seal |-> FALSE, body |-> "empty"]
IdleWorker == [pc |-> "idle", id |-> AnyId, attempts |-> 0, sens |-> FALSE]

At(c, pc) == cl[c].pc = pc
Begin(c, a, pc) == cl' = [cl EXCEPT ![c] = [IdleClient EXCEPT !.pc = pc, !.id = a]]
Goto(c, pc) == cl' = [cl EXCEPT ![c].pc = pc]
Finish(c) == cl' = [cl EXCEPT ![c] = IdleClient]
Release(w) == wk' = [wk EXCEPT ![w] = IdleWorker]

(* A PATCH holds the row lock from its UPDATE until it commits.            *)
Locked(a) == \E c \in Client : At(c, "patchUpdated") /\ cl[c].id = a

Log(action, a) == audit' = audit \cup {<<action, a>>}

Init ==
    /\ att = [a \in AttId |-> NoRow]
    /\ text = [a \in AttId |-> NoText]
    /\ file = [a \in AttId |-> "none"]
    /\ issued = {}
    /\ archived = FALSE
    /\ audit = {}
    /\ answers = {}
    /\ cl = [c \in Client |-> IdleClient]
    /\ wk = [w \in Worker |-> IdleWorker]
    /\ crashes = 0

-----------------------------------------------------------------------------
(* Upload: handleUploadAttachment.                                         *)

(* The archived check, then the store file is created under a fresh id.    *)
UploadStart(c, a) ==
    /\ At(c, "idle")
    /\ a \notin issued
    /\ ~archived
    /\ issued' = issued \cup {a}
    /\ file' = [file EXCEPT ![a] = "partial"]
    /\ Begin(c, a, "uploading")
    /\ UNCHANGED <<tables, archived, answers, wk, crashes>>

(* Envelope.Stream wrote the whole ciphertext and the file was closed.     *)
UploadStream(c) ==
    /\ At(c, "uploading")
    /\ file' = [file EXCEPT ![cl[c].id] = "whole"]
    /\ Goto(c, "uploaded")
    /\ UNCHANGED <<tables, issued, archived, answers, wk, crashes>>

InsertRow(a, s) ==
    /\ att' = [att EXCEPT ![a] = NewRow(s)]
    /\ Log("added", a)

(* Mutant: the row is inserted while the file is still being written.      *)
UploadCommitEarly(c) ==
    /\ cl[c].pc \in {"uploading", "uploaded"}
    /\ \E s \in BOOLEAN : InsertRow(cl[c].id, s)
    /\ Finish(c)
    /\ UNCHANGED <<text, file, issued, archived, answers, wk, crashes>>

(* INSERT, audit row and COMMIT.                                           *)
UploadCommit(c) ==
    /\ At(c, "uploaded")
    /\ \E s \in BOOLEAN : InsertRow(cl[c].id, s)
    /\ Finish(c)
    /\ UNCHANGED <<text, file, issued, archived, answers, wk, crashes>>

(* The COMMIT took effect but tx.Commit returned an error.                 *)
UploadCommitLostAck(c) ==
    /\ "lostAck" \in Faults
    /\ At(c, "uploaded")
    /\ \E s \in BOOLEAN : InsertRow(cl[c].id, s)
    /\ Goto(c, "uploadRefused")
    /\ UNCHANGED <<text, file, issued, archived, answers, wk, crashes>>

(* os.Remove on each error return: encryption failed, the file is over the *)
(* limit, or INSERT, audit or COMMIT failed.  Its own error is discarded.  *)
UploadCleanup(c) ==
    /\ cl[c].pc \in {"uploading", "uploaded", "uploadRefused"}
    /\ \/ file' = [file EXCEPT ![cl[c].id] = "none"]
       \/ "remove" \in Faults /\ UNCHANGED file
    /\ Finish(c)
    /\ UNCHANGED <<tables, issued, archived, answers, wk, crashes>>

-----------------------------------------------------------------------------
(* PATCH: handleUpdateAttachment.                                          *)

NewSensitive(c) == IF cl[c].want = "absent" THEN cl[c].sens ELSE cl[c].want = "true"
(* Mutant: any is_sensitive in the body counts as a promotion.             *)
PromotesAny(c) == cl[c].want # "absent" /\ ~cl[c].sens

Promotes(c) == cl[c].want = "true" /\ ~cl[c].sens

(* loadAttachmentRow, the archived check and the refusal of a demotion.    *)
PatchLoad(c, a) ==
    /\ At(c, "idle")
    /\ att[a].live
    /\ ~archived
    /\ \E want \in Want :
        /\ ~(want = "false" /\ att[a].sensitive)
        /\ cl' = [cl EXCEPT ![c] = [IdleClient EXCEPT !.pc = "patchLoaded", !.id = a,
                                        !.sens = att[a].sensitive, !.want = want]]
    /\ UNCHANGED <<tables, file, issued, archived, answers, wk, crashes>>

(* Mutant: the trigger is missing.                                         *)
NoTrigger(a, s) == TRUE

(* Trigger attachment_sensitivity_one_way.                                 *)
TriggerAllows(a, s) == ~(att[a].sensitive /\ ~s)

(* UPDATE attachment, then on promotion the SELECT of the body to seal.    *)
PatchUpdate(c) ==
    LET a == cl[c].id IN
    /\ At(c, "patchLoaded")
    /\ ~Locked(a)
    /\ att[a].live
    /\ TriggerAllows(a, NewSensitive(c))
    /\ cl' = [cl EXCEPT ![c] = [@ EXCEPT
                !.pc = "patchUpdated",
                !.seal = Promotes(c) /\ text[a].shape = "readable" /\ text[a].body # "empty",
                !.body = text[a].body]]
    /\ UNCHANGED <<tables, file, issued, archived, answers, wk, crashes>>

(* The sealing UPDATE of attachment_text, the audit row and COMMIT.        *)
PatchCommit(c) ==
    LET a == cl[c].id IN
    /\ At(c, "patchUpdated")
    /\ att' = [att EXCEPT ![a].sensitive = NewSensitive(c)]
    /\ text' = IF cl[c].seal
               THEN [text EXCEPT ![a] = [shape |-> "sealed", body |-> cl[c].body,
                                         corrected |-> FALSE, truncated |-> FALSE]]
               ELSE text
    /\ IF Promotes(c) THEN Log("raised", a) ELSE UNCHANGED audit
    /\ Finish(c)
    /\ UNCHANGED <<file, issued, archived, answers, wk, crashes>>

-----------------------------------------------------------------------------
(* DELETE: handleDeleteAttachment.                                         *)

DeleteLoad(c, a) ==
    /\ At(c, "idle")
    /\ att[a].live
    /\ ~archived
    /\ Begin(c, a, "deleteLoaded")
    /\ UNCHANGED <<tables, file, issued, archived, answers, wk, crashes>>

(* Mutant: the handler goes on to the file although COMMIT failed.         *)
DeleteCommitUnchecked(c) ==
    /\ At(c, "deleteLoaded")
    /\ ~Locked(cl[c].id)
    /\ Goto(c, "deleteCommitted")
    /\ UNCHANGED <<tables, file, issued, archived, answers, wk, crashes>>

(* Mutant: the removal is not recorded.                                    *)
DeleteCommitUnlogged(c) ==
    LET a == cl[c].id IN
    /\ At(c, "deleteLoaded")
    /\ ~Locked(a)
    /\ att' = [att EXCEPT ![a] = NoRow]
    /\ text' = [text EXCEPT ![a] = NoText]
    /\ Goto(c, "deleteCommitted")
    /\ UNCHANGED <<audit, file, issued, archived, answers, wk, crashes>>

(* Mutant: attachment_text has no ON DELETE CASCADE.                       *)
DeleteCommitNoCascade(c) ==
    LET a == cl[c].id IN
    /\ At(c, "deleteLoaded")
    /\ ~Locked(a)
    /\ att' = [att EXCEPT ![a] = NoRow]
    /\ Log("removed", a)
    /\ Goto(c, "deleteCommitted")
    /\ UNCHANGED <<text, file, issued, archived, answers, wk, crashes>>

(* DELETE with its cascade, the audit row and COMMIT.  A row that is       *)
(* already gone deletes nothing and is recorded all the same.              *)
DeleteCommit(c) ==
    LET a == cl[c].id IN
    /\ At(c, "deleteLoaded")
    /\ ~Locked(a)
    /\ att' = [att EXCEPT ![a] = NoRow]
    /\ text' = [text EXCEPT ![a] = NoText]
    /\ Log("removed", a)
    /\ \/ Goto(c, "deleteCommitted")
       \/ "lostAck" \in Faults /\ Finish(c)
    /\ UNCHANGED <<file, issued, archived, answers, wk, crashes>>

(* Mutant: the file is left to somebody else.                              *)
DeleteFileForgotten(c) ==
    /\ At(c, "deleteCommitted")
    /\ Finish(c)
    /\ UNCHANGED <<tables, file, issued, archived, answers, wk, crashes>>

(* blobstore.Delete after the commit; a failure is only logged.            *)
DeleteFile(c) ==
    /\ At(c, "deleteCommitted")
    /\ \/ file' = [file EXCEPT ![cl[c].id] = "none"]
       \/ "remove" \in Faults /\ UNCHANGED file
    /\ Finish(c)
    /\ UNCHANGED <<tables, issued, archived, answers, wk, crashes>>

-----------------------------------------------------------------------------
(* Hand correction and re-extraction.                                      *)

CorrectLoad(c, a) ==
    /\ At(c, "idle")
    /\ att[a].live
    /\ cl' = [cl EXCEPT ![c] = [IdleClient EXCEPT !.pc = "correctLoaded", !.id = a,
                                    !.sens = att[a].sensitive]]
    /\ UNCHANGED <<tables, file, issued, archived, answers, wk, crashes>>

(* Mutant: the correction is not recorded.                                 *)
CorrectCommitUnlogged(c) ==
    LET a == cl[c].id IN
    /\ At(c, "correctLoaded")
    /\ att[a].live
    /\ text' = [text EXCEPT ![a] = [shape |-> ShapeFor(cl[c].sens), body |-> "hand",
                                    corrected |-> TRUE, truncated |-> FALSE]]
    /\ Finish(c)
    /\ UNCHANGED <<att, audit, file, issued, archived, answers, wk, crashes>>

(* Mutant: the correction also settles the extraction, worker or no worker. *)
CorrectCommitSettles(c) ==
    LET a == cl[c].id IN
    /\ At(c, "correctLoaded")
    /\ att[a].live
    /\ text' = [text EXCEPT ![a] = [shape |-> ShapeFor(cl[c].sens), body |-> "hand",
                                    corrected |-> TRUE, truncated |-> FALSE]]
    /\ att' = [att EXCEPT ![a].state = "done", ![a].due = "none"]
    /\ Log("corrected", a)
    /\ Finish(c)
    /\ UNCHANGED <<file, issued, archived, answers, wk, crashes>>

(* The upsert and COMMIT.  The foreign key refuses it once the row is gone. *)
CorrectCommit(c) ==
    LET a == cl[c].id IN
    /\ At(c, "correctLoaded")
    /\ att[a].live
    /\ \E b \in {"hand", "empty"} :
        text' = [text EXCEPT ![a] = [shape |-> ShapeFor(cl[c].sens), body |-> b,
                                     corrected |-> TRUE, truncated |-> FALSE]]
    /\ Log("corrected", a)
    /\ Finish(c)
    /\ UNCHANGED <<att, file, issued, archived, answers, wk, crashes>>

ReextractLoad(c, a) ==
    /\ At(c, "idle")
    /\ att[a].live
    /\ ~text[a].corrected
    /\ att[a].state # "pending"
    /\ Begin(c, a, "reextractLoaded")
    /\ UNCHANGED <<tables, file, issued, archived, answers, wk, crashes>>

(* Mutant: the UPDATE has no condition on extract_state.                   *)
ReextractCommitAnyState(c) ==
    LET a == cl[c].id IN
    /\ At(c, "reextractLoaded")
    /\ ~Locked(a)
    /\ att[a].live
    /\ att' = [att EXCEPT ![a] = [@ EXCEPT !.state = "pending", !.attempts = 0,
                                           !.due = "now"]]
    /\ Log("reextract", a)
    /\ Finish(c)
    /\ UNCHANGED <<text, file, issued, archived, answers, wk, crashes>>

(* Mutant: the attempts of the last round are kept.                        *)
ReextractCommitKeepsAttempts(c) ==
    LET a == cl[c].id IN
    /\ At(c, "reextractLoaded")
    /\ ~Locked(a)
    /\ att[a].live
    /\ att[a].state \in Terminal
    /\ att' = [att EXCEPT ![a] = [@ EXCEPT !.state = "pending", !.due = "now"]]
    /\ Log("reextract", a)
    /\ Finish(c)
    /\ UNCHANGED <<text, file, issued, archived, answers, wk, crashes>>

(* The conditional UPDATE: only a terminal state goes back to pending.     *)
ReextractCommit(c) ==
    LET a == cl[c].id IN
    /\ At(c, "reextractLoaded")
    /\ ~Locked(a)
    /\ att[a].live
    /\ att[a].state \in Terminal
    /\ att' = [att EXCEPT ![a] = [@ EXCEPT !.state = "pending", !.attempts = 0,
                                           !.due = "now"]]
    /\ Log("reextract", a)
    /\ Finish(c)
    /\ UNCHANGED <<text, file, issued, archived, answers, wk, crashes>>

-----------------------------------------------------------------------------
(* Reading the body: handleGetAttachmentContent.                           *)

ReadLoad(c, a) ==
    /\ At(c, "idle")
    /\ att[a].live
    /\ Begin(c, a, "readLoaded")
    /\ UNCHANGED <<tables, file, issued, archived, answers, wk, crashes>>

(* Mutant: a failed audit write does not stop the read.                    *)
ReadAuditSkipped(c) ==
    /\ At(c, "readLoaded")
    /\ Goto(c, "readAudited")
    /\ UNCHANGED <<tables, file, issued, archived, answers, wk, crashes>>

(* audit.WriteCommitted, in a transaction of its own, before any byte.     *)
ReadAudit(c) ==
    /\ At(c, "readLoaded")
    /\ Log("read", cl[c].id)
    /\ Goto(c, "readAudited")
    /\ UNCHANGED <<att, text, file, issued, archived, answers, wk, crashes>>

(* blobstore.Open: the whole file is served, anything else is the 422      *)
(* integrity answer.                                                       *)
ReadServe(c) ==
    LET a == cl[c].id
        answer == IF file[a] = "whole" THEN "served" ELSE "integrity_failed"
    IN
    /\ At(c, "readAudited")
    /\ answers' = answers \cup {<<answer, a>>}
    /\ Finish(c)
    /\ UNCHANGED <<tables, file, issued, archived, wk, crashes>>

-----------------------------------------------------------------------------
(* A request whose transaction rolls back before it changed anything that  *)
(* outlives it: a database or audit error, a row that has gone, the        *)
(* trigger, a re-extraction that lost the race, a cancelled request.       *)
RequestFails(c) ==
    /\ cl[c].pc \in {"patchLoaded", "patchUpdated", "deleteLoaded", "correctLoaded",
                     "reextractLoaded", "readLoaded", "readAudited"}
    /\ Finish(c)
    /\ UNCHANGED <<tables, file, issued, archived, answers, wk, crashes>>

(* handleArchiveProperty and handleRestoreProperty, as seen from here.     *)
ToggleArchived ==
    /\ archived' = ~archived
    /\ UNCHANGED <<tables, file, issued, answers, cl, wk, crashes>>

-----------------------------------------------------------------------------
(* The worker: processOne.                                                 *)

IsDue(a) == att[a].live /\ att[a].state = "pending" /\ att[a].due \in {"none", "now"}

(* claimNext: ORDER BY extract_next_at NULLS FIRST ... SKIP LOCKED.  The   *)
(* transaction commits at once, so the claim leaves no mark on the row.    *)
WorkerClaim(w, a) ==
    /\ wk[w].pc = "idle"
    /\ IsDue(a) /\ ~Locked(a)
    /\ att[a].due = "now" =>
            ~\E b \in AttId : IsDue(b) /\ ~Locked(b) /\ att[b].due = "none"
    /\ wk' = [wk EXCEPT ![w] = [pc |-> "claimed", id |-> a, attempts |-> att[a].attempts,
                                sens |-> att[a].sensitive]]
    /\ UNCHANGED <<tables, file, issued, archived, answers, cl, crashes>>

(* openAttachmentBody found the row and its file.                          *)
WorkerOpen(w) ==
    /\ wk[w].pc = "claimed"
    /\ att[wk[w].id].live
    /\ file[wk[w].id] = "whole"
    /\ wk' = [wk EXCEPT ![w].pc = "extracting"]
    /\ UNCHANGED <<tables, file, issued, archived, answers, cl, crashes>>

(* One UPDATE ... WHERE id = $1: waits for the row lock, touches nothing   *)
(* when the row is gone, and is refused by a CHECK it would break.         *)
MarkRow(a, r) ==
    /\ ~Locked(a)
    /\ att' = IF att[a].live /\ RowChecks(r) THEN [att EXCEPT ![a] = r] ELSE att

MarkTerminal(a, state) == MarkRow(a, [att[a] EXCEPT !.state = state, !.due = "none"])

(* markNotEligible (the router refused the type) and markState too_large.  *)
WorkerRefuse(w) ==
    /\ \/ wk[w].pc = "claimed" /\ MarkTerminal(wk[w].id, "not_eligible")
       \/ wk[w].pc = "extracting" /\ MarkTerminal(wk[w].id, "too_large")
    /\ Release(w)
    /\ UNCHANGED <<text, audit, file, issued, archived, answers, cl, crashes>>

(* Mutant: the last attempt is not counted as the last.                    *)
AfterErrorForever(r, claimed) == [r EXCEPT !.attempts = @ + 1, !.due = "later"]

(* The body could not be opened or the tool failed: markFailed after the   *)
(* last attempt, scheduleRetry before.  The count tested is the claimed    *)
(* one, the count written is the row's.                                    *)
AfterError(r, claimed) ==
    LET once == [r EXCEPT !.attempts = @ + 1] IN
    IF claimed + 1 >= MaxAttempts
    THEN [once EXCEPT !.state = "failed", !.due = "none"]
    ELSE [once EXCEPT !.due = "later"]

WorkerRetry(w) ==
    /\ wk[w].pc \in {"claimed", "extracting"}
    /\ MarkRow(wk[w].id, AfterError(att[wk[w].id], wk[w].attempts))
    /\ Release(w)
    /\ UNCHANGED <<text, audit, file, issued, archived, answers, cl, crashes>>

(* Mutant: the upsert leaves the correction mark of the text it replaces.  *)
WorkerStoreTextKeepsMark(w) ==
    LET a == wk[w].id IN
    /\ wk[w].pc = "extracting"
    /\ att[a].live
    /\ \E b \in {"machine", "cut", "empty"} :
        /\ text' = [text EXCEPT ![a].shape = ShapeFor(wk[w].sens), ![a].body = b,
                                ![a].truncated = (b = "cut")]
        /\ wk' = [wk EXCEPT ![w].pc = IF b = "empty" THEN "storedEmpty" ELSE "storedText"]
    /\ UNCHANGED <<att, audit, file, issued, archived, answers, cl, crashes>>

(* storeText: the upsert, in the shape of the sensitivity that was claimed. *)
(* It clears the correction mark.  The foreign key refuses a row that has  *)
(* gone (WorkerError).                                                     *)
WorkerStoreText(w) ==
    LET a == wk[w].id IN
    /\ wk[w].pc = "extracting"
    /\ att[a].live
    /\ \E b \in {"machine", "cut", "empty"} :
        /\ text' = [text EXCEPT ![a] = [shape |-> ShapeFor(wk[w].sens), body |-> b,
                                        corrected |-> FALSE, truncated |-> (b = "cut")]]
        /\ wk' = [wk EXCEPT ![w].pc = IF b = "empty" THEN "storedEmpty" ELSE "storedText"]
    /\ UNCHANGED <<att, audit, file, issued, archived, answers, cl, crashes>>

(* Mutant: done is committed before the text.                              *)
WorkerMarkDoneFirst(w) ==
    /\ wk[w].pc = "extracting"
    /\ MarkTerminal(wk[w].id, "done")
    /\ Release(w)
    /\ UNCHANGED <<text, audit, file, issued, archived, answers, cl, crashes>>

(* markDone and the second transaction of markEmpty.                       *)
WorkerMarkDone(w) ==
    /\ \/ wk[w].pc = "storedText" /\ MarkTerminal(wk[w].id, "done")
       \/ wk[w].pc = "storedEmpty" /\ MarkTerminal(wk[w].id, "empty")
    /\ Release(w)
    /\ UNCHANGED <<text, audit, file, issued, archived, answers, cl, crashes>>

(* A statement of processOne failed: the loop breaks until the next tick.  *)
WorkerError(w) ==
    /\ wk[w].pc # "idle"
    /\ Release(w)
    /\ UNCHANGED <<tables, file, issued, archived, answers, cl, crashes>>

(* extract_next_at is reached.                                             *)
RetryDue(a) ==
    /\ att[a].due = "later"
    /\ att' = [att EXCEPT ![a].due = "now"]
    /\ UNCHANGED <<text, audit, file, issued, archived, answers, cl, wk, crashes>>

(* The server process dies: open transactions roll back, requests and      *)
(* workers are gone, rows and files stay as they are.                      *)
Crash ==
    /\ crashes < MaxCrashes
    /\ crashes' = crashes + 1
    /\ cl' = [c \in Client |-> IdleClient]
    /\ wk' = [w \in Worker |-> IdleWorker]
    /\ UNCHANGED <<tables, file, issued, archived, answers>>

-----------------------------------------------------------------------------
RequestStart(c, a) ==
    \/ UploadStart(c, a) \/ PatchLoad(c, a) \/ DeleteLoad(c, a)
    \/ CorrectLoad(c, a) \/ ReextractLoad(c, a) \/ ReadLoad(c, a)

RequestStep(c) ==
    \/ UploadStream(c) \/ UploadCommit(c) \/ UploadCommitLostAck(c) \/ UploadCleanup(c)
    \/ PatchUpdate(c) \/ PatchCommit(c)
    \/ DeleteCommit(c) \/ DeleteFile(c)
    \/ CorrectCommit(c) \/ ReextractCommit(c)
    \/ ReadAudit(c) \/ ReadServe(c)
    \/ RequestFails(c)

WorkerStep(w) ==
    \/ WorkerOpen(w) \/ WorkerRefuse(w) \/ WorkerRetry(w)
    \/ WorkerStoreText(w) \/ WorkerMarkDone(w) \/ WorkerError(w)

Next ==
    \/ \E c \in Client, a \in AttId : RequestStart(c, a)
    \/ \E c \in Client : RequestStep(c)
    \/ \E w \in Worker, a \in AttId : WorkerClaim(w, a)
    \/ \E w \in Worker : WorkerStep(w)
    \/ \E a \in AttId : RetryDue(a)
    \/ ToggleArchived
    \/ Crash

Spec == Init /\ [][Next]_vars

(***************************************************************************)
(* Fairness.  A handler goroutine runs to its end and a cancelled one      *)
(* returns (WF of its steps); the worker ticks every two seconds for as    *)
(* long as the server is up; ORDER BY never lets newer rows overtake an    *)
(* older one forever, hence SF per row on the claim; the errors the loop   *)
(* logs and forgets are transient, hence SF per row on the statement that  *)
(* ends its processing; time passes.                                       *)
(***************************************************************************)
WorkerProgress(w, a) ==
    /\ wk[w].id = a
    /\ WorkerRefuse(w) \/ WorkerRetry(w) \/ WorkerMarkDone(w)

Fairness ==
    /\ \A c \in Client : WF_vars(RequestStep(c)) /\ WF_vars(DeleteFile(c))
    /\ \A w \in Worker :
        /\ \A a \in AttId : SF_vars(WorkerClaim(w, a)) /\ SF_vars(WorkerProgress(w, a))
        /\ WF_vars(WorkerStep(w))
    /\ \A a \in AttId : WF_vars(RetryDue(a))

FairSpec == Spec /\ Fairness

-----------------------------------------------------------------------------
(* Properties that hold.                                                   *)

(* Every variable keeps its type; in particular no UPDATE that a worker    *)
(* sends ever leaves more attempts than the CHECK of 0016 allows.          *)
TypeOK ==
    /\ att \in [AttId -> AttRow]
    /\ text \in [AttId -> TextRow]
    /\ file \in [AttId -> FileState]
    /\ issued \subseteq AttId
    /\ archived \in BOOLEAN
    /\ audit \subseteq {"added", "raised", "removed", "corrected", "reextract", "read"} \X AttId
    /\ answers \subseteq {"served", "integrity_failed"} \X AttId
    /\ cl \in [Client -> ClientState]
    /\ wk \in [Worker -> WorkerState]
    /\ crashes \in 0..MaxCrashes

(* A committed row always has its whole file: the upload writes the file   *)
(* before the row and the delete removes it after, so no interleaving or   *)
(* crash between them leaves a row nobody can read.                        *)
RowHasFile == \A a \in AttId : att[a].live => file[a] = "whole"

(* A reader is answered "integrity failed" only about a row that has been  *)
(* deleted since the reader loaded it, never about a stored attachment.    *)
NoFalseAlarm ==
    \A a \in AttId : <<"integrity_failed", a>> \in answers => ~att[a].live

(* Extracted text never outlives its attachment, although the worker and   *)
(* the correction write it long after they looked at the row.              *)
TextHasRow == \A a \in AttId : text[a].shape # "none" => att[a].live

(* Text is sealed only on a sensitive attachment.  Sealed text on an       *)
(* ordinary row would be unreadable for good: the text handler opens the   *)
(* cipher columns only when is_sensitive is set.                           *)
SealedOnlyIfSensitive ==
    \A a \in AttId : text[a].shape = "sealed" => att[a].sensitive

(* A mark is never on a text it does not speak of, whoever wrote last: a   *)
(* machine text does not pass for a corrected one, nor a whole one for cut.*)
MarksAreHonest ==
    \A a \in AttId :
        /\ text[a].corrected => text[a].body \in {"hand", "empty"}
        /\ text[a].truncated => text[a].body = "cut"

(* The two transactions that end an extraction are ordered so that a crash *)
(* between them never shows a finished extraction without its text.        *)
DoneHasText ==
    \A a \in AttId : att[a].live /\ att[a].state \in {"done", "empty"} =>
        text[a].shape # "none"

(* With one worker the claim cannot go stale: the row it is processing is  *)
(* still pending and due, with the attempt count it read, so the           *)
(* unconditional WHERE id = $1 of every mark is harmless.                  *)
ClaimIsCurrent ==
    \A w \in Worker :
        wk[w].pc # "idle" /\ att[wk[w].id].live =>
            /\ att[wk[w].id].state = "pending"
            /\ att[wk[w].id].due # "later"
            /\ att[wk[w].id].attempts = wk[w].attempts

(* What the tables show, the audit log explains: every row was added, a    *)
(* row that is gone was removed, hand-made text was corrected.             *)
AuditCoversRows ==
    \A a \in AttId :
        /\ att[a].live => <<"added", a>> \in audit
        /\ <<"added", a>> \in audit /\ ~att[a].live => <<"removed", a>> \in audit
        /\ text[a].body = "hand" => <<"corrected", a>> \in audit

(* No body is served before its read is on record.                         *)
ReadsAreAudited ==
    \A a \in AttId : <<"served", a>> \in answers => <<"read", a>> \in audit

(* Sensitivity is raised and never lowered while the row lives, also when  *)
(* a PATCH that loaded the row before a promotion writes its old value.    *)
SensitivityOneWay ==
    [][\A a \in AttId :
        att[a].live /\ att'[a].live /\ att[a].sensitive => att'[a].sensitive]_vars

(* A finished extraction changes state only because a person asked for it  *)
(* again, and then with a fresh set of attempts.                           *)
TerminalKept ==
    [][\A a \in AttId :
        att[a].live /\ att'[a].live /\ att[a].state \in Terminal
            /\ att'[a].state # att[a].state =>
                /\ att'[a].state = "pending" /\ att'[a].attempts = 0
                /\ <<"reextract", a>> \in audit']_vars

(* FR-024b, as far as the code keeps it: once the extraction is settled,   *)
(* no worker replaces a text typed by a person.  Only a promotion can,     *)
(* when it read the text to seal before the person's correction committed. *)
SettledHandTextKept ==
    [][\A a \in AttId :
        att[a].live /\ att[a].state \in Terminal /\ text[a].body = "hand" =>
            \/ text'[a].body \in {"hand", "empty"}
            \/ \E c \in Client : At(c, "patchUpdated") /\ cl[c].id = a /\ cl[c].seal]_vars

(* The detail implements the promise: no interleaving of requests, worker,  *)
(* crash and fault is anything but a decision of AttachmentPromise with    *)
(* its log row, a settlement, or nothing.  A removed identifier is one the *)
(* log knows and the table does not.                                       *)
PromisedPhase(a) ==
    IF ~att[a].live
    THEN IF <<"added", a>> \in audit THEN "removed" ELSE "absent"
    ELSE IF att[a].state = "pending" THEN "pending" ELSE "settled"

Decisions == {"added", "raised", "removed", "reextract"}

Promise == INSTANCE AttachmentPromise WITH
    phase <- [a \in AttId |-> PromisedPhase(a)],
    sensitive <- [a \in AttId |-> att[a].sensitive],
    log <- audit \cap (Decisions \X AttId)

PromiseKept == Promise!Spec
PromiseKeptInTime == Promise!FairSpec

(* "The store's contents should converge on exactly one file per row."     *)
FilesConverge ==
    \A a \in AttId :
        (file[a] # "none" /\ ~att[a].live) ~> (file[a] = "none" \/ att[a].live)

-----------------------------------------------------------------------------
(* What the documents promise and the code does not keep; each is the one  *)
(* property of a run that finds it violated.                               *)

(* FR-022b, FR-029 and D-008: no text of a sensitive attachment is in the  *)
(* column document search reads.                                           *)
SensitiveNotSearchable ==
    \A a \in AttId :
        ~(att[a].sensitive /\ text[a].shape = "readable" /\ text[a].body # "empty")
=============================================================================
