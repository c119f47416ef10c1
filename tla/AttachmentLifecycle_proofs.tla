--------------------- MODULE AttachmentLifecycle_proofs ---------------------
(***************************************************************************)
(* Theorems about AttachmentLifecycle, for every number of attachments,    *)
(* requests, workers, attempts and crashes.                                *)
(***************************************************************************)
EXTENDS AttachmentLifecycle, TLAPS

-----------------------------------------------------------------------------
(* Types.                                                                  *)

LEMMA IdleTypes == IdleClient \in ClientState /\ IdleWorker \in WorkerState
  BY SetsAssumption, BoundsAssumption
  DEF IdleClient, IdleWorker, ClientState, WorkerState, ClientPC, WorkerPC, Want,
      Body, AnyId

LEMMA ClientTypes ==
    ASSUME NEW a \in AttId, NEW pc \in ClientPC
    PROVE  /\ [IdleClient EXCEPT !.pc = pc, !.id = a] \in ClientState
           /\ \A s \in BOOLEAN, want \in Want :
                [IdleClient EXCEPT !.pc = pc, !.id = a, !.sens = s, !.want = want]
                    \in ClientState
           /\ \A s \in BOOLEAN :
                [IdleClient EXCEPT !.pc = pc, !.id = a, !.sens = s] \in ClientState
  BY IdleTypes DEF ClientState

LEMMA RowTypes ==
    /\ NoRow \in AttRow
    /\ \A s \in BOOLEAN : NewRow(s) \in AttRow
    /\ NoText \in TextRow
<1>1. NoRow \in AttRow /\ NoText \in TextRow
  BY BoundsAssumption DEF AttRow, TextRow, NoRow, NoText, ExtractState, Due, Shape, Body
<1>2. \A s \in BOOLEAN : NewRow(s) \in AttRow
  BY <1>1 DEF NewRow, AttRow
<1> QED BY <1>1, <1>2

LEMMA RowUpdates ==
    ASSUME NEW r \in AttRow
    PROVE  /\ \A s \in ExtractState : [r EXCEPT !.state = s, !.due = "none"] \in AttRow
           /\ [r EXCEPT !.state = "pending", !.attempts = 0, !.due = "now"] \in AttRow
           /\ \A n : RowChecks(AfterError(r, n)) => AfterError(r, n) \in AttRow
<1>1. \A s \in ExtractState : [r EXCEPT !.state = s, !.due = "none"] \in AttRow
  BY DEF AttRow, Due
<1>2. [r EXCEPT !.state = "pending", !.attempts = 0, !.due = "now"] \in AttRow
  <2>1. 0 \in 0..MaxAttempts
    BY BoundsAssumption
  <2> QED BY <2>1 DEF AttRow, Due, ExtractState
<1>3. ASSUME NEW n, RowChecks(AfterError(r, n)) PROVE AfterError(r, n) \in AttRow
  <2>0. r.attempts \in Nat /\ MaxAttempts \in Nat
    BY BoundsAssumption DEF AttRow
  <2> DEFINE once == [r EXCEPT !.attempts = @ + 1]
             last == [once EXCEPT !.state = "failed", !.due = "none"]
             again == [once EXCEPT !.due = "later"]
  <2>1. last.attempts = r.attempts + 1 /\ again.attempts = r.attempts + 1
    BY DEF AttRow
  <2>2. AfterError(r, n) = last \/ AfterError(r, n) = again
    BY DEF AfterError
  <2>3. r.attempts + 1 \in 0..MaxAttempts
    <3> HIDE DEF last, again
    <3> QED BY <1>3, <2>0, <2>1, <2>2 DEF RowChecks
  <2>4. last \in AttRow /\ again \in AttRow
    BY <2>3 DEF AttRow, ExtractState, Due
  <2> QED BY <2>2, <2>4
<1> QED BY <1>1, <1>2, <1>3

(* The three ways a request moves.                                         *)
LEMMA Moves ==
    ASSUME TypeOK, NEW c \in Client
    PROVE  /\ Finish(c) => /\ cl'[c] = IdleClient /\ cl'[c].pc = "idle"
                           /\ \A d \in Client : d # c => cl'[d] = cl[d]
           /\ \A pc : Goto(c, pc) =>
                /\ cl'[c].pc = pc /\ cl'[c].id = cl[c].id /\ cl'[c].sens = cl[c].sens
                /\ \A d \in Client : d # c => cl'[d] = cl[d]
           /\ \A a, pc : Begin(c, a, pc) =>
                /\ cl'[c].pc = pc /\ cl'[c].id = a /\ ~cl'[c].sens
                /\ \A d \in Client : d # c => cl'[d] = cl[d]
<1>1. cl \in [Client -> ClientState] /\ cl[c] \in ClientState
  BY DEF TypeOK
<1>2. Finish(c) => /\ cl'[c] = IdleClient /\ cl'[c].pc = "idle"
                   /\ \A d \in Client : d # c => cl'[d] = cl[d]
  BY <1>1 DEF Finish, IdleClient
<1>3. ASSUME NEW pc, Goto(c, pc)
      PROVE  /\ cl'[c].pc = pc /\ cl'[c].id = cl[c].id /\ cl'[c].sens = cl[c].sens
             /\ \A d \in Client : d # c => cl'[d] = cl[d]
  BY <1>1, <1>3 DEF Goto, ClientState
<1>4. ASSUME NEW a, NEW pc, Begin(c, a, pc)
      PROVE  /\ cl'[c].pc = pc /\ cl'[c].id = a /\ ~cl'[c].sens
             /\ \A d \in Client : d # c => cl'[d] = cl[d]
  BY <1>1, <1>4 DEF Begin, IdleClient
<1> QED BY <1>2, <1>3, <1>4

LEMMA InitTypeOK == Init => TypeOK
<1> SUFFICES ASSUME Init PROVE TypeOK
  OBVIOUS
<1> USE DEF Init
<1>1. att \in [AttId -> AttRow] /\ text \in [AttId -> TextRow]
  BY RowTypes
<1>2. file \in [AttId -> FileState] /\ crashes \in 0..MaxCrashes
  BY BoundsAssumption DEF FileState
<1>3. cl \in [Client -> ClientState] /\ wk \in [Worker -> WorkerState]
  BY IdleTypes
<1> QED BY <1>1, <1>2, <1>3 DEF TypeOK

(* What a worker writes into a row is a row.                               *)
LEMMA MarkTypes ==
    ASSUME TypeOK, NEW a \in AttId,
           \/ \E state \in ExtractState : MarkTerminal(a, state)
           \/ \E n \in 0..MaxAttempts : MarkRow(a, AfterError(att[a], n))
    PROVE  att' \in [AttId -> AttRow]
<1>1. att \in [AttId -> AttRow] /\ att[a] \in AttRow
  BY DEF TypeOK
<1>2. \A r : MarkRow(a, r) /\ (RowChecks(r) => r \in AttRow) => att' \in [AttId -> AttRow]
  BY <1>1 DEF MarkRow
<1> QED BY <1>1, <1>2, RowUpdates DEF MarkTerminal

(* The extraction columns are all that a worker writes into a row.         *)
LEMMA MarkKeepsRow ==
    ASSUME TypeOK, NEW b \in AttId,
           \/ \E state : MarkTerminal(b, state)
           \/ \E n : MarkRow(b, AfterError(att[b], n))
    PROVE  \A a \in AttId :
                /\ att'[a].live = att[a].live /\ att'[a].sensitive = att[a].sensitive
                /\ a # b => att'[a] = att[a]
<1>1. att \in [AttId -> AttRow] /\ att[b] \in AttRow
  BY DEF TypeOK
<1>2. ASSUME NEW state
      PROVE  LET r == [att[b] EXCEPT !.state = state, !.due = "none"]
             IN  r.live = att[b].live /\ r.sensitive = att[b].sensitive
  BY <1>1 DEF AttRow
<1>3. ASSUME NEW n
      PROVE  LET r == AfterError(att[b], n)
             IN  r.live = att[b].live /\ r.sensitive = att[b].sensitive
  BY <1>1 DEF AfterError, AttRow
<1>4. ASSUME NEW r, r.live = att[b].live /\ r.sensitive = att[b].sensitive, MarkRow(b, r)
      PROVE  \A a \in AttId :
                /\ att'[a].live = att[a].live /\ att'[a].sensitive = att[a].sensitive
                /\ a # b => att'[a] = att[a]
  BY <1>1, <1>4 DEF MarkRow
<1>5. CASE \E state : MarkTerminal(b, state)
  BY <1>2, <1>4, <1>5 DEF MarkTerminal
<1>6. CASE \E n : MarkRow(b, AfterError(att[b], n))
  BY <1>3, <1>4, <1>6
<1> QED BY <1>5, <1>6

(* Every step keeps every type; the worker's UPDATEs keep the attempt      *)
(* count within the CHECK although the count they tested may be stale.     *)
LEMMA StepTypeOK == ASSUME TypeOK, [Next]_vars PROVE TypeOK'
<1> USE BoundsAssumption, IdleTypes DEF TypeOK
<1>1. ASSUME NEW c \in Client, NEW a \in AttId, RequestStart(c, a) PROVE TypeOK'
  <2>1. CASE UploadStart(c, a)
    BY <1>1, <2>1, ClientTypes DEF UploadStart, Begin, tables, ClientPC, FileState
  <2>2. CASE PatchLoad(c, a)
    <3>1. att[a].sensitive \in BOOLEAN /\ "patchLoaded" \in ClientPC
      BY DEF AttRow, ClientPC
    <3>2. cl' \in [Client -> ClientState]
      <4>1. PICK want \in Want :
              cl' = [cl EXCEPT ![c] = [IdleClient EXCEPT !.pc = "patchLoaded", !.id = a,
                                           !.sens = att[a].sensitive, !.want = want]]
        BY <2>2 DEF PatchLoad
      <4>2. [IdleClient EXCEPT !.pc = "patchLoaded", !.id = a,
                 !.sens = att[a].sensitive, !.want = want] \in ClientState
        BY <3>1, ClientTypes
      <4> QED BY <4>1, <4>2
    <3> QED BY <2>2, <3>2 DEF PatchLoad, tables
  <2>3. CASE CorrectLoad(c, a)
    BY <1>1, <2>3, ClientTypes DEF CorrectLoad, tables, ClientPC, AttRow
  <2>4. CASE DeleteLoad(c, a) \/ ReextractLoad(c, a) \/ ReadLoad(c, a)
    BY <1>1, <2>4, ClientTypes DEF DeleteLoad, ReextractLoad, ReadLoad, Begin, tables,
       ClientPC
  <2> QED BY <1>1, <2>1, <2>2, <2>3, <2>4 DEF RequestStart
<1>2. ASSUME NEW c \in Client, RequestStep(c) PROVE TypeOK'
  <2> DEFINE a == cl[c].id
  <2>0. a \in AttId
    BY DEF ClientState
  <2>1. CASE UploadStream(c)
    BY <2>1, <2>0 DEF UploadStream, Goto, tables, ClientState, ClientPC, FileState
  <2>2. CASE UploadCommit(c) \/ UploadCommitLostAck(c)
    <3>1. att' \in [AttId -> AttRow] /\ UNCHANGED text
      BY <2>2, <2>0, RowTypes DEF UploadCommit, UploadCommitLostAck, InsertRow
    <3>2. cl' \in [Client -> ClientState]
      BY <2>2 DEF UploadCommit, UploadCommitLostAck, Goto, Finish, ClientState, ClientPC
    <3> QED BY <2>2, <2>0, <3>1, <3>2 DEF UploadCommit, UploadCommitLostAck, InsertRow, Log
  <2>3. CASE UploadCleanup(c) \/ DeleteFile(c)
    BY <2>3, <2>0 DEF UploadCleanup, DeleteFile, Finish, tables, FileState
  <2>4. CASE PatchUpdate(c)
    BY <2>4, <2>0 DEF PatchUpdate, Promotes, tables, ClientState, ClientPC, TextRow
  <2>5. CASE PatchCommit(c)
    <3>1. NewSensitive(c) \in BOOLEAN
      BY DEF NewSensitive, ClientState
    <3>2. att' \in [AttId -> AttRow]
      BY <2>5, <2>0, <3>1 DEF PatchCommit, AttRow
    <3>3. text' \in [AttId -> TextRow]
      BY <2>5, <2>0 DEF PatchCommit, ClientState, TextRow, Shape
    <3> QED BY <2>5, <2>0, <3>2, <3>3 DEF PatchCommit, Log, Finish
  <2>6. CASE DeleteCommit(c)
    <3>1. att' \in [AttId -> AttRow] /\ text' \in [AttId -> TextRow]
      BY <2>6, <2>0, RowTypes DEF DeleteCommit
    <3>2. cl' \in [Client -> ClientState]
      BY <2>6 DEF DeleteCommit, Goto, Finish, ClientState, ClientPC
    <3> QED BY <2>6, <2>0, <3>1, <3>2 DEF DeleteCommit, Log
  <2>7. CASE CorrectCommit(c)
    BY <2>7, <2>0 DEF CorrectCommit, Log, Finish, ShapeFor, TextRow, Shape, Body
  <2>8. CASE ReextractCommit(c)
    <3>1. att' \in [AttId -> AttRow]
      BY <2>8, <2>0, RowUpdates DEF ReextractCommit
    <3> QED BY <2>8, <2>0, <3>1 DEF ReextractCommit, Log, Finish
  <2>9. CASE ReadAudit(c) \/ ReadServe(c) \/ RequestFails(c)
    BY <2>9, <2>0 DEF ReadAudit, ReadServe, RequestFails, Log, Goto, Finish, tables,
       ClientState, ClientPC
  <2> QED BY <1>2, <2>1, <2>2, <2>3, <2>4, <2>5, <2>6, <2>7, <2>8, <2>9 DEF RequestStep
<1>3. ASSUME NEW w \in Worker, NEW a \in AttId, WorkerClaim(w, a) PROVE TypeOK'
  BY <1>3 DEF WorkerClaim, tables, WorkerState, WorkerPC, AttRow
<1>4. ASSUME NEW w \in Worker, WorkerStep(w) PROVE TypeOK'
  <2> DEFINE a == wk[w].id
  <2>0. a \in AttId /\ att[a] \in AttRow
    BY DEF WorkerState
  <2>1. CASE WorkerOpen(w) \/ WorkerError(w)
    BY <2>1 DEF WorkerOpen, WorkerError, Release, tables, WorkerState, WorkerPC
  <2>2. CASE WorkerRefuse(w)
    <3>1. att' \in [AttId -> AttRow]
      BY <2>2, <2>0, MarkTypes DEF WorkerRefuse, ExtractState
    <3> QED BY <2>2, <3>1 DEF WorkerRefuse, Release
  <2>3. CASE WorkerRetry(w)
    <3>0. wk[w].attempts \in 0..MaxAttempts
      BY DEF WorkerState
    <3>1. att' \in [AttId -> AttRow]
      BY <2>3, <2>0, <3>0, MarkTypes DEF WorkerRetry
    <3> QED BY <2>3, <3>1 DEF WorkerRetry, Release
  <2>4. CASE WorkerStoreText(w)
    BY <2>4, <2>0 DEF WorkerStoreText, ShapeFor, TextRow, Shape, Body, WorkerState,
       WorkerPC
  <2>5. CASE WorkerMarkDone(w)
    <3>1. att' \in [AttId -> AttRow]
      BY <2>5, <2>0, MarkTypes DEF WorkerMarkDone, ExtractState
    <3> QED BY <2>5, <3>1 DEF WorkerMarkDone, Release
  <2> QED BY <1>4, <2>1, <2>2, <2>3, <2>4, <2>5 DEF WorkerStep
<1>5. ASSUME NEW a \in AttId, RetryDue(a) PROVE TypeOK'
  BY <1>5 DEF RetryDue, AttRow, Due
<1>6. CASE ToggleArchived
  BY <1>6 DEF ToggleArchived, tables
<1>7. CASE Crash
  BY <1>7 DEF Crash, tables
<1>8. CASE UNCHANGED vars
  BY <1>8 DEF vars
<1> QED BY <1>1, <1>2, <1>3, <1>4, <1>5, <1>6, <1>7, <1>8 DEF Next

(* Every reachable state is well typed.                                    *)
THEOREM TypeCorrect == Spec => []TypeOK
<1>1. Init => TypeOK BY InitTypeOK
<1>2. TypeOK /\ [Next]_vars => TypeOK' BY StepTypeOK
<1> QED BY <1>1, <1>2, PTL DEF Spec
-----------------------------------------------------------------------------
(* Identity.  Until its row is inserted, the identifier of an upload is    *)
(* known to that one request: a row that lives was never another row, and  *)
(* a snapshot taken of a row never describes a later one.                  *)

Uploading(c) == cl[c].pc \in {"uploading", "uploaded"}
Holds(w) == wk[w].pc # "idle"

FreshInv ==
    /\ \A a \in AttId : att[a].live => a \in issued
    /\ \A e \in audit \cup answers : e[2] \in issued
    /\ \A c \in Client : ~At(c, "idle") => cl[c].id \in issued
    /\ \A w \in Worker : Holds(w) => wk[w].id \in issued
    /\ \A c \in Client : Uploading(c) =>
        /\ ~att[cl[c].id].live
        /\ \A e \in audit \cup answers : e[2] # cl[c].id
        /\ \A d \in Client : d # c /\ ~At(d, "idle") => cl[d].id # cl[c].id
        /\ \A w \in Worker : Holds(w) => wk[w].id # cl[c].id

LEMMA InitFresh == Init => FreshInv
  BY DEF Init, FreshInv, NoRow, IdleClient, IdleWorker, At, Holds, Uploading

LEMMA StepFresh == ASSUME TypeOK, FreshInv, [Next]_vars PROVE FreshInv'
<1> USE DEF FreshInv, Uploading, Holds, At
<1>0. /\ att \in [AttId -> AttRow] /\ cl \in [Client -> ClientState]
      /\ wk \in [Worker -> WorkerState]
      /\ \A c \in Client : cl[c].id \in AttId
      /\ \A w \in Worker : wk[w].id \in AttId
  BY DEF TypeOK, ClientState, WorkerState
<1>1. ASSUME NEW c \in Client, NEW a \in AttId, RequestStart(c, a) PROVE FreshInv'
  <2>1. CASE UploadStart(c, a)
    BY <1>0, <1>1, <2>1 DEF UploadStart, Begin, IdleClient, tables, ClientState
  <2>2. CASE ~UploadStart(c, a)
    <3>1. /\ att[a].live /\ UNCHANGED <<att, issued, audit, answers, wk>>
          /\ cl'[c].id = a /\ cl'[c].pc \notin {"idle", "uploading", "uploaded"}
          /\ \A d \in Client : d # c => cl'[d] = cl[d]
      <4>1. CASE PatchLoad(c, a)
        BY <1>0, <4>1 DEF PatchLoad, IdleClient, tables
      <4>2. CASE CorrectLoad(c, a)
        BY <1>0, <4>2 DEF CorrectLoad, IdleClient, tables
      <4>3. CASE DeleteLoad(c, a)
        BY <1>0, <4>3 DEF DeleteLoad, Begin, IdleClient, tables
      <4>4. CASE ReextractLoad(c, a)
        BY <1>0, <4>4 DEF ReextractLoad, Begin, IdleClient, tables
      <4>5. CASE ReadLoad(c, a)
        BY <1>0, <4>5 DEF ReadLoad, Begin, IdleClient, tables
      <4> QED BY <1>1, <2>2, <4>1, <4>2, <4>3, <4>4, <4>5 DEF RequestStart
    <3> QED BY <1>0, <3>1
  <2> QED BY <1>1, <2>1, <2>2
<1>2. ASSUME NEW c \in Client, RequestStep(c) PROVE FreshInv'
  <2>1. CASE UploadStream(c)
    BY <1>0, <2>1 DEF UploadStream, Goto, tables, ClientState
  <2>2. CASE UploadCommit(c) \/ UploadCommitLostAck(c)
    <3>1. /\ Uploading(c) /\ UNCHANGED <<issued, answers, wk>>
          /\ audit' = audit \cup {<<"added", cl[c].id>>}
          /\ \A a \in AttId : a # cl[c].id => att'[a] = att[a]
      BY <1>0, <2>2 DEF UploadCommit, UploadCommitLostAck, InsertRow, Log
    <3>2. /\ cl'[c].pc \in {"idle", "uploadRefused"}
          /\ cl'[c].pc # "idle" => cl'[c].id = cl[c].id
          /\ \A d \in Client : d # c => cl'[d] = cl[d]
      BY <1>0, <2>2 DEF UploadCommit, UploadCommitLostAck, Goto, Finish, IdleClient,
         ClientState
    <3> QED BY <1>0, <3>1, <3>2
  <2>3. CASE UploadCleanup(c) \/ DeleteFile(c) \/ RequestFails(c)
    BY <1>0, <2>3 DEF UploadCleanup, DeleteFile, RequestFails, Finish, IdleClient, tables
  <2>4. CASE PatchUpdate(c)
    BY <1>0, <2>4 DEF PatchUpdate, tables, ClientState
  <2>5. CASE PatchCommit(c)
    BY <1>0, <2>5 DEF PatchCommit, Log, Finish, IdleClient, AttRow
  <2>6. CASE DeleteCommit(c)
    BY <1>0, <2>6 DEF DeleteCommit, Log, Goto, Finish, IdleClient, NoRow, ClientState
  <2>7. CASE CorrectCommit(c)
    BY <1>0, <2>7 DEF CorrectCommit, Log, Finish, IdleClient
  <2>8. CASE ReextractCommit(c)
    BY <1>0, <2>8 DEF ReextractCommit, Log, Finish, IdleClient, AttRow
  <2>9. CASE ReadAudit(c) \/ ReadServe(c)
    <3>1. /\ ~At(c, "idle") /\ ~Uploading(c) /\ UNCHANGED <<att, issued, wk>>
          /\ \E x : audit' \cup answers' = audit \cup answers \cup {<<x, cl[c].id>>}
      BY <2>9 DEF ReadAudit, ReadServe, Log, tables
    <3>2. /\ cl'[c].pc \in {"idle", "readAudited"}
          /\ cl'[c].pc # "idle" => cl'[c].id = cl[c].id
          /\ \A d \in Client : d # c => cl'[d] = cl[d]
      BY <1>0, <2>9 DEF ReadAudit, ReadServe, Goto, Finish, IdleClient, ClientState
    <3> QED BY <1>0, <3>1, <3>2
  <2> QED BY <1>2, <2>1, <2>2, <2>3, <2>4, <2>5, <2>6, <2>7, <2>8, <2>9 DEF RequestStep
<1>3. ASSUME NEW w \in Worker, NEW a \in AttId, WorkerClaim(w, a) PROVE FreshInv'
  BY <1>0, <1>3 DEF WorkerClaim, IsDue, tables
<1>4. ASSUME NEW w \in Worker, WorkerStep(w) PROVE FreshInv'
  <2>1. CASE WorkerOpen(w) \/ WorkerError(w)
    BY <1>0, <2>1 DEF WorkerOpen, WorkerError, Release, IdleWorker, tables, WorkerState
  <2>2. CASE WorkerStoreText(w)
    BY <1>0, <2>2 DEF WorkerStoreText, WorkerState
  <2>3. CASE WorkerRefuse(w) \/ WorkerRetry(w) \/ WorkerMarkDone(w)
    <3>1. \A a \in AttId : att'[a].live = att[a].live
      BY <1>0, <2>3, MarkKeepsRow DEF WorkerRefuse, WorkerRetry, WorkerMarkDone
    <3> QED BY <1>0, <2>3, <3>1 DEF WorkerRefuse, WorkerRetry, WorkerMarkDone, Release,
       IdleWorker
  <2> QED BY <1>4, <2>1, <2>2, <2>3 DEF WorkerStep
<1>5. ASSUME NEW a \in AttId, RetryDue(a) PROVE FreshInv'
  BY <1>0, <1>5 DEF RetryDue, AttRow
<1>6. CASE ToggleArchived \/ UNCHANGED vars
  BY <1>6 DEF ToggleArchived, tables, vars
<1>7. CASE Crash
  BY <1>0, <1>7 DEF Crash, IdleClient, IdleWorker, tables
<1> QED BY <1>1, <1>2, <1>3, <1>4, <1>5, <1>6, <1>7 DEF Next
-----------------------------------------------------------------------------
(* The steps that write table attachment.                                  *)
LEMMA RowWriters ==
    ASSUME [Next]_vars
    PROVE  \/ \E c \in Client : UploadCommit(c) \/ UploadCommitLostAck(c) \/ PatchCommit(c)
                                 \/ DeleteCommit(c) \/ ReextractCommit(c)
           \/ \E w \in Worker : WorkerRefuse(w) \/ WorkerRetry(w) \/ WorkerMarkDone(w)
           \/ \E b \in AttId : RetryDue(b)
           \/ UNCHANGED att
BY DEF Next, RequestStart, RequestStep, WorkerStep, UploadStart, UploadStream,
   UploadCleanup, PatchLoad, PatchUpdate, DeleteLoad,
   DeleteFile, CorrectLoad, CorrectCommit, ReextractLoad, ReadLoad, ReadAudit, ReadServe,
   RequestFails, ToggleArchived, WorkerClaim, WorkerOpen, WorkerStoreText,
   WorkerError, Crash, tables, vars

-----------------------------------------------------------------------------
(* Rows over time.                                                         *)

(* The row lock: what a PATCH found when it updated the row is what is     *)
(* there when it commits.                                                  *)
LockInv ==
    \A c \in Client : At(c, "patchUpdated") =>
        /\ att[cl[c].id].live
        /\ TriggerAllows(cl[c].id, NewSensitive(c))
        /\ cl[c].seal => cl[c].want = "true"
        /\ \A d \in Client : At(d, "patchUpdated") /\ cl[d].id = cl[c].id => d = c

(* What one step may do to the sensitivity of a row: a row appears only by *)
(* the upload that alone knows its identifier, and a row that stays keeps  *)
(* its sensitivity or has it raised.                                       *)
RowStep ==
    \A a \in AttId :
        /\ ~att[a].live /\ att'[a].live =>
                \E c \in Client : Uploading(c) /\ cl[c].id = a
        /\ att[a].live /\ att'[a].live /\ att[a].sensitive => att'[a].sensitive

LEMMA StepRows == ASSUME TypeOK, FreshInv, LockInv, [Next]_vars PROVE RowStep
<1> USE DEF RowStep, Uploading, At
<1>0. /\ att \in [AttId -> AttRow] /\ \A a \in AttId : att[a] \in AttRow
      /\ \A c \in Client : cl[c].id \in AttId
      /\ \A w \in Worker : wk[w].id \in AttId
  BY DEF TypeOK, ClientState, WorkerState
<1>1. ASSUME NEW c \in Client, NEW a \in AttId, RequestStart(c, a) PROVE UNCHANGED att
  BY <1>1 DEF RequestStart, UploadStart, PatchLoad, DeleteLoad, CorrectLoad,
     ReextractLoad, ReadLoad, tables
<1>2. ASSUME NEW c \in Client, RequestStep(c) PROVE RowStep
  <2>1. CASE UploadCommit(c) \/ UploadCommitLostAck(c)
    BY <1>0, <2>1 DEF FreshInv, UploadCommit, UploadCommitLostAck, InsertRow
  <2>2. CASE PatchCommit(c)
    <3>1. att[cl[c].id].live /\ TriggerAllows(cl[c].id, NewSensitive(c))
      BY <2>2 DEF LockInv, PatchCommit
    <3>2. /\ att'[cl[c].id].sensitive = NewSensitive(c)
          /\ \A a \in AttId : a # cl[c].id => att'[a] = att[a]
      BY <1>0, <2>2 DEF PatchCommit, AttRow
    <3> QED BY <1>0, <3>1, <3>2 DEF TriggerAllows
  <2>3. CASE DeleteCommit(c)
    BY <1>0, <2>3 DEF DeleteCommit, NoRow
  <2>4. CASE ReextractCommit(c)
    BY <1>0, <2>4 DEF ReextractCommit, AttRow
  <2>5. CASE UNCHANGED att
    BY <2>5
  <2> QED BY <1>2, <2>1, <2>2, <2>3, <2>4, <2>5 DEF RequestStep, UploadStream,
      UploadCleanup, PatchUpdate, DeleteFile, CorrectCommit, ReadAudit, ReadServe,
      RequestFails, tables
<1>3. ASSUME NEW w \in Worker, NEW a \in AttId, WorkerClaim(w, a) PROVE UNCHANGED att
  BY <1>3 DEF WorkerClaim, tables
<1>4. ASSUME NEW w \in Worker, WorkerStep(w) PROVE RowStep
  <2>1. CASE UNCHANGED att
    BY <2>1
  <2>2. CASE WorkerRefuse(w) \/ WorkerRetry(w) \/ WorkerMarkDone(w)
    BY <1>0, <2>2, MarkKeepsRow DEF WorkerRefuse, WorkerRetry, WorkerMarkDone
  <2> QED BY <1>4, <2>1, <2>2 DEF WorkerStep, WorkerOpen, WorkerStoreText, WorkerError,
      tables
<1>5. ASSUME NEW a \in AttId, RetryDue(a) PROVE RowStep
  BY <1>0, <1>5 DEF RetryDue, AttRow
<1>6. CASE ToggleArchived \/ Crash \/ UNCHANGED vars
  BY <1>6 DEF ToggleArchived, Crash, tables, vars
<1> QED BY <1>1, <1>2, <1>3, <1>4, <1>5, <1>6 DEF Next
LEMMA StepLock == ASSUME TypeOK, FreshInv, LockInv, [Next]_vars PROVE LockInv'
<1> USE DEF LockInv, At, Locked, TriggerAllows, NewSensitive
<1>0. /\ att \in [AttId -> AttRow] /\ \A a \in AttId : att[a] \in AttRow
      /\ cl \in [Client -> ClientState]
      /\ \A c \in Client : cl[c] \in ClientState /\ cl[c].id \in AttId
      /\ \A w \in Worker : wk[w].id \in AttId
  BY DEF TypeOK, ClientState, WorkerState
<1>a. ASSUME NEW c \in Client, cl'[c].pc # "patchUpdated",
             \A d \in Client : d # c => cl'[d] = cl[d],
             \A d \in Client : d # c /\ cl[d].pc = "patchUpdated" =>
                /\ att'[cl[d].id].live = att[cl[d].id].live
                /\ att'[cl[d].id].sensitive = att[cl[d].id].sensitive
      PROVE  LockInv'
  BY <1>0, <1>a
<1>b. ASSUME UNCHANGED cl,
             \A a \in AttId : /\ att'[a].live = att[a].live
                              /\ att'[a].sensitive = att[a].sensitive
      PROVE  LockInv'
  BY <1>0, <1>b
<1>1. ASSUME NEW c \in Client, NEW a \in AttId, RequestStart(c, a) PROVE LockInv'
  <2>1. UNCHANGED att /\ cl'[c].pc # "patchUpdated"
    <3>1. CASE UploadStart(c, a) \/ DeleteLoad(c, a)
      BY <3>1, Moves DEF UploadStart, DeleteLoad, tables
    <3>2. CASE ReextractLoad(c, a) \/ ReadLoad(c, a)
      BY <3>2, Moves DEF ReextractLoad, ReadLoad, tables
    <3>3. CASE PatchLoad(c, a)
      BY <1>0, <3>3 DEF PatchLoad, IdleClient, tables
    <3>4. CASE CorrectLoad(c, a)
      BY <1>0, <3>4 DEF CorrectLoad, IdleClient, tables
    <3> QED BY <1>1, <3>1, <3>2, <3>3, <3>4 DEF RequestStart
  <2>2. \A d \in Client : d # c => cl'[d] = cl[d]
    BY <1>0, <1>1 DEF RequestStart, UploadStart, PatchLoad, DeleteLoad, CorrectLoad,
       ReextractLoad, ReadLoad, Begin
  <2> QED BY <1>a, <2>1, <2>2
<1>2. ASSUME NEW c \in Client, RequestStep(c) PROVE LockInv'
  <2>1. CASE UploadStream(c) \/ UploadCleanup(c) \/ DeleteFile(c)
    BY <1>a, <2>1, Moves DEF UploadStream, UploadCleanup, DeleteFile, tables
  <2>2. CASE UploadCommit(c) \/ UploadCommitLostAck(c)
    <3>1. \A d \in Client : d # c /\ cl[d].pc = "patchUpdated" => cl[d].id # cl[c].id
      BY <2>2 DEF FreshInv, Uploading, UploadCommit, UploadCommitLostAck
    <3>2. cl'[c].pc # "patchUpdated" /\ \A d \in Client : d # c => cl'[d] = cl[d]
      BY <2>2, Moves DEF UploadCommit, UploadCommitLostAck
    <3>3. \A a \in AttId : a # cl[c].id => att'[a] = att[a]
      BY <1>0, <2>2 DEF UploadCommit, UploadCommitLostAck, InsertRow
    <3> QED BY <1>0, <1>a, <3>1, <3>2, <3>3
  <2>3. CASE PatchUpdate(c)
    <3> DEFINE a == cl[c].id
    <3>1. /\ UNCHANGED att /\ att[a].live /\ TriggerAllows(a, NewSensitive(c)) /\ ~Locked(a)
          /\ \A d \in Client : d # c => cl'[d] = cl[d]
      BY <1>0, <2>3 DEF PatchUpdate, tables
    <3>2. /\ cl'[c].id = cl[c].id /\ cl'[c].want = cl[c].want /\ cl'[c].sens = cl[c].sens
          /\ cl'[c].seal => cl'[c].want = "true"
      BY <1>0, <2>3 DEF PatchUpdate, Promotes, ClientState
    <3>3. \A d \in Client : d # c /\ cl'[d].pc = "patchUpdated" => cl'[d].id # a
      BY <3>1
    <3> QED BY <1>0, <3>1, <3>2, <3>3
  <2>4. CASE PatchCommit(c)
    <3>1. \A d \in Client : d # c /\ cl[d].pc = "patchUpdated" => cl[d].id # cl[c].id
      BY <2>4 DEF PatchCommit
    <3> QED BY <1>0, <1>a, <2>4, <3>1 DEF PatchCommit, Finish, IdleClient
  <2>5. CASE DeleteCommit(c)
    <3>1. \A d \in Client : cl[d].pc = "patchUpdated" => cl[d].id # cl[c].id
      BY <2>5 DEF DeleteCommit
    <3>2. cl'[c].pc # "patchUpdated" /\ \A d \in Client : d # c => cl'[d] = cl[d]
      BY <2>5, Moves DEF DeleteCommit
    <3>3. \A a \in AttId : a # cl[c].id => att'[a] = att[a]
      BY <1>0, <2>5 DEF DeleteCommit
    <3> QED BY <1>0, <1>a, <3>1, <3>2, <3>3
  <2>6. CASE CorrectCommit(c) \/ RequestFails(c)
    BY <1>0, <1>a, <2>6 DEF CorrectCommit, RequestFails, Finish, IdleClient, tables
  <2>7. CASE ReextractCommit(c)
    BY <1>0, <1>a, <2>7 DEF ReextractCommit, Finish, IdleClient, AttRow
  <2>8. CASE ReadAudit(c) \/ ReadServe(c)
    BY <1>a, <2>8, Moves DEF ReadAudit, ReadServe, tables
  <2> QED BY <1>2, <2>1, <2>2, <2>3, <2>4, <2>5, <2>6, <2>7, <2>8 DEF RequestStep
<1>3. ASSUME NEW w \in Worker, NEW a \in AttId, WorkerClaim(w, a) PROVE LockInv'
  BY <1>b, <1>3 DEF WorkerClaim, tables
<1>4. ASSUME NEW w \in Worker, WorkerStep(w) PROVE LockInv'
  <2>1. UNCHANGED cl
    BY <1>4 DEF WorkerStep, WorkerOpen, WorkerRefuse, WorkerRetry, WorkerStoreText,
       WorkerMarkDone, WorkerError
  <2>2. \A a \in AttId : att'[a].live = att[a].live /\ att'[a].sensitive = att[a].sensitive
    BY <1>0, <1>4, MarkKeepsRow DEF WorkerStep, WorkerOpen, WorkerRefuse, WorkerRetry,
       WorkerStoreText, WorkerMarkDone, WorkerError, tables
  <2> QED BY <1>b, <2>1, <2>2
<1>5. ASSUME NEW a \in AttId, RetryDue(a) PROVE LockInv'
  BY <1>0, <1>b, <1>5 DEF RetryDue, AttRow
<1>6. CASE ToggleArchived \/ UNCHANGED vars
  BY <1>b, <1>6 DEF ToggleArchived, tables, vars
<1>7. CASE Crash
  BY <1>0, <1>7 DEF Crash, IdleClient
<1> QED BY <1>1, <1>2, <1>3, <1>4, <1>5, <1>6, <1>7 DEF Next
-----------------------------------------------------------------------------
(* Text.  A snapshot of is_sensitive may be out of date only one way: the  *)
(* row it was taken of may have been raised since.  So what is sealed      *)
(* stays on a sensitive row, and a text written late finds its row.        *)

Snapshotting(c) == cl[c].pc \in {"correctLoaded", "patchLoaded", "patchUpdated"}

TextInv ==
    /\ SealedOnlyIfSensitive
    /\ TextHasRow
    /\ DoneHasText
    /\ \A c \in Client : Snapshotting(c) /\ cl[c].sens /\ att[cl[c].id].live =>
            att[cl[c].id].sensitive
    /\ \A w \in Worker : Holds(w) /\ wk[w].sens /\ att[wk[w].id].live =>
            att[wk[w].id].sensitive
    /\ \A w \in Worker :
            wk[w].pc \in {"storedText", "storedEmpty"} /\ att[wk[w].id].live =>
                text[wk[w].id].shape # "none"

LEMMA InitText == Init => TextInv
  BY SetsAssumption
  DEF Init, TextInv, SealedOnlyIfSensitive, TextHasRow, DoneHasText, NoRow, NoText,
      IdleClient, IdleWorker, Snapshotting, Holds

(* How a step may leave a request that works from a snapshot of its row.   *)
LEMMA StepSnapshots ==
    ASSUME TypeOK, [Next]_vars
    PROVE  \A c \in Client :
                \/ cl'[c] = cl[c]
                \/ ~Snapshotting(c)'
                \/ /\ UNCHANGED att /\ cl'[c].id \in AttId
                   /\ cl'[c].sens = att[cl'[c].id].sensitive
                \/ Snapshotting(c) /\ cl'[c].id = cl[c].id /\ cl'[c].sens = cl[c].sens
<1> DEFINE Good == \A c \in Client :
                \/ cl'[c] = cl[c]
                \/ ~Snapshotting(c)'
                \/ /\ UNCHANGED att /\ cl'[c].id \in AttId
                   /\ cl'[c].sens = att[cl'[c].id].sensitive
                \/ Snapshotting(c) /\ cl'[c].id = cl[c].id /\ cl'[c].sens = cl[c].sens
<1> USE DEF Snapshotting
<1>0. cl \in [Client -> ClientState] /\ \A c \in Client : cl[c] \in ClientState
  BY DEF TypeOK
<1>1. ASSUME NEW c \in Client, NEW a \in AttId, RequestStart(c, a) PROVE Good
  <2>1. CASE UploadStart(c, a) \/ DeleteLoad(c, a)
    BY <2>1, Moves DEF UploadStart, DeleteLoad
  <2>2. CASE ReextractLoad(c, a) \/ ReadLoad(c, a)
    BY <2>2, Moves DEF ReextractLoad, ReadLoad
  <2>3. CASE PatchLoad(c, a)
    BY <1>0, <2>3 DEF PatchLoad, IdleClient, tables
  <2>4. CASE CorrectLoad(c, a)
    BY <1>0, <2>4 DEF CorrectLoad, IdleClient, tables
  <2> QED BY <1>1, <2>1, <2>2, <2>3, <2>4 DEF RequestStart
<1>2. ASSUME NEW c \in Client, RequestStep(c) PROVE Good
  <2>1. CASE UploadStream(c) \/ UploadCommit(c) \/ UploadCommitLostAck(c)
    BY <2>1, Moves DEF UploadStream, UploadCommit, UploadCommitLostAck
  <2>2. CASE UploadCleanup(c) \/ DeleteCommit(c) \/ DeleteFile(c)
    BY <2>2, Moves DEF UploadCleanup, DeleteCommit, DeleteFile
  <2>3. CASE PatchUpdate(c)
    BY <1>0, <2>3 DEF PatchUpdate, ClientState, At
  <2>4. CASE PatchCommit(c) \/ CorrectCommit(c) \/ ReextractCommit(c)
    BY <2>4, Moves DEF PatchCommit, CorrectCommit, ReextractCommit
  <2>5. CASE ReadAudit(c) \/ ReadServe(c) \/ RequestFails(c)
    BY <2>5, Moves DEF ReadAudit, ReadServe, RequestFails
  <2> QED BY <1>2, <2>1, <2>2, <2>3, <2>4, <2>5 DEF RequestStep
<1>3. ASSUME UNCHANGED cl PROVE Good
  BY <1>3
<1>4. CASE Crash
  BY <1>4 DEF Crash, IdleClient
<1> QED BY <1>1, <1>2, <1>3, <1>4 DEF Next, WorkerClaim, WorkerStep, WorkerOpen,
     WorkerRefuse, WorkerRetry, WorkerStoreText, WorkerMarkDone, WorkerError, RetryDue,
     ToggleArchived, vars

(* How a step may leave a worker.                                          *)
LEMMA StepHolding ==
    ASSUME TypeOK, [Next]_vars
    PROVE  \A w \in Worker :
                \/ wk'[w] = wk[w]
                \/ wk'[w].pc = "idle"
                \/ /\ wk'[w].pc = "claimed" /\ wk'[w].id \in AttId
                   /\ UNCHANGED att /\ wk'[w].sens = att[wk'[w].id].sensitive
                \/ /\ Holds(w) /\ wk'[w].id = wk[w].id /\ wk'[w].sens = wk[w].sens
                   /\ \/ wk'[w].pc = "extracting"
                      \/ text'[wk[w].id].shape # "none"
<1> DEFINE Good == \A w \in Worker :
                \/ wk'[w] = wk[w]
                \/ wk'[w].pc = "idle"
                \/ /\ wk'[w].pc = "claimed" /\ wk'[w].id \in AttId
                   /\ UNCHANGED att /\ wk'[w].sens = att[wk'[w].id].sensitive
                \/ /\ Holds(w) /\ wk'[w].id = wk[w].id /\ wk'[w].sens = wk[w].sens
                   /\ \/ wk'[w].pc = "extracting"
                      \/ text'[wk[w].id].shape # "none"
<1>0. /\ wk \in [Worker -> WorkerState] /\ text \in [AttId -> TextRow]
      /\ \A w \in Worker : wk[w] \in WorkerState /\ wk[w].id \in AttId
  BY DEF TypeOK, WorkerState
<1>1. ASSUME NEW w \in Worker, NEW a \in AttId, WorkerClaim(w, a) PROVE Good
  BY <1>0, <1>1 DEF WorkerClaim, tables
<1>2. ASSUME NEW w \in Worker, WorkerStep(w) PROVE Good
  <2>1. CASE WorkerOpen(w)
    BY <1>0, <2>1 DEF WorkerOpen, Holds, WorkerState
  <2>2. CASE WorkerStoreText(w)
    BY <1>0, <2>2 DEF WorkerStoreText, Holds, WorkerState, ShapeFor
  <2>3. CASE Release(w)
    BY <1>0, <2>3 DEF Release, IdleWorker
  <2> QED BY <1>2, <2>1, <2>2, <2>3 DEF WorkerStep, WorkerRefuse, WorkerRetry,
      WorkerMarkDone, WorkerError
<1>3. ASSUME UNCHANGED wk PROVE Good
  BY <1>3
<1>4. CASE Crash
  BY <1>4 DEF Crash, IdleWorker
<1> QED BY <1>1, <1>2, <1>3, <1>4 DEF Next, RequestStart, UploadStart, PatchLoad,
     DeleteLoad, CorrectLoad, ReextractLoad, ReadLoad, RequestStep, UploadStream,
     UploadCommit, UploadCommitLostAck, UploadCleanup, PatchUpdate, PatchCommit,
     DeleteCommit, DeleteFile, CorrectCommit, ReextractCommit, ReadAudit, ReadServe,
     RequestFails, RetryDue, ToggleArchived, vars
(* How a step may leave a text.                                            *)
LEMMA StepTexts ==
    ASSUME TypeOK, LockInv, TextInv, [Next]_vars
    PROVE  \A a \in AttId :
                \/ text'[a] = text[a] /\ (att[a].live => att'[a].live)
                \/ text'[a] = NoText /\ ~att'[a].live
                \/ /\ text'[a].shape # "none" /\ att'[a].live
                   /\ text'[a].shape = "sealed" => att'[a].sensitive
<1> DEFINE Good == \A a \in AttId :
                \/ text'[a] = text[a] /\ (att[a].live => att'[a].live)
                \/ text'[a] = NoText /\ ~att'[a].live
                \/ /\ text'[a].shape # "none" /\ att'[a].live
                   /\ text'[a].shape = "sealed" => att'[a].sensitive
<1>0. /\ att \in [AttId -> AttRow] /\ text \in [AttId -> TextRow]
      /\ \A a \in AttId : att[a] \in AttRow
      /\ \A c \in Client : cl[c].id \in AttId
      /\ \A w \in Worker : wk[w].id \in AttId
  BY DEF TypeOK, ClientState, WorkerState
<1>a. ASSUME UNCHANGED text, \A a \in AttId : att[a].live => att'[a].live PROVE Good
  BY <1>a
<1>1. ASSUME NEW c \in Client, NEW a \in AttId, RequestStart(c, a) PROVE Good
  BY <1>a, <1>1 DEF RequestStart, UploadStart, PatchLoad, DeleteLoad, CorrectLoad,
     ReextractLoad, ReadLoad, tables
<1>2. ASSUME NEW c \in Client, RequestStep(c) PROVE Good
  <2>1. CASE UNCHANGED <<att, text>>
    BY <1>a, <2>1
  <2>2. CASE UploadCommit(c) \/ UploadCommitLostAck(c)
    BY <1>0, <1>a, <2>2 DEF UploadCommit, UploadCommitLostAck, InsertRow, NewRow, NoRow
  <2>3. CASE PatchCommit(c)
    <3> DEFINE a == cl[c].id
    <3>1. att[a].live /\ (cl[c].seal => NewSensitive(c))
      BY <2>3 DEF PatchCommit, LockInv, NewSensitive
    <3>2. /\ att'[a].live /\ att'[a].sensitive = NewSensitive(c)
          /\ \A b \in AttId : b # a => att'[b] = att[b] /\ text'[b] = text[b]
      BY <1>0, <2>3, <3>1 DEF PatchCommit, AttRow
    <3>3. IF cl[c].seal THEN text'[a].shape = "sealed" ELSE text'[a] = text[a]
      BY <1>0, <2>3 DEF PatchCommit
    <3> QED BY <3>1, <3>2, <3>3
  <2>4. CASE DeleteCommit(c)
    BY <1>0, <2>4 DEF DeleteCommit, NoRow
  <2>5. CASE CorrectCommit(c)
    BY <1>0, <2>5 DEF CorrectCommit, TextInv, Snapshotting, At, ShapeFor
  <2>6. CASE ReextractCommit(c)
    BY <1>0, <1>a, <2>6 DEF ReextractCommit, AttRow
  <2> QED BY <1>2, <2>1, <2>2, <2>3, <2>4, <2>5, <2>6 DEF RequestStep, UploadStream,
      UploadCleanup, PatchUpdate, DeleteFile, ReadAudit, ReadServe, RequestFails, tables
<1>3. ASSUME NEW w \in Worker, WorkerStep(w) PROVE Good
  <2>1. CASE UNCHANGED <<att, text>>
    BY <1>a, <2>1
  <2>2. CASE WorkerStoreText(w)
    BY <1>0, <2>2 DEF WorkerStoreText, TextInv, Holds, ShapeFor
  <2>3. CASE WorkerRefuse(w) \/ WorkerRetry(w) \/ WorkerMarkDone(w)
    BY <1>0, <1>a, <2>3, MarkKeepsRow DEF WorkerRefuse, WorkerRetry, WorkerMarkDone
  <2> QED BY <1>3, <2>1, <2>2, <2>3 DEF WorkerStep, WorkerOpen, WorkerError, tables
<1>4. ASSUME NEW a \in AttId, RetryDue(a) PROVE Good
  BY <1>0, <1>a, <1>4 DEF RetryDue, AttRow
<1>5. CASE UNCHANGED <<att, text>>
  BY <1>a, <1>5
<1> QED BY <1>1, <1>2, <1>3, <1>4, <1>5 DEF Next, WorkerClaim, ToggleArchived, Crash,
     tables, vars

(* An extraction is finished with a text only where the text is.           *)
LEMMA StepDone ==
    ASSUME TypeOK, TextInv, [Next]_vars
    PROVE  \A a \in AttId : att'[a].live /\ att'[a].state \in {"done", "empty"} =>
                att[a].live /\ (att[a].state = att'[a].state \/ text[a].shape # "none")
<1> DEFINE Good == \A a \in AttId : att'[a].live /\ att'[a].state \in {"done", "empty"} =>
                att[a].live /\ (att[a].state = att'[a].state \/ text[a].shape # "none")
<1>0. /\ att \in [AttId -> AttRow]
      /\ \A a \in AttId : att[a] \in AttRow
      /\ \A c \in Client : cl[c].id \in AttId
      /\ \A w \in Worker : wk[w].id \in AttId
  BY DEF TypeOK, ClientState, WorkerState
<1>1. CASE UNCHANGED att
  BY <1>1
<1>2. ASSUME NEW c \in Client, RequestStep(c) PROVE Good
  <2>1. CASE UploadCommit(c) \/ UploadCommitLostAck(c)
    BY <1>0, <2>1 DEF UploadCommit, UploadCommitLostAck, InsertRow, NewRow, NoRow
  <2>2. CASE PatchCommit(c)
    BY <1>0, <2>2 DEF PatchCommit, AttRow
  <2>3. CASE DeleteCommit(c)
    BY <1>0, <2>3 DEF DeleteCommit, NoRow
  <2>4. CASE ReextractCommit(c)
    BY <1>0, <2>4 DEF ReextractCommit, AttRow
  <2> QED BY <1>1, <1>2, <2>1, <2>2, <2>3, <2>4 DEF RequestStep, UploadStream,
      UploadCleanup, PatchUpdate, DeleteFile, CorrectCommit, ReadAudit, ReadServe,
      RequestFails, tables
<1>3. ASSUME NEW w \in Worker, WorkerStep(w) PROVE Good
  <2> DEFINE a == wk[w].id
  <2>1. CASE WorkerRefuse(w)
    <3>1. PICK state \in {"not_eligible", "too_large"} : MarkTerminal(a, state)
      BY <2>1 DEF WorkerRefuse
    <3>2. LET r == [att[a] EXCEPT !.state = state, !.due = "none"]
          IN  r.state = state
      BY <1>0 DEF AttRow
    <3> QED BY <1>0, <3>1, <3>2 DEF MarkTerminal, MarkRow
  <2>2. CASE WorkerRetry(w)
    <3>1. LET r == AfterError(att[a], wk[w].attempts)
          IN  r.state \in {"failed", att[a].state} /\ r.live = att[a].live
      BY <1>0 DEF AfterError, AttRow
    <3> QED BY <1>0, <2>2, <3>1 DEF WorkerRetry, MarkRow
  <2>3. CASE WorkerMarkDone(w)
    <3>1. /\ wk[w].pc \in {"storedText", "storedEmpty"}
          /\ \E state : MarkTerminal(a, state)
      BY <2>3 DEF WorkerMarkDone
    <3>2. \A b \in AttId : b # a => att'[b] = att[b]
      BY <1>0, <3>1, MarkKeepsRow
    <3>3. att'[a].live = att[a].live
      BY <1>0, <3>1, MarkKeepsRow
    <3> QED BY <1>0, <3>1, <3>2, <3>3 DEF TextInv
  <2> QED BY <1>1, <1>3, <2>1, <2>2, <2>3 DEF WorkerStep, WorkerOpen, WorkerStoreText,
      WorkerError, tables
<1>4. ASSUME NEW a \in AttId, RetryDue(a) PROVE Good
  BY <1>0, <1>4 DEF RetryDue, AttRow
<1> QED BY <1>1, <1>2, <1>3, <1>4 DEF Next, RequestStart, UploadStart, PatchLoad,
     DeleteLoad, CorrectLoad, ReextractLoad, ReadLoad, WorkerClaim, ToggleArchived,
     Crash, tables, vars

LEMMA StepText ==
    ASSUME TypeOK, FreshInv, LockInv, RowStep, TextInv, [Next]_vars
    PROVE  TextInv'
<1>0. \A c \in Client : cl[c].id \in AttId
  BY DEF TypeOK, ClientState
<1>00. \A w \in Worker : wk[w].id \in AttId
  BY DEF TypeOK, WorkerState
<1>1. \A a \in AttId : text'[a].shape # "none" => att'[a].live
  BY StepTexts DEF TextInv, TextHasRow, NoText
<1>2. \A a \in AttId : text'[a].shape = "sealed" => att'[a].sensitive
  BY <1>1, StepTexts DEF TextInv, SealedOnlyIfSensitive, TextHasRow, RowStep, NoText
<1>3. \A a \in AttId : text[a].shape # "none" /\ att'[a].live => text'[a].shape # "none"
  BY StepTexts DEF NoText
<1>4. \A a \in AttId : att'[a].live /\ att'[a].state \in {"done", "empty"} =>
            text'[a].shape # "none"
  BY <1>3, StepDone DEF TextInv, DoneHasText
<1>5. \A c \in Client : ~At(c, "idle") /\ ~Uploading(c) /\ att'[cl[c].id].live =>
            att[cl[c].id].live
  BY <1>0 DEF RowStep, FreshInv, Uploading
<1>6. \A w \in Worker : Holds(w) /\ att'[wk[w].id].live => att[wk[w].id].live
  BY <1>00 DEF RowStep, FreshInv
<1>7. \A c \in Client : Snapshotting(c)' /\ cl'[c].sens /\ att'[cl'[c].id].live =>
            att'[cl'[c].id].sensitive
  BY <1>0, <1>5, StepSnapshots DEF TextInv, RowStep, At, Snapshotting, Uploading
<1>8. \A w \in Worker : Holds(w)' /\ wk'[w].sens /\ att'[wk'[w].id].live =>
            att'[wk'[w].id].sensitive
  BY <1>00, <1>6, StepHolding DEF TextInv, RowStep, Holds
<1>9. \A w \in Worker :
            wk'[w].pc \in {"storedText", "storedEmpty"} /\ att'[wk'[w].id].live =>
                text'[wk'[w].id].shape # "none"
  BY <1>00, <1>3, <1>6, StepHolding DEF TextInv, Holds
<1> QED BY <1>1, <1>2, <1>4, <1>7, <1>8, <1>9
     DEF TextInv, SealedOnlyIfSensitive, TextHasRow, DoneHasText
-----------------------------------------------------------------------------
(* Marks.                                                                  *)

(* The four steps that write attachment_text.                              *)
LEMMA TextWriters ==
    ASSUME [Next]_vars
    PROVE  \/ \E c \in Client : PatchCommit(c) \/ DeleteCommit(c) \/ CorrectCommit(c)
           \/ \E w \in Worker : WorkerStoreText(w)
           \/ UNCHANGED text
BY DEF Next, RequestStart, RequestStep, WorkerStep, UploadStart, UploadStream,
   UploadCommit, UploadCommitLostAck, UploadCleanup, PatchLoad, PatchUpdate, DeleteLoad,
   DeleteFile, CorrectLoad, ReextractLoad, ReextractCommit, ReadLoad, ReadAudit, ReadServe,
   RequestFails, ToggleArchived, WorkerClaim, WorkerOpen, WorkerRefuse, WorkerRetry,
   WorkerMarkDone, WorkerError, RetryDue, Crash, tables, vars

(* Whoever writes a text writes both marks with it, so that the last       *)
(* writer's marks speak of the last writer's text.                         *)
THEOREM MarksStayHonest == Spec => []MarksAreHonest
<1> USE DEF MarksAreHonest
<1>1. Init => MarksAreHonest
  BY DEF Init, NoText
<1>2. ASSUME TypeOK, MarksAreHonest, [Next]_vars PROVE MarksAreHonest'
  <2>0. /\ text \in [AttId -> TextRow]
        /\ \A c \in Client : cl[c].id \in AttId
        /\ \A w \in Worker : wk[w].id \in AttId
    BY <1>2 DEF TypeOK, ClientState, WorkerState
  <2>1. ASSUME NEW a \in AttId, NEW t, text' = [text EXCEPT ![a] = t],
               t.corrected => t.body \in {"hand", "empty"},
               t.truncated => t.body = "cut"
        PROVE  MarksAreHonest'
    BY <1>2, <2>0, <2>1
  <2>2. ASSUME NEW c \in Client, PatchCommit(c) PROVE MarksAreHonest'
    <3>1. CASE cl[c].seal
      BY <2>0, <2>1, <2>2, <3>1 DEF PatchCommit
    <3>2. CASE ~cl[c].seal
      BY <1>2, <2>2, <3>2 DEF PatchCommit
    <3> QED BY <3>1, <3>2
  <2>3. ASSUME NEW c \in Client, DeleteCommit(c) PROVE MarksAreHonest'
    BY <2>0, <2>1, <2>3 DEF DeleteCommit, NoText
  <2>4. ASSUME NEW c \in Client, CorrectCommit(c) PROVE MarksAreHonest'
    BY <2>0, <2>1, <2>4 DEF CorrectCommit
  <2>5. ASSUME NEW w \in Worker, WorkerStoreText(w) PROVE MarksAreHonest'
    <3> DEFINE t(b) == [shape |-> ShapeFor(wk[w].sens), body |-> b,
                        corrected |-> FALSE, truncated |-> (b = "cut")]
    <3>1. PICK b \in {"machine", "cut", "empty"} : text' = [text EXCEPT ![wk[w].id] = t(b)]
      BY <2>5 DEF WorkerStoreText
    <3>2. ~t(b).corrected /\ (t(b).truncated => t(b).body = "cut")
      OBVIOUS
    <3> HIDE DEF t
    <3> QED BY <2>0, <2>1, <3>1, <3>2
  <2>6. CASE UNCHANGED text
    BY <1>2, <2>6
  <2> QED BY <1>2, <2>2, <2>3, <2>4, <2>5, <2>6, TextWriters
<1>3. TypeOK /\ MarksAreHonest /\ [Next]_vars => MarksAreHonest'
  BY <1>2
<1> QED BY <1>1, <1>3, TypeCorrect, PTL DEF Spec
-----------------------------------------------------------------------------
(* What follows for every reachable state and step.                        *)

Inv == TypeOK /\ FreshInv /\ LockInv /\ TextInv

LEMMA Invariance == Spec => []Inv
<1>1. Init => Inv
  <2>1. Init => LockInv
    BY DEF Init, LockInv, IdleClient, At
  <2> QED BY <2>1, InitTypeOK, InitFresh, InitText DEF Inv
<1>2. Inv /\ [Next]_vars => Inv'
  BY StepTypeOK, StepFresh, StepLock, StepRows, StepText DEF Inv
<1> QED BY <1>1, <1>2, PTL DEF Spec

(* Sealed text is only ever on a sensitive row, where the text handler can *)
(* open it: whatever snapshot of is_sensitive the writer worked from.      *)
THEOREM SealingIsSound == Spec => []SealedOnlyIfSensitive
<1>1. Inv => SealedOnlyIfSensitive BY DEF Inv, TextInv
<1> QED BY <1>1, Invariance, PTL

(* No text without its attachment, although texts are written long after   *)
(* the row was looked at.                                                  *)
THEOREM TextsHaveRows == Spec => []TextHasRow
<1>1. Inv => TextHasRow BY DEF Inv, TextInv
<1> QED BY <1>1, Invariance, PTL

(* A finished extraction has its text, through crashes, deletes and        *)
(* re-extractions.                                                         *)
THEOREM FinishedHasText == Spec => []DoneHasText
<1>1. Inv => DoneHasText BY DEF Inv, TextInv
<1> QED BY <1>1, Invariance, PTL

(* Sensitivity is never lowered (trigger attachment_sensitivity_one_way    *)
(* together with the row lock of the PATCH).                               *)
THEOREM SensitivityIsOneWay == Spec => SensitivityOneWay
<1>1. Inv /\ [Next]_vars =>
        \A a \in AttId :
            att[a].live /\ att'[a].live /\ att[a].sensitive => att'[a].sensitive
  BY StepRows DEF Inv, RowStep
<1> QED BY <1>1, Invariance, PTL DEF Spec, SensitivityOneWay
-----------------------------------------------------------------------------
(* Document search.  That no text of a sensitive attachment is readable    *)
(* does not hold; this is how far it fails.                                *)

(* A worker or a correction that has read is_sensitive as false and has    *)
(* not stored its text yet.                                                *)
LateWriter(a) ==
    \/ \E w \in Worker : wk[w].pc \in {"claimed", "extracting"} /\ wk[w].id = a /\ ~wk[w].sens
    \/ \E c \in Client : At(c, "correctLoaded") /\ cl[c].id = a /\ ~cl[c].sens

(* A promotion has its row locked and commits while there is none.         *)
PromotionsMeetNoWriter ==
    \A c \in Client : At(c, "patchUpdated") /\ Promotes(c) => ~LateWriter(cl[c].id)

Searchable(t) == t.shape = "readable" /\ t.body # "empty"

SearchInv ==
    /\ SensitiveNotSearchable
    /\ \A a \in AttId : LateWriter(a) => ~att[a].sensitive
    /\ \A c \in Client : At(c, "patchUpdated") /\ Promotes(c) /\ ~cl[c].seal =>
            ~Searchable(text[cl[c].id])

(* Only a claim and the load of a correction begin to write from what they *)
(* have read.                                                              *)
LEMMA StepWriters ==
    ASSUME TypeOK, [Next]_vars, NEW a \in AttId, LateWriter(a)'
    PROVE  LateWriter(a) \/ (UNCHANGED att /\ ~att[a].sensitive)
<1> USE DEF At
<1>0. /\ cl \in [Client -> ClientState] /\ wk \in [Worker -> WorkerState]
      /\ \A c \in Client : cl[c] \in ClientState
      /\ \A w \in Worker : wk[w] \in WorkerState
  BY DEF TypeOK
<1>1. ASSUME NEW c \in Client, cl'[c].pc = "correctLoaded", cl'[c].id = a, ~cl'[c].sens
      PROVE  cl'[c] = cl[c] \/ (UNCHANGED att /\ ~att[a].sensitive)
  <2>1. ASSUME NEW d \in Client, NEW b \in AttId, RequestStart(d, b), cl'[c] # cl[c]
        PROVE  UNCHANGED att /\ ~att[a].sensitive
    <3>1. CASE UploadStart(d, b) \/ DeleteLoad(d, b)
      BY <1>1, <2>1, <3>1, Moves DEF UploadStart, DeleteLoad
    <3>2. CASE ReextractLoad(d, b) \/ ReadLoad(d, b)
      BY <1>1, <2>1, <3>2, Moves DEF ReextractLoad, ReadLoad
    <3>3. CASE PatchLoad(d, b)
      BY <1>0, <1>1, <2>1, <3>3 DEF PatchLoad, IdleClient
    <3>4. CASE CorrectLoad(d, b)
      BY <1>0, <1>1, <2>1, <3>4 DEF CorrectLoad, IdleClient, tables
    <3> QED BY <2>1, <3>1, <3>2, <3>3, <3>4 DEF RequestStart
  <2>2. ASSUME NEW d \in Client, RequestStep(d) PROVE cl'[c] = cl[c]
    <3>1. CASE PatchUpdate(d)
      BY <1>0, <1>1, <3>1 DEF PatchUpdate, ClientState
    <3>2. CASE Finish(d)
      BY <1>1, <3>2, Moves
    <3>3. ASSUME NEW pc, Goto(d, pc), pc # "correctLoaded" PROVE cl'[c] = cl[c]
      BY <1>1, <3>3, Moves
    <3> QED BY <2>2, <3>1, <3>2, <3>3 DEF RequestStep, UploadStream, UploadCommit,
        UploadCommitLostAck, UploadCleanup, PatchCommit, DeleteCommit, DeleteFile,
        CorrectCommit, ReextractCommit, ReadAudit, ReadServe, RequestFails
  <2>3. CASE UNCHANGED cl
    BY <2>3
  <2>4. CASE Crash
    BY <1>1, <2>4 DEF Crash, IdleClient
  <2> QED BY <2>1, <2>2, <2>3, <2>4 DEF Next, WorkerClaim, WorkerStep, WorkerOpen,
      WorkerRefuse, WorkerRetry, WorkerStoreText, WorkerMarkDone, WorkerError, RetryDue,
      ToggleArchived, vars
<1>2. ASSUME NEW w \in Worker, wk'[w].pc \in {"claimed", "extracting"}, wk'[w].id = a,
             ~wk'[w].sens
      PROVE  \/ /\ wk[w].pc \in {"claimed", "extracting"}
                /\ wk[w].id = a /\ ~wk[w].sens
             \/ UNCHANGED att /\ ~att[a].sensitive
  <2>1. ASSUME NEW v \in Worker, NEW b \in AttId, WorkerClaim(v, b)
        PROVE  wk'[w] = wk[w] \/ (UNCHANGED att /\ ~att[a].sensitive)
    BY <1>0, <1>2, <2>1 DEF WorkerClaim, tables
  <2>2. ASSUME NEW v \in Worker, WorkerStep(v), v # w
        PROVE  wk'[w] = wk[w]
    BY <1>0, <2>2 DEF WorkerStep, WorkerOpen, WorkerRefuse, WorkerRetry, WorkerStoreText,
       WorkerMarkDone, WorkerError, Release
  <2>3. CASE WorkerStep(w)
    <3>1. CASE WorkerOpen(w)
      BY <1>0, <1>2, <3>1 DEF WorkerOpen, WorkerState
    <3>2. CASE WorkerStoreText(w)
      BY <1>0, <1>2, <3>2 DEF WorkerStoreText, WorkerState
    <3>3. CASE Release(w)
      BY <1>0, <1>2, <3>3 DEF Release, IdleWorker
    <3> QED BY <2>3, <3>1, <3>2, <3>3 DEF WorkerStep, WorkerRefuse, WorkerRetry,
        WorkerMarkDone, WorkerError
  <2>4. CASE UNCHANGED wk
    BY <1>2, <2>4
  <2>5. CASE Crash
    BY <1>2, <2>5 DEF Crash, IdleWorker
  <2> QED BY <1>2, <2>1, <2>2, <2>3, <2>4, <2>5 DEF Next, RequestStart, UploadStart,
      PatchLoad, DeleteLoad, CorrectLoad, ReextractLoad, ReadLoad, RequestStep,
      UploadStream, UploadCommit, UploadCommitLostAck, UploadCleanup, PatchUpdate,
      PatchCommit, DeleteCommit, DeleteFile, CorrectCommit, ReextractCommit, ReadAudit,
      ReadServe, RequestFails, RetryDue, ToggleArchived, vars
<1> QED BY <1>1, <1>2 DEF LateWriter

(* A request comes to hold a row lock by the UPDATE of a PATCH alone.      *)
LEMMA StepPatching ==
    ASSUME TypeOK, [Next]_vars, NEW c \in Client, At(c, "patchUpdated")'
    PROVE  cl'[c] = cl[c] \/ PatchUpdate(c)
<1> USE DEF At
<1>0. cl \in [Client -> ClientState] /\ \A d \in Client : cl[d] \in ClientState
  BY DEF TypeOK
<1>1. ASSUME NEW d \in Client, NEW b \in AttId, RequestStart(d, b) PROVE cl'[c] = cl[c]
  <2>1. CASE UploadStart(d, b) \/ DeleteLoad(d, b)
    BY <2>1, Moves DEF UploadStart, DeleteLoad
  <2>2. CASE ReextractLoad(d, b) \/ ReadLoad(d, b)
    BY <2>2, Moves DEF ReextractLoad, ReadLoad
  <2>3. CASE PatchLoad(d, b)
    BY <1>0, <2>3 DEF PatchLoad, IdleClient
  <2>4. CASE CorrectLoad(d, b)
    BY <1>0, <2>4 DEF CorrectLoad, IdleClient
  <2> QED BY <1>1, <2>1, <2>2, <2>3, <2>4 DEF RequestStart
<1>2. ASSUME NEW d \in Client, RequestStep(d), ~PatchUpdate(c) PROVE cl'[c] = cl[c]
  <2>1. CASE PatchUpdate(d)
    BY <1>0, <1>2, <2>1 DEF PatchUpdate
  <2>2. CASE Finish(d)
    BY <2>2, Moves
  <2>3. ASSUME NEW pc, Goto(d, pc), pc # "patchUpdated" PROVE cl'[c] = cl[c]
    BY <2>3, Moves
  <2> QED BY <1>2, <2>1, <2>2, <2>3 DEF RequestStep, UploadStream, UploadCommit,
      UploadCommitLostAck, UploadCleanup, PatchCommit, DeleteCommit, DeleteFile,
      CorrectCommit, ReextractCommit, ReadAudit, ReadServe, RequestFails
<1>3. CASE UNCHANGED cl
  BY <1>3
<1>4. CASE Crash
  BY <1>4 DEF Crash, IdleClient
<1> QED BY <1>1, <1>2, <1>3, <1>4 DEF Next, WorkerClaim, WorkerStep, WorkerOpen,
    WorkerRefuse, WorkerRetry, WorkerStoreText, WorkerMarkDone, WorkerError, RetryDue,
    ToggleArchived, vars

(* A row becomes sensitive where nobody is about to write, and with no     *)
(* text, with a text that is sealed in the same step, or with none that    *)
(* is searched.                                                            *)
LEMMA StepRaised ==
    ASSUME Inv, PromotionsMeetNoWriter, SearchInv, [Next]_vars,
           NEW a \in AttId, att'[a].sensitive, ~att[a].sensitive
    PROVE  ~LateWriter(a) /\ ~Searchable(text'[a])
<1> USE DEF At
<1>0. /\ TypeOK /\ FreshInv /\ LockInv /\ TextInv
      /\ att \in [AttId -> AttRow] /\ text \in [AttId -> TextRow]
      /\ \A b \in AttId : att[b] \in AttRow
      /\ \A c \in Client : cl[c] \in ClientState /\ cl[c].id \in AttId
      /\ \A w \in Worker : wk[w].id \in AttId
  BY DEF Inv, TypeOK, ClientState, WorkerState
<1>1. ASSUME NEW c \in Client, UploadCommit(c) \/ UploadCommitLostAck(c)
      PROVE  ~LateWriter(a) /\ ~Searchable(text'[a])
  <2>1. cl[c].pc = "uploaded" /\ UNCHANGED text /\ cl[c].id = a
    BY <1>0, <1>1 DEF UploadCommit, UploadCommitLostAck, InsertRow
  <2>2. ~att[a].live /\ ~LateWriter(a)
    BY <1>0, <2>1 DEF FreshInv, Uploading, LateWriter, Holds
  <2>3. text[a].shape = "none"
    BY <1>0, <2>2 DEF TextInv, TextHasRow
  <2> QED BY <2>1, <2>2, <2>3 DEF Searchable
<1>2. ASSUME NEW c \in Client, PatchCommit(c)
      PROVE  ~LateWriter(a) /\ ~Searchable(text'[a])
  <2>1. cl[c].pc = "patchUpdated" /\ cl[c].id = a /\ NewSensitive(c)
    BY <1>0, <1>2 DEF PatchCommit, AttRow
  <2>2. att[a].live
    BY <1>0, <2>1 DEF LockInv
  <2>3. ~cl[c].sens
    BY <1>0, <2>1, <2>2 DEF TextInv, Snapshotting
  <2>4. Promotes(c)
    BY <2>1, <2>3 DEF NewSensitive, Promotes
  <2>5. ~LateWriter(a)
    BY <2>1, <2>4 DEF PromotionsMeetNoWriter
  <2>6. CASE cl[c].seal
    BY <1>0, <1>2, <2>1, <2>5, <2>6 DEF PatchCommit, Searchable
  <2>7. CASE ~cl[c].seal
    BY <1>2, <2>1, <2>4, <2>5, <2>7 DEF PatchCommit, SearchInv
  <2> QED BY <2>6, <2>7
<1>3. ASSUME NEW c \in Client, DeleteCommit(c) \/ ReextractCommit(c) PROVE FALSE
  <2>1. CASE DeleteCommit(c)
    BY <1>0, <2>1 DEF DeleteCommit, NoRow
  <2>2. CASE ReextractCommit(c)
    BY <1>0, <2>2 DEF ReextractCommit, AttRow
  <2> QED BY <1>3, <2>1, <2>2
<1>4. ASSUME NEW w \in Worker, WorkerRefuse(w) \/ WorkerRetry(w) \/ WorkerMarkDone(w)
      PROVE  FALSE
  BY <1>0, <1>4, MarkKeepsRow DEF WorkerRefuse, WorkerRetry, WorkerMarkDone
<1>5. ASSUME NEW b \in AttId, RetryDue(b) PROVE FALSE
  BY <1>0, <1>5 DEF RetryDue, AttRow
<1> QED BY <1>1, <1>2, <1>3, <1>4, <1>5, RowWriters

(* A readable text is stored by a late writer alone.                       *)
LEMMA StepSearchable ==
    ASSUME Inv, [Next]_vars, NEW a \in AttId, Searchable(text'[a])
    PROVE  text'[a] = text[a] \/ (LateWriter(a) /\ UNCHANGED att)
<1> USE DEF At, Searchable
<1>0. /\ text \in [AttId -> TextRow]
      /\ \A c \in Client : cl[c].id \in AttId
      /\ \A w \in Worker : wk[w].id \in AttId
  BY DEF Inv, TypeOK, ClientState, WorkerState
<1>1. ASSUME NEW c \in Client, PatchCommit(c) \/ DeleteCommit(c)
      PROVE  text'[a] = text[a]
  BY <1>0, <1>1 DEF PatchCommit, DeleteCommit, NoText
<1>2. ASSUME NEW c \in Client, CorrectCommit(c), text'[a] # text[a]
      PROVE  LateWriter(a) /\ UNCHANGED att
  BY <1>0, <1>2 DEF CorrectCommit, ShapeFor, LateWriter
<1>3. ASSUME NEW w \in Worker, WorkerStoreText(w), text'[a] # text[a]
      PROVE  LateWriter(a) /\ UNCHANGED att
  BY <1>0, <1>3 DEF WorkerStoreText, ShapeFor, LateWriter
<1> QED BY <1>1, <1>2, <1>3, TextWriters

LEMMA StepSearch ==
    ASSUME Inv, PromotionsMeetNoWriter, SearchInv, [Next]_vars
    PROVE  SearchInv'
<1>1. ASSUME NEW a \in AttId, att'[a].sensitive PROVE ~Searchable(text'[a])
  <2>1. CASE ~att[a].sensitive
    BY <1>1, <2>1, StepRaised
  <2>2. CASE att[a].sensitive
    BY <2>2, StepSearchable DEF SearchInv, SensitiveNotSearchable, Searchable
  <2> QED BY <2>1, <2>2
<1>2. ASSUME NEW a \in AttId, LateWriter(a)' PROVE ~att'[a].sensitive
  BY <1>2, StepWriters, StepRaised DEF SearchInv, Inv
<1>3. ASSUME NEW c \in Client, At(c, "patchUpdated")', Promotes(c)', ~cl'[c].seal
      PROVE  ~Searchable(text'[cl'[c].id])
  <2>0. /\ cl \in [Client -> ClientState] /\ cl[c] \in ClientState /\ cl[c].id \in AttId
    BY DEF Inv, TypeOK, ClientState
  <2>1. CASE cl'[c] = cl[c]
    <3>1. /\ At(c, "patchUpdated") /\ Promotes(c) /\ ~cl[c].seal /\ cl'[c].id = cl[c].id
      BY <1>3, <2>1 DEF At, Promotes
    <3>2. ~LateWriter(cl[c].id) /\ ~Searchable(text[cl[c].id])
      BY <3>1 DEF PromotionsMeetNoWriter, SearchInv
    <3> QED BY <2>0, <3>1, <3>2, StepSearchable
  <2>2. CASE PatchUpdate(c)
    <3>1. /\ cl'[c].seal = (Promotes(c) /\ Searchable(text[cl[c].id]))
          /\ cl'[c].id = cl[c].id /\ cl'[c].want = cl[c].want /\ cl'[c].sens = cl[c].sens
          /\ UNCHANGED text
      BY <2>0, <2>2 DEF PatchUpdate, Searchable, ClientState, tables
    <3> QED BY <1>3, <3>1 DEF Promotes
  <2> QED BY <1>3, <2>1, <2>2, StepPatching DEF Inv
<1> QED BY <1>1, <1>2, <1>3 DEF SearchInv, SensitiveNotSearchable, Searchable

(* A text of a sensitive attachment is in the searched column only after a *)
(* promotion that committed past a worker or a correction which still      *)
(* believed the attachment to be ordinary.  No other order of uploads,     *)
(* PATCHes, corrections, extractions and crashes leads there.              *)
THEOREM OnlyLateWritersLeak ==
    Spec /\ []PromotionsMeetNoWriter => []SensitiveNotSearchable
<1>1. Init => SearchInv
  BY DEF Init, SearchInv, SensitiveNotSearchable, LateWriter, NoRow, NoText, IdleClient,
         IdleWorker, At
<1>2. Inv /\ PromotionsMeetNoWriter /\ SearchInv /\ [Next]_vars => SearchInv'
  BY StepSearch
<1>3. SearchInv => SensitiveNotSearchable
  BY DEF SearchInv
<1> QED BY <1>1, <1>2, <1>3, Invariance, PTL DEF Spec
-----------------------------------------------------------------------------
(* Files.  With a COMMIT that reports its own outcome, the file is whole   *)
(* before the row appears and is deleted only after the row is gone.       *)

FileInv ==
    /\ RowHasFile
    /\ NoFalseAlarm
    /\ \A c \in Client : At(c, "uploaded") => file[cl[c].id] = "whole"
    /\ \A c \in Client : ~At(c, "uploadRefused")
    /\ \A c \in Client : At(c, "deleteCommitted") => ~att[cl[c].id].live

LEMMA InitFile == Init => FileInv
  BY DEF Init, FileInv, RowHasFile, NoFalseAlarm, NoRow, IdleClient, At

LEMMA StepFile ==
    ASSUME "lostAck" \notin Faults, TypeOK, FreshInv, RowStep, FileInv, [Next]_vars
    PROVE  FileInv'
<1> USE DEF FileInv, RowHasFile, NoFalseAlarm, At, Uploading
<1>0. /\ file \in [AttId -> FileState] /\ att \in [AttId -> AttRow]
      /\ cl \in [Client -> ClientState]
      /\ \A c \in Client : cl[c] \in ClientState /\ cl[c].id \in AttId
  BY DEF TypeOK, ClientState
<1>00. \A a \in AttId : ~att[a].live /\ att'[a].live =>
            \E c \in Client : cl[c].pc \in {"uploading", "uploaded"} /\ cl[c].id = a
  BY DEF RowStep
<1>a. ASSUME UNCHANGED <<file, answers>>,
             \A a \in AttId : att'[a].live => att[a].live,
             \A c \in Client : \/ cl'[c] = cl[c]
                               \/ cl'[c].pc \notin {"uploaded", "uploadRefused", "deleteCommitted"}
      PROVE  FileInv'
  BY <1>0, <1>a
<1>1. ASSUME NEW c \in Client, NEW a \in AttId, RequestStart(c, a) PROVE FileInv'
  <2>1. CASE UploadStart(c, a)
    <3>1. ~att[a].live /\ \A d \in Client : cl[d].pc # "idle" => cl[d].id # a
      BY <2>1 DEF UploadStart, FreshInv
    <3>2. /\ cl'[c].pc = "uploading" /\ \A d \in Client : d # c => cl'[d] = cl[d]
          /\ UNCHANGED <<att, answers>>
          /\ \A b \in AttId : b # a => file'[b] = file[b]
      BY <1>0, <2>1, Moves DEF UploadStart, tables
    <3> QED BY <1>0, <3>1, <3>2
  <2>2. CASE PatchLoad(c, a)
    BY <1>0, <1>a, <2>2 DEF PatchLoad, IdleClient, tables
  <2>3. CASE CorrectLoad(c, a)
    BY <1>0, <1>a, <2>3 DEF CorrectLoad, IdleClient, tables
  <2>4. CASE DeleteLoad(c, a)
    BY <1>a, <2>4, Moves DEF DeleteLoad, tables
  <2>5. CASE ReextractLoad(c, a) \/ ReadLoad(c, a)
    BY <1>a, <2>5, Moves DEF ReextractLoad, ReadLoad, tables
  <2> QED BY <1>1, <2>1, <2>2, <2>3, <2>4, <2>5 DEF RequestStart
<1>2. ASSUME NEW c \in Client, RequestStep(c) PROVE FileInv'
  <2> DEFINE a == cl[c].id
  <2>0. a \in AttId
    BY <1>0
  <2>1. CASE UploadStream(c)
    <3>1. \A d \in Client : d # c /\ cl[d].pc # "idle" => cl[d].id # a
      BY <2>1 DEF UploadStream, FreshInv
    <3>2. /\ cl'[c].pc = "uploaded" /\ cl'[c].id = a
          /\ \A d \in Client : d # c => cl'[d] = cl[d]
          /\ UNCHANGED <<att, answers>>
          /\ file' = [file EXCEPT ![a] = "whole"]
      BY <2>1, Moves DEF UploadStream, tables
    <3> QED BY <1>0, <2>0, <3>1, <3>2
  <2>2. CASE UploadCommit(c)
    <3>1. /\ cl[c].pc = "uploaded"
          /\ \A e \in answers : e[2] # a
          /\ \A d \in Client : d # c /\ cl[d].pc # "idle" => cl[d].id # a
      BY <2>2 DEF UploadCommit, FreshInv
    <3>2. /\ cl'[c].pc = "idle" /\ \A d \in Client : d # c => cl'[d] = cl[d]
          /\ UNCHANGED <<file, answers>>
          /\ \A b \in AttId : b # a => att'[b] = att[b]
      BY <1>0, <2>2, Moves DEF UploadCommit, InsertRow
    <3> QED BY <1>0, <2>0, <3>1, <3>2
  <2>3. CASE UploadCleanup(c) \/ DeleteFile(c)
    <3>1. ~att[a].live
      BY <2>3 DEF UploadCleanup, DeleteFile, FreshInv
    <3>2. \A d \in Client : d # c /\ cl[d].pc = "uploaded" => cl[d].id # a
      BY <2>3 DEF UploadCleanup, DeleteFile, FreshInv
    <3>3. /\ cl'[c].pc = "idle" /\ \A d \in Client : d # c => cl'[d] = cl[d]
          /\ UNCHANGED <<att, answers>>
          /\ \A b \in AttId : b # a => file'[b] = file[b]
      BY <1>0, <2>3, Moves DEF UploadCleanup, DeleteFile, tables
    <3> QED BY <1>0, <2>0, <3>1, <3>2, <3>3
  <2>4. CASE PatchUpdate(c)
    BY <1>0, <1>a, <2>4 DEF PatchUpdate, tables, ClientState
  <2>5. CASE PatchCommit(c)
    <3>1. \A b \in AttId : att'[b].live = att[b].live
      BY <1>0, <2>5 DEF PatchCommit, AttRow
    <3> QED BY <1>a, <2>5, <3>1, Moves DEF PatchCommit
  <2>6. CASE DeleteCommit(c)
    <3>1. /\ cl'[c].pc \in {"idle", "deleteCommitted"}
          /\ cl'[c].pc = "deleteCommitted" => cl'[c].id = a
          /\ \A d \in Client : d # c => cl'[d] = cl[d]
      BY <2>6, Moves DEF DeleteCommit
    <3>2. UNCHANGED <<file, answers>> /\ att' = [att EXCEPT ![a] = NoRow]
      BY <2>6 DEF DeleteCommit
    <3> QED BY <1>0, <2>0, <3>1, <3>2 DEF NoRow
  <2>7. CASE CorrectCommit(c) \/ ReadAudit(c) \/ RequestFails(c)
    BY <1>a, <2>7, Moves DEF CorrectCommit, ReadAudit, RequestFails, tables
  <2>8. CASE ReextractCommit(c)
    <3>1. \A b \in AttId : att'[b].live = att[b].live
      BY <1>0, <2>8 DEF ReextractCommit, AttRow
    <3> QED BY <1>a, <2>8, <3>1, Moves DEF ReextractCommit
  <2>9. CASE ReadServe(c)
    <3>1. /\ cl'[c].pc = "idle" /\ \A d \in Client : d # c => cl'[d] = cl[d]
          /\ UNCHANGED <<att, file>>
      BY <2>9, Moves DEF ReadServe, tables
    <3>2. answers' = answers \cup
            {<<IF file[a] = "whole" THEN "served" ELSE "integrity_failed", a>>}
      BY <2>9 DEF ReadServe
    <3> QED BY <1>0, <2>0, <3>1, <3>2
  <2>10. ~UploadCommitLostAck(c)
    BY DEF UploadCommitLostAck
  <2> QED BY <1>2, <2>1, <2>2, <2>3, <2>4, <2>5, <2>6, <2>7, <2>8, <2>9, <2>10
      DEF RequestStep
<1>3. ASSUME NEW w \in Worker, NEW a \in AttId, WorkerClaim(w, a) PROVE FileInv'
  BY <1>a, <1>3 DEF WorkerClaim, tables
<1>4. ASSUME NEW w \in Worker, WorkerStep(w) PROVE FileInv'
  <2>1. \A a \in AttId : att'[a].live = att[a].live
    BY <1>0, <1>4, MarkKeepsRow DEF WorkerStep, WorkerOpen, WorkerRefuse, WorkerRetry,
       WorkerStoreText, WorkerMarkDone, WorkerError, tables, TypeOK, WorkerState
  <2> QED BY <1>a, <1>4, <2>1 DEF WorkerStep, WorkerOpen, WorkerRefuse, WorkerRetry,
      WorkerStoreText, WorkerMarkDone, WorkerError
<1>5. ASSUME NEW a \in AttId, RetryDue(a) PROVE FileInv'
  BY <1>0, <1>a, <1>5 DEF RetryDue, AttRow
<1>6. CASE ToggleArchived \/ UNCHANGED vars
  BY <1>a, <1>6 DEF ToggleArchived, tables, vars
<1>7. CASE Crash
  BY <1>a, <1>7 DEF Crash, IdleClient, tables
<1> QED BY <1>1, <1>2, <1>3, <1>4, <1>5, <1>6, <1>7 DEF Next

LEMMA FileInvariance ==
    ASSUME "lostAck" \notin Faults
    PROVE  Spec => []FileInv
<1>1. Inv /\ FileInv /\ [Next]_vars => FileInv'
  BY StepFile, StepRows DEF Inv
<1> QED BY <1>1, InitFile, Invariance, PTL DEF Spec

(* Every row has its whole file, whatever crashes and failed removals, as  *)
(* long as COMMIT reports what it did.                                     *)
THEOREM RowsHaveFiles ==
    ASSUME "lostAck" \notin Faults
    PROVE  Spec => []RowHasFile
<1>1. FileInv => RowHasFile
  BY DEF FileInv
<1> QED BY <1>1, FileInvariance, PTL

(* A reader that found no whole file was late for a row that is gone, and  *)
(* an identifier that is gone does not come back: nobody was told that a   *)
(* stored attachment is damaged.                                           *)
THEOREM AlarmsAreTrue ==
    ASSUME "lostAck" \notin Faults
    PROVE  Spec => []NoFalseAlarm
<1>1. FileInv => NoFalseAlarm
  BY DEF FileInv
<1> QED BY <1>1, FileInvariance, PTL

(* The files that no row names: each is in the hands of a request that     *)
(* goes on to insert its row or to remove it.                              *)
OrphansOwned ==
    \A a \in AttId : file[a] # "none" /\ ~att[a].live =>
        \E c \in Client :
            cl[c].id = a /\ cl[c].pc \in {"uploading", "uploaded", "deleteCommitted"}

LEMMA StepOrphans ==
    ASSUME Faults = {}, MaxCrashes = 0, TypeOK, OrphansOwned, [Next]_vars
    PROVE  OrphansOwned'
<1> USE DEF OrphansOwned, At
<1>0. /\ file \in [AttId -> FileState] /\ att \in [AttId -> AttRow]
      /\ \A c \in Client : cl[c].id \in AttId
  BY DEF TypeOK, ClientState
<1> DEFINE Owns(c) == cl[c].pc \in {"uploading", "uploaded", "deleteCommitted"}
<1>a. ASSUME UNCHANGED file,
             \A a \in AttId : att[a].live => att'[a].live,
             \A c \in Client : cl'[c] = cl[c] \/ ~Owns(c)
      PROVE  OrphansOwned'
  BY <1>0, <1>a
<1>b. ASSUME NEW c \in Client, NEW a \in AttId,
             Owns(c) => cl[c].id = a,
             \A b \in AttId : b # a => file'[b] = file[b] /\ att'[b] = att[b],
             \A d \in Client : d # c => cl'[d] = cl[d],
             file'[a] = "none" \/ att'[a].live \/ (cl'[c].id = a /\ Owns(c)')
      PROVE  OrphansOwned'
  BY <1>0, <1>b
<1>1. ASSUME NEW c \in Client, NEW a \in AttId, RequestStart(c, a) PROVE OrphansOwned'
  <2>1. CASE UploadStart(c, a)
    BY <1>0, <1>b, <2>1, Moves DEF UploadStart, tables
  <2>2. CASE ~UploadStart(c, a)
    <3>1. UNCHANGED <<file, att>> /\ ~Owns(c)
      BY <1>1, <2>2 DEF RequestStart, PatchLoad, DeleteLoad, CorrectLoad, ReextractLoad,
         ReadLoad, tables
    <3>2. \A d \in Client : d # c => cl'[d] = cl[d]
      BY <1>1, <2>2 DEF TypeOK, RequestStart, PatchLoad, DeleteLoad, CorrectLoad,
         ReextractLoad, ReadLoad, Begin
    <3> QED BY <1>a, <3>1, <3>2
  <2> QED BY <2>1, <2>2
<1>2. ASSUME NEW c \in Client, RequestStep(c) PROVE OrphansOwned'
  <2> DEFINE a == cl[c].id
  <2>0. a \in AttId
    BY <1>0
  <2>1. CASE UploadStream(c)
    BY <1>0, <1>b, <2>0, <2>1, Moves DEF UploadStream, tables
  <2>2. CASE UploadCommit(c)
    <3>1. /\ att'[a].live /\ UNCHANGED file
          /\ \A b \in AttId : b # a => att'[b] = att[b]
      BY <1>0, <2>0, <2>2 DEF UploadCommit, InsertRow, NewRow, NoRow
    <3>2. \A d \in Client : d # c => cl'[d] = cl[d]
      BY <2>2, Moves DEF UploadCommit
    <3> QED BY <1>b, <2>0, <3>1, <3>2
  <2>3. CASE UploadCleanup(c) \/ DeleteFile(c)
    <3>1. /\ file'[a] = "none" /\ UNCHANGED att
          /\ \A b \in AttId : b # a => file'[b] = file[b]
      BY <1>0, <2>0, <2>3 DEF UploadCleanup, DeleteFile, tables
    <3>2. \A d \in Client : d # c => cl'[d] = cl[d]
      BY <2>3, Moves DEF UploadCleanup, DeleteFile
    <3> QED BY <1>b, <2>0, <3>1, <3>2
  <2>4. CASE DeleteCommit(c)
    <3>1. /\ UNCHANGED file /\ Goto(c, "deleteCommitted")
          /\ \A b \in AttId : b # a => att'[b] = att[b]
      BY <1>0, <2>4 DEF DeleteCommit
    <3>2. /\ cl'[c].id = a /\ Owns(c)'
          /\ \A d \in Client : d # c => cl'[d] = cl[d]
      BY <3>1, Moves
    <3> QED BY <1>b, <2>0, <3>1, <3>2
  <2>5. CASE PatchUpdate(c)
    BY <1>0, <1>a, <2>5 DEF TypeOK, PatchUpdate, tables
  <2>6. CASE PatchCommit(c) \/ ReextractCommit(c)
    <3>1. ASSUME PatchCommit(c) PROVE \A b \in AttId : att'[b].live = att[b].live
      BY <1>0, <3>1 DEF PatchCommit, AttRow
    <3>2. ASSUME ReextractCommit(c) PROVE \A b \in AttId : att'[b].live = att[b].live
      BY <1>0, <3>2 DEF ReextractCommit, AttRow
    <3> QED BY <1>a, <2>6, <3>1, <3>2, Moves DEF PatchCommit, ReextractCommit
  <2>7. CASE CorrectCommit(c) \/ ReadAudit(c) \/ ReadServe(c) \/ RequestFails(c)
    BY <1>a, <2>7, Moves DEF CorrectCommit, ReadAudit, ReadServe, RequestFails, tables
  <2>8. ~UploadCommitLostAck(c)
    BY DEF UploadCommitLostAck
  <2> QED BY <1>2, <2>1, <2>2, <2>3, <2>4, <2>5, <2>6, <2>7, <2>8 DEF RequestStep
<1>3. ASSUME NEW w \in Worker, NEW a \in AttId, WorkerClaim(w, a) PROVE OrphansOwned'
  BY <1>a, <1>3 DEF WorkerClaim, tables
<1>4. ASSUME NEW w \in Worker, WorkerStep(w) PROVE OrphansOwned'
  <2>1. \A a \in AttId : att'[a].live = att[a].live
    BY <1>0, <1>4, MarkKeepsRow DEF WorkerStep, WorkerOpen, WorkerRefuse, WorkerRetry,
       WorkerStoreText, WorkerMarkDone, WorkerError, tables, TypeOK, WorkerState
  <2> QED BY <1>a, <1>4, <2>1 DEF WorkerStep, WorkerOpen, WorkerRefuse, WorkerRetry,
      WorkerStoreText, WorkerMarkDone, WorkerError
<1>5. ASSUME NEW a \in AttId, RetryDue(a) PROVE OrphansOwned'
  BY <1>0, <1>a, <1>5 DEF RetryDue, AttRow
<1>6. CASE ToggleArchived \/ UNCHANGED vars
  BY <1>a, <1>6 DEF ToggleArchived, tables, vars
<1>7. ~Crash
  BY DEF Crash, TypeOK
<1> QED BY <1>1, <1>2, <1>3, <1>4, <1>5, <1>6, <1>7 DEF Next

(* What FilesConverge rests on: where nothing crashes and nothing fails, a *)
(* file without a row is never left to nobody.                             *)
THEOREM FilesAreOwned ==
    ASSUME Faults = {}, MaxCrashes = 0
    PROVE  Spec => []OrphansOwned
<1>1. Init => OrphansOwned
  BY DEF Init, OrphansOwned
<1>2. TypeOK /\ OrphansOwned /\ [Next]_vars => OrphansOwned'
  BY StepOrphans
<1> QED BY <1>1, <1>2, TypeCorrect, PTL DEF Spec
-----------------------------------------------------------------------------
(* The audit log.                                                          *)

AuditInv ==
    /\ AuditCoversRows
    /\ ReadsAreAudited
    /\ \A c \in Client : At(c, "deleteLoaded") => <<"added", cl[c].id>> \in audit
    /\ \A c \in Client : At(c, "readAudited") => <<"read", cl[c].id>> \in audit
    /\ \A c \in Client : At(c, "patchUpdated") /\ cl[c].body = "hand" =>
            <<"corrected", cl[c].id>> \in audit

LEMMA InitAudit == Init => AuditInv
  BY DEF Init, AuditInv, AuditCoversRows, ReadsAreAudited, NoRow, NoText, IdleClient, At

LEMMA StepAudit ==
    ASSUME TypeOK, LockInv, AuditInv, [Next]_vars
    PROVE  AuditInv'
<1> USE DEF AuditInv, AuditCoversRows, ReadsAreAudited, At
<1>0. /\ text \in [AttId -> TextRow] /\ att \in [AttId -> AttRow]
      /\ cl \in [Client -> ClientState]
      /\ \A a \in AttId : att[a] \in AttRow
      /\ \A c \in Client : cl[c] \in ClientState /\ cl[c].id \in AttId
      /\ \A w \in Worker : wk[w].id \in AttId
  BY DEF TypeOK, ClientState, WorkerState
<1>a. ASSUME audit \subseteq audit', UNCHANGED answers,
             \A a \in AttId : <<"added", a>> \in audit' => <<"added", a>> \in audit,
             \A a \in AttId : /\ att'[a].live = att[a].live
                              /\ text'[a].body = "hand" => text[a].body = "hand",
             \A c \in Client :
                \/ cl'[c] = cl[c]
                \/ cl'[c].pc \notin {"deleteLoaded", "readAudited", "patchUpdated"}
      PROVE  AuditInv'
  <2>1. (AuditCoversRows /\ ReadsAreAudited)'
    BY <1>a
  <2>2. ASSUME NEW c \in Client, cl'[c].pc \in {"deleteLoaded", "readAudited", "patchUpdated"}
        PROVE  cl'[c] = cl[c]
    BY <1>a, <2>2
  <2> QED BY <1>a, <2>1, <2>2
<1>1. ASSUME NEW c \in Client, NEW a \in AttId, RequestStart(c, a) PROVE AuditInv'
  <2>1. UNCHANGED <<att, text, audit, answers>>
    BY <1>1 DEF RequestStart, UploadStart, PatchLoad, DeleteLoad, CorrectLoad,
       ReextractLoad, ReadLoad, tables
  <2>2. CASE UploadStart(c, a) \/ ReextractLoad(c, a) \/ ReadLoad(c, a)
    BY <1>a, <2>1, <2>2, Moves DEF UploadStart, ReextractLoad, ReadLoad
  <2>3. CASE PatchLoad(c, a)
    BY <1>0, <1>a, <2>1, <2>3 DEF PatchLoad, IdleClient
  <2>4. CASE CorrectLoad(c, a)
    BY <1>0, <1>a, <2>1, <2>4 DEF CorrectLoad, IdleClient
  <2>5. CASE DeleteLoad(c, a)
    <3>1. att[a].live /\ cl'[c].pc = "deleteLoaded" /\ cl'[c].id = a
      BY <2>5, Moves DEF DeleteLoad
    <3>2. \A d \in Client : d # c => cl'[d] = cl[d]
      BY <2>5, Moves DEF DeleteLoad
    <3> QED BY <2>1, <3>1, <3>2
  <2> QED BY <1>1, <2>2, <2>3, <2>4, <2>5 DEF RequestStart
<1>2. ASSUME NEW c \in Client, RequestStep(c) PROVE AuditInv'
  <2> DEFINE a == cl[c].id
  <2>0. a \in AttId
    BY <1>0
  <2>1. CASE UploadStream(c) \/ UploadCleanup(c) \/ DeleteFile(c) \/ RequestFails(c)
    BY <1>a, <2>1, Moves DEF UploadStream, UploadCleanup, DeleteFile, RequestFails, tables
  <2>2. CASE UploadCommit(c) \/ UploadCommitLostAck(c)
    <3>1. /\ cl'[c].pc \in {"idle", "uploadRefused"}
          /\ \A d \in Client : d # c => cl'[d] = cl[d]
      BY <2>2, Moves DEF UploadCommit, UploadCommitLostAck
    <3>2. /\ UNCHANGED <<text, answers>> /\ att'[a].live
          /\ audit' = audit \cup {<<"added", a>>}
          /\ \A b \in AttId : b # a => att'[b] = att[b]
      <4>1. PICK s \in BOOLEAN : InsertRow(a, s)
        BY <2>2 DEF UploadCommit, UploadCommitLostAck
      <4>2. NewRow(s).live
        BY DEF NewRow, NoRow
      <4> QED BY <1>0, <2>0, <2>2, <4>1, <4>2 DEF UploadCommit, UploadCommitLostAck,
          InsertRow, Log
    <3> QED BY <1>0, <2>0, <3>1, <3>2
  <2>3. CASE PatchUpdate(c)
    <3>1. UNCHANGED <<att, text, audit, answers>>
      BY <2>3 DEF PatchUpdate, tables
    <3>2. /\ cl'[c].pc = "patchUpdated" /\ cl'[c].id = a /\ cl'[c].body = text[a].body
          /\ \A d \in Client : d # c => cl'[d] = cl[d]
      BY <1>0, <2>3 DEF PatchUpdate, ClientState
    <3> QED BY <2>0, <3>1, <3>2
  <2>4. CASE PatchCommit(c)
    <3>1. /\ cl[c].body = "hand" => <<"corrected", a>> \in audit
          /\ cl'[c].pc = "idle" /\ \A d \in Client : d # c => cl'[d] = cl[d]
      BY <2>4, Moves DEF PatchCommit
    <3>2. \A b \in AttId : att'[b].live = att[b].live
      BY <1>0, <2>4 DEF PatchCommit, AttRow
    <3>3. /\ audit \subseteq audit' /\ UNCHANGED answers
          /\ \A b \in AttId : <<"added", b>> \in audit' => <<"added", b>> \in audit
          /\ text'[a].body = text[a].body \/ text'[a].body = cl[c].body
          /\ \A b \in AttId : b # a => text'[b] = text[b]
      BY <1>0, <2>4 DEF PatchCommit, Log
    <3>4. \A b \in AttId : text'[b].body = "hand" => <<"corrected", b>> \in audit'
      BY <2>0, <3>1, <3>3
    <3>5. (AuditCoversRows /\ ReadsAreAudited)'
      BY <3>2, <3>3, <3>4
    <3> QED BY <3>1, <3>3, <3>5
  <2>5. CASE DeleteCommit(c)
    <3>1. /\ cl'[c].pc \in {"idle", "deleteCommitted"}
          /\ \A d \in Client : d # c => cl'[d] = cl[d]
      BY <2>5, Moves DEF DeleteCommit
    <3>2. /\ audit' = audit \cup {<<"removed", a>>} /\ UNCHANGED answers
          /\ text'[a].body # "hand"
          /\ ~att'[a].live
          /\ \A b \in AttId : b # a => text'[b] = text[b] /\ att'[b] = att[b]
      BY <1>0, <2>5 DEF DeleteCommit, Log, NoText, NoRow
    <3> QED BY <2>0, <3>1, <3>2
  <2>6. CASE CorrectCommit(c)
    <3>1. cl'[c].pc = "idle" /\ \A d \in Client : d # c => cl'[d] = cl[d]
      BY <2>6, Moves DEF CorrectCommit
    <3>2. /\ audit' = audit \cup {<<"corrected", a>>} /\ UNCHANGED <<att, answers>>
          /\ \A b \in AttId : b # a => text'[b] = text[b]
      BY <1>0, <2>6 DEF CorrectCommit, Log
    <3> QED BY <2>0, <3>1, <3>2
  <2>7. CASE ReextractCommit(c)
    <3>1. \A b \in AttId : att'[b].live = att[b].live
      BY <1>0, <2>7 DEF ReextractCommit, AttRow
    <3> QED BY <1>a, <2>7, <3>1, Moves DEF ReextractCommit, Log
  <2>8. CASE ReadAudit(c)
    <3>1. /\ cl'[c].pc = "readAudited" /\ cl'[c].id = a
          /\ \A d \in Client : d # c => cl'[d] = cl[d]
      BY <2>8, Moves DEF ReadAudit
    <3>2. audit' = audit \cup {<<"read", a>>} /\ UNCHANGED <<att, text, answers>>
      BY <2>8 DEF ReadAudit, Log
    <3> QED BY <2>0, <3>1, <3>2
  <2>9. CASE ReadServe(c)
    <3>1. cl'[c].pc = "idle" /\ \A d \in Client : d # c => cl'[d] = cl[d]
      BY <2>9, Moves DEF ReadServe
    <3>2. UNCHANGED <<att, text, audit>> /\ cl[c].pc = "readAudited"
      BY <2>9 DEF ReadServe, tables
    <3>3. \A e \in answers' : e \in answers \/ e[2] = a
      BY <2>9 DEF ReadServe
    <3> QED BY <2>0, <3>1, <3>2, <3>3
  <2> QED BY <1>2, <2>1, <2>2, <2>3, <2>4, <2>5, <2>6, <2>7, <2>8, <2>9 DEF RequestStep
<1>3. ASSUME NEW w \in Worker, NEW a \in AttId, WorkerClaim(w, a) PROVE AuditInv'
  BY <1>a, <1>3 DEF WorkerClaim, tables
<1>4. ASSUME NEW w \in Worker, WorkerStep(w) PROVE AuditInv'
  <2>1. \A a \in AttId : att'[a].live = att[a].live
    BY <1>0, <1>4, MarkKeepsRow DEF WorkerStep, WorkerOpen, WorkerRefuse, WorkerRetry,
       WorkerStoreText, WorkerMarkDone, WorkerError, tables
  <2>2. UNCHANGED <<audit, answers, cl>>
    BY <1>4 DEF WorkerStep, WorkerOpen, WorkerRefuse, WorkerRetry, WorkerStoreText,
       WorkerMarkDone, WorkerError, tables
  <2>3. \A a \in AttId : text'[a].body = "hand" => text[a].body = "hand"
    <3>1. CASE WorkerStoreText(w)
      BY <1>0, <3>1 DEF WorkerStoreText
    <3>2. CASE UNCHANGED text
      BY <3>2
    <3> QED BY <1>4, <3>1, <3>2 DEF WorkerStep, WorkerOpen, WorkerRefuse, WorkerRetry,
        WorkerMarkDone, WorkerError, tables
  <2> QED BY <1>a, <2>1, <2>2, <2>3
<1>5. ASSUME NEW a \in AttId, RetryDue(a) PROVE AuditInv'
  BY <1>0, <1>a, <1>5 DEF RetryDue, AttRow
<1>6. CASE ToggleArchived \/ UNCHANGED vars
  BY <1>a, <1>6 DEF ToggleArchived, tables, vars
<1>7. CASE Crash
  BY <1>a, <1>7 DEF Crash, IdleClient, tables
<1> QED BY <1>1, <1>2, <1>3, <1>4, <1>5, <1>6, <1>7 DEF Next

LEMMA AuditInvariance == Spec => []AuditInv
<1>1. Inv /\ AuditInv /\ [Next]_vars => AuditInv'
  BY StepAudit DEF Inv
<1> QED BY <1>1, InitAudit, Invariance, PTL DEF Spec

(* The audit log explains the tables: no row, no missing row and no hand-  *)
(* made text without its entry, through every race and crash.              *)
THEOREM AuditExplains == Spec => []AuditCoversRows
<1>1. AuditInv => AuditCoversRows
  BY DEF AuditInv
<1> QED BY <1>1, AuditInvariance, PTL

(* No body is served before its read is on record, also when the row is    *)
(* deleted between the record and the body.                                *)
THEOREM ReadsAreOnRecord == Spec => []ReadsAreAudited
<1>1. AuditInv => ReadsAreAudited
  BY DEF AuditInv
<1> QED BY <1>1, AuditInvariance, PTL
-----------------------------------------------------------------------------
(* One worker.  The claim is not exclusive, so all of this is lost as soon *)
(* as a second server process polls the table.                             *)

SoleWorker == \A v, w \in Worker : v = w

LEMMA StepClaim ==
    ASSUME SoleWorker, TypeOK, FreshInv, ClaimIsCurrent, [Next]_vars
    PROVE  ClaimIsCurrent'
<1> USE DEF ClaimIsCurrent
<1>0. /\ att \in [AttId -> AttRow] /\ wk \in [Worker -> WorkerState]
      /\ \A a \in AttId : att[a] \in AttRow
      /\ \A c \in Client : cl[c].id \in AttId
      /\ \A w \in Worker : wk[w] \in WorkerState /\ wk[w].id \in AttId
  BY DEF TypeOK, ClientState, WorkerState
<1>a. ASSUME UNCHANGED <<att, wk>> PROVE ClaimIsCurrent'
  BY <1>a
<1>b. ASSUME NEW a \in AttId, UNCHANGED wk,
             \A b \in AttId : b # a => att'[b] = att[b],
             \A w \in Worker : wk[w].pc # "idle" /\ wk[w].id = a =>
                \/ ~att'[a].live
                \/ /\ att'[a].live = att[a].live /\ att'[a].state = att[a].state
                   /\ att'[a].attempts = att[a].attempts
                   /\ att'[a].due \in {att[a].due, "now"}
      PROVE  ClaimIsCurrent'
  BY <1>0, <1>b
<1>1. ASSUME NEW c \in Client, RequestStep(c) PROVE ClaimIsCurrent'
  <2> DEFINE a == cl[c].id
  <2>0. a \in AttId
    BY <1>0
  <2>1. CASE UploadCommit(c) \/ UploadCommitLostAck(c)
    <3>1. \A w \in Worker : wk[w].pc # "idle" => wk[w].id # a
      BY <2>1 DEF UploadCommit, UploadCommitLostAck, FreshInv, Uploading, Holds, At
    <3>2. UNCHANGED wk /\ \A b \in AttId : b # a => att'[b] = att[b]
      BY <1>0, <2>1 DEF UploadCommit, UploadCommitLostAck, InsertRow
    <3> HIDE DEF a
    <3> QED BY <1>b, <2>0, <3>1, <3>2
  <2>2. CASE PatchCommit(c)
    BY <1>0, <1>b, <2>0, <2>2 DEF PatchCommit, AttRow
  <2>3. CASE DeleteCommit(c)
    BY <1>0, <1>b, <2>0, <2>3 DEF DeleteCommit, NoRow
  <2>4. CASE ReextractCommit(c)
    <3>1. att[a].live /\ att[a].state # "pending"
      BY <2>4 DEF ReextractCommit, Terminal
    <3>2. UNCHANGED wk /\ \A b \in AttId : b # a => att'[b] = att[b]
      BY <1>0, <2>4 DEF ReextractCommit
    <3> HIDE DEF a
    <3> QED BY <1>b, <2>0, <3>1, <3>2
  <2> QED BY <1>a, <1>1, <2>1, <2>2, <2>3, <2>4 DEF RequestStep, UploadStream,
      UploadCleanup, PatchUpdate, DeleteFile, CorrectCommit, ReadAudit, ReadServe,
      RequestFails, tables
<1>2. ASSUME NEW w \in Worker, NEW a \in AttId, WorkerClaim(w, a) PROVE ClaimIsCurrent'
  BY <1>0, <1>2 DEF WorkerClaim, IsDue, SoleWorker, tables
<1>3. ASSUME NEW w \in Worker, WorkerStep(w) PROVE ClaimIsCurrent'
  <2>1. CASE WorkerOpen(w)
    BY <1>0, <2>1 DEF WorkerOpen, WorkerState, tables
  <2>2. CASE WorkerStoreText(w)
    BY <1>0, <2>2 DEF WorkerStoreText, WorkerState
  <2>3. CASE Release(w)
    <3>1. \A v \in Worker : wk'[v].pc = "idle"
      BY <1>0, <2>3 DEF Release, IdleWorker, SoleWorker
    <3> QED BY <3>1
  <2> QED BY <1>3, <2>1, <2>2, <2>3 DEF WorkerStep, WorkerRefuse, WorkerRetry,
      WorkerMarkDone, WorkerError
<1>4. ASSUME NEW a \in AttId, RetryDue(a) PROVE ClaimIsCurrent'
  BY <1>0, <1>b, <1>4 DEF RetryDue, AttRow
<1>5. CASE Crash
  BY <1>5 DEF Crash, IdleWorker
<1> QED BY <1>a, <1>1, <1>2, <1>3, <1>4, <1>5 DEF Next, RequestStart, UploadStart,
     PatchLoad, DeleteLoad, CorrectLoad, ReextractLoad, ReadLoad, ToggleArchived,
     tables, vars

(* With one worker, the row being extracted is the row that was claimed.   *)
THEOREM ClaimStaysCurrent ==
    ASSUME SoleWorker
    PROVE  Spec => []ClaimIsCurrent
<1>1. Init => ClaimIsCurrent
  BY DEF Init, ClaimIsCurrent, IdleWorker
<1>2. Inv /\ ClaimIsCurrent /\ [Next]_vars => ClaimIsCurrent'
  BY StepClaim DEF Inv
<1> QED BY <1>1, <1>2, Invariance, PTL DEF Spec

(* With one worker, only a person or a promotion that read the text before *)
(* the correction replaces the hand-made text of a settled extraction.     *)
THEOREM SettledHandTextSafe ==
    ASSUME SoleWorker
    PROVE  Spec => SettledHandTextKept
<1>1. ASSUME TypeOK, ClaimIsCurrent, [Next]_vars,
             NEW a \in AttId, att[a].live, att[a].state \in Terminal, text[a].body = "hand"
      PROVE  \/ text'[a].body \in {"hand", "empty"}
             \/ \E c \in Client : At(c, "patchUpdated") /\ cl[c].id = a /\ cl[c].seal
  <2>0. /\ text \in [AttId -> TextRow]
        /\ \A c \in Client : cl[c].id \in AttId
        /\ \A w \in Worker : wk[w].id \in AttId
    BY <1>1 DEF TypeOK, ClientState, WorkerState
  <2>1. ASSUME NEW c \in Client, PatchCommit(c)
        PROVE  text'[a] = text[a] \/ (At(c, "patchUpdated") /\ cl[c].id = a /\ cl[c].seal)
    BY <2>0, <2>1 DEF PatchCommit
  <2>2. ASSUME NEW c \in Client, DeleteCommit(c)
        PROVE  text'[a].body \in {"hand", "empty"}
    BY <1>1, <2>0, <2>2 DEF DeleteCommit, NoText
  <2>3. ASSUME NEW c \in Client, CorrectCommit(c)
        PROVE  text'[a].body \in {"hand", "empty"}
    BY <1>1, <2>0, <2>3 DEF CorrectCommit
  <2>4. ASSUME NEW w \in Worker, WorkerStoreText(w) PROVE text'[a] = text[a]
    <3>1. wk[w].id # a
      BY <1>1, <2>4 DEF ClaimIsCurrent, WorkerStoreText, Terminal
    <3> QED BY <2>0, <2>4, <3>1 DEF WorkerStoreText
  <2>5. CASE UNCHANGED text
    BY <1>1, <2>5
  <2> QED BY <1>1, <2>1, <2>2, <2>3, <2>4, <2>5, TextWriters
<1>2. TypeOK /\ ClaimIsCurrent /\ [Next]_vars =>
        \A a \in AttId :
            att[a].live /\ att[a].state \in Terminal /\ text[a].body = "hand" =>
                \/ text'[a].body \in {"hand", "empty"}
                \/ \E c \in Client : At(c, "patchUpdated") /\ cl[c].id = a /\ cl[c].seal
  BY <1>1
<1> QED BY <1>2, TypeCorrect, ClaimStaysCurrent, PTL DEF Spec, SettledHandTextKept

(* A finished extraction leaves its state only through a re-extraction     *)
(* that is on record, with its attempts reset.                             *)
THEOREM TerminalStaysSettled ==
    ASSUME SoleWorker
    PROVE  Spec => TerminalKept
<1>1. ASSUME TypeOK, FreshInv, ClaimIsCurrent, [Next]_vars,
             NEW a \in AttId, att[a].live, att'[a].live, att[a].state \in Terminal,
             att'[a].state # att[a].state
      PROVE  /\ att'[a].state = "pending" /\ att'[a].attempts = 0
             /\ <<"reextract", a>> \in audit'
  <2>0. /\ att \in [AttId -> AttRow]
        /\ \A c \in Client : cl[c].id \in AttId
        /\ \A w \in Worker : wk[w].id \in AttId
    BY <1>1 DEF TypeOK, ClientState, WorkerState
  <2>1. ASSUME NEW c \in Client, UploadCommit(c) \/ UploadCommitLostAck(c) PROVE FALSE
    <3>1. cl[c].id # a
      BY <1>1, <2>1 DEF UploadCommit, UploadCommitLostAck, FreshInv, Uploading, Holds, At
    <3> QED BY <1>1, <2>0, <2>1, <3>1 DEF UploadCommit, UploadCommitLostAck, InsertRow
  <2>2. ASSUME NEW c \in Client, PatchCommit(c) \/ DeleteCommit(c) PROVE FALSE
    BY <1>1, <2>0, <2>2 DEF PatchCommit, DeleteCommit, AttRow, NoRow
  <2>3. ASSUME NEW c \in Client, ReextractCommit(c)
        PROVE  /\ att'[a].state = "pending" /\ att'[a].attempts = 0
               /\ <<"reextract", a>> \in audit'
    BY <1>1, <2>0, <2>3 DEF ReextractCommit, Log
  <2>4. ASSUME NEW w \in Worker, WorkerRefuse(w) \/ WorkerRetry(w) \/ WorkerMarkDone(w)
        PROVE  FALSE
    <3>1. wk[w].id # a
      BY <1>1, <2>4 DEF ClaimIsCurrent, WorkerRefuse, WorkerRetry, WorkerMarkDone, Terminal
    <3>2. att'[a] = att[a]
      BY <2>0, <2>4, <3>1 DEF WorkerRefuse, WorkerRetry, WorkerMarkDone, MarkTerminal, MarkRow
    <3> QED BY <1>1, <3>2
  <2>5. ASSUME NEW b \in AttId, RetryDue(b) PROVE FALSE
    BY <1>1, <2>0, <2>5 DEF RetryDue, AttRow
  <2> QED BY <1>1, <2>1, <2>2, <2>3, <2>4, <2>5, RowWriters
<1>2. TypeOK /\ FreshInv /\ ClaimIsCurrent /\ [Next]_vars =>
        \A a \in AttId :
            att[a].live /\ att'[a].live /\ att[a].state \in Terminal
                /\ att'[a].state # att[a].state =>
                    /\ att'[a].state = "pending" /\ att'[a].attempts = 0
                    /\ <<"reextract", a>> \in audit'
  BY <1>1
<1>3. Inv => TypeOK /\ FreshInv
  BY DEF Inv
<1> QED BY <1>2, <1>3, Invariance, ClaimStaysCurrent, PTL DEF Spec, TerminalKept
-----------------------------------------------------------------------------
(* Attempts.  What PromiseKeptInTime rests on: with one worker a pending   *)
(* row has an attempt left, no UPDATE of the worker is refused by a CHECK, *)
(* and every error brings the row nearer to its end.                       *)

AttemptsLeft ==
    \A a \in AttId :
        att[a].live /\ att[a].state = "pending" => att[a].attempts < MaxAttempts

UpdatesAccepted ==
    \A w \in Worker :
        Holds(w) /\ att[wk[w].id].live =>
            RowChecks(AfterError(att[wk[w].id], wk[w].attempts))

ErrorsCount ==
    [][\A w \in Worker :
          LET a == wk[w].id IN
          WorkerRetry(w) /\ att[a].live =>
              /\ att'[a].attempts = att[a].attempts + 1
              /\ att'[a].state = "failed" \/ att'[a].due = "later"]_vars

(* The row after an error.                                                 *)
LEMMA AfterErrorRow ==
    ASSUME NEW r \in AttRow, r.state = "pending"
    PROVE  LET s == AfterError(r, r.attempts) IN
           /\ s.live = r.live /\ s.attempts = r.attempts + 1
           /\ \/ s.state = "failed"
              \/ s.state = "pending" /\ s.due = "later" /\ s.attempts < MaxAttempts
           /\ s.due # "none" => s.state = "pending"
<1>0. r.attempts \in Nat /\ MaxAttempts \in Nat
  BY BoundsAssumption DEF AttRow
<1>1. CASE r.attempts + 1 >= MaxAttempts
  BY <1>1 DEF AfterError, AttRow
<1>2. CASE ~(r.attempts + 1 >= MaxAttempts)
  <2>1. r.attempts + 1 < MaxAttempts
    BY <1>0, <1>2
  <2> QED BY <1>2, <2>1 DEF AfterError, AttRow
<1> QED BY <1>1, <1>2

LEMMA AcceptedWhileLeft ==
    ASSUME TypeOK, ClaimIsCurrent, AttemptsLeft
    PROVE  UpdatesAccepted
<1> SUFFICES ASSUME NEW w \in Worker, Holds(w), att[wk[w].id].live
             PROVE  RowChecks(AfterError(att[wk[w].id], wk[w].attempts))
  BY DEF UpdatesAccepted
<1> DEFINE r == att[wk[w].id]
<1>1. r \in AttRow /\ r.state = "pending" /\ wk[w].attempts = r.attempts
  BY DEF TypeOK, WorkerState, ClaimIsCurrent, Holds
<1>2. r.attempts < MaxAttempts /\ r.attempts \in Nat /\ MaxAttempts \in Nat
  BY <1>1, BoundsAssumption DEF TypeOK, WorkerState, AttemptsLeft, AttRow
<1> QED BY <1>1, <1>2, AfterErrorRow DEF RowChecks

LEMMA StepAttempts ==
    ASSUME TypeOK, FreshInv, ClaimIsCurrent, AttemptsLeft, [Next]_vars
    PROVE  AttemptsLeft'
<1> USE DEF AttemptsLeft
<1>0. /\ att \in [AttId -> AttRow] /\ \A a \in AttId : att[a] \in AttRow
      /\ \A c \in Client : cl[c].id \in AttId
      /\ \A w \in Worker : wk[w].id \in AttId
      /\ MaxAttempts \in Nat \ {0}
  BY BoundsAssumption DEF TypeOK, ClientState, WorkerState
<1>a. ASSUME NEW a \in AttId, \A b \in AttId : b # a => att'[b] = att[b],
             att'[a].live /\ att'[a].state = "pending" => att'[a].attempts < MaxAttempts
      PROVE  AttemptsLeft'
  BY <1>0, <1>a
<1>1. ASSUME NEW c \in Client,
             UploadCommit(c) \/ UploadCommitLostAck(c)
      PROVE  AttemptsLeft'
  <2>1. PICK s \in BOOLEAN : att' = [att EXCEPT ![cl[c].id] = NewRow(s)]
    BY <1>1 DEF UploadCommit, UploadCommitLostAck, InsertRow
  <2>2. NewRow(s).attempts = 0
    BY DEF NewRow, NoRow
  <2> QED BY <1>0, <1>a, <2>1, <2>2
<1>2. ASSUME NEW c \in Client, PatchCommit(c) PROVE AttemptsLeft'
  BY <1>0, <1>2 DEF PatchCommit, AttRow
<1>3. ASSUME NEW c \in Client, DeleteCommit(c) PROVE AttemptsLeft'
  BY <1>0, <1>3 DEF DeleteCommit, NoRow
<1>4. ASSUME NEW c \in Client, ReextractCommit(c) PROVE AttemptsLeft'
  BY <1>0, <1>4 DEF ReextractCommit, AttRow
<1>5. ASSUME NEW w \in Worker, NEW state \in Terminal, MarkTerminal(wk[w].id, state)
      PROVE  AttemptsLeft'
  BY <1>0, <1>5 DEF MarkTerminal, MarkRow, Terminal, AttRow
<1>6. ASSUME NEW w \in Worker, WorkerRetry(w) PROVE AttemptsLeft'
  <2> DEFINE a == wk[w].id
             r == AfterError(att[a], wk[w].attempts)
  <2>1. CASE att' = att
    BY <2>1
  <2>2. CASE att[a].live /\ att' = [att EXCEPT ![a] = r]
    <3>1. att[a].state = "pending" /\ wk[w].attempts = att[a].attempts
      BY <1>6, <2>2 DEF ClaimIsCurrent, WorkerRetry
    <3>2. att[a] \in AttRow
      BY <1>0
    <3>3. r.state = "pending" => r.attempts < MaxAttempts
      BY <3>1, <3>2, AfterErrorRow
    <3> HIDE DEF r
    <3> QED BY <1>0, <1>a, <2>2, <3>3
  <2> QED BY <1>6, <2>1, <2>2 DEF WorkerRetry, MarkRow
<1>7. ASSUME NEW b \in AttId, RetryDue(b) PROVE AttemptsLeft'
  BY <1>0, <1>7 DEF RetryDue, AttRow
<1>8. CASE UNCHANGED att
  BY <1>8
<1> QED BY <1>1, <1>2, <1>3, <1>4, <1>5, <1>6, <1>7, <1>8, RowWriters
     DEF WorkerRefuse, WorkerMarkDone, Terminal, ExtractState

(* A pending row has an attempt left, and no UPDATE of the worker breaks a *)
(* CHECK, which would leave the row pending and due for ever.              *)
THEOREM AttemptsStayLeft ==
    ASSUME SoleWorker
    PROVE  Spec => [](AttemptsLeft /\ UpdatesAccepted)
<1>1. Init => AttemptsLeft
  BY DEF Init, AttemptsLeft, NoRow
<1>2. Inv /\ ClaimIsCurrent /\ AttemptsLeft /\ [Next]_vars => AttemptsLeft'
  BY StepAttempts DEF Inv
<1>3. Inv /\ ClaimIsCurrent /\ AttemptsLeft => UpdatesAccepted
  BY AcceptedWhileLeft DEF Inv
<1> QED BY <1>1, <1>2, <1>3, Invariance, ClaimStaysCurrent, PTL DEF Spec

(* Every error of an extraction uses up exactly one attempt, and the row   *)
(* has failed or waits: the worker cannot try for ever.                    *)
THEOREM ErrorsAreCounted ==
    ASSUME SoleWorker
    PROVE  Spec => ErrorsCount
<1>1. ASSUME TypeOK, ClaimIsCurrent, UpdatesAccepted, NEW w \in Worker, WorkerRetry(w),
             att[wk[w].id].live
      PROVE  LET a == wk[w].id IN
             /\ att'[a].attempts = att[a].attempts + 1
             /\ att'[a].state = "failed" \/ att'[a].due = "later"
  <2> DEFINE a == wk[w].id
             r == AfterError(att[a], wk[w].attempts)
  <2>1. /\ att \in [AttId -> AttRow] /\ a \in AttId /\ att[a] \in AttRow
        /\ att[a].state = "pending" /\ wk[w].attempts = att[a].attempts
    BY <1>1 DEF TypeOK, WorkerState, ClaimIsCurrent, WorkerRetry
  <2>2. att' = [att EXCEPT ![a] = r]
    BY <1>1 DEF UpdatesAccepted, Holds, WorkerRetry, MarkRow
  <2>3. r.attempts = att[a].attempts + 1 /\ (r.state = "failed" \/ r.due = "later")
    BY <2>1, AfterErrorRow
  <2> HIDE DEF r
  <2> QED BY <2>1, <2>2, <2>3
<1>2. TypeOK /\ ClaimIsCurrent /\ UpdatesAccepted =>
        \A w \in Worker :
            LET a == wk[w].id IN
            WorkerRetry(w) /\ att[a].live =>
                /\ att'[a].attempts = att[a].attempts + 1
                /\ att'[a].state = "failed" \/ att'[a].due = "later"
  BY <1>1
<1> QED BY <1>2, TypeCorrect, ClaimStaysCurrent, AttemptsStayLeft, PTL DEF ErrorsCount
-----------------------------------------------------------------------------
(* The promise.                                                            *)

DeadRows == \A a \in AttId : ~att[a].live => ~att[a].sensitive
PInv == Inv /\ AuditInv /\ ClaimIsCurrent /\ DeadRows

(* A step that moves no phase, no sensitivity and no decision is a stutter; *)
(* one that moves them for a single attachment needs looking at there only. *)
LEMMA PromiseFrame ==
    ASSUME NEW a \in AttId,
           \A b \in AttId : b # a =>
                /\ PromisedPhase(b)' = PromisedPhase(b)
                /\ att'[b].sensitive = att[b].sensitive
    PROVE  LET phase == [b \in AttId |-> PromisedPhase(b)]
               sensitive == [b \in AttId |-> att[b].sensitive]
           IN  /\ phase' = [phase EXCEPT ![a] = PromisedPhase(a)']
               /\ sensitive' = [sensitive EXCEPT ![a] = att'[a].sensitive]
               /\ PromisedPhase(a)' = PromisedPhase(a) => phase' = phase
               /\ att'[a].sensitive = att[a].sensitive => sensitive' = sensitive
  OBVIOUS

LEMMA PromiseStutter ==
    ASSUME \A b \in AttId : /\ PromisedPhase(b)' = PromisedPhase(b)
                            /\ att'[b].sensitive = att[b].sensitive,
           (audit \cap (Decisions \X AttId))' = audit \cap (Decisions \X AttId)
    PROVE  UNCHANGED Promise!vars
  BY DEF Promise!vars
(* The log only gains what the step records about its attachment.          *)
LEMMA PromiseOthers ==
    ASSUME TypeOK, NEW a \in AttId, NEW act,
           \A b \in AttId : b # a => att'[b] = att[b],
           audit' \in {audit, audit \cup {<<act, a>>}}
    PROVE  /\ \A b \in AttId : b # a =>
                /\ PromisedPhase(b)' = PromisedPhase(b)
                /\ att'[b].sensitive = att[b].sensitive
           /\ act \notin Decisions =>
                (audit \cap (Decisions \X AttId))' = audit \cap (Decisions \X AttId)
           /\ act \in Decisions /\ audit' = audit \cup {<<act, a>>} =>
                (audit \cap (Decisions \X AttId))'
                    = (audit \cap (Decisions \X AttId)) \cup {<<act, a>>}
  BY DEF PromisedPhase

(* One lemma for the five decisions: what must be shown of the attachment  *)
(* concerned for the step to be that decision.                             *)
LEMMA PromiseStep ==
    ASSUME TypeOK, NEW a \in AttId, NEW act,
           \A b \in AttId : b # a => att'[b] = att[b],
           audit' \in {audit, audit \cup {<<act, a>>}},
           \/ /\ act = "added" /\ audit' # audit
              /\ PromisedPhase(a) = "absent" /\ PromisedPhase(a)' = "pending"
              /\ att'[a].sensitive \in BOOLEAN
           \/ /\ audit' = audit /\ att'[a].sensitive = att[a].sensitive
              /\ PromisedPhase(a) = "pending" /\ PromisedPhase(a)' = "settled"
           \/ /\ act = "reextract" /\ audit' = audit \cup {<<act, a>>}
              /\ att'[a].sensitive = att[a].sensitive
              /\ PromisedPhase(a) = "settled" /\ PromisedPhase(a)' = "pending"
           \/ /\ act = "raised" /\ audit' = audit \cup {<<act, a>>}
              /\ att'[a].sensitive = TRUE
              /\ PromisedPhase(a) \in {"pending", "settled"}
              /\ PromisedPhase(a)' = PromisedPhase(a)
           \/ /\ act = "removed" /\ audit' = audit \cup {<<act, a>>}
              /\ att'[a].sensitive = FALSE
              /\ PromisedPhase(a) \in {"pending", "settled"}
              /\ PromisedPhase(a)' = "removed"
    PROVE  Promise!Next
<1> DEFINE ph == [b \in AttId |-> PromisedPhase(b)]
           se == [b \in AttId |-> att[b].sensitive]
           lg == audit \cap (Decisions \X AttId)
<1>1. /\ ph' = [ph EXCEPT ![a] = PromisedPhase(a)']
      /\ se' = [se EXCEPT ![a] = att'[a].sensitive]
      /\ PromisedPhase(a)' = PromisedPhase(a) => ph' = ph
      /\ att'[a].sensitive = att[a].sensitive => se' = se
      /\ ph[a] = PromisedPhase(a)
  BY PromiseOthers, PromiseFrame
<1>2. /\ act \in Decisions /\ audit' = audit \cup {<<act, a>>} => lg' = lg \cup {<<act, a>>}
      /\ audit' = audit => lg' = lg
  BY PromiseOthers
<1>3. {"added", "reextract", "raised", "removed"} = Decisions
  BY DEF Decisions
<1> HIDE DEF ph, se, lg
<1> SUFFICES \/ Promise!Add(a) \/ Promise!Settle(a) \/ Promise!AskAgain(a)
             \/ Promise!Raise(a) \/ Promise!Remove(a)
  BY DEF Promise!Next
<1> USE DEF Promise!Add, Promise!Settle, Promise!AskAgain, Promise!Raise, Promise!Remove,
     Promise!Record, Promise!Present
<1>4. CASE /\ act = "added" /\ audit' # audit
           /\ PromisedPhase(a) = "absent" /\ PromisedPhase(a)' = "pending"
           /\ att'[a].sensitive \in BOOLEAN
  BY <1>1, <1>2, <1>3, <1>4 DEF ph, se, lg
<1>5. CASE /\ audit' = audit /\ att'[a].sensitive = att[a].sensitive
           /\ PromisedPhase(a) = "pending" /\ PromisedPhase(a)' = "settled"
  BY <1>1, <1>2, <1>3, <1>5 DEF ph, se, lg
<1>6. CASE /\ act = "reextract" /\ audit' = audit \cup {<<act, a>>}
           /\ att'[a].sensitive = att[a].sensitive
           /\ PromisedPhase(a) = "settled" /\ PromisedPhase(a)' = "pending"
  BY <1>1, <1>2, <1>3, <1>6 DEF ph, se, lg
<1>7. CASE /\ act = "raised" /\ audit' = audit \cup {<<act, a>>}
           /\ att'[a].sensitive = TRUE
           /\ PromisedPhase(a) \in {"pending", "settled"}
           /\ PromisedPhase(a)' = PromisedPhase(a)
  BY <1>1, <1>2, <1>3, <1>7 DEF ph, se, lg
<1>8. CASE /\ act = "removed" /\ audit' = audit \cup {<<act, a>>}
           /\ att'[a].sensitive = FALSE
           /\ PromisedPhase(a) \in {"pending", "settled"}
           /\ PromisedPhase(a)' = "removed"
  BY <1>1, <1>2, <1>3, <1>8 DEF ph, se, lg
<1> QED BY <1>4, <1>5, <1>6, <1>7, <1>8
LEMMA StepPromise ==
    ASSUME PInv, [Next]_vars
    PROVE  [Promise!Next]_(Promise!vars)
<1> USE DEF PromisedPhase
<1> DEFINE Good == [Promise!Next]_(Promise!vars)
<1>0. /\ TypeOK /\ att \in [AttId -> AttRow]
      /\ \A a \in AttId : att[a] \in AttRow
      /\ \A c \in Client : cl[c].id \in AttId /\ cl[c].want \in Want /\ cl[c].sens \in BOOLEAN
      /\ \A w \in Worker : wk[w].id \in AttId
  BY DEF PInv, Inv, TypeOK, ClientState, WorkerState
<1>a. ASSUME UNCHANGED <<att, audit>> PROVE Good
  BY <1>a, PromiseStutter
<1>b. ASSUME UNCHANGED audit,
             \A a \in AttId : /\ att'[a].live = att[a].live
                              /\ att'[a].state = att[a].state
                              /\ att'[a].sensitive = att[a].sensitive
      PROVE  Good
  BY <1>b, PromiseStutter
<1>1. ASSUME NEW c \in Client, RequestStep(c) PROVE Good
  <2>0. PICK a \in AttId : a = cl[c].id
    BY <1>0
  <2>1. CASE UploadCommit(c) \/ UploadCommitLostAck(c)
    <3>1. PICK s \in BOOLEAN : InsertRow(a, s)
      BY <2>0, <2>1 DEF UploadCommit, UploadCommitLostAck
    <3>2. /\ att' = [att EXCEPT ![a] = NewRow(s)] /\ audit' = audit \cup {<<"added", a>>}
      BY <3>1 DEF InsertRow, Log
    <3>3. PromisedPhase(a) = "absent" /\ <<"added", a>> \notin audit
      BY <2>0, <2>1 DEF UploadCommit, UploadCommitLostAck, PInv, Inv, FreshInv, Uploading, At
    <3>4. NewRow(s).live /\ NewRow(s).state = "pending" /\ NewRow(s).sensitive = s
      BY DEF NewRow, NoRow
    <3>5. /\ att'[a] = NewRow(s) /\ \A b \in AttId : b # a => att'[b] = att[b]
          /\ PromisedPhase(a)' = "pending"
      BY <1>0, <3>2, <3>4
    <3> HIDE DEF PromisedPhase
    <3> QED BY <1>0, <3>2, <3>3, <3>4, <3>5, PromiseStep
  <2>2. CASE PatchCommit(c)
    <3>1. /\ att[a].live /\ TriggerAllows(a, NewSensitive(c))
          /\ cl[c].sens => att[a].sensitive
      BY <2>0, <2>2 DEF PatchCommit, PInv, Inv, LockInv, TextInv, Snapshotting, At
    <3>2. /\ att' = [att EXCEPT ![a].sensitive = NewSensitive(c)]
          /\ IF Promotes(c) THEN Log("raised", a) ELSE UNCHANGED audit
      BY <2>0, <2>2 DEF PatchCommit
    <3>3. /\ att'[a].live = att[a].live /\ att'[a].state = att[a].state
          /\ att'[a].sensitive = NewSensitive(c)
          /\ \A b \in AttId : b # a => att'[b] = att[b]
      BY <1>0, <2>0, <3>2 DEF AttRow
    <3>4. CASE Promotes(c)
      <4>1. att'[a].sensitive = TRUE /\ audit' = audit \cup {<<"raised", a>>}
        BY <3>2, <3>3, <3>4 DEF Promotes, NewSensitive, Log
      <4>2. /\ PromisedPhase(a) \in {"pending", "settled"}
            /\ PromisedPhase(a)' = PromisedPhase(a)
        BY <3>1, <3>3, <4>1
      <4> HIDE DEF PromisedPhase
      <4> QED BY <1>0, <3>3, <4>1, <4>2, PromiseStep
    <3>5. CASE ~Promotes(c)
      <4>1. att'[a].sensitive = att[a].sensitive
        BY <1>0, <2>0, <3>1, <3>3, <3>5 DEF Promotes, NewSensitive, TriggerAllows, AttRow, Want
      <4> QED BY <1>b, <3>2, <3>3, <3>5, <4>1
    <3> QED BY <3>4, <3>5
  <2>3. CASE DeleteCommit(c)
    <3>1. /\ att' = [att EXCEPT ![a] = NoRow] /\ audit' = audit \cup {<<"removed", a>>}
          /\ <<"added", a>> \in audit
          /\ ~att[a].live => <<"removed", a>> \in audit
      BY <2>0, <2>3 DEF DeleteCommit, Log, PInv, AuditInv, AuditCoversRows, At
    <3>2. /\ \A b \in AttId : b # a => att'[b] = att[b]
          /\ ~att'[a].live /\ ~att'[a].sensitive
          /\ PromisedPhase(a)' = "removed"
      BY <1>0, <2>0, <3>1 DEF NoRow
    <3>3. CASE att[a].live
      <4>1. PromisedPhase(a) \in {"pending", "settled"} /\ att'[a].sensitive = FALSE
        BY <1>0, <3>1, <3>3 DEF NoRow
      <4> HIDE DEF PromisedPhase
      <4> QED BY <1>0, <3>1, <3>2, <4>1, PromiseStep
    <3>4. CASE ~att[a].live
      <4>1. audit' = audit /\ PromisedPhase(a) = "removed"
        BY <3>1, <3>4
      <4>2. att'[a].sensitive = att[a].sensitive
        <5>1. ~att[a].sensitive /\ att[a].sensitive \in BOOLEAN
          BY <1>0, <3>4 DEF PInv, DeadRows, AttRow
        <5>2. att'[a].sensitive = FALSE
          BY <1>0, <3>1 DEF NoRow
        <5> QED BY <5>1, <5>2
      <4> QED BY <3>2, <4>1, <4>2, PromiseStutter
    <3> QED BY <3>3, <3>4
  <2>4. CASE ReextractCommit(c)
    <3>1. /\ att[a].live /\ att[a].state # "pending"
          /\ att' = [att EXCEPT ![a] = [@ EXCEPT !.state = "pending", !.attempts = 0,
                                                 !.due = "now"]]
          /\ audit' = audit \cup {<<"reextract", a>>}
      BY <2>0, <2>4 DEF ReextractCommit, Terminal, Log
    <3>2. /\ att'[a].live /\ att'[a].state = "pending"
          /\ att'[a].sensitive = att[a].sensitive
          /\ \A b \in AttId : b # a => att'[b] = att[b]
      BY <1>0, <2>0, <3>1 DEF AttRow
    <3>3. PromisedPhase(a) = "settled" /\ PromisedPhase(a)' = "pending"
      BY <3>1, <3>2
    <3> HIDE DEF PromisedPhase
    <3> QED BY <1>0, <3>1, <3>2, <3>3, PromiseStep
  <2>5. CASE CorrectCommit(c) \/ ReadAudit(c)
    <3>1. UNCHANGED att /\ \E act \in {"corrected", "read"} : audit' = audit \cup {<<act, a>>}
      BY <2>0, <2>5 DEF CorrectCommit, ReadAudit, Log
    <3>2. PICK act \in {"corrected", "read"} : audit' = audit \cup {<<act, a>>}
      BY <3>1
    <3>3. act \notin Decisions /\ "added" # act
      BY <3>2 DEF Decisions
    <3> QED BY <1>0, <2>0, <3>1, <3>2, <3>3, PromiseOthers, PromiseStutter
  <2> QED BY <1>a, <1>1, <2>1, <2>2, <2>3, <2>4, <2>5 DEF RequestStep, UploadStream,
      UploadCleanup, PatchUpdate, DeleteFile, ReadServe, RequestFails, tables
<1>2. ASSUME NEW w \in Worker, WorkerStep(w) PROVE Good
  <2>0. PICK a \in AttId : a = wk[w].id
    BY <1>0
  <2>1. CASE UNCHANGED <<att, audit>>
    BY <1>a, <2>1
  <2>2. CASE WorkerRefuse(w) \/ WorkerRetry(w) \/ WorkerMarkDone(w)
    <3>1. /\ UNCHANGED audit
          /\ \A b \in AttId : att'[b].live = att[b].live /\ att'[b].sensitive = att[b].sensitive
          /\ \A b \in AttId : b # a => att'[b] = att[b]
      BY <1>0, <2>0, <2>2, MarkKeepsRow DEF WorkerRefuse, WorkerRetry, WorkerMarkDone
    <3>2. att[a].live => PromisedPhase(a) = "pending"
      BY <2>0, <2>2 DEF PInv, ClaimIsCurrent, WorkerRefuse, WorkerRetry, WorkerMarkDone
    <3> DEFINE Moved == att[a].live /\ att'[a].state # "pending"
    <3>3. CASE Moved
      <4>1. PromisedPhase(a)' = "settled" /\ PromisedPhase(a) = "pending"
        BY <3>1, <3>2, <3>3
      <4> HIDE DEF PromisedPhase
      <4> QED BY <1>0, <3>1, <4>1, PromiseStep
    <3>4. CASE ~Moved
      <4>1. \A b \in AttId : PromisedPhase(b)' = PromisedPhase(b)
        BY <3>1, <3>2, <3>4
      <4> QED BY <3>1, <4>1, PromiseStutter
    <3> QED BY <3>3, <3>4
  <2> QED BY <1>2, <2>1, <2>2 DEF WorkerStep, WorkerOpen, WorkerStoreText, WorkerError,
      tables
<1>3. ASSUME NEW a \in AttId, RetryDue(a) PROVE Good
  BY <1>0, <1>b, <1>3 DEF RetryDue, AttRow
<1> QED BY <1>a, <1>1, <1>2, <1>3 DEF Next, RequestStart, UploadStart, PatchLoad,
     DeleteLoad, CorrectLoad, ReextractLoad, ReadLoad, WorkerClaim, ToggleArchived,
     Crash, tables, vars
(* The rest of the invariant: a row that is gone reads as not sensitive.   *)
LEMMA StepDead == ASSUME TypeOK, LockInv, DeadRows, [Next]_vars PROVE DeadRows'
<1> USE DEF DeadRows
<1>0. /\ att \in [AttId -> AttRow] /\ \A a \in AttId : att[a] \in AttRow
      /\ \A c \in Client : cl[c].id \in AttId
      /\ \A w \in Worker : wk[w].id \in AttId
  BY DEF TypeOK, ClientState, WorkerState
<1>1. CASE UNCHANGED att
  BY <1>1
<1>2. ASSUME NEW c \in Client, RequestStep(c) PROVE DeadRows'
  <2>1. CASE UploadCommit(c) \/ UploadCommitLostAck(c)
    BY <1>0, <2>1 DEF UploadCommit, UploadCommitLostAck, InsertRow, NewRow, NoRow
  <2>2. CASE PatchCommit(c)
    BY <1>0, <2>2 DEF PatchCommit, LockInv, AttRow
  <2>3. CASE DeleteCommit(c)
    BY <1>0, <2>3 DEF DeleteCommit, NoRow
  <2>4. CASE ReextractCommit(c)
    BY <1>0, <2>4 DEF ReextractCommit, AttRow
  <2> QED BY <1>1, <1>2, <2>1, <2>2, <2>3, <2>4 DEF RequestStep, UploadStream,
      UploadCleanup, PatchUpdate, DeleteFile, CorrectCommit, ReadAudit, ReadServe,
      RequestFails, tables
<1>3. ASSUME NEW w \in Worker, WorkerStep(w) PROVE DeadRows'
  BY <1>0, <1>3, MarkKeepsRow DEF WorkerStep, WorkerOpen, WorkerRefuse, WorkerRetry,
     WorkerStoreText, WorkerMarkDone, WorkerError, tables
<1>4. ASSUME NEW a \in AttId, RetryDue(a) PROVE DeadRows'
  BY <1>0, <1>4 DEF RetryDue, AttRow
<1> QED BY <1>1, <1>2, <1>3, <1>4 DEF Next, RequestStart, UploadStart, PatchLoad,
     DeleteLoad, CorrectLoad, ReextractLoad, ReadLoad, WorkerClaim, ToggleArchived,
     Crash, tables, vars

(* The whole of handlers, worker, crashes and faults implements the five   *)
(* decisions of AttachmentPromise, each with its log row.                  *)
THEOREM ImplementsPromise ==
    ASSUME SoleWorker
    PROVE  Spec => PromiseKept
<1>1. Init => Promise!Init
  BY DEF Init, Promise!Init, PromisedPhase, NoRow
<1>2. Init => DeadRows
  BY DEF Init, DeadRows, NoRow
<1>3. Inv /\ DeadRows /\ [Next]_vars => DeadRows'
  BY StepDead DEF Inv
<1>4. PInv /\ [Next]_vars => [Promise!Next]_(Promise!vars)
  BY StepPromise
<1>5. Inv /\ AuditInv /\ ClaimIsCurrent /\ DeadRows => PInv
  BY DEF PInv
<1> QED BY <1>1, <1>2, <1>3, <1>4, <1>5, Invariance, AuditInvariance, ClaimStaysCurrent,
     PTL DEF Spec, PromiseKept, Promise!Spec
=============================================================================
