# Verification of the property register

TLA+ models of the API server under `src/api`, checked with TLC and, for the
results named below, proved with TLAPS. The models are read from the Go code and
the SQL migrations; the documents under `src/specs` are quoted only where the
code and a document disagree.

The system is an internal register of properties. A Go server talks to
PostgreSQL (READ COMMITTED, no advisory locks) and to a directory of encrypted
files; an Angular client calls it. There is no message queue and no cache: all
the difficulty lies in what several requests, and one background worker, do to
the same rows between their statements, and in what the database and the file
store hold when a request stops half-way.

## 1. Inventory

Paths are below `src/api/internal` unless they start with `src/`.

| Component | State | Operations | Hard behaviour | What makes it correct |
|---|---|---|---|---|
| Attachment handlers (`httpx/attachment_handlers.go`, `attachment_content_handler.go`, migrations 0016, 0017) | `attachment`, `attachment_text` | upload, PATCH, delete, read, correct a text, re-extract | file and row are two stores; every decision is taken from a row read without a lock | a row has its file, sensitivity is one-way, sealed text only on sensitive rows, everything is in the audit log |
| Extraction worker (`attachments/worker.go`, `body_opener.go`) | none of its own; `extract_*` columns | claim, open, extract, store the text, mark, retry | the claim commits without a mark; updates by id; crash between two transactions | the claim stays current, attempts are bounded, every pending row is settled |
| Blob store (`blobstore/store.go`) | one file per attachment | Put, Open, Delete | not transactional | converges on one file per row |
| Stream encryption (`crypto/stream.go`, `envelope.go`) | the stored file | Stream, OpenStream | declared length against chunk framing; a damaged file | what was written can be read, what is read was written |
| Text extractors (`extract/`) | none | route, run a tool | external tools | caps, refusal of other types |
| Property register (`httpx/property_write_handlers.go`, `properties/store.go`, `code.go`) | `property`, `property_code_seq` | create, update, change code, archive, restore | optimistic versions, look-up before insert | codes unique, no lost update, archived rows frozen |
| Undo (`httpx/audit_undo_handler.go`, `audit_undo_helpers.go`) | `audit_log` | undo of eight kinds of change | works from a record that may be old | restores exactly what it reverses |
| Custom fields (`properties/custom_field_store.go`, `custom_value_store.go`) | `custom_field`, `custom_field_choice`, `custom_value` | define, rename, choices, set values | choice removed while it is in use | public and sensitive columns never mixed |
| Types and areas (`properties/lookup_store.go`, `httpx/lookup_handlers.go`) | `property_type`, `area` | create, rename, delete | usage counted before the DELETE | no dangling reference |
| Audit log (`audit/writer.go`, `httpx/property_audit_diff.go`) | `audit_log` | Write, WriteCommitted, query | same transaction as the change, except for reads | one row per change, truthful before and after |
| Sign-in, sessions, delay (`auth/`, `httpx/auth_handlers.go`, `auth_session_handlers.go`, `middleware.go`) | `session`, `sign_in_delay` | sign in, authenticate, sign out, change password, sweep | account read long before the session is written; statements and COMMIT of a revocation lie apart | a new password ends the sessions opened with the old one |
| Accounts (`identity/`, `httpx/user_handlers.go`) | `account` | create, update, reset password | administrators changing each other under row locks taken one by one | there is an administrator; every change ends |
| Names and canonical forms (`identity/canonical.go`) | none | Canonical | pure text | equal names compare equal |
| Search (`properties/search_store.go`) | none | read-only queries | – | nothing sensitive is found |
| Server start and routes (`src/api/cmd/server`, `httpx/server.go`) | process | start, stop, wrap routes | crash | – |
| Administration tools (`src/api/cmd/admintool`) | – | seed-admin, reset-admin, seed-demo, backfill | run beside the server | – |
| Generated types (`gen/`) | – | – | – | – |
| Web client (`src/web`) | forms that keep a version | calls the API | stale forms | – |

How they interact: every handler authenticates, opens a transaction on the pool,
reads without a lock, writes, inserts its audit row and commits. The handlers and
the worker meet only in the tables and the store. Several server processes may
share one database, so each has a worker. `PROJECT.json` says for every component
what is modelled and lists the hazards at their lines.

## 2. Modules

```
AttachmentPromise                 what is promised about one attachment
   ^ refinement mapping (INSTANCE Promise)
AttachmentLifecycle               handlers + worker + store + crashes
StreamCrypto                      what one stored file holds, and its readers
RegisterPromise                   what the register decides, one change at a time
   ^ refinement mapping (INSTANCE Promise)
PropertyRegister                  property rows, codes, versions, audit, undo
Catalogue                         look-ups, custom fields, choices, values
AccountAccess                     accounts, sessions, administrators
SignInDelay                       the progressive delay and its locks
```

Each but the two promises has a module `MC...` for TLC (constants' symmetry and bounds)
and a module `..._proofs` that extends it and TLAPS.

Conventions. An action is what one transaction, or one stretch between two
statements another session can get between, does. A "...Load" or "Begin..." action
takes the snapshot that later steps of the request use. Record fields of an idle
request are reset, so that states do not differ in what nobody reads. Operators
marked "Mutant" are not part of a specification: each is a variant of the
definition after it with one plausible bug, and shows that a property notices it.

### AttachmentLifecycle

`att` is table `attachment` (live, is_sensitive, extract_state, extract_attempts,
extract_next_at as none/now/later), `text` is `attachment_text` (which columns
are filled, where the body came from, the two marks), `file` the store, `cl` the
requests in flight, `wk` the workers. `issued` keeps `uuid.New` from repeating.
`archived` is the property's flag as the guards read it.

- Upload: create the file under a fresh id (`UploadStart`), stream it
  (`UploadStream`), INSERT + audit + COMMIT (`UploadCommit`), and the removal on
  every error return (`UploadCleanup`).
- PATCH: load and refuse a demotion (`PatchLoad`), UPDATE under the trigger and
  SELECT of the text (`PatchUpdate`, from here the row is locked), sealing UPDATE,
  audit and COMMIT (`PatchCommit`).
- Delete: load, DELETE + audit + COMMIT, then the file. Correct, re-extract and
  read likewise; the read is recorded by `WriteCommitted` before the file is opened.
- Worker: `WorkerClaim` leaves no mark, as the code's claim commits at once;
  `WorkerOpen`; then refusal, error with retry or failure, or text followed by the
  state in a second transaction.
- `Crash` drops requests and workers; `Faults` adds a COMMIT that takes effect but
  reports an error ("lostAck") and a removal that fails ("remove").

Data left out: the description, names, sizes and MIME types. The text is one of
empty, machine, cut, hand. A closed file is whole: what that means is StreamCrypto.

`AttachmentPromise` is the abstract specification: absent, pending, settled,
removed; Add, Settle, AskAgain, Raise, Remove, each decision of a person with its
log entry in the same step. `PromiseKept == Promise!Spec` maps the row's state to
the phase and the audit rows to the log.

### StreamCrypto

One stored file from its upload to any number of readings. `total` is what the
source yields and `declared` what the caller said; `frames` is what Stream sealed,
`header` (the fields of the code's `Header`) and `disk` what is stored. A plaintext is
known by its length and the place it has in the upload; AES-GCM is taken as what it
promises: a frame opens as a whole, under its key and nonce prefix, at its index, with
its final flag, or not at all. Hence a place of the file holds a frame sealed for this
upload, one sealed for another, or garbage. Once, while nobody reads it, the file can
have its body cut, changed or two places of it exchanged (`DamageBody`), get any other
header, that of another attachment included (`DamageHeader`: nothing in the header is
authenticated), or be replaced as a whole by the valid file of another attachment
(`ReplaceFile`). Each turn of the loops of `Stream` and `OpenStream` is one action.

`HeaderAccepted` is where the two readers differ: the content handler compares all five
fields of the header with the row, the worker's opener compares nothing. `KeyUnwraps` is
what OpenStream refuses before its loop; `Int64` is its conversion of the uint64
length, which can make it negative: then the loop does not run and the reading fails.

The declared length of an upload is exact (`httpx/attachment_handlers.go:321-323`), so
`declared # total` can only come from another caller of Stream: RoundTrip and
WrongLengthCaught say what Stream itself promises any caller.

### PropertyRegister

`row` holds each property's version and content (code, archive status with or
without note, name, custom values), `log` the audit rows in id order with the
states their before and after are derived from, `seq` the code sequence (it does
not roll back), `ses` what each person is doing. A person opens a property
(`Open`), possibly long before the request; update, archive and restore first
read the prior state (`ReadPrior`), then one conditional UPDATE, the audit row and
COMMIT. `ChangeCode` has no prior read. A code is generated in at most `Budget`
turns of `NextCode`, or supplied and looked up, and inserted later against the
unique index. An undo loads the record and counts its reversals, resolves the
property (`UndoResolve`), reads it, and writes with the version it has just read. To
resolve is to look for the property that has the recorded code now, except that
`resolvePropertyIDForUndo` takes a code which parses as a UUID for the identifier
itself; codes may have 32 characters, and 32 hexadecimal digits parse. `UuidCode` are
such codes and `IdOf` the identifiers they read as, of a property or of none; the undo
of a change of code does not ask (`ReadAsId`). `GiveUp` covers refusals, conflicts and errors. `Created`, `Recoded`,
`Archived` and `Restored` are what the statements of the store make of a row.

The field `prop` of a record is not in the table: the code keeps only the code of
the property. `Open` takes the row and its custom values in one step, which the code
reads with two statements: a commit in between gives the screen an old version or
values that belong to it, and the version decides either way when the request comes.

`RegisterPromise` is the abstract specification: the register as a function from the
properties there are to their contents, and the log of decisions. Create, Modify,
Archive, Restore, Recode and Undo each look at the property as it is in that step,
leave alone what they are not about, keep codes unique and add the one record that
tells them; only an active property is modified or re-coded, so an archived one stays
as it was (`ArchivedFrozen`). There are no sessions, versions or earlier reads in it.
An undo may come long after its record and takes back only what the record changed.
`RegisterPromiseKept == Promise!Spec` maps the live rows to the register.

### Catalogue

`label` is the label of every look-up row and custom field (or that there is no
row), `type`, `sensitive` and `choiceOf` the rest of the definitions, `lookupOf` and
`holds` what each property refers to and holds, `log` the records about labels and
choices. A request reads without locks, statement by statement (`BeginRename`,
`CountLookup`, `LookupLabelByID`, `BeginUpdate`, `CheckChoice`, ...), and its writes
are one step: the first of them locks the row it needs until the commit. Unique
indexes and foreign keys are guards of the writes (`Taken`, `LookupUsed`,
`FieldUsed`, `ChoiceExists`). `SaveCustomValues` stores what the definitions loaded
before allow. A request adds and removes at most one choice each; property types and
areas are the same code, so one list stands for either; autocomplete and checkbox
values are stored as a plain text is. Removing a field that has choices fails in the
code (the foreign key refuses, and the count that should explain it runs in an
aborted transaction), which is why `DeleteCustomField` asks for a field without.
Deadlocks between two of these statements are left out: they only make one fail,
which `Refuse` allows at any time.

### AccountAccess

`acct` is table `account`, `sess` the session rows that are good or about to come, `req`
the requests, with the row locks their transactions hold. A request authenticates in
the route wrapper (`Admit`) and again in the handler (`Enter`), and then trusts what it
read. The look-up of the session, the read of the account and the touch are one
transaction and one step. A statement that may wait for a row, or that looks at rows
others may add before COMMIT, is a step of its own:

- A sign-in reads the account (`SignInRead`) and commits its session much later
  (`SignInCommit`). A sign-out locks its session (`SignOut`) and commits
  (`CommitSignOut`).
- A new password, by its owner, an administrator or `admintool reset-admin`: the UPDATE
  of the account (`ChangePassword`, `ResetPassword`, `RecoverPassword`), the statement
  of `RevokeAllForAccount`, which finds the sessions its snapshot shows, and the audit
  rows with COMMIT (`CommitPassword`), when these sessions end and the rest is seen by
  others.
- `handleUpdateUser` reads the account (`UserLoad`). If the change could take an
  administrator away, `EnsureNotLastAdmin` runs SELECT .. FOR UPDATE. At READ COMMITTED
  that statement searches the snapshot taken at its start (`LockAdmins`), locks the rows
  it found one by one, in no order it asks for, holding those it has while it waits for
  the next (`LockRow`), looks at the newest version of each and drops those that no
  longer match (`Counted`); then the count decides (`EnsureNotLastAdmin`, `Refuse`).
  `UpdateAccount` is the UPDATE, `RevokeAllForAccount` the revocation of a deactivation,
  `CommitUser` the end.

Row locks. An UPDATE locks the account against other UPDATEs and against FOR UPDATE;
FOR UPDATE keeps out the KEY SHARE locks as well that foreign keys take on the account a
session or an audit row refers to (`ActorFree`). Transactions can wait for each other
in a circle; `AbortDeadlock` is what PostgreSQL then does, and it is enabled exactly
then (`WaitsFor`, `Circle`).

Two marks of a session are history: `stale`, its password was replaced after its
sign-in had read the account; `late`, its sign-in was under way when a transaction had
already run RevokeAllForAccount and had not committed. The properties need them to name
the sessions that survive.

Left out: display names and the audit rows of accounts; the sign-in delay
(SignInDelay), and that a sign-in waits there for rows of its username; the short row
locks of TouchSession and of the sweep. A revocation waits for a session row that is
being signed out at the COMMIT of its transaction instead of in its statement, and a
sign-out does not wait for a revocation: whichever comes first the session ends, and
the model has more circles than the code, not fewer. Someone who changes a password knows the one the handler has read;
the UPDATE does not compare it again, so `ChangePassword` needs no guard on it.

### SignInDelay

`count` and `age` are the rows of `login_failure`, by submitted username, `lock` the
transaction that has deleted a row and not yet ended, `at` the sign-in attempts. An
attempt consults the row without a lock (`TooSoon`, `Admit`, `FindExpired`), may
delete an expired one (`DropExpired`), verifies, and then refuses, signs in
(`Reset` deletes the row) or records the failure: first the sweep of the expired
rows of all usernames, a row at a time (`SweepRow`), then upsert and COMMIT
(`RecordFailure`). `now()` is the start of the transaction, hence `began`. Two
sweeps can hold the row the other wants; `AbortDeadlock` is what PostgreSQL then
does. Time is kept as ages that `Tick` advances; the wait the code reports is
rounded up to seconds, of which the model keeps only whether it is over.

## 3. What TLC checks

| Run | Constants | Shows |
|---|---|---|
| attachments_safety | 1 attachment, 2 requests, 1 worker, 2 attempts, 1 crash, failing removals | RowHasFile, NoFalseAlarm, ClaimIsCurrent, SensitivityOneWay, TerminalKept, SettledHandTextKept, and that the detail implements AttachmentPromise |
| attachments_two_workers | 1 attachment, 1 request, 2 workers, 2 attempts, removals fail, COMMIT acknowledgements lost | TypeOK, TextHasRow, SealedOnlyIfSensitive, MarksAreHonest, DoneHasText, AuditCoversRows, ReadsAreAudited |
| attachments_liveness | 1 attachment, 1 request, 1 worker, no faults or crashes | PromiseKeptInTime (a pending text is settled), FilesConverge |
| stream | chunks of 3, lengths and declared lengths up to 10, int64 of 5 bits, chunk sizes in a header up to 13 | TypeOK, RoundTrip, OutputIsTrue, WrongLengthCaught |
| register | 2 properties, 2 sessions, 2 values, a sensitive field, 2 codes of the sequence and one that reads as the identifier of the first property, 2 attempts, 4 audit rows | TypeOK, CodesUnique, VersionCountsRecords, NoLostUpdate, AuditTruthful, UndoRestoresLastChange, UndoFindsItsProperty, and RegisterPromiseKept: the detail implements RegisterPromise |
| catalogue | 2 look-up rows, one of them there from the start, 2 fields, 1 choice, 1 property, 2 labels, 2 requests, 3 records | TypeOK, ValuesAreSound, ChangesAreTold |
| accounts_safety | 2 accounts, 2 requests, 2 sessions, bodies with one field or a demotion with a deactivation | TypeOK, CountedAdminIsNotLast, NewPasswordEndsSessions, DeactivationEndsSessions |
| accounts_liveness | 2 accounts, 2 requests, 1 session, bodies that deactivate or restore | TransactionsEnd |
| sign_in_delay | 2 usernames, 2 attempts, waits up to 4, expiry after 5, attempts last at most 1, 3 failures told apart | TypeOK, FreshCountKept, FailureCounts, NeverLocked |

Why the bounds are enough to see the interesting cases. Attachments do not share
rows, so one is enough for everything except the order of the claims, which no
property is about. Two requests and a worker give every pair of handlers, and a
handler against the worker with a second handler in between; `MaxAttempts` 2 has a
retry and a last attempt. Lengths up to 10 in chunks of 3 are no chunk, one, several,
a full and a short last one, each against a declared length before, at and after
every boundary; with 5 bits a header can hold every one of these lengths, longer ones
and those that int64 makes negative. In the register two codes for two properties make the generator
meet a supplied code and let one property take the code of the other; four audit
rows of one property reach the undo of a restore (creation, archive, restore, undo).
The second property takes the place of one row (`InBounds`), which leaves two creations
and a change whose undo has to find its property: with the third code, it finds the
other one. No handler reads a property it would have no room to change. Public fields take the same path as
the name does; with one of them besides the sensitive one the run exceeds five
minutes, and the proofs cover it. In the catalogue two fields and two
look-up rows can compete for a label; two requests are a save or an undo against a
removal or a rename; three records are a creation, a rename and its undo, or a
creation, the removal of the choice and that of the field. With a second choice, so
that a value can be a choice of another field, the same run holds with 3.2 million
states but takes too long to be kept; the proofs cover it. Two accounts are an administrator and one who becomes one or stops being one; two
requests are two changes that race, a change or a new password against a sign-in, a
sign-out or a recovery, and every circle of two transactions. The bodies that occur have
each field alone and both; those of accounts_liveness suffice for every kind of wait: a
deactivation is counted and revokes, the other is neither. Two usernames and two attempts are the smallest
deadlock of two sweeps; three failures reach the cap of the wait. The proofs of
section 4 do not depend on any of these bounds.

Symmetry is used for requests, workers, sessions, and in the catalogue
for everything no definition names, in safety runs only. Deadlock is checked in
every run but `stream`: a refused upload has nothing left to do.

Fairness. Attachments: a handler goroutine runs to its end and a cancelled one
returns (WF of its steps, and of the removal of the file); the worker's loop ticks
for as long as the process lives and its ORDER BY gives old rows precedence (SF of
the claim per row); errors it logs and forgets are transient (SF of the
statements that end its work on a row); time passes (WF of RetryDue). Nothing is
assumed of crashes or of the people. Accounts: WF of the steps of a
handler, SF of the steps of an open transaction that wait in PostgreSQL's lock queue,
WF of AbortDeadlock, as its detector looks after a second. TransactionsEnd is about a
request from the first statement on that changes or locks a row, and about a change of
an account from its reading of the account on.
SignInDelay: WF of Tick, and SF of the steps of an attempt, because PostgreSQL
grants a row lock to those that wait for it in turn; its deadlock detector is one
of those steps. Nobody has to try again, fail or succeed.

### Runs that end in a counterexample

Each checks one sentence of the documents that the code does not keep.

- **find_searchable_sensitive.** `storeText` seals or not by the `is_sensitive` of
  the claim. A promotion in between finds no text to seal, and the text is then
  stored in the column search reads (FR-022b).
- **find_undo_over_later_edit.** The undo compares the version it has just read, so
  it never conflicts with a later change; its comment promises a 409.
- **find_last_admin_gone.** A is the only administrator and changes B to a manager
  (which B is); the FOR UPDATE takes its snapshot, {A}. A second change makes B an
  administrator, and B demotes A: counted under locks, two, allowed. Now the first
  statement looks at A again and finds no administrator there, and B was not in its
  snapshot: it counts none, concludes that its target is no administrator, and
  demotes B. Between snapshot and locks a whole request of another person must
  fit, so this needs a stalled backend; but it is what "so a concurrent change
  can't slip past" rules out.

### Seen while modelling, not kept as runs

Where a property holds with an exception, the exception is one of these.

Attachments.
- `claimNext` commits without changing the row, so a second worker gets it again
  (`attachments/worker.go:166`).
- With two workers an error can be counted while the other worker still holds the
  row: a pending row then reaches `attempts = MaxAttempts`, the CHECK
  (`migrations/0016_attachment.sql:54`) refuses the UPDATE of every further error,
  and the row stays pending and due. `AttemptsStayLeft` proves that one worker never
  gets there.
- A text a person typed while the extraction was pending is replaced by the
  worker's upsert (`worker.go:296`; FR-024b of spec 003). SettledHandTextKept is
  what remains: once the extraction is settled, only a promotion replaces the text.
- A promotion seals the text it has selected before; a correction committed in
  between is overwritten (`httpx/attachment_handlers.go:503-516`). It also drops the
  correction and truncation marks and leaves an empty text in the readable columns.
- A change that read `archived_at` before an archive commits after it (`:293`), and
  a PATCH without a description writes back the one it has loaded (`:487`).
- A lost acknowledgement of the upload's COMMIT makes the handler remove the file
  of a committed row (`:391`); a crash between file and row leaves a file nobody
  removes.

Stored files.
- A chunk is handed out before the next one is verified, so a damaged file yields
  part of its content before the error (`crypto/stream.go:215`; FR-014 of spec 003
  asks for "no content whatsoever").
- `stream.go:159-162` says that a declared length shorter than the input is always an error. One
  that ends inside the short last chunk is not: the file is stored and cannot be
  read. WrongLengthCaught says exactly which lengths are let through.
- The worker opens a stored file with the file's own header (`attachments/body_opener.go:51`)
  and compares nothing with the row. If another attachment's file has taken the place
  of this one, its text is extracted as this one's; the content handler answers 422
  (`attachment_content_handler.go:127`). A header that says zero reads as an empty
  document. OutputIsTrue says so of the worker.

Properties, catalogue and undo.
- Two undos of one record both commit (`httpx/audit_undo_handler.go:53`). An undo
  follows a code to another property once the first has given it up
  (`audit_undo_helpers.go:231`), and a code given up is issued again
  (`properties/store.go:339`). A code of 32 hexadecimal digits is taken for an
  identifier (`:206`): the undo finds no property, or the one with that identifier,
  although the property of the record still has the code, and the comment above (`:201-204`)
  knows only the look-up. UndoFindsItsProperty says when neither can happen.
- An update of a field compares with the label it has read: if another rename came
  between, it renames without a record (`httpx/custom_field_handlers.go:258`). This
  is the exception of ChangesAreTold. For the same reason the "before" of a
  record can be out of date, and a look-up row can be recorded as removed twice.
- The undo of a rename writes the old label whatever the label is by now, and its
  record has the same label before and after. The undo of an added choice always
  fails (it writes an empty label, which a CHECK refuses), that of a removed choice
  too (it looks for what the record does not have).
- The removal of a choice is recorded although nothing may have been removed; a
  field that has choices cannot be removed (the count that explains the refusal
  runs in an aborted transaction and answers 500); a value may be a choice of
  another field (FR-027e of spec 002).

Sign-in.
- A sign-in that read an active account commits its session after a deactivation, or
  after its revocation and before its COMMIT (`httpx/auth_handlers.go:129`,
  `user_handlers.go:304-373`): RevokeAllForAccount does not see it, and it is good again
  once the account is reactivated. The same with a new password
  (`user_handlers.go:440-475`, `auth_session_handlers.go:142-177`): a sign-in verified
  against the old one leaves a session that outlives it. These are the sessions marked
  `late` in NewPasswordEndsSessions and DeactivationEndsSessions, and those of sign-ins
  that read the account before and commit after.
- A change of password overwrites a reset that committed after the old password was
  verified.
- FOR UPDATE without ORDER BY (`identity/invariants.go:45-48`): two changes can each hold
  an administrator's row the other needs. A change and a sign-out of the account can
  wait for each other too, one for the session, the other for the key of the account.
  PostgreSQL aborts one of them after a second, and the person gets a 500.
- Attempts that come together all pass Consult before one of them fails (FR-015 of
  spec 001); each is counted (FailureCounts). The right password of a deactivated
  account is refused but not counted.
- Two sweeps can deadlock (`auth/delay_schedule.go:45`): one request ends in a 500
  and its failure is not recorded. The DELETE of Consult (`:36`) can delete a fresh
  count that has replaced the expired one it read, the exception of FreshCountKept.
  `last_failure_at` is when the transaction began, so that much of a wait is over
  when the answer is sent.

## 4. What is proved

With TLAPS, for every value of the constants that satisfies the module's ASSUMEs.
None of it uses the bounds of the runs.

**AttachmentLifecycle_proofs.** With any number of requests and workers:
`TypeCorrect`, `RowsHaveFiles`, `AlarmsAreTrue`, `SealingIsSound`, `TextsHaveRows`,
`FinishedHasText`, `MarksStayHonest`, `SensitivityIsOneWay`, `AuditExplains`,
`ReadsAreOnRecord`. The invariant has one part for the life of an identifier (which
request works on it, row and file), one for the row lock of a PATCH, and `TextInv`:
a snapshot of is_sensitive can be out of date in one direction only, which is why a
text sealed late is still on a sensitive row. None of these properties but
MarksAreHonest, which every writer of a text re-establishes, is inductive by
itself: each needs what requests and workers remember to be related to the tables.
`FileInv` says of every file which request, row or failed removal accounts for it,
and that a reader who found none was late for a row that is gone; `AuditInv` which
log rows every request in flight, every row and every served body have behind them.

Some theorems have a hypothesis, because without it they are false:
- `RowsHaveFiles` and `AlarmsAreTrue`: "lostAck" is not among the faults. A lost
  acknowledgement makes the handler remove the file of a committed row.
- `ClaimStaysCurrent`, `TerminalStaysSettled`, `SettledHandTextSafe`,
  `AttemptsStayLeft`, `ErrorsAreCounted`, `ImplementsPromise`: a single worker. With
  two, a finished row is marked again.
- `FilesAreOwned`: no faults and no crashes, as in the run of FilesConverge.
- `OnlyLateWritersLeak` is about the behaviours in which no promotion commits past a
  worker or a correction that has read is_sensitive as false
  (`PromotionsMeetNoWriter`), and shows that in these the text of a sensitive
  attachment is never searchable. So the counterexample of
  find_searchable_sensitive is the only way there: no other order of uploads,
  PATCHes, corrections, extractions and crashes has that outcome.

`ImplementsPromise` shows that the initial states map to initial states and that
every action maps to an action of AttachmentPromise or a stutter.

What the two liveness properties rest on is proved too. `AttemptsStayLeft`: a pending
row has an attempt left and no UPDATE of the worker is refused by a CHECK (a refused
one would leave the row as it was, due for ever); `ErrorsAreCounted`: every error
uses up one attempt. `FilesAreOwned`: a file without a row always has a request that
is going to remove it or to insert its row.

**StreamCrypto_proofs.** `TypeCorrect`, `StoredIsReadable`, `OutputStaysTrue`,
`WrongLengthIsCaught`, for every chunk size and every length. The invariant says
that the frames tile the consumed part of the source, all full but perhaps the
last, the last final exactly when the declared length ends with it; and that what
the reader has taken is a prefix of them, its `remaining` being what the header
says less that prefix - or, when the header belongs to another upload, a prefix of the
frames of that one. The theorems hold for every header and for the damage of the model;
`OutputStaysTrue` gives the content handler more than the worker, as the property does.

**PropertyRegister_proofs.** `TypeCorrect`, `CodesStayUnique`, `NoUpdateIsLost`,
`AuditIsTruthful`, `ArchivedStaysFrozen`, `UndoRestores`, `UndoFinds`,
`VersionIsCount`, `RegisterImplementsPromise`. The inductive invariant `IInv` relates
what a session has read to the row: as long as the version has not moved, the content
has not (`SessionsOK`); what each kind of record leaves alone (`RecordsShaped`); and
that the last record of a property, unless it is an undo, says what the property is
now (`LastRecordIsContent`). Every step is then either a move of one session or a
`SoundWrite`, and each property follows from SoundWrite. For the refinement the record
of a write tells which decision of RegisterPromise it is (`WriteIsDecision`); that
the handler used values it had read earlier no longer matters, because SoundWrite has
shown them equal to the row's. This is the reason for the version column: the
theorem says that the reads without locks cannot be noticed.

**Catalogue_proofs.** `TypeCorrect` (unique labels included), `ValuesStaySound`,
`ChangesStayTold`. The invariant adds to the types that requests past their beginning
have a target of the right list (`Targets`) and that only text fields are sensitive
(`TextsOnly`): type and sensitivity are settled when a field is created, so what an
open save has loaded of them cannot go stale, whatever else happens to the field. Of
an open rename or removal nothing more has to be known, because the constraints are
checked where it writes; ValuesAreSound is then inductive by the foreign keys.

**AccountAccess_proofs.** `TypeCorrect`, `RowsExclusive`, `CountedIsNeverLast`,
`NewPasswordIsNewStart`, `DeactivationRevokes`, `CircleNeedsCount`,
`OneChangeKeepsAnAdmin`. The invariant has a part for the locks (`LocksHold`): no account
row is held against updates by two transactions, and a change that was allowed has
every row it counted still locked, with another active administrator among them when
its target was one. So whichever change removes the last administrator did not count
its target - the one hole, which find_last_admin_gone shows to be real.
`OneChangeKeepsAnAdmin` is the other side of it: in a behaviour in which changes of
accounts do not overlap (`OneChange`; sign-ins, changes of one's own password and
recoveries may run beside them) there is an active administrator at every moment.
`SlotsHold` says that a session to come belongs to one sign-in, and `MarksHold` that a
sign-in beside a revocation is marked late; from it follow `NewPasswordIsNewStart` and
`DeactivationRevokes`, with the exceptions the properties name. `CircleNeedsCount` is what
is known of deadlocks for any number of requests: in every circle of waiting
transactions one holds rows of the FOR UPDATE; passwords, sign-ins and sign-outs alone
never need the deadlock detector.

**SignInDelay_proofs.** `TypeCorrect` (a row is locked exactly by the transaction
that has deleted it), `FreshCountsKept`, `FailuresCount`, `WaitsAreBounded`,
`OnlyFailuresLengthen`, `WaitsRunDown`, `DeadlocksComeFromSweeps`. The invariant
`DeletedWasExpired` says that a deleted row had expired for everyone, or was taken
for expired by an attempt under its own username; a locked row does not change, so
that remains true until the transaction ends. Three theorems are the safety half of
NeverLocked: a wait never exceeds the cap, only a failure under the same username
lengthens it, and with every unit of time it gets shorter. The last has the
hypothesis `MaxWait <= Expire`, as 60 seconds are against 15 minutes: with a shorter
expiry a wait would end at once when the row expires.
`DeadlocksComeFromSweeps`: an attempt outside the sweep holds at most the row of its
own username, so every circle of waiting attempts goes through a sweep.

**Only model-checked.** What is left is everything under fairness, because the prover
has no ENABLED: PromiseKeptInTime, FilesConverge, TransactionsEnd, NeverLocked. Of each
the facts about single steps and states it rests on are proved, as said above; that
the steps are taken is TLC's part. Every other property of a passing run is the
statement of a theorem, and the two conditional theorems, `OnlyLateWritersLeak` and
`OneChangeKeepsAnAdmin`, say of two of the three counterexamples of section 3 how far
they reach.

## 5. Not modelled, and the plan

Next, in the order of importance:

1. An abstract specification of the sessions of an account (signed in, revoked,
   expired) that AccountAccess implements up to the exceptions listed above.
2. **Attachment description** in AttachmentLifecycle, with the lost update of a
   PATCH that has none and the undo of a description. It is left out so far because
   the interleavings it adds multiply the states of that module and no text of the
   repository promises more than that the last writer wins.
3. The audit rows of accounts, which are written in the transaction of the change.

Left out for good: text extraction tools (external; their result is a choice),
canonical forms (a text normalisation; names are compared in canonical form
throughout), search and list queries (read-only; what search may find is a state
property), configuration, routing, TLS, generated types and the web client, of
which the server relies only on the version a form keeps.
