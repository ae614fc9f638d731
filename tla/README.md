# portlog: verification project

portlog is the back office of a port agency: staff register the call of a ship
(a *nomination*), fill in and mail the documents that go with it, order services
from providers, and report to the ship's owner. This directory holds TLA+ models
of the parts of it in which several things can meet: calls in the backend
(`backend/src`, NestJS, Prisma/PostgreSQL, MinIO, SMTP), answers and keystrokes in
the browser (`frontend/src`, React, React Query), and the seed script that may run
beside both (`backend/prisma/seed.ts`). With them are the TLC configurations that
check the models, and proofs that TLAPS checks for any number of calls, about all of
them.

## 1. The system

### Backend

| Component | State it keeps | Operations | Where it is hard |
| --- | --- | --- | --- |
| Email delivery (`email/`) | `EmailSendAttempt`: one row per Idempotency-Key (state, hash of user, URL and body, saved response); per request the `AttemptContext` (started, accepted) | `EmailDeliveryService.run`, `beforeSend`, `accepted`; `EmailService.send` | two requests with one key; retry after a failure; the process dying with a row PREPARING or SENDING; a database write whose answer is lost; SMTP timing out and accepting later |
| SH documents (`sh-documents/`) | `SHDocument` (status, data, minioKey, updatedAt), `ShDocumentDispatch`, the PDF in MinIO | create, update, finalize, generatePdf, delete, send | every operation reads, tests, awaits and writes by id; only the claim of a send repeats its test |
| Service requests (`service-requests/`) | `ServiceRequest` (status, terms, approval, minioKey, receipt, updatedAt), its letters, `ServiceRequestDispatch`, PDFs | create, update, remove, transition, addDocuments, removeDocument, approve, recordReceipt, generateOrderPdf, sendOrder | optimistic writes on (status, updatedAt) beside writes by id; a send that reads the row three times and the letters three times |
| Attachments (`attachments/`) | `EmailAttachment` rows, staged or bound to a request or a dispatch; their objects | upload, delete, resolveForSend, archive, attach, remove, nightly cleanup | the cleanup against a send; a row filed by two requests; objects orphaned by a cascade |
| Nominations (`nominations/`) | `Nomination` (stored status NOMINATED or CANCELLED, the rest derived from the lay days and the mail log), parties, SOF timesheet, `EmailDispatch` | create, update, transition, list, sendEmail, resendMessage, timesheet | a status derived in one place and filtered for in SQL in another; two cancellations; writes by id after a stale test |
| PEDR (`pedr/`) | stage and its history | create, transition | two transitions from one stage, two PEDRs of one nomination |
| PEDR dispatches (`dispatch/`) | `EmailDispatch`, numbers counted from earlier rows | sendSubDocument | numbers counted long before the row exists |
| ETA alert (`dispatch/eta-alert.cron.ts`) | `etaStale` flag | hourly check | reads the log another component writes |
| Branch documents (`branch-documents/`) | templates with their file, documents generated from them with their PDF | create, update, finalize, delete, generatePdf; createTemplate, deleteTemplate | old PDF deleted before the new one is stored; status tested and written by id; template deleted while a document is created |
| Authentication (`auth/`) | `RefreshToken` rows, the refresh cookie | login, refresh with rotation, logout, silent refresh | revoke and create are two statements and an answer, any of which may be lost; a token used twice revokes all |
| Master data (`master-data/`) | fifteen kinds of records, some with lists of members | create, update, remove | lists replaced by deleting and creating, only two services lock |
| Seed (`prisma/seed.ts`) | every table | 34 blocks that look for a row and create it | no transaction; run again over data users changed; numbers that a sequence also draws |
| Users, fleet, public API, Datalastic proxy, storage, templates and PDF, schemas | rows, a cache, or nothing | CRUD, projections, layout | one call at a time, nothing between them |

### Browser

| Component | State it keeps | Operations | Where it is hard |
| --- | --- | --- | --- |
| Sending (`lib/api/sendRequest.ts`, `client.ts`) | an Idempotency-Key per path and body in `sessionStorage` | `apiSend` over `apiRequest` | lost and unreadable answers, reloads, an expired token between two posts, another user in the same tab |
| Session (`lib/auth`, `client.ts`, `main.tsx`) | a token per tab, in memory and for five minutes in `localStorage`; the cookie jar of the browser | refresh, retry of a refused call, login, logout | several refused calls and two tabs around one cookie |
| Master-data screens (`MasterDetailShell.tsx`, `routes/_protected/master-data`) | the list, the record selected, the form; the pickers of other screens that read the same records (`EntityPicker.tsx`) | select, new, edit, accept, cancel, delete, refetch | saves and loads that are answered after another record was selected; lists and pickers cached for 30 s that a save may not know of |
| Page of a nomination (`nominations/$id.tsx`, `EmailComposeDrawer.tsx`, panels) | the cached nomination, three editors, the draft of a letter with its uploads | edit, ETA, cargo update, compose, type, upload, send | saves of the editors overlap, two of them of the same parcels; a letter composed before a save; answers lost, or in any order |
| Form of a nomination (`nominations/new.tsx`, `NominationForm.tsx`) | the form, its draft in `localStorage` | select, type, generate, fetch from vessel, create, leave, continue | what a selection loads arrives after the next selection |
| Registering a ship (`NewShipParticularModal.tsx`) | the dialog | lookups in the directory and the registry, create | two lookups under way while the number is typed on, each answering with the parts it has |
| Statement of facts (`SofTimesheetModal.tsx` and its dialogs) | the cached sheet, the form, an open section | type, save, open a section, compose a mail | saves of the form, of a section and of colleagues overlap |
| Page of a service request (`service-requests/$id.tsx`) | the cached request, the stepper, reconciliation, receipt, the send drawer | save, approve, add documents, send, transition, file the receipt | some answers refetch, others only replace what is cached |
| Form of a service request (`service-requests/new.tsx`, `ServiceRequestStepper.tsx`) | the step and the wish | next, prior, choose, submit | vessel and nomination follow each other; Enter in the voucher field submits whatever is under way |
| Vessel pages, users, fleet, SH and branch-document drawers, messages panel | one record or a list | view, edit | follow the patterns of the screens above |

The backend's components interact by calls inside one Node process. Every send
endpoint (nominations, SH documents, service requests, PEDR dispatches) is wrapped by
`EmailSendInterceptor` in `EmailDeliveryService.run`, and `EmailService.send`
reports back to it through AsyncLocalStorage. Sends read and archive attachments
through `AttachmentsService`. All of them share PostgreSQL and MinIO. Requests
interleave at every `await`, and nothing but the `where` clause of a write keeps
them apart: there are no locks (but in clients and contacts) and few transactions.
The browser reaches them by HTTP, keeps answers in the cache of React Query, and
refetches when a hook invalidates them; nothing orders two answers.

What makes each part correct:

* **Email delivery**: a key invokes SMTP at most once; a key that may run again
  has never invoked it; success is told only of an accepted message; a key means
  one content; a request never hangs on another one's attempt.
* **Sending from the browser**: of the mails of one content at most one is not
  told of; a retry of something unresolved carries the key of the first attempt.
* **SH documents**: a mail leaves only on a claim; what was mailed is the PDF
  the document names; a mailed document stays SENT; the dispatch log says what was mailed.
* **Service requests**: the order that was mailed shows the terms of the row;
  terms are frozen after DRAFT; an approval is of the present terms; a cancelled
  request is not issued; PDFs the log names are kept; a receipt is final; the
  letter goes with every order.
* **Attachments**: a file a row names exists; an upload in use is not cleaned up;
  one upload belongs to one owner.
* **Nominations**: a status is earned by a real mail that was accepted; the list
  filtered by a status agrees with the status shown; CANCELLED is terminal.
* **PEDR**: stages move forward one at a time, and the history has no gap.
* **PEDR dispatches**: two documents share a number only if their calls overlap.
* **ETA alert**: it is off only when the client was informed, and on only when not.
* **Branch documents**: what a row names is stored; a finalized document stands.
* **Session**: a browser's own calls never look like the theft of a token; the
  cookie stays good; every call ends.
* **Seed**: after a run its rows are there, once, and no edit of a user is undone;
  the service can go on numbering.
* **Screens, pages and forms**: a save goes to the record it was typed for, once;
  what is shown does not fall behind what the user was told; what is filled in fits
  what is selected; a letter says what goes with it; typing survives what arrives.

## 2. Modules

| Module | What it is |
| --- | --- |
| `AtMostOnceMail` | the promise of a send endpoint to its clients, with nothing said of how: a key, its one message, what clients are told |
| `EmailDelivery` | `email-delivery.service.ts`, the interceptor and `EmailService.send`, one action per await; implements `AtMostOnceMail` (`Promise`) |
| `EmailDeliveryProofs` | the theorems about `EmailDelivery`, for any requests, keys and contents |
| `SendClient` | `apiSend` in one tab, composed with `EmailDelivery` by INSTANCE: a call becomes a request there |
| `ShDocument`, `ShDocumentProofs` | `sh-documents.service.ts`, composed with `EmailDelivery` by INSTANCE: the steps of `send` are the `work` of a request there; and the theorems |
| `ServiceRequest`, `ServiceRequestProofs` | `service-requests.service.ts` with the calls it makes of `attachments.service.ts`; and the theorems |
| `Attachments` | `attachments.service.ts`, the cleanup cron, `fileAtTerminal`, and a send and a resend as `nominations.service.ts` makes them |
| `Dispatch` | the mail log of one PEDR: `sendSubDocument` with its numbers, `sendEmail`, `resendMessage` |
| `Nomination` | one nomination and its PEDR on top of that log: the derived status and its SQL filters, cancel, update, open and advance the PEDR |
| `PortCall` | the whole port call: `Nomination` composed with the hourly ETA check |
| `PortCallProofs` | the theorems about `PortCall`, for any finite set of calls, and about `Seed`: no two of their names are alike, so that it extends both |
| `BranchDocuments`, `BranchDocumentsProofs` | `branch-documents.service.ts`: documents of one template, the template, and the objects in MinIO; and the theorems |
| `Seed` | `prisma/seed.ts`: its blocks as data, run statement by statement beside the application |
| `Session` | `auth.service.ts`, `auth.controller.ts` and what the tabs of a browser make of them |
| `MasterData` | the services of `master-data/`: create, update and remove of one kind of record |
| `Lists` | one query of the tab as React Query caches it: the list of a screen, or a picker of another (`EntityPicker.tsx`) |
| `Screens` | one tab with `MasterDetailShell.tsx` and the hooks, on top of `MasterData` and `Lists` |
| `BrowserProofs` | the theorems about `Session` and about `Screens` with `MasterData` and `Lists`: no two of their names are alike, so that it extends both |
| `Sof` | the statement of facts: the row of the backend and the dialog of one tab |
| `NewRequest`, `RequestPage` | a service request being written, and the page of one |
| `Papers` | the papers of a call in a tab: `Sof`, or `NewRequest` followed by `RequestPage` |
| `ClientProofs` | the theorems about `SendClient` and about `Papers` with its three modules: no two of their names are alike, so that it extends both |
| `NominationPage`, `NewNomination`, `NewShip` | the page of a nomination with one letter of it, the form of a new one, and the dialog that registers a ship |
| `Desk` | the desk of an operator: one of the three, as no state is shared between them |
| `DeskProofs` | the theorems about `Desk` with its three modules and about `Attachments`: no two of their names are alike, so that it extends both |
| `MC*` | symmetry sets, initial states and small functions for TLC |

How state and actions correspond to the code:
* **EmailDelivery.** `attempt[k]` is the row of key `k` ("ABSENT" is no row),
  `started` and `accepted` are the `AttemptContext`, `pc` is the await the request
  stands at, `smtp` is what the mail server does with the message, whoever
  listens. `CreateAttempt`, `LookUpAttempt` and `ReclaimAttempt` are `run` up to
  the handler, `BeforeSend`, `ClaimSending`, `CallSmtp`, `SmtpResolves` and
  `SmtpThrows` are `EmailService.send`, `WorkReturns` and `WorkThrows` are the
  handler's end, `RecordSent` and `RecordFailure` the rest of `run`. A database
  statement is applied, refused, or applied with its answer lost. The handler is
  arbitrary: it may return, throw, send, send again, or swallow a failed send.
* **ShDocument.** `doc` is the row, `objects` the PDFs in MinIO, named by the
  call that rendered them, `dispatch` the log row of each send, `now` the clock in
  milliseconds that `updatedAt` is read from (two writes within a millisecond
  leave it equal). An editor's call is read (`ReadForEdit`), then its object
  steps, then its one write (`WriteDocument`), which tests nothing but that the
  row exists. A send goes through `ReadForSend` to `LeaveHandler`, inside the
  delivery attempt of its key. History: `claims`, `mailed` (the PDF handed to SMTP),
  `reopened` (a stale finalize overwrote SENT) and `outrun` (a stale generatePdf
  named another PDF in a SENT row).
* **ServiceRequest.** `row.terms` is whose save the present terms are, so that
  two saves always differ; `row.approval` is the terms that were approved;
  `row.version` stands for `updatedAt`. `Unchanged` is the where clause
  `{ id, status, updatedAt }` of the conditional writes. `letters` are the
  documents filed on the request; `mine` and `copies` are the two times a send
  reads them, for the mail and for the archive. `mail[c]` is what SMTP was handed.
* **Attachments.** A name is an upload, or the copy `<<s, f>>` of upload `f` under
  the dispatch of send `s`; `row` is the table, `objects` is MinIO, and being
  linked to a dispatch is being such a copy. A call reads a row and tests it
  (`Read`), then removes the object and the row, or files the row, or records it
  as a receipt; `PurgeRow` is the cleanup's conditional deletion. A send resolves
  its files (`StartSend`, `StartResend`), copies them one by one (`Archive`), hands
  the mail over and stamps the dispatch. Two awaits are merged where the later
  one can only see less than the earlier: the rows and the objects of
  `resolveForSend` (objects never come back), and the object and the row of a copy
  (nobody looks for either before the mail has left).
* **Dispatch, Nomination, PortCall.** Each extends the one before, as each decides
  by what the one before records. `log[c]` is the `EmailDispatch` row of call `c`,
  with the subject prefix of a live-system test as `trial`; a send prepares
  (`StartSubDocument`, `StartEmail`, `StartResend`: the test, the count, the PDF),
  creates its row, mails, and stamps `sentAt`. `row` is the nomination, `stage` and
  `stageLog` the PEDR and its history, `seen[c]` what a call has read before it
  writes by id. `Presented` is `present` with `deriveNominationStatus`;
  `StatusWhere` is the clause of the same name, evaluated as PostgreSQL does, with
  "unknown" where a date is NULL. `due[c]` is what the ETA check has read and
  `metadata` what it has written. History: `counted` (the rows a number counts),
  `after` (the cancellations on record when a cancellation read), `informed`
  (whether a fresh ETA had really been sent).
* **SendClient.** `storage[b]` is the entry of `sessionStorage` for path and body
  `b`, `call[c]` a call of `apiSend` with its key and the user of its token. `Begin`
  takes or draws the key, `Admitted` makes the call a request of `EmailDelivery`
  (whose variables it shares), `Unauthorized` and `Refreshed` are the one repetition
  of `apiRequest`, `FetchFails`, `ToldFailure`, `ReceiptInvalid`, `ToldSuccess` and
  `Resolved` the ends; only the last removes the key. `Reload` ends the calls and
  keeps the storage.
* **BranchDocuments.** `rows`, `template`, `source` and `pdfs` are the two tables and
  their objects; data and PDFs are known by the calls that wrote them. A call reads
  (`ReadDocument`, `ReadTemplate`), deletes the old object (`DropPdf`, `DropHbs`),
  uploads and writes (`WriteRow`, `NameHbs`); `Fails` is the end of a call at any of
  these places. `before` and `final` are history.
* **Seed.** Each block of the script is a record that says what its row is looked for
  by (an id, a name or code users choose, a number), whether that is unique, whether
  one statement does it, what is written again, and whether users may delete the
  row. A run looks, inserts or upserts, patches and, for nominations, sets the
  sequence; `Refusal` is what a unique index does. `AppInserts`, `Draw` are the
  application's two statements.
* **Session.** `db` is the refresh tokens, `jar` the cookie, `req[r]` a refresh, by the
  call that began it or the tab it is silent for: `ReadToken`, `RevokeAll`,
  `RevokeOld` and `CreateNew` are the statements of the service. `Denied` is the 401
  in `apiRequest` with `refreshInFlight`, `Silent` is `attemptSilentRefresh`. `cause`
  is history: what makes the reuse of a token a browser's own doing.
* **MasterData, Screens.** `service` and `screen` tell the fifteen kinds apart:
  whether a unique index guards the text, whether members are replaced under a lock,
  whether a new form is cleared, what is selected after a save, and what the hooks do
  to the pickers of other screens (`FlagsHooks`, ...). In the tab, `selected`, `form`,
  `defaults`, `loads` and `loadError` are the shell's state.
* **Lists.** One query of the tab that reads the records of the kind: the list of
  its own screen or a picker of another (`view`). `cache` is what it has, `stale` what
  `isStale` or an invalidation say, `fetch` the fetch under way and whether it has read.
  `Told` is the answer of a save or a delete with the hook's invalidation, `Move` the
  router between the two screens, `Ages` the end of `staleTime`. `missed` is history.
* **Sof.** `doc` is the row, `cache` the query's data, `form` the rows in the dialog,
  `editor` the section dialog, `saving` the save under way with what it carries,
  `lost` one the tab was told has failed and that is applied yet (`ApplyLost`),
  `drawer` the mail. `FormAfter` and `EditorAfter` are the effects that reset them.
  `mine`, `typed`, `told` and `alone` are history.
* **NewRequest, RequestPage.** `step` and `wish` are the stepper, `filing` the creation the
  page waits for and `behind` those it has let go of. `ClickCreate` is the button,
  `EnterVoucher` the implicit submission from the step Documents, which waits for
  nothing; both are `onSubmit` (`SubmitWish`). On the page, a row is
  named by its place in `log`; `shows` is the row in the query and `load` its fetch;
  `asked` are the user's calls; `LoadAfter` tells the hooks that invalidate from
  those that only put the answer in the cache.
* **NominationPage.** `stored` is the nomination, `cache`, `form` and `cargo` are what the
  tab has of it, `saving[e]` the save under way of each editor, which waits for its own
  and no other, `loose` one whose answer was lost and that may be applied yet;
  `composed` and `composing` are the query of the draft, `drawer` the letter: its To and CC,
  with what the form counts as dirty (a CC typed by hand is not), its body, its file,
  and whether it was filled. `kept` is history: what the user was last told is saved of
  each field.
  A spinner that takes the drawer away and brings it back is `TearDown`.
* **NewNomination.** A value the form filled in is named by what it was taken from,
  one the user typed is `Hand`, so that a value of another ship is seen. `ShipLoads`
  and `StaffLoads` are the effects of `NominationForm`, `SelectPort`, `SelectBranch` its
  handlers; `PierArrives` and `PortArrives` are `handlePierCreated` and
  `handlePortCreated`, for the port and the branch the dialog was opened with; `draft`
  is the entry in `localStorage`.
* **NewShip.** `lookups[l]` is a call of `handleImoLookup` with the number and version
  it was made at; `Directory` and `Lands` are its two answers. The particulars are parts,
  each named by the number it was looked up for; `Lands` fills those the answer has and
  leaves the others as they are. `moved` and `crossed` are history.
* **Papers, Desk.** `route` is chosen in the initial state: which of the parts
  a behaviour follows.

## 3. Runs

| Run | Instance | Distinct states | Shows |
| --- | --- | --- | --- |
| `email_delivery` | 3 requests, 1 key, 2 contents, at most 2 sends per request | 53 thousand | the safety properties, the inductive invariant, the refinement of `AtMostOnceMail`, and that every request ends |
| `send_client` | 3 calls, 2 keys, 2 bodies, 2 users | 909 thousand | of the mails of one body at most one is not told of; a retry reuses the key; a conflict needs another user |
| `sh_document` | 2 editing calls, 2 sends, 2 keys, 2 milliseconds | 1.4 million | one mail per claim, the PDF that was mailed is the one named, the log's honesty |
| `service_request` | 3 calls of any kind | 1.7 million | the row, the approval, the mail and the archive agree |
| `attachments` | 2 uploads, 2 requests, 2 calls, 2 sends | 1.7 million | what was mailed stays archived, a resend is exact, the cleanup spares what is filed, listed files can be read |
| `port_call` | 3 calls of any kind, 4 document types, 2 points in time | 1.0 million | statuses are earned, filters are honest, cancellations overlap, stages and numbers are in order, a quiet alert is right |
| `branch_documents` | 2 documents, 3 calls | 750 thousand | what is named is stored, a stray object has a cause, FINALIZED stands |
| `seed` | 2 runs, 2 inserts of users, 3 rows, 3 keys, any block | 1.4 million | rows are there once, edits survive, numbers are free |
| `session` | 2 tabs, 2 calls, 2 tokens | 495 thousand | a reuse has a cause, the cookie stays live, every call ends |
| `screens` | any of the 15 kinds, 2 ids, 2 calls, 1 load at a time; its list, or a picker of another screen | 604 thousand | a save goes to its record, once; members are of one save where they are locked; list and picker catch up |
| `papers` | 1 row, 2 sections, 2 edits, 2 writes; 2 calls at once, 3 versions; 2 vessels, 3 nominations, 2 requests of one form | 3.2 million | own saves stand and show, one form makes one request, letters fit, typing survives |
| `desk` | 1 edit, 2 writes; 2 ships, branches, ports, creations, 3 entries; 2 numbers, 2 parts, 2 flags, lookups, 3 changes | 1.3 million | own saves stand, letters are fresh and complete, what is filled in fits, one creation per draft |

Some of the names in the configurations are conjunctions, so that related statements
are checked in one run of each:

| Name | Module | Conjuncts |
| --- | --- | --- |
| `SendingIsSafe` | `EmailDelivery` | the inductive `IInv`, `AtMostOneInvocation`, `OneOwner`, `FailedMeansUnsent`, `SuccessMeansAccepted`, `ReplaysOwnContent` |
| `SendsAreTold` | `SendClient` | `TypeOK`, `MailsAreTold` |
| `MailingIsClaimed` | `ShDocument` | `TypeOK`, `OneMailPerClaim`, `MailedStaysSent` (`MailedIsNamed` stands by itself) |
| `TermsAreAgreed`, `DecisionsStand` | `ServiceRequest` | `TypeOK`, `MailShowsTerms`, `ApprovalIsCurrent`; `TermsFrozen`, `CancelledIsNotIssued`, `ReceiptIsFinal` |
| `FilesAreKept` | `Attachments` | the inductive `IInv`, `MailIsArchived`, `ResendIsExact`, `ListedIsReadable` |
| `RecordIsTrue` | `PortCall` | `TypeOK`, `StatusIsEarned`, `CancellationsOverlap`, `NumbersFollow` |
| `NamedIsStored` | `BranchDocuments` | `TypeOK`, `PdfIsThere`, `TemplateIsThere` |
| `RecordIsSeeded`, `NothingIsRefused` | `Seed` | `SeedTypeOK`, `SeededOrTaken`, `OneRow`; `RefusedHasCause`, `NumbersAreFree` |
| `SessionsLast` | `Session` | `SessionTypeOK`, `ReuseHasCause` |
| `SavesAreMeant` | `Screens` | `TypeOK`, `RightRecord`, `OneRecordPerDraft` |
| `SavesStand`, `MailsFit`, `TypingStands` | `Papers` | `SheetKeepsSaves` (`SofTypeOK`, `OwnSaveSurvives`), `RequestTypeOK`, `WishTypeOK`, `PageKeepsUp`, `WishFits`, `RequestedOnce`; `MailShowsSaved`, `LetterFitsOrder`; `TypedRowsSurvive`, `SheetStands` |
| `LetterIsSound`, `FormFits`, `InputStands` | `Desk` | the three modules' statements about letters, about what is filled in, and about what was typed |

Why the bounds are enough for what the runs claim:

* `Requests = 3`, `Keys = 1`: keys never meet (the table is indexed by key and no
  action reads two), so one key is the whole interaction; three requests are an
  attempt that fails and two retries that race for it. Two contents give a key
  reused for another payload. `MaxCalls = 2` lets a handler try to send twice. The
  theorems of section 5 remove these bounds for safety.
* `send_client`: three calls are one whose answer is lost, its retry, and one after
  the key was retired, which is why there are two keys. Two bodies tell the entries
  of the storage apart, two users are what a key can conflict by.
* `Editors`, `Sends`: an editing call acts once, so two of them are an operation
  that goes stale and one that makes it stale; two sends are the race for the
  claim. `Rendered = e0` starts from a draft with a PDF, and generatePdf makes
  others. `MaxTime = 1` is the case that a write does, and does not, change
  `updatedAt`. `MaxCalls = 1` because this handler sends once. A single content is
  enough: what a reused key with other content does is settled in
  `email_delivery`.
* `service_request`: the worst orders found need a call that goes stale and two that
  change things around it (take the letter off, put another on; save and
  approve). `Earlier = a0` names the terms, the letter and the PDF from before.
  `Init` starts from a draft, a previewed draft or a sent request, so the three
  calls are not spent on getting there.
* Attachments: two uploads let a copying fail half way, two requests compete for
  an upload, two calls are one that goes stale and one that files the upload, and
  two sends are an original and its resend, or two mails of one upload. The
  theorems remove the bounds.
* Port call: three calls are what `NumbersFollow` (three documents of one kind)
  needs; a cancellation race needs two, an alert a send, a check, and a send that
  failed. `MaxTime = 1` puts a lay day before or after now, and with `EtaHours = 0`
  makes an ETA fresh or stale. In the beginning the
  lay days are one day or undecided, and an update makes them differ. The four types are the two that move the status, the
  one that is numbered by all rows, and the ETA; SOF is also the one numbered by sent
  rows. The interim statement of facts behaves as a numbered type off the lifecycle
  and is left out of the instance. The theorems remove the bounds.
* Branch documents: two calls overlap on what a third has left; the second document
  is what holds a template that is being deleted.
* Seed: two runs are a run and its repetition, or two at once; two users' inserts draw
  numbers around one `setval`; three rows are the seed's, its renamed predecessor and a
  user's. The theorems remove the bounds.
* Session: a tab needs two calls to share a refresh, and two tabs to meet in the
  cookie; tokens beyond the second repeat the first rotation.
* Screens: in the beginning both records are there, or none. Two saves of one record,
  or of one draft, and two records to select between. Members of a list are named by the
  calls that add them. Two calls are also two changes a list is told of, the second
  of them while the fetch the first has started is under way.
* Papers: two saves that overlap, with two edits typed around them, is the longest
  order an effect depends on;
  on the page of a request, one call that is slow and one that overtakes it. `MostMade`
  and `MostBehind` in `NewRequest` let a form make a second request, and one creation
  be on its way that the page no longer waits for.
* Desk: two of everything that is selected, so that a value of the one can be found
  beside the other; three entries select, change and change back, and three changes are
  a number, another one, and a part typed by hand. Two writes are a save of the form and
  one of the cargo that overlap; one loose save is one that is applied too late. The run
  follows the members of a group and a file into a letter one after the other, not at
  once (`OneByOne` in `MCDesk`, a CONSTRAINT): they meet in no field of the drawer. The theorems remove
  the bounds.

The theorems of section 5 remove the bounds also for `send_client`, `sh_document`,
`service_request`, `branch_documents`, `screens`, `papers`, `desk` and, for safety, `session`.

Symmetry is used only where the properties are invariants and action properties.
`CHECK_DEADLOCK FALSE` in every configuration: each call acts once, or what is typed
and written is bounded, so the system does stop when all have.

### What the code does not keep

Seven statements that one would expect, some of them written in the repository, are
not true of the code. The modules state them beside those that hold; add the name to
the configuration and TLC shows the order of steps.

* `MailedOnce` (`ShDocument`, an invariant): `finalize` tests the status it has read (line 100) and writes
  FINALIZED by id (line 106). Read while the document is DRAFT, overtaken by
  another finalize and a send, it takes SENT back to FINALIZED, and a send with
  a fresh key mails the document a second time. `OneMailPerClaim` and
  `MailedStaysSent` in `sh_document` are stated so that they hold of everything
  but this (`reopened` counts it), and so show that it is the only way.
* `LetterRidesAlong` (`ServiceRequest`): `sendOrder` counts the letters, reads the bytes to mail, and lets
  `generateOrderPdf` count again; the row's version is taken only there. A
  removeDocument before the read and an addDocuments after it leave both counts
  positive and the mail without a letter.
* `Lifecycle` (`ServiceRequest`): `transition` writes by id, so a completion that read SENT takes
  a request out of CANCELLED; and one at a time a COMPLETED request can be
  cancelled, or sent, which the documented lifecycle does not draw.
* `FiledIsKept` (`Attachments`): `delete` reads a staged row, removes its object (line 124) and
  then its row by id (line 128). An upload filed in between is destroyed. If it
  became a receipt, the foreign key keeps the row, and the receipt names an object
  that is gone. The cleanup, which repeats its test in the statement, does not
  have the fault (`CleanupSparesFiled`).
* `EveryStatusListed` (`PortCall`): a nomination with an arrival mail sent and a lay day that is
  NULL is presented NOMINATED, but the clause for NOMINATED negates a comparison
  with NULL, which is unknown and not true: no filter lists it. `FiltersAreHonest`
  shows that the filters err in no other direction.
* `StageForwardOnly` (`PortCall`): `transition` tests the stage it has read and writes by id, so a
  transition that read PRE_ARRIVAL takes the PEDR back to ATTENDING after two
  others have moved it to DISPATCH. The history stays gapless (`StagesInOrder`),
  because it records the stage that was read.
* `AlarmIsDue` (`PortCall`): the check orders by `sentAt` descending, and PostgreSQL puts NULL
  first: one ETA row that was never sent hides every one that was.
  `QuietIsInformed` shows that the alert errs on this side only.

## 4. Fairness

`email_delivery` checks liveness (`EveryRequestEnds`) under weak fairness of
`Step(r)`: the steps the runtime takes for a request that has arrived. That is
what the code gives: every await of `run` and of `EmailService.send` is a Prisma
statement, which answers or throws, or `sendMail`, which resolves, rejects or
times out (`SmtpThrows` is always possible while `SmtpResolves` waits for the
server). Nothing is assumed of clients (`Arrive`), of the mail server
(`SmtpDecides`) or against crashes. A handler may try to send `MaxCalls` times, as
`BeforeSend` lets it only once, so it cannot spin.

`session` checks `EveryCallEnds` under weak fairness of `Backend(r)` and `Settles(r)`
for each refresh, and of `Denied(c)` or `Answered(c)` for each call: a statement of the
backend answers or throws, and a `fetch` of the browser is answered or rejected.
Nothing is assumed of the user, of page loads, or of what an answer says.

The other modules state no fairness, so any call may also stop for good at any
await. That is why they need no separate action for the death of a single call.

## 5. Proofs

`EmailDeliveryProofs` proves, from `NoneAssumption` and `MaxCallsAssumption` alone,
for any sets of requests, keys and contents, finite or not:

* `TypeCorrect`, `AtMostOnce`, `MutualExclusion`, `RetryIsSafe`,
  `SuccessIsHonest`, `ReplayIsOwn`: the invariants of the run;
* `SendingSafe`: all of them together, as the run checks them;
* `AbandonedIsFrozen`: the action property;
* `Refinement`: `EmailDelivery` implements `AtMostOnceMail`.

None of these is inductive. That SMTP is invoked once follows from the row being
SENDING when it is, and that from the owner alone being able to write the row; but
ownership rests on `started`, which outlives the call, and on the row having been
PREPARING when it was claimed, and what a *later* retry may do rests on the state
an *earlier* owner recorded. The inductive invariant `IInv` says it in five parts:

1. `BeforeWork`: until it owns the attempt, a request has done nothing;
2. `OwnerKnows`: what the owner knows of its row at each await;
3. `CallsCounted`: calls, acceptance, and the states a called key can be in
   (FAILED is not one, which is why a retry is safe);
4. `CallerOwns`: a key that has been sent belongs to the request that sent it;
5. `SentSettled`, `RepliesSettled`: the request a saved response names is over,
   and its outcome is known.

The proof has one step per action. The delicate cases are `RecordFailure` after a
`RecordSent` that was applied and not acknowledged (the row goes from SENT to
UNCERTAIN or FAILED while another request may already have replayed it) and
`ReclaimAttempt`, where OneOwner needs the state in the where clause. TLC checks
`IInv` as an invariant of `email_delivery`.

The refinement maps a key's message to "unsent", "open" or "accepted" and a reply
to success or failure; a refused message stays open, since no client is told
which of the two it was.

`DeskProofs` proves, of `Attachments` and from `NoneAssumption` and `NamesAssumption` (an upload is
not a copy), for any uploads, requests, calls and sends:

* `TypeCorrect`, `Archived`, `ExactResend`, `Readable`: the invariants of the run,
  and `FilesKept`, their conjunction as the run checks it;
* `CleanupSpares`: the action property.

`MailIsArchived` is not inductive by itself: that a copy stays needs that no call
works on a copy (`CallsOnUploads`), that it was made needs to know which files a
send has yet to copy (`CopiesOfSend`), and that the mail's files are those needs
`MailOfSend`. A resend is exact because the dispatch it repeats has been sent, so
its copies are complete and final (`ResendOfSent`, lemma `CopiesAreMailed`). Most of
the proof is two lemmas of separation: steps of uploads and calls touch no copy
and no send (`UploadsApart`), and a step of one send disturbs no other
(`Undisturbed`). `Readable` and `CleanupSpares` rest on a second invariant,
`RowGoesFirst`: the cleanup removes an object only after its row is gone.

`PortCallProofs` proves, from the three assumptions of `Dispatch`, `Nomination` and
`PortCall` (the calls are finitely many, as their numbers are cardinalities, and
`None` is no value), for any document types, clock and lay days:

* `TypeCorrect`, `StatusEarned`, `FiltersHonest`, `CancellationsOverlapping`,
  `StagesOrdered`, `NumbersFollowing`, `QuietInformed`: the invariants of the run;
* `RecordTrue`: the conjunction the run checks.

Its inductive invariant has one part per module. `LogInv`: a stamp is put only on
an accepted mail (`LogOfCall`), and what a document counts is closed under
counting and does not contain it (`CountsNest`), so that a counted document counts
a proper subset and has the lower number. `NominationInv`: a call that may still
cancel has read no cancellation (`CancelsOnce`), and the stage, and any stage a
call has read, is in the history (`StagesReached`), without which a stale
transition could leave a gap. `AlertInv`: a quiet verdict, written or still to be
written, points at a stamped ETA. The parts meet in one lemma per module that
says what the others may rely on: rows are added and stamped and not changed
otherwise (`LogGrows`).

Of `Seed` the module proves, from `SeedAssumption` (a run is called neither "users" nor
"nobody"), for any of its 34 blocks and any runs, inserts and bounds:

* `RecordStaysSeeded`: who is through with a block has left its record unless users took
  it away; a second one needs that, or runs that overlapped, and no key that is unique;
* `NothingRefused`: an undisturbed run is refused only where users hold the second value
  of the seed's record, and the numbers to be drawn are free unless a run has still
  to set the sequence or set it while an insert was under way;
* `EditsKept`: a step of the seed writes only the columns its block is meant to set.

That there is one record cannot be seen from the records: a run that has looked in vain
creates one whatever has come since. `LookedFirst` says that who made one meanwhile
overlaps with it, and keeps that because the runs a new one counts as over are over
(`BeforeOver`), so that none of them can still create. `SeenStill` is what a run may rely
on between its two statements while nobody disturbs it, which explains a refusal.
`DrawnOnce` bounds the numbers under way by the sequence; that `setval` does not take
it below a number in use is the lemma `SetValTops`, from the one on maxima (`MaxIs`).

`ServiceRequestProofs` proves, from `NamesAssumption` and `NoRowAssumption` (`None` is
neither a call, nor what was there before, nor a row), for any set of calls:

* `TermsAgreed`: a mailed order shows the terms of the row, an approval is of them;
* `DecisionsKept`: terms are frozen after DRAFT, a cancelled request is not issued, a
  receipt is final;
* `OrdersKept`: nobody but `remove` deletes a PDF that the log of orders names.

Its inductive invariant is about versions. `ReadIsPast`: who finds the version it has
read has read the row as it is, which makes every conditional write a test of the
whole row. `OrderShowsTerms` follows the terms from the rendered PDF to the bytes, the
mail and the row, and needs `DispatchOfSend` (only a request that has left DRAFT has a
dispatch, and it never comes back) to know that they no longer change. That a
replaced PDF belongs to no dispatch (`DroppedIsFree`) rests on who has put its name in
the row (`PdfsStamped`): a send goes on only while the row names its own.

`BranchDocumentsProofs` proves, from `NamesAssumption`, for any documents and calls:

* `NamedStored`: the PDF a row names, and the object of the template, are stored unless
  a call that replaces or deletes it has removed it and has not come to its end;
* `StraysExplained`: an object that no row names was left by a failed, an open or an
  overlapping call;
* `FinalKept`: a call that begins after a document was finalized changes neither what it
  says nor its status, and does not delete it.

The code tests and then writes by id, so what a call may do depends on when it
began: `before[c]` and `final[c]` record it, and the invariant says what is still true
of them. A key has the name of the call that wrote it, which has one document
(`KeysOfDocs`) and writes once, so a key a row has lost never comes back
(`PdfsOfCalls`); a call that began when another had ended has read what that one left
(`HoldersAreNew`, `FinalKnown`), and who removes an object has still to end
(`TemplateKnown`).

`BrowserProofs` proves, of `Session` and from `SessionAssumption` (a tab is no call), for
any tabs, calls and tokens:

* `SessionsKept`: without refreshes of two tabs that overlap, a failure, a loss or
  refusal of an answer, or a logout, no token is used twice, so no family is revoked;
* `CookieIsLive`: and the cookie names a revoked token only while the refresh that
  revoked it is under way.

The inductive invariant (`Calm`) holds as long as there was no such cause: at most one
refresh is open, since a tab that refreshes silently has no calls and the calls of a
tab share their refresh; it has the token of the cookie; and this is live until the
refresh revokes it. Neither of the last two can be kept without the other, nor
without the first.

Of `Screens` with `Lists` and the services of `MasterData` under it, `BrowserProofs` proves, from
`ServiceAssumption` and `LoadsAssumption`, for any records, calls, texts and loads, on
each of the fifteen screens:

* `SavesMeant`: who waits for loads and heeds their errors has the values of the
  selected record in the form, and a draft becomes one record unless the answer of a
  creation was lost or the screen selects nothing it has created;
* `MembersTogether`: the members of a record are those of one save, unless the service
  clears them before it locks the row and the saves overlapped;
* `ViewCatchesUp`: a list or picker that has settled shows every change the tab was told
  of, but for a fetch that had read before and was left to end, and for pickers the hooks
  do not know.

The statement about the form is not inductive: the answer that fills it must be of the
record that is selected, which is that only the selected record loads
(`LoadsSelected`). That about drafts needs where the tab is between asking and being
answered (`DraftOnce`): a draft that is being created has become no record, and one
that has is selected, so that accepting it again updates. Of a query (`ViewInv`): data of an
invalidated query that lack a change are marked stale, or are being fetched anew, or
`missed` says why not. Members rest on what an
update that has cleared them had to know (`ClearedKnown`): those written by calls that
had ended when it began, which are in the record as they have ended (`Past`).

`ShDocumentProofs` proves, from `ShAssumption` and `NoRowAssumption` (the editors are
finitely many, as reopenings are counted), for any editors, sends, keys and clock:

* `DeliveryKept`: the sends run inside the delivery service as `EmailDelivery` has it,
  every step of the document being one of its steps or none, so that all theorems of
  `EmailDeliveryProofs` hold around this handler;
* `MailingClaimed`: a mail leaves only on a claim of its own, the claims are at most one
  more than the times `finalize` took the document out of SENT, and as long as
  there was none, a mailed document is SENT;
* `LogHonest`: the dispatch log says what was mailed and accepted;
* `MailedNamed`: from the claim on, the document names the PDF that was mailed, unless a
  `finalize` or `generatePdf` that had read it before writes after it.

The inductive invariant contains that of the delivery service, which its lemma
`Inductive` keeps: `ShDocumentProofs` takes it through an INSTANCE and does not prove it
again. On top of it are the place in the handler for each place in the service
(`HandlerPlaced`), what a send has read, logged and mailed there (`Prepared`,
`Logged`), and `ClaimsCounted`, where a claim of a document that is not SENT must have
been paid for by a reopening. That `reopened` stays within its type needs
`WritesCounted`: an editor writes once. That a replayed success finds its row stamped
needs that saved responses are of sends that returned (`Returned`).

`ClientProofs` proves, of `SendClient` and from `ClientAssumption`, for any calls, keys, bodies and users:

* `DeliveryKept`: as above, for the browser's side;
* `MailsTold`: of one letter, mails outnumber the successes told by at most one;
* `UnresolvedKept`: the key of an unresolved call stays stored until a success;
* `ConflictExplained`: a conflict needs another user.

`MailsAreTold` cannot be proved key by key: an old call that is answered late removes
the key of a newer one, which then is told of by nobody. What holds is a count
(`KeysCounted`): each success removes one key at most, so the keys ever taken for a body
are no more than its successes and the one that is stored. The delivery service
lets a key mail once, and a request has the key of its call (`RequestOfCall`), so the
mails are no more than the keys.

Of `Papers`, `ClientProofs` proves, from `SofAssumption`, `PageAssumption` (the bounds are
numbers, and what stands for nothing is no number, sheet, save or draft) and
`VesselOfNomination`, for any rows, section dialogs, edits, writes, calls, vessels and
nominations:

* `SavesKept`: as long as no colleague saves, a section the user was told is saved is in
  the timesheet; the page of a request shows what its last answer told, unless an older
  answer landed after it; the nomination of a new request is of its vessel, and one form
  makes one request unless the answer to a creation was lost or Enter submitted the
  form again during one;
* `MailsFitting`: what a mail drawer shows is composed from the save that opened it or a
  later one; the letter beside an order tells of its terms unless they were changed
  after the row the page showed;
* `TypingKept`: neither an answer nor a fetch takes a row from the timesheet's form, but
  one typed while a save was under way, or with a write the tab was not told of; nor
  what was typed from the forms of a request while the page shows the same form.

`OwnSaveSurvives` compares the row with what the user was told, and every later save
repeats the sections of the cache; so nothing the tab has, or has under way, may be
behind what was told (`NotBehind`), which needs that a save drops the fetches begun
before it. A row may leave the form only with a sheet the tab was not told of, which
rests on the order of revisions (`RevisionsAgree`): one revision is one sheet, what is
fetched is not older than the cache, and the answer under way is newer than all the tab
was told. `FormKnown` says where the full rows can come from while a save is under
way. Of the page, `LoadAhead` is why it keeps up: a fetch that has read, and that no
answer has dropped, brings the row that was told or a later one. The letter is
`LettersShown` (it is written from the row that is shown) and `ChangesBetween`: two
rows with different terms have a change between them, by induction along the log, one
row at a time as it grows (`ChangesGrow`). What a step does to the number of calls
under way is `AskedLess` and `OrphanedIs`.

Of `Desk`, `DeskProofs` proves, from `LettersAssumption`, `BranchOfPort` and `ImosAssumption`
(the bounds are numbers, what stands for nothing is no number, save or draft, and a port
has a branch), for any texts, writes, ships, branches, ports, creations, numbers and
lookups:

* `OwnSavesKept`: what the user was last told is saved of a field stands, but where an
  answer was lost, or where the saves of form and cargo overlapped and one overwrites
  what it was mounted without, or they were answered in another order;
* `LettersSound`: no letter is drafted from before the last save told, and it waits for
  the files it shows;
* `FormsFit`: what a form or a dialog has filled in belongs to what is selected there, each
  part of a ship by itself, but for parts looked up for another number and a port or
  pier that came late;
* `WorkKept`, `CreatedOnly`: what was entered is in the draft, and one draft becomes one
  nomination, but for the causes the histories name;
* `InputKept`: the action property, with a CC that was typed alone as its exception.

The invariant `DeskInv` is the conjunction of one for each route, as each takes its own
steps (`DeskSteps`). Of the page: between the write and its answer the nomination is ahead
of what the user was told, and other editors write meanwhile, so the invariant says of each
field which write it shows and what the answers will tell (`KeptStands`); and a draft is fresh because every save the user is told of drops those
composed, and being composed, before it (`ComposedSince`). Of the form: the statement
about what is filled in is not inductive, since the effects compare with the ship and the branch
seen last (`SeenFits`), which outlive the data; and it holds also when the form is not
shown (`FilledAlways`). A second nomination needs two creations of one draft:
until one of the causes, the creation is the form's own (`FormKnows`), whose button waits
for it; after it, the draft is gone or the form is (`CreatedInv`). Of the dialog: a lookup
that still counts is for the number that is there (`LookupsKnown`), so that what it fills
in is of that number, and what it leaves is of it or was marked when the number changed.

Only model-checked: liveness (`EveryRequestEnds`, `EveryCallEnds`), which is out of the
prover's reach.
## 6. What the models show of the code

Beside the statements of section 3 that hold, and the seven that do not, the models
contain behaviours that a property has to except. They are the code's, each is
named in the comment of the property it is excepted from, and they are worth knowing:

* **Statement of facts.** What is typed while a save is under way is dropped when it
  is answered (`TypedRowsSurvive` excepts rows typed since). A section is saved without
  validation of the rows, so incomplete rows are dropped. A save from a stale tab
  overwrites a colleague's data. The letters dialog does not follow the data. A save that
  the tab was told has failed may be applied later and take back what was told since.
* **Session.** Two tabs that refresh at once can be taken for the reuse of a token, which
  revokes all sessions, although `auth.controller.ts:97-99` says that several tabs can;
  `auth.md` says the token is kept in memory only, and `accessTokenStore` keeps it in
  `localStorage` for five minutes.
* **Master data.** Two saves of an e-mail group or a port at once mix their members; only
  clients and contacts lock the row. A failed deletion of piers in `ports.tsx` leaves a
  deletion that no later save can complete. Only clients and contacts clear the
  form of a new record. The hooks of flags, agents, owners and others invalidate their
  own list only (`flags.ts:98-100`): a picker that is shown meanwhile, or again within the
  30 s of `EntityPicker.tsx:83`, offers what was deleted or lacks what was added. A
  fetch that had read before the change, and that the invalidation leaves to end because
  nothing is cached or nobody watches, has the same effect on a list; it clears the
  invalidation as well (`missed` in `Lists`).
* **Branch documents.** A PDF may be older than the data of the finalized document it
  belongs to, as `generatePdf` renders what it read.
* **Seed.** A seeded row that users renamed comes back as a second one; a vessel whose
  call sign was changed makes every run die there; a template's row is written although
  its upload was skipped. `pedr.prisma:123` names an index that no migration creates.
* **Page of a nomination.** The edit form saves all the fields it was mounted with, and so
  undoes the parcels of a cargo update made since, and the other way round. Each editor
  waits for its own save only (`$id.tsx:374`, `CargoUpdateModal.tsx:568`): the save of
  the form and one of the cargo overlap, and applied in one order and answered in
  the other, the user's last word is not what stands. A save whose answer was lost may
  still be applied, after a later one. CC and BCC typed by hand do not count as dirty
  (`EmailComposeDrawer.tsx:432`, `460`): typed alone, while the composition had failed,
  they are lost to the draft that comes when it is fetched again. A drawer
  opened while a save is under way keeps the draft from before. A failed composition
  that is fetched again takes the fields of the drawer away with an upload under way:
  Send stays disabled, or files go unlisted (`torn`).
* **New nomination.** A creation whose answer is lost and that is tried again makes a
  second nomination; so does a form changed while the page is leaving. A creation
  that is answered late clears the draft of another form. The dialogs for a
  pier or a port can be closed while pending; the pier of one port then lands under
  another, and the port of one branch under another (`NominationForm.tsx:550-562`).
* **New ship.** Changing the number after a lookup keeps the other ship's particulars, and
  a second lookup replaces only those it knows (`NewShipParticularModal.tsx:178-199`): a ship
  may be recorded with the call sign or the tonnage of another (`moved`, `crossed`). A
  creation answered after its dialog was closed and opened again resets the new one.
* **Service request.** On the step Documents, Enter in the voucher field submits the form,
  also while a creation is under way (`ServiceRequestStepper.tsx:209`): twice Enter is two
  requests (`again`). Unsaved edits of the stepper are not in the order that is sent, and
  are lost when it is. Approval, receipt and documents only replace what is cached:
  an older fetch under way overwrites them, and a late older answer stays shown. Approve
  and send act on the row of the server and not on the one that is shown. A draft saved
  by a user of another branch moves to that branch.

## 7. What is abstracted or left out

* Addresses, subjects, bodies, DTOs, the form data of an SH document and its
  validation, the Word copy of an order: no property is about them.
* In `ServiceRequest`, `version` assumes that two writes of a row differ in
  `updatedAt`. The column has millisecond precision, so two writes in one
  millisecond pass for none; `ShDocument`, whose claim compares the PDF as well,
  models that clock. In `BranchDocuments` the timestamps in PDF keys are taken to differ.
* In `ServiceRequest`, a send is not wrapped in a delivery attempt: keys and
  retries are the subject of `EmailDelivery`, and a call that throws before or
  after SMTP is in `SendMail`. `ShDocument` has the composition.
* `requestedByAuthority` is taken as set in `ServiceRequest!Ready`, so that an
  order needs a letter.
* In `Attachments`, any staged upload may be taken for older than 24 hours;
  dispatches are not deleted (that is in `ShDocument` and `ServiceRequest`);
  retiring a terminal file, which only hides it from lists, is left out, and so
  are sizes and MIME types, which no property is about.
* `markSent` of SH documents has no caller.
* In the port call, a call may be refused and do nothing, which stands for the
  tests of data the models do not have (the PDF a resend needs, the envelope of a
  send). The `error` column of the log is left out, as nothing decides by it; the
  files of a mail are in `Attachments`, its key in `EmailDelivery`. The roster of
  clients, the ETA record and `updateRequirements` are fields no modelled operation
  of that module reads. A PEDR that is opened on a nomination cancelled meanwhile,
  and an update of a cancelled nomination by a call that read it before, are
  behaviours of the model that no property forbids. PostgreSQL's three-valued logic
  and its order of NULLs are modelled from their use (external).
* The keys of PDFs of SH documents and of orders carry the millisecond of their
  rendering (`sh-documents.service.ts:139-140`, `service-requests.service.ts:661-662`); the
  models name a PDF by the call that rendered it, so two renderings in one millisecond,
  which would share a key, are left out.
* Objects in MinIO are a set; a deletion may fail and is ignored, as in the code.
* Multi-process deployment: the code runs as one Node process; the database
  statements are the atomic steps, so several processes would interleave alike,
  except that `Crash` stops all of them.
* Where a browser module looks at what the tab does with answers, the calls of the
  backend are atomic in it: their interleavings are the subject of the backend's
  modules. `SendClient` and `Screens` have the composition.
* React Query (version 5) is modelled from its use: an invalidation fetches the queries
  that are shown and marks the others; a fetch under way is given up for the new one only
  if something is cached; `setQueryData` leaves one under way; what is fetched replaces
  what is cached and clears the mark; a query that is no longer shown goes on with its
  fetch, without retries; mounting fetches what is stale, marked or missing, and so
  does a connection that comes back. Eviction from the cache, and refetching on focus but
  for `Reread`, `Refetch` and `LoadAgain`, are left out (`main.tsx` turns it off).
  That an older fetch may land after an approval, a receipt or a change of documents is
  in `RequestPage`, and excepted by `Counts`.
* Of a tab's fields, one stands for all that behave alike: one section that follows
  the data and one that does not, one staff address and one mobile, the
  particulars of a ship as two parts, of which a lookup may know one. Ports and berths of a service request, the sale
  and cost lines, the order of pickers and pages are left out.
* A behaviour of the page of a nomination has one letter: that of the cargo dialog, that
  of a notice, or none, and only where there is none does it follow a save whose answer
  was lost and that is applied later, one of the form or the cargo. The letters meet
  the editors only through what is saved, and each other not at all. The dialogs closed
  by Escape while they save, and the panel folded meanwhile, are not followed.
* A behaviour of a screen follows one query of the tab, or none (`view`). Where one is
  followed, the tab saves, deletes and moves between the screens; where none is, it selects
  and meets colleagues. What a query shows depends on no selection, and the form on no
  query. Names of records nested in other lists, and the lists that dialogs invalidate
  by themselves, are left out. A list tells of a fetch that failed, a picker does not.
* In the form of a nomination, a port that is created while no branch is selected is not
  followed. In the dialog of a ship, what a lookup does to the flag is checked only
  against the user's choice (`ChosenFlagStands`) and is no part of `ParticularsFit`. A
  call sign may be left out, as `ship-particular/index.ts:6` says ("nullable for new
  builds"), although the column is not nullable (`master-data.prisma:528`).
* In the seed, a behaviour watches one row of one block: the blocks meet only in the
  ids they look up, which is in whether a row is there.

* The lines that `map` in `PROJECT.json` gives a definition are those it stands for, its
  abstracted detail included: the rows of a block of the seed with the statement that
  writes them; the class of a service for `FlagsService` and its like, whose list is what
  screens and pickers fetch; the calls and hooks of a kind for `FlagsHooks`; the three
  functions of `client.ts` that repeat a refused call for `Denied`; the code that makes
  a letter for what the model knows of it.

### Not modelled

* Users, fleet, public API: rows written by id one at a time, or read-only.
* The Datalastic proxy but for its answers (`NewShip`): its cache is an LRU of the
  library; two misses at once ask the registry twice, and either answer will do.
* `SaveVesselModal` and the vessel pages, the SH and branch-document drawers, the
  messages panel, the list of files: their saves follow the patterns of `Screens`,
  `NominationPage` and `RequestPage`.
* Passwords, the limits of attempts at login, the audit of logins.
* Deleting a request from its page, and the scan of a receipt that is filed
  later; typed recipients of the send drawer of a request.
* E-mail templates, PDF and Word rendering, schemas: layout and validation of single
  values.

## 8. Plan

Done: every module of section 2.

Theorems: every safety property of the runs is proved; the liveness properties stay with
TLC.

Next modules: users together with the session (a deactivated user's tokens), the
vessel pages, the roster of clients of a nomination.
