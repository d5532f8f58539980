# Verification of the e-recruitment front end

TLA+ models of the parts of this repository that keep state across awaits,
tabs, reloads and lost answers; TLC configurations that check them on small
instances; and proofs, checked by TLAPS, of what holds for every size.

The repository is the front end of a national recruitment platform: three
React applications (a citizen's portal, an officer's console, a tablet for the
recruitment field), the packages they share, and a development edge
(`tooling/edge-dev`) that holds the sessions and relays to the backend. The
backend is not here; where it matters it is modelled from how this code uses
it, and marked external in the map.

## 1. The system

| part | state it keeps | operations | talks to |
|---|---|---|---|
| field sync: `field-ledger/sync-machine.ts`, `sync-mapping.ts`, `field-ops/model/field-sync.ts`, the physical, supervisor and conflicts pages | the sync state of every captured record; a busy flag and a message for a page | capture, send, send waiting, recover after a reload, escalate, resolve | the ledger, `POST /field/sync`, `/field/conflicts/resolve` |
| field ledger: `ledger.ts`, `storage.ts` | records in IndexedDB; a promise chain for a tab | append (sequence, digest, sign, store), apply (read, ask the machine, write) | the signer, IndexedDB |
| citizen sign-in: `auth/otp-machine.ts`, `context.tsx`, `identity/citizen-otp.tsx` | identity stage, OTP state, onboarding token, phone, a 1 s tick | confirm identity, request a code, submit it, back, cancel | the edge's onboarding and OTP routes |
| session life: `auth/refresh.ts`, `context.tsx`, edge `routes.ts`, `session-store.ts` | the view and timer of a tab; the cookie of the browser; the edge's store | probe, refresh loop, sign in, sign out, any relayed call | the edge, identity-service |
| application wizard: `applicant-portal/routes/apply` | step, form, draft in sessionStorage, idempotency key, mutation | choose, go back, submit, new attempt | `POST /edge/v1/me/applications` |
| documents and clearance: `applicant-portal/routes/documents` | the type and file picked, the upload, a reconciling read; the certificate number and its "sent" | choose, upload, reconcile; send a number, poll, give up | the edge |
| exam pass: `routes/exam-qr.tsx`, `queries/exam-invitation.ts` | the invitation last read, and whether the read failed | open, poll, leave | the edge |
| stations: gate, medical, walk-in | the pass or applicant on the screen, its answer | scan, type, press, next | the edge |
| device: identity, enrolment, readiness, venue | key pair and enrolment in IndexedDB, a venue day | open, enrol, confirm a venue day | the edge |
| campaign studio: `features/campaigns` | the forms of a campaign, one idempotency key for each intent | create, save, publish, close, cancel | the control plane, behind the edge |
| queues: `features/adjudication` | rows as read, a dialog, a bulk run and its report | decide one, decide all in review | the edge |
| register: `features/applications` | filters, the cached page one, further pages | apply filters, load more, read again | the edge |
| erasure requests: `features/compliance` | requests as read, two dialogs, one mutation | decline, carry out | the edge |
| staff, application detail, dashboard | forms and dialogs | reads and confirmed writes | the edge |
| QR scanner: `ui/components/QrScanner` | the stream, its video, the frame that was asked for | start, stop, read a code, leave | the camera |
| API client and edge transport | retry counters | call, retry, decode, relay, fan out | each other, the backend |
| ui, design system, i18n, contracts, tooling | none that outlives a render | rendering, tables, build checks | |

What is hard in it: nothing is cancelled, so every answer may arrive on a page
that has moved on; pages and tabs share one ledger, one cookie jar and one
draft; an answer that is lost leaves the caller and the server with different
opinions; and several parts count the same thing (attempts, time, sequence
numbers) on both sides without telling each other. What makes each part
correct:

- **field sync**: a record says "saved", "held" or "resolved" only for what the
  server did with it; a claim is not taken back; every capture is decided in
  the end, whatever was cut off.
- **field ledger**: sequence numbers are gap-free and in capture order; an
  append and an apply act as one step each; a failed job holds nothing up.
- **citizen sign-in**: a late answer never separates the token from its stage;
  a verified page is backed by an accepted code; the lockout the page shows is
  the service's; a code expires by the clock.
- **session life**: an active tab keeps its session until the ceiling; a tab
  that says otherwise is right; signing out leaves nothing alive.
- **wizard**: one body for a key, the answer of this form under this form, a
  retry that is replayed.
- **documents, certificate, pass**: a receipt and a failure are of the file they
  are about; an outcome that is not known is not called a failure; a field that
  was taken away comes back; a QR that was spent goes.
- **stations**: green, a banner and a verdict are the candidate's on the screen;
  one pass lets in one person; a tablet signs with the key it stored and is
  ready only for one that was enrolled; a camera that was started is stopped.
- **studio**: a retry repeats an intent and never makes another; an answer that
  was read is not read again.
- **queues, register, requests**: reports and refusals are of the rows they stand
  for; the pages of a list are of one list.
- **transport**: no write is repeated by a layer that cannot know its outcome,
  and no error denies a write that was applied.

## 2. Modules

| module | models | role |
|---|---|---|
| `SyncMachine` | `sync-machine.ts` | states, events, the table; used by `FieldSync`, `Ledger`, `AtomicLedger` |
| `FieldSync` | the three field pages over one ledger, calls, network, server | main model of the tablet |
| `StationPromise` | what the tablet tells its operator | abstract specification that `FieldSync` implements |
| `FieldSyncProofs` | | theorems about `FieldSync` |
| `Ledger` | `ledger.ts` over `storage.ts`, with its awaits | detailed model of the store |
| `AtomicLedger` | the ledger with each call one step | abstract specification that `Ledger` implements with one tab, and what `FieldSync` takes the ledger for |
| `CitizenSignIn` | the OTP reducer, its hook and page, identity-service | |
| `CitizenSignInProofs` | | theorems about `CitizenSignIn` |
| `SessionLife` | refresh loop, tabs, cookie jar, edge store | |
| `Filing` | the wizard and its mutation, the edge's filings | a page of `Portal` |
| `FilingProofs` | | theorems about `Filing` |
| `Documents` | the upload panel, its decoding and its reconciling read | a page of `Portal` |
| `Clearance` | the certificate number, "sent" and the poll | a page of `Portal` |
| `ExamPass` | the exam pass and its two poll intervals | a page of `Portal` |
| `Portal` | the citizen's pages | composition |
| `PortalProofs` | | theorems about `ExamPass`, `Clearance` and `Documents`, in `Portal` |
| `Transport` | `withRetry`, `callOnce`, the decoding of errors, the edge's relay and `callUpstream`, the screen's retry | |
| `EdgeProofs` | | theorems about `Transport` and `SessionLife` |
| `Gate` | the gate page and single-use admission | a station of `Stations` |
| `WalkIn` | the walk-in desk: verify, register, vet | a station of `Stations` |
| `Medical` | the medical station | a station of `Stations` |
| `Enrolment` | tabs over one stored identity, the setup page, the enrolment service | a station of `Stations` |
| `Scanner` | the QR scanner and the streams of the camera | a room of `Stations` |
| `Stations` | a tablet that opens and leaves its station | composition |
| `StationProofs` | | theorems about `Gate`, `Medical`, `WalkIn`, `Enrolment` and `Scanner` |
| `Studio` | the Campaign Studio and its control plane | a room of `Console` |
| `Decisions` | the adjudication queues, one by one and in bulk | a room of `Console` |
| `Register` | the list of applications and "load more" | a room of `Console` |
| `Erasure` | the data protection officer's queue | a room of `Console` |
| `Console` | the officer's rooms | composition |
| `ConsoleProofs` | | theorems about `Register`, `Decisions` and `Erasure`, in `Console` |
| `LedgerProofs` | | theorems about `Ledger` |
| `MC*` | | instances for TLC |

The pages that `Portal`, `Stations` and `Console` compose share a session and a
cache but no state of the models, so interleaving two of them would only
multiply their states; a behaviour of a composition picks one and keeps to it.

Each call to the network is a record with a phase. The code between two awaits
is one action, because JavaScript runs it without interruption; an await is
where another action may come in. Mutants, operators whose comment says so,
stand before the definition they are a plausible mistake of.

**FieldSync.** `ledger` is the sync state of each record, `server` what the
server holds. A call of `sendRecords` goes through the phases of its loop:
`Mark` (SEND for one record), `Post`, the answer (`Deliver` or `GiveUp`),
`Apply` for one record, `Finish`; `SendThrows` is an apply that the storage
refuses. Its `snapshot` is the list its caller passed: the code decides what is
sendable from it and not from the ledger. `MountList`, `MountRecover` and
`MountLoad` are the effect that recovers interrupted records. `Escalate` and
`Resolve` are the two buttons of the conflicts page; resolving applies two
events with an await between. `Restart` closes the tab: calls die, the ledger
and what is on the wire do not. A page change keeps calls alive and takes their
page away (`live`).

**Ledger.** `tail` is the promise chain. An append is `ReadSequence`, `Sign`,
`Put`; an apply is `Get`, `Set`: the machine is asked about the state that was
read. `Fail` rejects the job at the head and lets the next one start; `Crash`
closes the tab.

**CitizenSignIn.** `identity` and `otp` are the two state machines, `token` and
`phone` the refs. `Receive` applies an answer to whatever the page is by then.
`Elapse` lets time pass and `TickClock` is the interval of one second, which
runs only while a code is awaited. The service answers one refusal for all it
refuses, as the edge shows it; the edge turns away by itself what is not well
formed (`Formed`), and either may call any request malformed. Only a 400
INVALID_PHONE_NUMBER sends the page back to the number: a 400 INVALID_REQUEST, like
a 5xx, is to the page a code that was sent or a code that was wrong. `grounds` is
history: whether an answer has been misread in this way since the last 202, and
whether a reset has left a call behind.

**SessionLife.** `tabs[t]` is what a tab shows and its timer; `cookie` is the
jar with its expiry; `store` the edge's sessions. `Plan` is
`planRefresh`. Answers carry a Set-Cookie that the browser takes at `HearAnswer`,
in the order in which answers arrive.

**Filing.** `data`, `step`, `key`, `mutation`, `offline` are the state of the
page; `draft` is sessionStorage, which may refuse a write; `calls` are the
promises pending, of this visit or of an earlier one; `filed` is what the edge
did. `Lose` fails a call and leaves its request under way, so that it may still
be served. A key is a UUID; since only equality matters, a minted key is
`Fresh` and gets a number when first sent. `WithoutForeignCategory` is the
normalisation inside `advance`, so it is part of every action that advances.

**Documents.** `PressUpload` starts an upload under the type then selected; the
service numbers revisions and knows an identical file; `HearUpload` decodes the
answer or finds it malformed, which starts `documentIsOnFile` (`lookups`). The
checklist may be read again at any moment, and drops a type the service has
closed; the selected type then is another one, as in the code.

**Clearance.** `giveUp` is the timer of the effect, in polls; `Rearm` is that
effect, with its dependencies: it starts the timer only when "sent" begins to
stand over a wanted number. A poll cancels the read before it.

**ExamPass.** `ticket` is the page and its query, `pass` the invitation at the
service. Time passes in whole poll periods (`PeriodPasses`), and a state that is
not polled lets a period pass with no read. A read that fails keeps the data,
and the page shows none of it.

**Transport.** A call goes down through the screen's query, the client and the
edge to a service and back; each leg may lose or garble it. `ShouldRetry`,
`RetryOnG2G` and the screen's count decide who sends again. `detail` is the one
route that fans out to two services.

**Gate, WalkIn, Medical.** Each keeps its page's fields, the state of its
mutations and the requests under way, heard or not. Where the page lets an
officer go on while an answer is due (rescan, "next candidate"), it is an action,
and `gateHurried`, `deskHurried` or `boardHurried` remembers it; the properties
that the pages keep only for an officer who waits say so in their premise, and
`MCStationsHurried` shows the gate without it.

**Enrolment.** `kept` is the identity in IndexedDB, `runtime[t]` what a tab
loaded. `OpenRuntime` and `StoreIdentity` are the two ends of
`loadOrCreateIdentity`; `vouched` is what the service enrolled.

**Scanner.** A stream is named by the press that asked for it, and `streams` are
those whose tracks are on. `startCamera` is three steps, up to the grant, up to
`play`, and after it; a start knows by `live` whether its component is still there.
`loops` counts the frames' loops, of which `stopCamera` cancels the last. `rushed`
remembers a press, or a page left, while a start was under way. The gate and the
board put the scanner on their pages; `Stations` looks at it by itself, because a
code that it read and one that is typed are the same input to them.

**Studio.** `step[s]` is a form with its text, its key and its mutation.
`KeyForIntent` keeps the key while the intent is the same, `Settle` drops it when
an answer was read. `replays` is the idempotency store: it answers a key it knows
with what it answered before.

**Decisions.** `desk` is the page, with the list as read; `runs` are the async
functions under way, which go on when the page is left. `NextRow`,
`HearDecision` and `EndOfRun` are the loop of `runBulk`. `failed` is, for each
mutation, the row whose refusal it holds. A lost answer is reported as refused, as
the page does; `faults` says which of the refusals are such.

**Register.** A read of page one is named by its `dataUpdatedAt`, a further page
by the read whose cursor led to it. `LoadMore` keeps what its closure captured;
`HearMore` applies it to whatever the page is by then. `MoreOf` is the render's
comparison of the two.

**Erasure.** `decide` is the observed mutation; `Closed` closes both dialogs and
observes it no more. A decline may be cancelled or confirmed again while it is
under way; an erasure, behind `ConfirmAction`, may not. A mutation settles after
the list was read again, because `onSettled` is awaited.

## 3. Runs

| run | instance | states | shows |
|---|---|---|---|
| `MCFieldSyncOverlap` | all pages, one record, two sends and two resolutions at once, two faults | 1.6 M | the busy flag has one owner, and the tablet implements `StationPromise` |
| `MCFieldSyncBatch` | two records in one request, one call, one fault, an officer who waits and tries again | 98 k | claims are backed for a batch; a send that was cut off ends; every capture is decided |
| `MCLedgerOneTab` | one tab, three appends and two applies, one fault | 9.7 k | capture order, atomicity (implements `AtomicLedger`), the tail runs empty |
| `MCCitizenSignIn` | two calls at once, two attempts, two tokens, one number (any request may be called malformed all the same), faults and lost calls without a bound | 0.72 M | token and stage agree, both counts of attempts agree, a code expires, a spinner ends |
| `MCSessionLifeTabs` | two tabs, one session, to beyond its ceiling | 0.27 M | an active user keeps the session, the warning names its real end |
| `MCSessionLifeFaults` | one tab, two sessions, a 5xx, a lost answer, a reload | 1.2 M | what holds when calls fail, and what the failures excuse |
| `MCSessionLifeReload` | one tab that reloads | stops | violated: `ActiveUserKeepsSession` |
| `MCFiling` | `PortalSpec`: two campaigns, two categories of different paths, two keys, two visits; two document types, two files, two uploads; three numbers, a wait of three polls; a pass that changes as it may | 4.0 M | the properties of the wizard (`KeyNamesOneBody`, `AnswerIsOfThisForm`, `OnlyTheOfferedIsSent`, `RetryIsReplayed`), of the panel (`ReceiptIsTrue`, `FailureIsTrue`), of the number (`FieldComesBack`) and of the pass (`SpentPassIsTakenDown`) |
| `MCTransport` | one call of each kind, the code's counts of retries, five statuses | 0.26 M | no service is asked more often than the layers allow (`WithinBudget`); an error that denies a write stands for none that was applied (`RefusalMeansNotApplied`) |
| `MCStations` | two passes and people, two admissions; two applicants, three vettings; two tickets; two tabs, two key pairs, two enrolments; three presses of the scanner | 3.4 M | `OneGreenPerPass`, `GreenIsThisCandidate`; `BannerIsThisCandidates`; `VerdictIsThisCandidates`; `ReadyIsBacked`, `IdentityIsShared`; `CameraIsReleased` |
| `MCStationsHurried` | the same | stops | violated: `GreenIsWhoeverIsHere` |
| `MCConsole` | an officer of each post with three presses; two rows, two decisions, one move of others; two filter sets, three reads, three loads of lists of at most three pages; two requests, three decisions, one of others | 4.5 M | `AnswerShownOnce`, `WrittenOnce`; `BulkReportIsTrue`; `PagesFollowOn`; `RefusalIsOfThisDialog`, for the queues and the requests together |

The type invariant of every module that models code is proved rather than run
(*Proofs*).

Six more instances are kept beside the runs, of properties that TLC finds
violated (`tlc -config X.cfg M`): `MCFieldSyncNoConflict.cfg`,
`MCLedgerTwoTabs.cfg`, `MCCitizenSignInLocked.cfg`, `MCFilingOffline.cfg`,
`MCStationsScanner.cfg` and `MCConsoleBulk.cfg`. What they show is under *Seen in the code*.

**Bounds.** Two overlapping calls are the least that disagree about a snapshot
or a flag, and a third adds only another copy of one of them. Two records are
the least that a batch can confuse. Faults are bounded (but in `CitizenSignIn`)
because an unbounded supply of them makes most liveness properties false, and one or
two reach each error path in combination with another. Time is in ticks: the idle window, the
ceiling and the warning are small, in the proportions of the code's defaults
where those matter (`Plan` divides the window by four). Two keys are the least
that a body can be mistaken with; two visits are the least that can receive
each other's answers. Two passes, applicants, rows, filter sets, requests, files
and document types are the least that can be mistaken for each other; a third
press is the least that can follow a retry or come between a request and its late
answer. A list of three pages is the least whose second load follows a first.
Three polls of waiting stand for the code's larger number: what matters is that
several of them render the block while the timer runs. The retries of `Transport`
are the code's own. `CHECK_DEADLOCK FALSE` is in every configuration: each
system may stop when its bounds are used up and its people have gone.

**Fairness.** A promise that the runtime can settle is settled: `SystemFairness`
has weak fairness for the continuations of calls and for the server's answers;
`FairLedgerSpec` for the work of a tab; `FairSignInSpec` and `FairSessionSpec`
for time, due timers, service and receipt. Losing an answer is never fair.
People are fair in two specifications only, which say so: `PatientSpec` (an
officer who lets a send end before leaving the page, moves on, and presses "send
waiting" while something waits; strong fairness, because the button comes and
goes) and `PersistentSpec` (a supervisor who keeps pressing resolve).

**Excuses.** Properties of sign-in and session that the code keeps only while
calls are answered say so in a premise (`NothingLost`, `EdgeAnswers`): the instances
still contain the failures. The counts of attempts agree from a 202 to the first
answer that is misread (`Told`); outages, lost calls and earlier misreadings are
inside. The stations ask that the officer has not gone on
while an answer was due (`gateHurried` and its kin) or the camera was starting
(`rushed`), the studio that a session's
form was not edited while its save was pending (`studioHurried`), the queues only
that a dialog that shortlists or rejects may show the last refusal of a bulk
(`bulked`, in `RefusalIsOfThisRow`). A bulk's report is asked to be true of the rows
that were answered (`faults`).
What happens without the premise is under *Findings* and *Seen in the code*.

## 4. Proofs

TLC checks the instances above. TLAPS proves, for every value of the constants:

| theorem | says |
|---|---|
| `FieldSyncProofs!TypeCorrect` | the tablet's state keeps its types |
| `FieldSyncProofs!ClaimsAreBacked` | no claim about a record without the server's decision behind it |
| `FieldSyncProofs!PromiseIsKept` | `FieldSync` implements `StationPromise` |
| `FieldSyncProofs!BusyIsOwned` | the busy flag is up exactly while one send of the page runs |
| `CitizenSignInProofs!SignInTypeCorrect` | the sign-in page's state keeps its types |
| `CitizenSignInProofs!TokenAndStageAgree` | a confirmed page has the token that says so, and keeps none otherwise until a reset leaves a call behind |
| `CitizenSignInProofs!VerifiedMeansAccepted` | a verified page has had a code accepted |
| `CitizenSignInProofs!BudgetsAgree` | from a 202 to the first misread answer the page's count of attempts does not run behind the service's |
| `CitizenSignInProofs!LockoutsAgree` | on the same grounds a locked-out page has had its attempts checked |
| `CitizenSignInProofs!BothCountsAgree` | both of these, as the run checks them (`CountsAgree`) |
| `FilingProofs!FilingTypeCorrect` | the wizard's state keeps its types |
| `FilingProofs!OneBodyPerKey` | no key is sent with two bodies |
| `FilingProofs!TheAnswerIsOfThisForm` | the answer shown is of the form shown |
| `FilingProofs!OnlyOfferedFilings` | only an offered category is filed, with its credential |
| `FilingProofs!RetriesAreReplayed` | a retry is never refused for the filing it repeats |
| `LedgerProofs!LedgerTypeCorrect` | the ledger's state keeps its types, for any number of tabs |
| `LedgerProofs!CapturesAreInOrder` | one tab: captures are numbered without gap, in their order |
| `LedgerProofs!LedgerActsAtomically` | one tab: `Ledger` implements `AtomicLedger` |
| `EdgeProofs!TransportTypeCorrect` | calls and retries keep their types: no layer passes its count |
| `EdgeProofs!DenialsAreTrue` | an error that denies a write stands for none that was applied |
| `EdgeProofs!BudgetIsKept` | a press reaches the services no more often than its layers' tries multiply to |
| `EdgeProofs!SessionTypeCorrect` | the edge's store, the jar and the tabs keep their types |
| `EdgeProofs!SignedOutIsRevoked` | while the edge answers, a session signed out of is dead at the edge |
| `EdgeProofs!OnlyTheExpiredAreOrphaned` | ... and a citizen's that is alive upstream, though the edge has forgotten it, had expired at the edge |
| `EdgeProofs!WarningIsHonest` | while no call is lost, a warning names the time a session really ends |
| `EdgeProofs!ExpiryIsTrue` | one tab, calls answered: a session called over is over |
| `EdgeProofs!ActiveUsersStaySignedIn` | the first session, no reload, calls answered: a signed-in tab keeps one it can use |
| `StationProofs!GateTypeCorrect` | the gate's state keeps its types |
| `StationProofs!OnePassOneGreen` | no pass turns the screen green twice, or after another gate spent it |
| `StationProofs!GreenMeansHolder` | for an officer who waits, green is the holder of the pass shown |
| `StationProofs!VerdictsAreTheirs` | the verdict the medical panel calls recorded is that of the candidate on the form |
| `StationProofs!BannersAreTheirs` | what the walk-in desk shows under a candidate is that candidate's |
| `StationProofs!EnrolmentTypeCorrect` | the identity, the tabs, the setup page and the service keep their types |
| `StationProofs!ReadyIsTrue` | a tablet called ready holds a key the service enrolled for its officer |
| `StationProofs!TabsShareTheKey` | unless two tabs made a key at once, every tab signs with the stored one |
| `StationProofs!TheCameraIsReleased` | for an officer who waits, no stream is on but the one the scanner can stop |
| `StationProofs!ScannerTypeCorrect` | the scanner, its starts and the streams keep their types |
| `PortalProofs!PassIsTakenDown` | a QR that is spent or held is shown for no second poll period |
| `PortalProofs!TheFieldComesBack` | "sent" hides a wanted field no longer than the wait |
| `PortalProofs!ReceiptsAreTrue` | a revision shown as received is of a file of that type |
| `PortalProofs!FailuresAreTrue` | an upload that is called failed, once looked for, was not stored |
| `ConsoleProofs!StudioTypeCorrect` | the studio, its requests and its keys keep their types |
| `ConsoleProofs!AnswersAreShownOnce` | no stored answer is put to an officer twice |
| `ConsoleProofs!IntentsAreWrittenOnce` | an intent is carried out at most once, and never told as refused if it was |
| `ConsoleProofs!PagesAreOfOneList` | the pages on the screen follow each other in one list |
| `ConsoleProofs!ReportsAreTrue` | a bulk report leaves out no row and is true of each that was answered |
| `ConsoleProofs!RefusalsAreTheirs` | a refusal in a dialog of the requests is of the request it decides |
| `ConsoleProofs!DialogsAreTheirs` | in the console, no dialog shows the refusal of another row or request, but for the last refusal of a bulk |

`TerminalIsFinal`, in `FieldSyncProofs`, says that the machine has no way out of
a terminal state; the refinement rests on it.

*The tablet.* `ClaimsBacked` is not inductive: an answer on its way says as much
as a record that has received it. The invariant `IInv` adds that every positive
answer in a call or on the wire (`AnswersBacked`), every verdict of a resolution
(`VerdictsBacked`) and every refusal of the signer (`BadBacked`) is already
backed by `server` or `refused`. The proof has a step for each action; the
server never forgets, so what is backed stays so. The refinement maps each
apply to the step of `StationPromise` that its event names, or to a stutter.
`BusyHasOneOwner` is inductive beside `IInv` (`OwnersInductive`): every way out of a
send, a throw included, gives the flag back with the call, and a page that is opened
takes it from whatever was left behind.

*The wizard.* The properties talk about what was sent and what is shown. The
invariant `FInv` adds how they hang together: every request with the page's key
has the body of the form (`Keys`); only the review page waits, for one call, and
that call is of this key and body (`Waiting`), which is why going back cannot
bring another form under an answer; once a campaign is taken it is taken for
every request of a refused key (`Answers`), which is why ALREADY_APPLIED cannot
be about the citizen's own retry; and past the second page the form has what the
campaign offers (`Steps`). `NewAttemptKeepsFiled` proves at once all actions that
throw the attempt away, whatever they do to the form.

*Citizen sign-in.* What the page has been granted is backed by the answer that
brought it (`GrantsAreBacked`), in every interleaving of late answers. The two
counts of attempts agree only while the page waits for every call it makes and
takes every answer for what it is: the
invariant `OneCallAtATime` says that, until a reset leaves a call behind, there
is at most one, that it carries the page's token and phone, and that the page is
in the state that waits for it. So a 202 always speaks of a challenge with nothing
checked (`Fresh`), whatever was misread before it, and from there `CountedTogether`
says how far the count of the challenge is ahead while an answer is under way.

*The ledger.* The types alone need an invariant: a sequence stays within its
bound because it never passes the number of records stored (`Counted`), which
grows by one with each put because no two jobs append one record (`Jobs`). Order
and atomicity hold for one tab only, so `OneTab` is a hypothesis of their
theorems: then the sequence a job read is still the last one when it puts its
record, and the row an apply read is still the row it writes (`Current`); and the
appends on the tail are in the order of their captures, after all that is stored
(`Ordered`). Under `OInv` the put and the set are the steps of `AtomicLedger`, and
everything else stutters.

*The stations.* `OneGreenPerPass` counts what was shown; `Spent` adds what is
about to be: an admission on its way is the only one of its pass, was made for its
holder and has not been shown. `Steady` says that for an officer who waits the
form is still what each answer due was asked for. `GInv` is these with the types
and the two properties. `MInv` and `WInv` say the same of the other two desks:
the review that is due is of the pass on the form, the vettings that are heard are of
the candidate at the desk, unless the officer went on; and what an answer says was
recorded. For the tablet's enrolment, `NInv` says that no identity is marked that
the service did not enrol (`Vouched`), that an answer is awaited in a tab that
still holds the key which was sent (`Held`), and that a tab makes a key only
while none is stored, unless two did at once (`OneKey`). For the scanner, `Alone`
says that an officer who waits has one start under way, of a scanner that is shown
and not yet scanning, and no stream on until it is granted.

*Transport.* `TInv` ties where a call is in its layers to what can have been
applied (`Fits`): a layer sends again only from places in which nothing was, and
each error kind that denies a write comes from a status under which no service
applies one. The budget is a product, which no step of one layer shows; `AllAfford`
says instead that what a call has sent is accounted for by the tries that have ended
at the screen and the client and by those of its legs, each layer within its count.
A request is paid for by the try of its leg, and a retry of an outer layer is what
gives the inner ones theirs anew.

*Sessions.* The properties read two places that an answer in flight does not
touch; the invariant `LInv` adds that answer: from the moment a sign-out is
answered its session is dead at the edge (`Over`), and every handle that a cookie, a
call or a sign-out names was created (`Known`). So a sign-in, which takes a fresh
handle, never revives one, and a touch revives none, whatever stale cookie or request
carries it. `Orphans` needs no more: a touch deletes only what has expired, and a
sign-out revokes upstream what it finds at the edge.

What sessions promise about time needs more, and hypotheses. `WarningIsHonest`
rests on `VInv`: a time that a tab warns of, or is about to be told, is one that a
session at the edge has. It needs `Warning <= IdleTtl`: a tab stops refreshing when
it warns, and the window must then reach to the ceiling. The defaults are five
minutes and thirty, but `config.ts` does not ask for it (*Seen in the code*).
`ExpiryIsTrue` follows one tab through its stages: which calls it may have in
flight in each, whose session they carry, and what their answers will say (`Lone`).
With two tabs one may end what the other shows, so it is about one, and about an
edge that answers at mount before a login is submitted (`BootIsFast`).
`ActiveUsersStaySignedIn` is about all tabs and the jar at once. The edge's window
slides with every request, the cookie only with a refresh; so `Good` says that some
tab always will have the cookie issued again before it runs out (`Keeps`), or knows
that the ceiling comes first, and that the jar never promises more than the edge
keeps (`JarGood`, `StoreGood`). A tab that is opened later relies on the tab that
keeps. The premise `Undisturbed` names what breaks it: a reload (a finding), a 5xx
or a lost answer, and a second session, whose cookie a late refresh of the first
overwrites. `MinDelay < IdleTtl` is the code's fifteen seconds against the window.

*The citizen's pages.* Once a poll period has passed over a pass that is no longer
good, a read is under way, and no second period passes before it ends (`PInv`).
The timer of the certificate runs exactly while "sent" stands over a wanted number,
so what it has left and what has passed make up the whole wait (`Counting`, in
`CInv`). An upload that fails was refused, and no request can still store it, or was
garbled, and the look that settles it is under way or has left its notice (`DInv`).

*The console.* Whatever was cached, put aside or captured by a load under way is of
one list each (`Cached`, `Kept`, `Captured`, in `RInv`), so a page that is heard late
continues the list it was asked for or is not shown. A mutation of the requests is
observed only with the dialog open that began it (`OfItsDialog`, in `EInv`). For the
queues, `QInv` says of a bulk run that rows still to come have no result and are
untouched by it and that the row asked for has what its answer says (`Honest`). It
rests on `Past`: a row listed for review that has left it was decided there or
withdrawn, and never comes back, so "already done" is true of it. `Mine` is the
refusal and its dialog, or a bulk's. In the studio a key outlives the request it was minted for,
and `SInv` says whose it is: keys and requests are dated by the press that made them
(`Dated`), an awaited request has an id of its own and a key of one form
(`OneOfEach`), a key whose answer was shown is no form's any more
(`ShownAtMostOnce`), what is awaited was asked on the page that is open
(`OfThePage`), and, unless a session was edited while it was saved, one request of a
form is awaited at a time, under the key of its intent (`Unhurried`).

The assumptions are the named ones of the modules: bounds are naturals, names
are distinct, `Offered`, `PathOf`, `HolderOf` and `VenueOf` are functions of the
right type. TLC evaluates them in the runs.

Only model-checked: every liveness property, since the prover has no fairness and no
ENABLED (`EveryCaptureIsDecided`, `InterruptedReturns`, `TailRunsEmpty`,
`ExpiryIsDriven`, `SpinnerEnds`, `CeilingIsShown`). Every other property that a
passing run checks is a theorem, under the hypotheses above.

## 5. Findings

Each has a run that shows it and a row in `PROJECT.json` with the line that
says otherwise.

- `MCSessionLifeReload`: `GET /session` slides the idle window at the edge and
  not the cookie; after a reload the next refresh comes after the cookie is gone.
- `MCStationsHurried`: the ID field submits on Enter and the pass can be rescanned
  while an admission is under way; its late green is shown over the next pass.

### Seen in the code, without a run

With an instance beside the runs:

- `MCFieldSyncNoConflict.cfg`: an answer NO_CONFLICT, which ADR-FE-010 and
  `sync-mapping.ts:122` count as resolved, leaves the record with the supervisor on
  the tablet: the page applies events for RESOLVED only (`conflicts.tsx:69`) and
  shows "There is no conflict to resolve" as an error (114).
- `MCLedgerTwoTabs.cfg`: the promise chain that serialises appends belongs to a
  tab (`ledger.ts:74`). Two tabs of one station read the same last sequence and
  both use it, against the comment at `ledger.ts:38-40`.
- `MCCitizenSignInLocked.cfg`: a 400 INVALID_REQUEST or a 5xx is counted as a wrong
  code (`context.tsx:278`), and enough of them lock the citizen out of a code that
  was never checked, against `otp-machine.ts:128-134` and 143-145.
- `MCStationsScanner.cfg`: a camera granted after the page has gone stays on
  (`QrScanner/index.tsx:143`), against "always clean up on unmount" at 102; pressing
  Start twice before the grant opens two streams of which Stop ends one; a start whose
  `play` fails shows the error and leaves the camera on until the page is left.
- `MCFilingOffline.cfg`: the text of a network failure says that nothing was sent
  (`en/common.json:415`), also when only the answer was lost and the application
  stands (`apply/index.tsx:455`).

Field sync, sign-in, sessions and the wizard:

- `field-sync.ts:122`: what is sendable is decided from the caller's snapshot
  and a refused SEND is ignored, so with two overlapping sends an acknowledged
  record is sent again (the server answers DUPLICATE_REPLAY).
- `conflicts.tsx:73`: ESCALATE is stored without its score id; if RESOLVED then
  fails, the row has no button to resolve it with.
- `context.tsx:258-260`: a request for a code that is answered with a 400
  INVALID_REQUEST (a number without the form the edge asks for, `routes.ts:258-263`,
  is enough, and the page does not look at it) or a 5xx is taken for accepted: the
  page asks for a code and counts attempts against a challenge that was not made.
- `otp-machine.ts:103`: REQUEST_ACCEPTED is taken in every state; after Back the
  code form appears over the identity form. The state after REQUEST has no
  subject, so every later one is empty.
- `context.tsx:214`: an identity confirmation that was abandoned is applied too.
  With three calls in flight, one of them a verification that succeeds after
  Back, two confirmations can be pending; the one that fails second leaves the
  token of the first under a page that says otherwise. `ConfirmedHasToken`
  therefore asks for the converse only until a reset leaves a call in flight.
- `otp-machine.ts:152`: TICK is ignored while verifying; a verification whose
  answer never comes stays on the screen with its time run out.
- `routes.ts:391`: a refresh answered after another tab's sign-in puts the older
  session back in the jar.
- `refresh.ts:121-123`: one failed refresh ends the session on the screen, and one
  that rejects ends the loop without a word.
- `config.ts:96-100`: an idle window shorter than the five minutes of the warning is
  accepted. A tab then warns while the window closes before the ceiling it names
  (`MCSessionLifeTabs.cfg` with `Warning = 5` violates `WarnIsHonest`).
- `routes.ts:352`: the edge does not look at the status of the upstream sign-out.
- `routes.ts:348`: the upstream sign-out is called only if the edge still has the
  session. One that was deleted at the edge (a request found it past its window or its
  ceiling, `session-store.ts:128-137`) stays alive in identity-service when the citizen
  signs out, "a live citizen session in identity-service that nothing can now reach"
  (`routes.ts:350-351`). `OrphansHadExpired` says that there are no others.
- `ledger.ts:54`: an apply writes over the state another tab has written since it
  was read.
- `apply/index.tsx:519`: pressing Next on an unchanged form mints a new key, as
  does leaving the page or reloading it: a filing whose answer was lost is then
  refused as ALREADY_APPLIED instead of replayed. `RetryIsReplayed` is about
  retries from the review page.
- `apply/index.tsx:548`: the late success of an earlier visit clears the draft of
  the form now being filled in.

Transport:

- A garbled upstream success becomes `{error: UPSTREAM_MALFORMED_BODY}` under a
  200, which the client shows as success (against `errors.ts:87`).
- `main.tsx:42`: `retry: 2` of the query client retries every failed read, refusals
  too, against `retry.ts:4-5`; most hooks of writes and queues turn it off.
- `routes.ts:53` constructs a token provider that nothing asks: its cache is dead.

Portal:

- `DocumentsPanel.tsx:309`: network loss or a 5xx after the file was stored is
  shown as "could not be uploaded"; between a malformed answer and the read that
  reconciles it the same is shown, against the comment at 258-262.
- `unconfirmed` is not cleared by a new press, so it hides a later refusal; a late
  `documentIsOnFile` sets it after another file or a success; picking a file during
  an upload drops the outcome of that upload.
- When a read drops the picked type the selection moves on without a word, and the
  file is sent under another type.
- A poll cancels the checklist read before it, so a read slower than the poll is
  never heard.
- `exam-invitation.ts:32`: ON_HOLD is not polled though an officer may clear the
  hold; a first read that fails is not polled either; offline the reads are paused
  and a spent pass stays on the phone.

Stations:

- `gate.tsx:98` says nothing was recorded also when the answer to a recorded
  admission was lost; the venue can be changed under a green panel.
- Walk-in: a late vetting marks the next candidate as vetted; a registration whose
  answer is lost is ALREADY_APPLIED when pressed again and cannot then be vetted;
  "next candidate" does not cancel the chain it leaves.
- Medical: the choice is kept when another pass is scanned, and the outcome names
  no candidate.
- `device-identity.ts:86`: two tabs opened at once on a new tablet each make an
  identity; the later is stored, a reload loses the other. A revoked device still
  shows ready; a second tab says "not enrolled" until it is reloaded.

Console:

- `MCConsoleBulk.cfg`: after a bulk whose last row was refused, the next dialog that
  shortlists or rejects shows that refusal, of whatever row (`QueuesPage.tsx:200`,
  228-229, 274).
- `QueuesPage.tsx:222-223`, 248: a row of a bulk whose answer was lost is printed
  "Refused (NETWORK)" although the service may have decided it. The dialog of one row
  says "The action was refused: NETWORK. Nothing was changed."
  (`adjudication/locales/en.json:69`), which may be false likewise.
- A bulk run goes on when the page is left and its results are lost; NO_CHANGE
  is reported as applied. Adjudicating carries no precondition, so a stale CLEAR
  may clear a new hold.
- `DpoQueuePage.tsx:57`: a decline can be cancelled, or confirmed again, while it
  is under way. Its late success closes whatever dialog is open, says "declined"
  without saying which, and resets an outcome that was under way.
- `ApplicationsPage.tsx:57`: filters applied while a page is loading leave the
  button disabled until that load ends, and its failure is shown under the new list.
- A session's form edited while its save is pending applies the same intent twice;
  a close whose answer was lost, then cancelled and pressed again, is INVALID_STATE;
  a malformed success keeps its key and replays for ever.
- `ActionPanels.tsx`: cancelling does not reset, so a refusal of "shortlist" is shown
  in the dialog of "reject"; going from one cached application to another keeps the
  panel, with the dialog and the refusal of the first.
- `StaffPage.tsx`: assigning writes the whole set of posts with no precondition, so
  it undoes another administrator's; a release whose answer is lost shows its
  one-time code to nobody.

## 6. Not modelled, and why

The generated contracts, the decoders of answers (`wire.ts`, `decode.ts` beyond what
decides a retry or an outcome), rendering, charts, i18n, fixtures, self-checks and
the build tooling are most of the repository's lines and keep no state; a model of
them would be a transliteration. That is why the map covers a small share of the
lines though it covers nearly all that change state.

Pure encodings (canonical JSON, envelopes, digests, UUIDv7) and the verification of
tickets are taken at their interface: the models have a valid record, a failing
signer, a fresh id, a genuine pass or not. Staff administration and the panels of
one application are dialogs that cannot be dismissed while their write is under way;
the decision such a panel makes is the one of `Decisions`, and what is peculiar to
them is under *Seen in the code*. The queries of the dashboard and of analytics only aggregate.
Decoding a frame (`jsQR`) is a choice: a frame has a code in it or not.

One hazard of `PROJECT.json` has no property: two tabs that append at once, which
break the order that one tab keeps. Known and not modelled, because nothing else of
the models depends on them: the probe at mount that rejects or answers after a
sign-in (`context.tsx:78-80`), a put that resolves before its transaction
(`storage.ts:131`), an event that drops its score id (`storage.ts:143`,
`conflicts.tsx:73`). The rest is listed with its reason under "components".

## 7. What is left

1. `ActiveUserKeepsSession` for one tab and any number of sessions, which TLC finds
   true of two (`MCSessionLifeTabs.cfg` with one tab and `MaxHandles = 2`); what
   `ExpiryIsTrue` becomes when another tab may sign out or in.
2. One abstract specification, one key for an intent, implemented by `Filing` and by
   `Studio`.
3. Staff administration with two administrators; the application's panels with the
   history of the browser.
4. Offline verification of tickets and the readiness checks as operators against
   reference definitions.
