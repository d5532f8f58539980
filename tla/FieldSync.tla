----------------------------- MODULE FieldSync -----------------------------
(***************************************************************************)
(* One exam-day tablet, one tab: the pages that capture physical scores,   *)
(* send them, recover interrupted sends and resolve conflicts, over the    *)
(* local ledger and a field-sync server at the other end of a network that *)
(* loses and delays.                                                       *)
(*                                                                         *)
(* A step of this module is what runs between two awaits of the code.      *)
(* Ledger.apply is one step: within a tab the ledger serialises its work   *)
(* (module Ledger shows what that is worth).                               *)
(***************************************************************************)
EXTENDS Naturals, FiniteSets, SyncMachine

CONSTANTS
  MaxRecords,   \* bound: records one tablet captures
  Call,         \* bound: sendRecords() invocations running at once
  Pages,        \* the stations the signed-in officer may open
  Nobody,       \* the sender of a request whose sender has given up
  Resolver,     \* bound: conflict resolutions running at once
  MaxFaults     \* bound: storage errors, lost answers and restarts altogether

ASSUME BoundsAssumption == MaxRecords \in Nat /\ MaxFaults \in Nat
ASSUME PagesAssumption == Pages \subseteq {"physical", "supervisor", "conflicts"}
ASSUME NobodyAssumption == Nobody \notin Call

\* A record is named by its localSequence: the ledger hands them out in order.
Rec == 1..MaxRecords


VARIABLES
  ledger,     \* [Rec -> Row]: the records in IndexedDB; survives a restart
  page,       \* the mounted route
  current,    \* the physical page's outcome panel: a record and its state, as last read
  view,       \* [Rec -> Row]: the list the mounted page last read
  busy,       \* physical.tsx `busy`, supervisor.tsx `sending`
  resolving,  \* conflicts.tsx `busy`: the record being resolved, or 0
  mount,      \* the mounted page's effect
  calls,      \* [Call -> the local state of a running sendRecords()]
  resolvers,  \* [Resolver -> the local state of a running resolve()]
  wire,       \* sync requests travelling to the server
  late,       \* resolve requests whose sender gave up, still travelling
  server,     \* [Rec -> what the server holds of the record]
  refused,    \* history: records the server, or the device's signer, has refused
  faults      \* faults left to happen

screen == <<page, current, view, busy, resolving, mount>>
remote == <<wire, late, server, refused>>
vars == <<ledger, screen, calls, resolvers, remote, faults>>

Row == [state : SyncState \cup {"ABSENT"}, scored : BOOLEAN]
Absent == [state |-> "ABSENT", scored |-> FALSE]
Recorded == {r \in Rec : ledger[r].state # "ABSENT"}

\* An uncertain answer is the outcome every record has until one arrives.
Outcome == AckOutcome \cup {"UNCERTAIN"}
NoAnswerYet == [r \in Rec |-> "UNCERTAIN"]

CallState == [phase : {"idle", "refuse", "refuseAck", "mark", "awaiting",
                       "replied", "answered", "finish"},
              live : BOOLEAN,        \* its page instance is still mounted
              ownsBusy : BOOLEAN,    \* it clears that page's busy flag when it ends
              bad : SUBSET Rec,      \* toWireRecord threw for these
              batch : SUBSET Rec,    \* sent in one request
              todo : SUBSET Rec,     \* of the batch: not yet marked, or not yet applied
              outcome : [Rec -> Outcome],
              named : SUBSET Rec]    \* results that named a scoreId

Idle == [phase |-> "idle", live |-> FALSE, ownsBusy |-> FALSE, bad |-> {},
         batch |-> {}, todo |-> {}, outcome |-> NoAnswerYet, named |-> {}]

ResolverState == [phase : {"idle", "asked", "answered", "escalate", "resolve",
                           "reload"},
                  live : BOOLEAN, rec : Rec \cup {0},
                  snapshot : SyncState \cup {"ABSENT"},
                  verdict : {"none", "RESOLVED", "NO_CONFLICT"}]

IdleResolver == [phase |-> "idle", live |-> FALSE, rec |-> 0,
                 snapshot |-> "ABSENT", verdict |-> "none"]

MountState == [phase : {"idle", "listing", "recovering", "loading"},
               todo : SUBSET Rec]
NoMount == [phase |-> "idle", todo |-> {}]

NoCurrent == [rec |-> 0, state |-> "ABSENT"]
EmptyView == [r \in Rec |-> Absent]

TypeOK ==
  /\ ledger \in [Rec -> Row]
  /\ page \in Pages \cup {"none"}
  /\ current \in [rec : Rec \cup {0}, state : SyncState \cup {"ABSENT"}]
  /\ view \in [Rec -> Row]
  /\ busy \in BOOLEAN
  /\ resolving \in Rec \cup {0}
  /\ mount \in MountState
  /\ calls \in [Call -> CallState]
  /\ resolvers \in [Resolver -> ResolverState]
  /\ wire \subseteq [call : Call \cup {Nobody}, batch : SUBSET Rec]
  /\ late \subseteq Rec
  /\ server \in [Rec -> {"unknown", "stored", "held", "settled"}]
  /\ refused \subseteq Rec
  /\ faults \in 0..MaxFaults

Init ==
  /\ ledger = [r \in Rec |-> Absent]
  /\ page = "none"
  /\ current = NoCurrent
  /\ view = EmptyView
  /\ busy = FALSE
  /\ resolving = 0
  /\ mount = NoMount
  /\ calls = [c \in Call |-> Idle]
  /\ resolvers = [k \in Resolver |-> IdleResolver]
  /\ wire = {}
  /\ late = {}
  /\ server = [r \in Rec |-> "unknown"]
  /\ refused = {}
  /\ faults = MaxFaults

----------------------------------------------------------------------------
(* Helpers of the code *)

IsFirst(r, S) == r \in S /\ \A q \in S : r <= q

\* Ledger.apply on one record: a refused event changes nothing; an accepted
\* one rewrites the state and keeps a scoreId only if the event brings one.
ApplyEvent(r, e, scored) ==
  ledger' = IF ledger[r].state \in AcceptedFrom(e)
              THEN [ledger EXCEPT ![r] = [state |-> Target(e), scored |-> scored]]
              ELSE ledger

EventOf(outcome) ==
  IF outcome = "UNCERTAIN" THEN Plain("SEND_UNCERTAIN") ELSE Ack(outcome)

\* Mutant: an answer is matched by its position from the other end.
AnswerForMutant(c, r) ==
  calls[c].outcome[CHOOSE q \in calls[c].todo : \A p \in calls[c].todo : q >= p]

\* The answer for record r: the one at its position in the batch.
AnswerFor(c, r) == calls[c].outcome[r]

\* The list a page reads, cut to the rows its buttons act on: what is held on
\* the conflicts page, what is not settled yet on the other two.
ReadLedger(p) ==
  LET rows == IF p = "conflicts" THEN Held ELSE Waiting IN
  [r \in Rec |-> IF ledger[r].state \in rows THEN ledger[r] ELSE Absent]

\* setCurrent(prev => ...) after a send: the panel's record is read again.
ReadCurrent ==
  IF current.rec = 0 THEN current
  ELSE [current EXCEPT !.state = ledger[current.rec].state]

Fault == faults > 0 /\ faults' = faults - 1

----------------------------------------------------------------------------
(* Pages: mounting one unmounts the other; what runs keeps running unseen *)

OpenPage(p) ==
  /\ mount.phase = "idle"       \* bound: one mount effect at a time
  /\ page' = p
  /\ current' = NoCurrent
  /\ view' = EmptyView
  /\ busy' = FALSE
  /\ resolving' = 0
  /\ mount' = [NoMount EXCEPT !.phase = IF p = "physical" THEN "listing" ELSE "loading"]
  /\ calls' = [c \in Call |-> [calls[c] EXCEPT !.live = FALSE, !.ownsBusy = FALSE]]
  /\ resolvers' = [k \in Resolver |-> [resolvers[k] EXCEPT !.live = FALSE]]
  /\ UNCHANGED <<ledger, remote, faults>>

\* Mutants: recoverInterrupted finds nothing; it writes what it once listed
\* without going through the machine.
MountListMutant ==
  /\ mount.phase = "listing"
  /\ mount' = [phase |-> "recovering", todo |-> {}]
  /\ UNCHANGED <<ledger, page, current, view, busy, resolving, calls,
                 resolvers, remote, faults>>

MountRecoverMutant(r) ==
  /\ mount.phase = "recovering"
  /\ IsFirst(r, mount.todo)
  /\ ledger' = [ledger EXCEPT ![r] = [state |-> WaitingState, scored |-> FALSE]]
  /\ mount' = [mount EXCEPT !.todo = @ \ {r}]
  /\ UNCHANGED <<page, current, view, busy, resolving, calls, resolvers,
                 remote, faults>>

\* recoverInterrupted: every record listed as SENDING ...
MountList ==
  /\ mount.phase = "listing"
  /\ mount' = [phase |-> "recovering",
               todo |-> {r \in Rec : ledger[r].state = "SENDING"}]
  /\ UNCHANGED <<ledger, page, current, view, busy, resolving, calls,
                 resolvers, remote, faults>>

\* ... goes back to waiting, one apply at a time.
MountRecover(r) ==
  /\ mount.phase = "recovering"
  /\ IsFirst(r, mount.todo)
  /\ ApplyEvent(r, Plain("SEND_UNCERTAIN"), FALSE)
  /\ mount' = [mount EXCEPT !.todo = @ \ {r}]
  /\ UNCHANGED <<page, current, view, busy, resolving, calls, resolvers,
                 remote, faults>>

MountLoad ==
  /\ \/ mount.phase = "loading"
     \/ mount.phase = "recovering" /\ mount.todo = {}
  /\ mount' = NoMount
  /\ view' = ReadLedger(page)
  /\ UNCHANGED <<ledger, page, current, busy, resolving, calls, resolvers,
                 remote, faults>>

----------------------------------------------------------------------------
(* Sending *)

\* sendRecords() on a snapshot: what the SNAPSHOT says is sendable is taken.
\* The bad ones are those the signer fails on.
Begin(c, snapshot, ownsBusy) ==
  LET sendable == {r \in Rec : snapshot[r] \in Sendable} IN
  \E bad \in SUBSET sendable :
    /\ IF bad = {} THEN UNCHANGED faults ELSE Fault
    /\ refused' = refused \cup bad
    /\ UNCHANGED <<wire, late, server>>
    /\ calls' = [calls EXCEPT ![c] =
         [phase |-> IF sendable = {} THEN "finish"
                    ELSE IF bad = {} THEN "mark" ELSE "refuse",
          live |-> TRUE, ownsBusy |-> ownsBusy, bad |-> bad,
          batch |-> sendable \ bad, todo |-> sendable \ bad,
          outcome |-> NoAnswerYet, named |-> {}]]

\* physical.tsx save: append, show, then send that one record.
Capture(c, r) ==
  /\ page = "physical" /\ current = NoCurrent /\ ~busy
  /\ calls[c].phase = "idle"
  /\ IsFirst(r, Rec \ Recorded)
  /\ ledger' = [ledger EXCEPT ![r] = [state |-> "LOCAL_ONLY", scored |-> FALSE]]
  /\ current' = [rec |-> r, state |-> "LOCAL_ONLY"]
  /\ busy' = TRUE
  /\ Begin(c, [q \in Rec |-> IF q = r THEN "LOCAL_ONLY" ELSE "ABSENT"], TRUE)
  /\ UNCHANGED <<page, view, resolving, mount, resolvers>>

\* The "send again" button, shown only while the panel reads WAITING.
SendAgain(c) ==
  /\ page = "physical" /\ current.state \in Sendable /\ ~busy
  /\ calls[c].phase = "idle"
  /\ busy' = TRUE
  /\ Begin(c, [q \in Rec |-> IF q = current.rec THEN current.state ELSE "ABSENT"], TRUE)
  /\ UNCHANGED <<ledger, page, current, view, resolving, mount, resolvers>>

\* The next candidate: the panel is cleared, a running send is not.
NextCandidate ==
  /\ page = "physical" /\ current # NoCurrent
  /\ current' = NoCurrent
  /\ UNCHANGED <<ledger, page, view, busy, resolving, mount, calls, resolvers,
                 remote, faults>>

\* "Send waiting" on the physical page: no busy flag guards it.
SendAll(c) ==
  /\ page = "physical" /\ current = NoCurrent
  /\ \E r \in Rec : view[r].state \in Waiting
  /\ calls[c].phase = "idle"
  /\ Begin(c, [q \in Rec |-> view[q].state], FALSE)
  /\ UNCHANGED <<ledger, screen, resolvers>>

\* "Send waiting" on the supervisor page: `sending` guards it.
SendWaiting(c) ==
  /\ page = "supervisor" /\ ~busy
  /\ \E r \in Rec : view[r].state \in Waiting
  /\ calls[c].phase = "idle"
  /\ busy' = TRUE
  /\ Begin(c, [q \in Rec |-> view[q].state], TRUE)
  /\ UNCHANGED <<ledger, page, current, view, resolving, mount, resolvers>>

\* A record that cannot be put on the wire: SEND, then ACK REJECTED_VALIDATION.
RefuseSend(c, r) ==
  /\ calls[c].phase = "refuse"
  /\ IsFirst(r, calls[c].bad)
  /\ ApplyEvent(r, Plain("SEND"), FALSE)
  /\ calls' = [calls EXCEPT ![c].phase = "refuseAck"]
  /\ UNCHANGED <<screen, resolvers, remote, faults>>

RefuseAck(c, r) ==
  /\ calls[c].phase = "refuseAck"
  /\ IsFirst(r, calls[c].bad)
  /\ ApplyEvent(r, Ack("REJECTED_VALIDATION"), FALSE)
  /\ calls' = [calls EXCEPT ![c].bad = @ \ {r},
                            ![c].phase = IF calls[c].bad # {r} THEN "refuse"
                                         ELSE IF calls[c].batch = {} THEN "finish"
                                         ELSE "mark"]
  /\ UNCHANGED <<screen, resolvers, remote, faults>>

\* SEND on every record of the batch; the machine's refusal is not looked at.
Mark(c, r) ==
  /\ calls[c].phase = "mark"
  /\ IsFirst(r, calls[c].todo)
  /\ ApplyEvent(r, Plain("SEND"), FALSE)
  /\ calls' = [calls EXCEPT ![c].todo = @ \ {r}]
  /\ UNCHANGED <<screen, resolvers, remote, faults>>

\* One request for the whole batch.
Post(c) ==
  /\ calls[c].phase = "mark" /\ calls[c].todo = {}
  /\ wire' = wire \cup {[call |-> c, batch |-> calls[c].batch]}
  /\ calls' = [calls EXCEPT ![c].phase = "awaiting"]
  /\ UNCHANGED <<ledger, screen, resolvers, late, server, refused, faults>>

\* eventsForBatch, applied record by record in the order sent.
Apply(c, r) ==
  /\ calls[c].phase = "answered"
  /\ IsFirst(r, calls[c].todo)
  /\ ApplyEvent(r, EventOf(AnswerFor(c, r)), r \in calls[c].named)
  /\ calls' = [calls EXCEPT ![c].todo = @ \ {r},
                            ![c].outcome[r] = "UNCERTAIN",
                            ![c].named = @ \ {r},
                            ![c].phase = IF calls[c].todo = {r} THEN "finish" ELSE @]
  /\ UNCHANGED <<screen, resolvers, remote, faults>>

\* The page that started the send, if still mounted, reads the ledger again.
Finish(c) ==
  /\ calls[c].phase = "finish"
  /\ calls' = [calls EXCEPT ![c] = Idle]
  /\ IF calls[c].live
       THEN /\ view' = ReadLedger(page)
            /\ current' = ReadCurrent
            /\ busy' = (busy /\ ~calls[c].ownsBusy)
       ELSE UNCHANGED <<view, current, busy>>
  /\ UNCHANGED <<ledger, page, resolving, mount, resolvers, remote, faults>>

\* Mutant: no finally - the flag stays up.
SendThrowsMutant(c) ==
  /\ calls[c].phase \in {"refuse", "refuseAck", "mark", "answered"}
  /\ Fault
  /\ calls' = [calls EXCEPT ![c] = Idle]
  /\ UNCHANGED <<ledger, screen, resolvers, remote>>

\* The storage refuses an apply: the rest of the send is abandoned.
SendThrows(c) ==
  /\ \/ calls[c].phase \in {"refuse", "refuseAck", "answered"}
     \/ calls[c].phase = "mark" /\ calls[c].todo # {}
  /\ Fault
  /\ calls' = [calls EXCEPT ![c] = Idle]
  /\ busy' = (busy /\ ~calls[c].ownsBusy)
  /\ UNCHANGED <<ledger, page, current, view, resolving, mount, resolvers,
                 remote>>

----------------------------------------------------------------------------
(* The server and the network: known only from how src/ reads the answers *)

\* What the server may answer for a record, given what it holds: the same
\* signed payload is a DUPLICATE; a hold may also be reported again.
StatusFor(held) ==
  CASE held = "unknown" -> RecordStatus \ {"DUPLICATE"}
    [] held = "held"    -> {"DUPLICATE", "CONFLICT", "STALE"}
    [] OTHER            -> {"DUPLICATE"}

HeldAfter(held, status) ==
  CASE status \in {"ACCEPTED", "SUPERSEDED"} -> "stored"
    [] status \in {"CONFLICT", "STALE"}      -> "held"
    [] OTHER                                 -> held

Reply(q, outcome, named) ==
  calls' = IF q.call = Nobody THEN calls
           ELSE [calls EXCEPT ![q.call].phase = "replied",
                              ![q.call].outcome = outcome,
                              ![q.call].named = named]

\* One status per uploaded record. Only a conflict needs its scoreId later.
ServerSync(q) ==
  /\ q \in wire
  /\ \E status \in [q.batch -> RecordStatus], named \in SUBSET q.batch :
       /\ \A r \in q.batch : status[r] \in StatusFor(server[r])
       /\ \A r \in named : status[r] \in {"CONFLICT", "STALE"}
       /\ server' = [r \in Rec |-> IF r \in q.batch
                                    THEN HeldAfter(server[r], status[r]) ELSE server[r]]
       /\ refused' = refused \cup {r \in q.batch : status[r] \in {"NOT_FOUND", "REJECTED"}}
       /\ Reply(q, [r \in Rec |-> IF r \in q.batch THEN OutcomeOf(status[r])
                                   ELSE "UNCERTAIN"], named)
  /\ wire' = wire \ {q}
  /\ UNCHANGED <<ledger, screen, resolvers, late, faults>>

\* The whole batch answered 400: INVALID_BATCH or INVALID_RECORD.
ServerRefusesBatch(q) ==
  /\ q \in wire
  /\ refused' = refused \cup q.batch
  /\ Reply(q, [r \in Rec |-> IF r \in q.batch THEN "REJECTED_VALIDATION"
                              ELSE "UNCERTAIN"], {})
  /\ wire' = wire \ {q}
  /\ UNCHANGED <<ledger, screen, resolvers, late, server, faults>>

Deliver(c) ==
  /\ calls[c].phase = "replied"
  /\ calls' = [calls EXCEPT ![c].phase = "answered", ![c].todo = calls[c].batch,
                            ![c].batch = {}]
  /\ UNCHANGED <<ledger, screen, resolvers, remote, faults>>

\* The link drops, or the answer is off contract: every record is uncertain.
\* A request that had not reached the server yet may still do so.
GiveUp(c) ==
  /\ calls[c].phase \in {"awaiting", "replied"}
  /\ Fault
  /\ wire' = {IF q.call = c THEN [q EXCEPT !.call = Nobody] ELSE q : q \in wire}
  /\ calls' = [calls EXCEPT ![c].phase = "answered", ![c].todo = calls[c].batch,
                            ![c].batch = {}, ![c].outcome = NoAnswerYet, ![c].named = {}]
  /\ UNCHANGED <<ledger, screen, resolvers, late, server, refused>>

----------------------------------------------------------------------------
(* Conflicts: a supervisor resolves on the server, the ledger follows *)

Resolve(k, r) ==
  /\ page = "conflicts" /\ resolving # r
  /\ view[r].state \in Held /\ view[r].scored
  /\ resolvers[k].phase = "idle"
  /\ resolving' = r
  /\ resolvers' = [resolvers EXCEPT ![k] =
       [phase |-> "asked", live |-> TRUE, rec |-> r,
        snapshot |-> view[r].state, verdict |-> "none"]]
  /\ UNCHANGED <<ledger, page, current, view, busy, mount, calls, remote, faults>>

SettledBy(r) ==
  server' = IF server[r] = "held" THEN [server EXCEPT ![r] = "settled"] ELSE server

\* RESOLVED the first time; NO_CONFLICT once nothing is held any more.
ServerResolve(k) ==
  /\ resolvers[k].phase = "asked"
  /\ SettledBy(resolvers[k].rec)
  /\ resolvers' = [resolvers EXCEPT
       ![k].phase = "answered",
       ![k].verdict = IF server[resolvers[k].rec] = "held" THEN "RESOLVED"
                      ELSE "NO_CONFLICT"]
  /\ UNCHANGED <<ledger, screen, calls, wire, late, refused, faults>>

ServerResolvesLate(r) ==
  /\ r \in late
  /\ late' = late \ {r}
  /\ SettledBy(r)
  /\ UNCHANGED <<ledger, screen, calls, resolvers, wire, refused, faults>>

\* Only the verdict RESOLVED moves the record; any other ends the attempt.
ResolveVerdict(k) ==
  /\ resolvers[k].phase = "answered"
  /\ IF resolvers[k].verdict = "RESOLVED"
       THEN /\ resolvers' = [resolvers EXCEPT ![k].phase =
                 IF resolvers[k].snapshot = "STALE_CONFLICT" THEN "escalate" ELSE "resolve"]
            /\ UNCHANGED resolving
       ELSE /\ resolvers' = [resolvers EXCEPT ![k] = IdleResolver]
            /\ resolving' = IF resolvers[k].live THEN 0 ELSE resolving
  /\ UNCHANGED <<ledger, page, current, view, busy, mount, calls, remote, faults>>

ResolveGiveUp(k) ==
  /\ resolvers[k].phase \in {"asked", "answered"}
  /\ Fault
  /\ late' = IF resolvers[k].phase = "asked" THEN late \cup {resolvers[k].rec} ELSE late
  /\ resolvers' = [resolvers EXCEPT ![k] = IdleResolver]
  /\ resolving' = IF resolvers[k].live THEN 0 ELSE resolving
  /\ UNCHANGED <<ledger, page, current, view, busy, mount, calls, wire, server,
                 refused>>

Escalate(k) ==
  /\ resolvers[k].phase = "escalate"
  /\ ApplyEvent(resolvers[k].rec, Plain("ESCALATE"), FALSE)
  /\ resolvers' = [resolvers EXCEPT ![k].phase = "resolve"]
  /\ UNCHANGED <<screen, calls, remote, faults>>

MarkResolved(k) ==
  /\ resolvers[k].phase = "resolve"
  /\ ApplyEvent(resolvers[k].rec, Plain("RESOLVED"), FALSE)
  /\ resolvers' = [resolvers EXCEPT ![k].phase = "reload"]
  /\ UNCHANGED <<screen, calls, remote, faults>>

\* A local event the storage refuses is only reported: the list is read again.
ResolveThrows(k) ==
  /\ resolvers[k].phase \in {"escalate", "resolve"}
  /\ Fault
  /\ resolvers' = [resolvers EXCEPT ![k].phase = "reload"]
  /\ UNCHANGED <<ledger, screen, calls, remote>>

ResolveReload(k) ==
  /\ resolvers[k].phase = "reload"
  /\ resolvers' = [resolvers EXCEPT ![k] = IdleResolver]
  /\ IF resolvers[k].live THEN view' = ReadLedger(page) /\ resolving' = 0
     ELSE UNCHANGED <<view, resolving>>
  /\ UNCHANGED <<ledger, page, current, busy, mount, calls, remote, faults>>

----------------------------------------------------------------------------
\* The tab crashes or is reloaded: only the ledger and the network remain.
Restart ==
  /\ page # "none"
  /\ Fault
  /\ page' = "none" /\ current' = NoCurrent /\ view' = EmptyView
  /\ busy' = FALSE /\ resolving' = 0 /\ mount' = NoMount
  /\ calls' = [c \in Call |-> Idle]
  /\ resolvers' = [k \in Resolver |-> IdleResolver]
  /\ wire' = {[q EXCEPT !.call = Nobody] : q \in wire}
  /\ late' = late \cup {resolvers[k].rec : k \in {j \in Resolver : resolvers[j].phase = "asked"}}
  /\ UNCHANGED <<ledger, server, refused>>

CallStep(c) ==
  \/ \E r \in Rec : RefuseSend(c, r) \/ RefuseAck(c, r) \/ Mark(c, r) \/ Apply(c, r)
  \/ Post(c) \/ Deliver(c) \/ Finish(c)

MountStep == MountList \/ MountLoad \/ \E r \in Rec : MountRecover(r)

ResolverStep(k) == ResolveVerdict(k) \/ Escalate(k) \/ MarkResolved(k) \/ ResolveReload(k)

Officer ==
  \/ \E p \in Pages : OpenPage(p)
  \/ \E c \in Call : \/ \E r \in Rec : Capture(c, r)
                     \/ SendAgain(c) \/ SendAll(c) \/ SendWaiting(c)
  \/ NextCandidate
  \/ \E k \in Resolver, r \in Rec : Resolve(k, r)

ServerStep ==
  \/ \E q \in wire : ServerSync(q) \/ ServerRefusesBatch(q)
  \/ \E k \in Resolver : ServerResolve(k)
  \/ \E r \in Rec : ServerResolvesLate(r)

FaultStep ==
  \/ \E c \in Call : SendThrows(c) \/ GiveUp(c)
  \/ \E k \in Resolver : ResolveThrows(k) \/ ResolveGiveUp(k)
  \/ Restart

Next ==
  \/ Officer
  \/ \E c \in Call : CallStep(c)
  \/ \E k \in Resolver : ResolverStep(k)
  \/ MountStep
  \/ ServerStep
  \/ FaultStep

Spec == Init /\ [][Next]_vars

----------------------------------------------------------------------------
(* Properties *)

\* A station shows "saved", "held" or "resolved" only for what the server has
\* really stored, held or settled, and "refused" only for what someone
\* refused: however sends overlap, answers are lost or the tab restarts
\* (isServerAcknowledged, field-sync.ts; "no state is inferred", sync-machine.ts).
ClaimsBacked ==
  \A r \in Rec :
    /\ ledger[r].state \in {"ACCEPTED", "DUPLICATE_REPLAY"} => server[r] # "unknown"
    /\ ledger[r].state \in Held => server[r] \in {"held", "settled"}
    /\ ledger[r].state = "RESOLVED" => server[r] = "settled"
    /\ ledger[r].state = "REJECTED_VALIDATION" => r \in refused

\* The busy flag that disables a page's save and send buttons is up exactly
\* while one send of that page instance is running: a send that throws, or one
\* left behind by a page change, never leaves the buttons dead or doubly owned
\* (the finally blocks of physical.tsx save and supervisor.tsx sendWaiting).
BusyHasOneOwner ==
  LET owners == {c \in Call : calls[c].ownsBusy} IN
  /\ busy <=> owners # {}
  /\ \A c, d \in owners : c = d
  /\ \A c \in owners : calls[c].live /\ calls[c].phase # "idle"

----------------------------------------------------------------------------
(* The promise, and the refinement mapping onto it *)

FateOf(state) ==
  CASE state = "ABSENT"                              -> "absent"
    [] state \in Waiting                             -> "waiting"
    [] state \in {"ACCEPTED", "DUPLICATE_REPLAY"}    -> "saved"
    [] state = "REJECTED_VALIDATION"                 -> "refused"
    [] state \in Held                                -> "held"
    [] state = "RESOLVED"                            -> "resolved"

Promise == INSTANCE StationPromise
             WITH fate <- [r \in Rec |-> FateOf(ledger[r].state)], truth <- server

\* The tablet implements StationPromise: no claim is taken back, and each is
\* backed when it is made.
KeepsPromise == Promise!PromiseSpec

----------------------------------------------------------------------------
(* Liveness: the code's own continuations are fair, the officer is not       *)
(* unless a specification says so; faults run out.                           *)

ServerAnswers == \E q \in wire : q.call # Nobody /\ (ServerSync(q) \/ ServerRefusesBatch(q))

SystemFairness ==
  /\ \A c \in Call : WF_vars(CallStep(c))
  /\ \A k \in Resolver : WF_vars(ResolverStep(k)) /\ WF_vars(ServerResolve(k))
  /\ WF_vars(MountStep)
  /\ WF_vars(ServerAnswers)

\* A record whose send was cut off does not stay "sending" for ever: the next
\* time the station opens it goes back to waiting (recoverInterrupted).
InterruptedReturns ==
  \A r \in Rec : ledger[r].state = "SENDING" ~> ledger[r].state # "SENDING"

\* An officer who lets a send end before changing page, moves on to the next
\* candidate, and presses "send waiting" while something waits.
Patience ==
  mount.phase = "idle" /\ mount'.phase # "idle" => \A c \in Call : calls[c].phase = "idle"

PatientSpec ==
  /\ Init /\ [][Next /\ Patience]_vars
  /\ SystemFairness
  /\ SF_vars(OpenPage("physical"))
  /\ SF_vars(NextCandidate)
  /\ SF_vars(\E c \in Call : SendAll(c))

\* With such an officer every captured record is decided: saved, refused or
\* with a supervisor, whatever answers were lost on the way.
EveryCaptureIsDecided ==
  \A r \in Rec : ledger[r].state \in Waiting ~> ledger[r].state \notin Waiting

\* A supervisor who keeps opening the conflicts page and pressing "resolve".
PersistentSpec ==
  /\ Spec /\ SystemFairness
  /\ SF_vars(OpenPage("conflicts"))
  /\ \A r \in Rec : SF_vars(\E k \in Resolver : Resolve(k, r))

\* An answer NO_CONFLICT resolves the record on the tablet as well: nothing is
\* held any more. (ADR-FE-010: "RESOLVED or 409 NO_CONFLICT -> resolved".)
NoConflictMeansResolved ==
  \A k \in Resolver, r \in Rec :
    (resolvers[k].verdict = "NO_CONFLICT" /\ resolvers[k].rec = r)
      ~> ledger[r].state = "RESOLVED"

=============================================================================
