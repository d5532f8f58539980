-------------------------- MODULE FieldSyncProofs --------------------------
(***************************************************************************)
(* For every number of records, of concurrent sends and resolutions, and   *)
(* of faults: FieldSync keeps its types, backs every claim it shows, and   *)
(* implements StationPromise.                                              *)
(***************************************************************************)
EXTENDS FieldSync, TLAPS

(***************************************************************************)
(* The strengthening of ClaimsBacked: what is on its way to the ledger is  *)
(* already backed - answers a call still has to apply, records a signer    *)
(* failed on, verdicts a resolver still has to write.                      *)
(***************************************************************************)
AnswersBacked ==
  \A c \in Call, r \in Rec :
    /\ calls[c].outcome[r] \in {"ACCEPTED", "DUPLICATE_REPLAY"} => server[r] # "unknown"
    /\ calls[c].outcome[r] = "STALE_CONFLICT" => server[r] \in {"held", "settled"}
    /\ calls[c].outcome[r] = "REJECTED_VALIDATION" => r \in refused

BadBacked == \A c \in Call : calls[c].bad \subseteq refused

VerdictsBacked ==
  \A k \in Resolver :
    /\ resolvers[k].verdict = "RESOLVED" => resolvers[k].rec \in Rec
    /\ \A r \in Rec : resolvers[k].verdict = "RESOLVED" /\ resolvers[k].rec = r
                        => server[r] = "settled"
    /\ resolvers[k].phase \in {"escalate", "resolve"} => resolvers[k].verdict = "RESOLVED"
    /\ resolvers[k].phase = "asked" => resolvers[k].rec \in Rec

IInv == TypeOK /\ ClaimsBacked /\ AnswersBacked /\ BadBacked /\ VerdictsBacked

----------------------------------------------------------------------------
(* Lemmas about the operators of the model *)

\* An accepted event leads to a state of the machine.
LEMMA TargetType ==
  ASSUME NEW e \in SyncEvent
  PROVE  Target(e) \in SyncState /\ AcceptedFrom(e) \subseteq SyncState
  BY OfflineQueueAssumption
  DEF SyncEvent, PlainEvent, AckOutcome, Target, AcceptedFrom, SyncState, WaitingState

\* A terminal record is final: no event is accepted from a terminal state
\* (TERMINAL and the switch of transition(), sync-machine.ts).
THEOREM TerminalIsFinal ==
  \A e \in SyncEvent : AcceptedFrom(e) \cap TerminalStates = {}
  BY DEF SyncEvent, PlainEvent, AckOutcome, AcceptedFrom, TerminalStates

LEMMA EventTypes ==
  /\ \A o \in AckOutcome : Ack(o) \in SyncEvent
  /\ \A n \in PlainEvent : Plain(n) \in SyncEvent
  /\ \A o \in Outcome : EventOf(o) \in SyncEvent
  BY DEF Ack, Plain, EventOf, SyncEvent, PlainEvent, AckOutcome, Outcome

\* ApplyEvent keeps the ledger's type.
LEMMA ApplyType ==
  ASSUME ledger \in [Rec -> Row], NEW r \in Rec, NEW e \in SyncEvent,
         NEW s \in BOOLEAN, ApplyEvent(r, e, s)
  PROVE  ledger' \in [Rec -> Row]
  BY TargetType DEF ApplyEvent, Row

LEMMA OutcomeType == \A st \in RecordStatus : OutcomeOf(st) \in AckOutcome
  BY DEF RecordStatus, OutcomeOf, AckOutcome

\* A page's reading of the ledger is a list of rows.
LEMMA ReadType ==
  ASSUME ledger \in [Rec -> Row], NEW p
  PROVE  ReadLedger(p) \in [Rec -> Row]
  BY DEF ReadLedger, Row, Absent

LEMMA IdleTypes ==
  /\ Idle \in CallState
  /\ IdleResolver \in ResolverState
  /\ NoMount \in MountState
  /\ Absent \in Row
  /\ NoAnswerYet \in [Rec -> Outcome]
  BY DEF Idle, IdleResolver, NoMount, Absent, CallState, ResolverState,
         MountState, Row, NoAnswerYet, Outcome, AckOutcome

----------------------------------------------------------------------------
(* Type correctness *)

LEMMA InitType == Init => TypeOK
  <1> SUFFICES ASSUME Init PROVE TypeOK
    OBVIOUS
  <1>1. NoCurrent \in [rec : Rec \cup {0}, state : SyncState \cup {"ABSENT"}]
    BY DEF NoCurrent
  <1>2. EmptyView \in [Rec -> Row]
    BY IdleTypes DEF EmptyView
  <1>3. ledger \in [Rec -> Row]
    BY IdleTypes DEF Init
  <1>4. calls \in [Call -> CallState] /\ resolvers \in [Resolver -> ResolverState]
    BY IdleTypes DEF Init
  <1>5. server \in [Rec -> {"unknown", "stored", "held", "settled"}]
    BY DEF Init
  <1>6. faults \in 0..MaxFaults
    BY BoundsAssumption DEF Init
  <1> QED
    BY <1>1, <1>2, <1>3, <1>4, <1>5, <1>6, IdleTypes DEF Init, TypeOK

LEMMA OpenPageType == ASSUME TypeOK, NEW p \in Pages, OpenPage(p) PROVE TypeOK'
  <1>1. calls' \in [Call -> CallState]
    <2>1. ASSUME NEW c \in Call
          PROVE  [calls[c] EXCEPT !.live = FALSE, !.ownsBusy = FALSE] \in CallState
      <3>1. calls[c] \in CallState
        BY DEF TypeOK
      <3> QED
        BY <3>1 DEF CallState
    <2> QED
      BY <2>1 DEF OpenPage
  <1>2. resolvers' \in [Resolver -> ResolverState]
    <2>1. ASSUME NEW k \in Resolver
          PROVE  [resolvers[k] EXCEPT !.live = FALSE] \in ResolverState
      <3>1. resolvers[k] \in ResolverState
        BY DEF TypeOK
      <3> QED
        BY <3>1 DEF ResolverState
    <2> QED
      BY <2>1 DEF OpenPage
  <1>3. current' \in [rec : Rec \cup {0}, state : SyncState \cup {"ABSENT"}]
    BY DEF OpenPage, NoCurrent
  <1>4. view' \in [Rec -> Row]
    BY IdleTypes DEF OpenPage, EmptyView
  <1>5. mount' \in MountState
    BY DEF OpenPage, NoMount, MountState
  <1> QED
    BY <1>1, <1>2, <1>3, <1>4, <1>5 DEF OpenPage, TypeOK, remote

LEMMA MountType ==
  ASSUME TypeOK, MountList \/ MountLoad \/ \E r \in Rec : MountRecover(r)
  PROVE  TypeOK'
  <1>1. CASE MountList
    BY <1>1 DEF MountList, TypeOK, MountState, remote
  <1>2. CASE MountLoad
    BY <1>2, ReadType, IdleTypes DEF MountLoad, TypeOK, remote
  <1>3. ASSUME NEW r \in Rec, MountRecover(r) PROVE TypeOK'
    <2>1. Plain("SEND_UNCERTAIN") \in SyncEvent
      BY EventTypes DEF PlainEvent
    <2>2. ledger' \in [Rec -> Row]
      BY <1>3, <2>1, ApplyType DEF MountRecover, TypeOK
    <2>3. mount' \in MountState
      BY <1>3 DEF MountRecover, TypeOK, MountState
    <2> QED
      BY <1>3, <2>2, <2>3 DEF MountRecover, TypeOK, remote
  <1> QED
    BY <1>1, <1>2, <1>3

\* A fault leaves the counter in its range.
LEMMA FaultType == ASSUME TypeOK, Fault PROVE faults' \in 0..MaxFaults
  BY BoundsAssumption DEF TypeOK, Fault

\* A send begins with a well-formed local state, whatever it was given.
LEMMA BeginType ==
  ASSUME TypeOK, NEW c \in Call, NEW snapshot, NEW own \in BOOLEAN,
         Begin(c, snapshot, own)
  PROVE  /\ calls' \in [Call -> CallState]
         /\ wire' = wire /\ late' = late /\ server' = server
         /\ refused' \subseteq Rec
         /\ faults' \in 0..MaxFaults
  <1> DEFINE S == {r \in Rec : snapshot[r] \in Sendable}
  <1>1. PICK bad \in SUBSET S :
          /\ IF bad = {} THEN UNCHANGED faults ELSE Fault
          /\ refused' = refused \cup bad
          /\ UNCHANGED <<wire, late, server>>
          /\ calls' = [calls EXCEPT ![c] =
               [phase |-> IF S = {} THEN "finish" ELSE IF bad = {} THEN "mark" ELSE "refuse",
                live |-> TRUE, ownsBusy |-> own, bad |-> bad,
                batch |-> S \ bad, todo |-> S \ bad,
                outcome |-> NoAnswerYet, named |-> {}]]
    BY DEF Begin
  <1>2. [phase |-> IF S = {} THEN "finish" ELSE IF bad = {} THEN "mark" ELSE "refuse",
         live |-> TRUE, ownsBusy |-> own, bad |-> bad,
         batch |-> S \ bad, todo |-> S \ bad,
         outcome |-> NoAnswerYet, named |-> {}] \in CallState
    BY IdleTypes DEF CallState
  <1>3. calls' \in [Call -> CallState]
    BY <1>1, <1>2 DEF TypeOK
  <1>4. faults' \in 0..MaxFaults
    BY <1>1, FaultType DEF TypeOK
  <1>5. refused' \subseteq Rec
    BY <1>1 DEF TypeOK
  <1> QED
    BY <1>1, <1>3, <1>4, <1>5

LEMMA CaptureType ==
  ASSUME TypeOK, NEW c \in Call, NEW r \in Rec, Capture(c, r)
  PROVE  TypeOK'
  <1>1. /\ calls' \in [Call -> CallState]
        /\ wire' = wire /\ late' = late /\ server' = server
        /\ refused' \subseteq Rec
        /\ faults' \in 0..MaxFaults
    BY BeginType DEF Capture
  <1>2. ledger' \in [Rec -> Row]
    BY DEF Capture, TypeOK, Row, SyncState
  <1>3. current' \in [rec : Rec \cup {0}, state : SyncState \cup {"ABSENT"}]
    BY DEF Capture, SyncState
  <1> QED
    BY <1>1, <1>2, <1>3 DEF Capture, TypeOK

LEMMA SendType ==
  ASSUME TypeOK, NEW c \in Call, SendAgain(c) \/ SendAll(c) \/ SendWaiting(c)
  PROVE  TypeOK'
  <1>1. /\ calls' \in [Call -> CallState]
        /\ wire' = wire /\ late' = late /\ server' = server
        /\ refused' \subseteq Rec
        /\ faults' \in 0..MaxFaults
    BY BeginType DEF SendAgain, SendAll, SendWaiting
  <1>2. UNCHANGED <<ledger, page, current, view, resolving, mount, resolvers>> /\ busy' \in BOOLEAN
    BY DEF SendAgain, SendAll, SendWaiting, screen, TypeOK
  <1> QED
    BY <1>1, <1>2 DEF TypeOK

\* One step of a send writes the ledger and its own local state, no more.
LEMMA CallWrites ==
  ASSUME TypeOK, NEW c \in Call, NEW t \in CallState,
         ledger' \in [Rec -> Row],
         calls' = [calls EXCEPT ![c] = t],
         UNCHANGED <<screen, resolvers, remote, faults>>
  PROVE  TypeOK'
  <1>1. calls' \in [Call -> CallState]
    BY DEF TypeOK
  <1> QED
    BY <1>1 DEF TypeOK, screen, remote

LEMMA CallStepType ==
  ASSUME TypeOK, NEW c \in Call, CallStep(c)
  PROVE  TypeOK'
  <1> DEFINE t == calls[c]
  <1>t. t \in CallState
    BY DEF TypeOK
  <1>1. ASSUME NEW r \in Rec, RefuseSend(c, r) PROVE TypeOK'
    <2>1. ledger' \in [Rec -> Row]
      BY <1>1, ApplyType, EventTypes DEF RefuseSend, TypeOK, PlainEvent
    <2>2. [t EXCEPT !.phase = "refuseAck"] \in CallState
      BY <1>t DEF CallState
    <2> QED
      BY <1>1, <2>1, <2>2, CallWrites DEF RefuseSend
  <1>2. ASSUME NEW r \in Rec, RefuseAck(c, r) PROVE TypeOK'
    <2>1. ledger' \in [Rec -> Row]
      BY <1>2, ApplyType, EventTypes DEF RefuseAck, TypeOK, AckOutcome
    <2> DEFINE u == [t EXCEPT !.bad = @ \ {r},
                       !.phase = IF t.bad # {r} THEN "refuse"
                                 ELSE IF t.batch = {} THEN "finish" ELSE "mark"]
    <2>2. u \in CallState
      BY <1>t DEF CallState
    <2>3. calls' = [calls EXCEPT ![c] = u]
      BY <1>2 DEF RefuseAck, TypeOK
    <2> HIDE DEF u
    <2> QED
      BY <1>2, <2>1, <2>2, <2>3, CallWrites DEF RefuseAck
  <1>3. ASSUME NEW r \in Rec, Mark(c, r) PROVE TypeOK'
    <2>1. ledger' \in [Rec -> Row]
      BY <1>3, ApplyType, EventTypes DEF Mark, TypeOK, PlainEvent
    <2>2. [t EXCEPT !.todo = @ \ {r}] \in CallState
      BY <1>t DEF CallState
    <2> QED
      BY <1>3, <2>1, <2>2, CallWrites DEF Mark
  <1>4. ASSUME NEW r \in Rec, Apply(c, r) PROVE TypeOK'
    <2>1. t.outcome[r] \in Outcome /\ (r \in t.named) \in BOOLEAN
      BY <1>t DEF CallState
    <2> DEFINE e == EventOf(t.outcome[r])
    <2>e. e \in SyncEvent
      BY <2>1, EventTypes
    <2>s. /\ ApplyEvent(r, e, r \in t.named)
          /\ Target(e) \in SyncState
      BY <1>4, <2>e, TargetType DEF Apply, AnswerFor
    <2> HIDE DEF e
    <2>2. ledger' \in [Rec -> Row]
      BY <2>s DEF ApplyEvent, Row, TypeOK
    <2> DEFINE u == [t EXCEPT !.todo = @ \ {r}, !.outcome[r] = "UNCERTAIN",
                       !.named = @ \ {r},
                       !.phase = IF t.todo = {r} THEN "finish" ELSE @]
    <2>3. u \in CallState
      BY <1>t DEF CallState, Outcome
    <2>4. calls' = [calls EXCEPT ![c] = u]
      BY <1>4, <1>t DEF Apply, TypeOK, CallState
    <2> HIDE DEF u
    <2> QED
      BY <1>4, <2>2, <2>3, <2>4, CallWrites DEF Apply
  <1>5. CASE Post(c)
    <2>1. [t EXCEPT !.phase = "awaiting"] \in CallState
      BY <1>t DEF CallState
    <2>2. calls' \in [Call -> CallState]
      BY <1>5, <2>1 DEF Post, TypeOK
    <2>3. wire' \subseteq [call : Call \cup {Nobody}, batch : SUBSET Rec]
      BY <1>5, <1>t DEF Post, TypeOK, CallState
    <2> QED
      BY <1>5, <2>2, <2>3 DEF Post, TypeOK, screen
  <1>6. CASE Deliver(c)
    <2> DEFINE u == [t EXCEPT !.phase = "answered", !.todo = t.batch, !.batch = {}]
    <2>1. u \in CallState
      BY <1>t DEF CallState
    <2>2. calls' = [calls EXCEPT ![c] = u]
      BY <1>6 DEF Deliver, TypeOK
    <2> HIDE DEF u
    <2> QED
      BY <1>6, <2>1, <2>2, CallWrites DEF Deliver, TypeOK
  <1>7. CASE Finish(c)
    <2>1. calls' \in [Call -> CallState]
      BY <1>7, IdleTypes DEF Finish, TypeOK
    <2>2. view' \in [Rec -> Row]
      <3>1. ReadLedger(page) \in [Rec -> Row]
        BY ReadType DEF TypeOK
      <3> QED
        BY <1>7, <3>1 DEF Finish, TypeOK
    <2>3. current' \in [rec : Rec \cup {0}, state : SyncState \cup {"ABSENT"}]
      <3>1. current.rec # 0 => ledger[current.rec].state \in SyncState \cup {"ABSENT"}
        BY DEF TypeOK, Row
      <3>2. ReadCurrent \in [rec : Rec \cup {0}, state : SyncState \cup {"ABSENT"}]
        BY <3>1 DEF ReadCurrent, TypeOK
      <3> QED
        BY <1>7, <3>2 DEF Finish, TypeOK
    <2>4. busy' \in BOOLEAN
      BY <1>7 DEF Finish, TypeOK
    <2> QED
      BY <1>7, <2>1, <2>2, <2>3, <2>4 DEF Finish, TypeOK, remote
  <1> QED
    BY <1>1, <1>2, <1>3, <1>4, <1>5, <1>6, <1>7 DEF CallStep

\* An answer written into the local state of the send that asked for it.
LEMMA ReplyType ==
  ASSUME TypeOK, NEW q \in wire, NEW outcome \in [Rec -> Outcome],
         NEW named \in SUBSET Rec, Reply(q, outcome, named)
  PROVE  calls' \in [Call -> CallState]
  <1>1. CASE q.call = Nobody
    BY <1>1 DEF Reply, TypeOK
  <1>2. CASE q.call # Nobody
    <2>1. q.call \in Call
      BY <1>2 DEF TypeOK
    <2> DEFINE u == [calls[q.call] EXCEPT !.phase = "replied", !.outcome = outcome,
                                          !.named = named]
    <2>2. calls[q.call] \in CallState
      BY <2>1 DEF TypeOK
    <2>3. u \in CallState
      BY <2>2 DEF CallState
    <2>4. calls' = [calls EXCEPT ![q.call] = u]
      BY <1>2, <2>1, <2>2 DEF Reply, TypeOK, CallState
    <2> HIDE DEF u
    <2> QED
      BY <2>1, <2>3, <2>4 DEF TypeOK
  <1> QED
    BY <1>1, <1>2

LEMMA SettledType ==
  ASSUME TypeOK, NEW r, SettledBy(r)
  PROVE  server' \in [Rec -> {"unknown", "stored", "held", "settled"}]
  BY DEF SettledBy, TypeOK

LEMMA ServerType ==
  ASSUME TypeOK, ServerStep
  PROVE  TypeOK'
  <1>1. ASSUME NEW q \in wire, ServerSync(q) PROVE TypeOK'
    <2>1. PICK status \in [q.batch -> RecordStatus], named \in SUBSET q.batch :
            /\ server' = [r \in Rec |-> IF r \in q.batch
                            THEN HeldAfter(server[r], status[r]) ELSE server[r]]
            /\ refused' = refused \cup
                 {r \in q.batch : status[r] \in {"NOT_FOUND", "REJECTED"}}
            /\ Reply(q, [r \in Rec |-> IF r \in q.batch THEN OutcomeOf(status[r])
                                        ELSE "UNCERTAIN"], named)
      BY <1>1 DEF ServerSync
    <2>2. q.batch \subseteq Rec /\ named \in SUBSET Rec
      BY DEF TypeOK
    <2> DEFINE o == [r \in Rec |-> IF r \in q.batch THEN OutcomeOf(status[r])
                                   ELSE "UNCERTAIN"]
    <2>3. o \in [Rec -> Outcome]
      BY OutcomeType DEF Outcome
    <2>4. calls' \in [Call -> CallState]
      <3> HIDE DEF o
      <3> QED
        BY <2>1, <2>2, <2>3, ReplyType DEF o
    <2>5. server' \in [Rec -> {"unknown", "stored", "held", "settled"}]
      <3>1. ASSUME NEW r \in Rec
            PROVE  HeldAfter(server[r], status[r]) \in {"unknown", "stored", "held", "settled"}
        BY DEF HeldAfter, TypeOK
      <3> QED
        BY <2>1, <3>1 DEF TypeOK
    <2>6. refused' \subseteq Rec
      BY <2>1, <2>2 DEF TypeOK
    <2> QED
      BY <1>1, <2>4, <2>5, <2>6 DEF ServerSync, TypeOK, screen
  <1>2. ASSUME NEW q \in wire, ServerRefusesBatch(q) PROVE TypeOK'
    <2> DEFINE o == [r \in Rec |-> IF r \in q.batch THEN "REJECTED_VALIDATION"
                                   ELSE "UNCERTAIN"]
    <2>1. o \in [Rec -> Outcome]
      BY DEF Outcome, AckOutcome
    <2>2. calls' \in [Call -> CallState]
      <3>1. Reply(q, o, {})
        BY <1>2 DEF ServerRefusesBatch
      <3> HIDE DEF o
      <3> QED
        BY <2>1, <3>1, ReplyType
    <2> QED
      BY <1>2, <2>2 DEF ServerRefusesBatch, TypeOK, screen
  <1>3. ASSUME NEW k \in Resolver, ServerResolve(k) PROVE TypeOK'
    <2>1. server' \in [Rec -> {"unknown", "stored", "held", "settled"}]
      BY <1>3, SettledType DEF ServerResolve
    <2>2. resolvers[k] \in ResolverState
      BY DEF TypeOK
    <2>3. resolvers' \in [Resolver -> ResolverState]
      BY <1>3, <2>2 DEF ServerResolve, TypeOK, ResolverState
    <2> QED
      BY <1>3, <2>1, <2>3 DEF ServerResolve, TypeOK, screen
  <1>4. ASSUME NEW r \in Rec, ServerResolvesLate(r) PROVE TypeOK'
    <2>1. server' \in [Rec -> {"unknown", "stored", "held", "settled"}]
      BY <1>4, SettledType DEF ServerResolvesLate
    <2> QED
      BY <1>4, <2>1 DEF ServerResolvesLate, TypeOK, screen
  <1> QED
    BY <1>1, <1>2, <1>3, <1>4 DEF ServerStep

LEMMA ResolveType ==
  ASSUME TypeOK, NEW k \in Resolver, NEW r \in Rec, Resolve(k, r)
  PROVE  TypeOK'
  <1>1. view[r].state \in SyncState \cup {"ABSENT"}
    BY DEF TypeOK, Row
  <1>2. [phase |-> "asked", live |-> TRUE, rec |-> r,
         snapshot |-> view[r].state, verdict |-> "none"] \in ResolverState
    BY <1>1 DEF ResolverState
  <1> QED
    BY <1>2 DEF Resolve, TypeOK, remote

LEMMA ResolverStepType ==
  ASSUME TypeOK, NEW k \in Resolver, ResolverStep(k)
  PROVE  TypeOK'
  <1>0. resolvers[k] \in ResolverState
    BY DEF TypeOK
  <1>p. ASSUME NEW p \in {"escalate", "resolve", "reload"}
        PROVE  [resolvers EXCEPT ![k].phase = p] \in [Resolver -> ResolverState]
    BY <1>0 DEF TypeOK, ResolverState
  <1>1. CASE ResolveVerdict(k)
    <2>1. resolvers' \in [Resolver -> ResolverState] /\ resolving' \in Rec \cup {0}
      BY <1>1, <1>p, IdleTypes DEF ResolveVerdict, TypeOK
    <2> QED
      BY <1>1, <2>1 DEF ResolveVerdict, TypeOK, remote
  <1>2. CASE Escalate(k)
    <2>1. ledger' \in [Rec -> Row]
      <3>1. Plain("ESCALATE") \in SyncEvent
        BY EventTypes DEF PlainEvent
      <3> QED
        BY <1>2, <3>1, TargetType DEF Escalate, ApplyEvent, TypeOK, Row
    <2> QED
      BY <1>2, <1>p, <2>1 DEF Escalate, TypeOK, screen, remote
  <1>3. CASE MarkResolved(k)
    <2>1. ledger' \in [Rec -> Row]
      <3>1. Plain("RESOLVED") \in SyncEvent
        BY EventTypes DEF PlainEvent
      <3> QED
        BY <1>3, <3>1, TargetType DEF MarkResolved, ApplyEvent, TypeOK, Row
    <2> QED
      BY <1>3, <1>p, <2>1 DEF MarkResolved, TypeOK, screen, remote
  <1>4. CASE ResolveReload(k)
    <2>1. view' \in [Rec -> Row] /\ resolving' \in Rec \cup {0}
      <3>1. ReadLedger(page) \in [Rec -> Row]
        BY ReadType DEF TypeOK
      <3> QED
        BY <1>4, <3>1 DEF ResolveReload, TypeOK
    <2>2. resolvers' \in [Resolver -> ResolverState]
      BY <1>4, IdleTypes DEF ResolveReload, TypeOK
    <2> QED
      BY <1>4, <2>1, <2>2 DEF ResolveReload, TypeOK, remote
  <1> QED
    BY <1>1, <1>2, <1>3, <1>4 DEF ResolverStep

\* A request whose sender has given up is still a request.
LEMMA OrphanType ==
  ASSUME TypeOK, NEW q \in wire
  PROVE  [q EXCEPT !.call = Nobody] \in [call : Call \cup {Nobody}, batch : SUBSET Rec]
  BY DEF TypeOK

LEMMA FaultStepType ==
  ASSUME TypeOK, VerdictsBacked, FaultStep
  PROVE  TypeOK'
  <1>1. ASSUME NEW c \in Call, SendThrows(c) PROVE TypeOK'
    <2>1. calls' \in [Call -> CallState] /\ busy' \in BOOLEAN
      BY <1>1, IdleTypes DEF SendThrows, TypeOK
    <2> QED
      BY <1>1, <2>1, FaultType DEF SendThrows, TypeOK, remote
  <1>2. ASSUME NEW c \in Call, GiveUp(c) PROVE TypeOK'
    <2> DEFINE u == [calls[c] EXCEPT !.phase = "answered", !.todo = calls[c].batch,
                       !.batch = {}, !.outcome = NoAnswerYet, !.named = {}]
    <2>0. calls[c] \in CallState
      BY DEF TypeOK
    <2>1. u \in CallState
      BY <2>0, IdleTypes DEF CallState
    <2>2. calls' = [calls EXCEPT ![c] = u]
      BY <1>2, <2>0 DEF GiveUp, TypeOK, CallState
    <2>3. calls' \in [Call -> CallState]
      <3> HIDE DEF u
      <3> QED
        BY <2>1, <2>2 DEF TypeOK
    <2>4. wire' \subseteq [call : Call \cup {Nobody}, batch : SUBSET Rec]
      BY <1>2, OrphanType DEF GiveUp, TypeOK
    <2> QED
      BY <1>2, <2>3, <2>4, FaultType DEF GiveUp, TypeOK, screen
  <1>3. ASSUME NEW k \in Resolver, ResolveThrows(k) PROVE TypeOK'
    <2>1. resolvers' \in [Resolver -> ResolverState]
      BY <1>3 DEF ResolveThrows, TypeOK, ResolverState
    <2> QED
      BY <1>3, <2>1, FaultType DEF ResolveThrows, TypeOK, screen, remote
  <1>4. ASSUME NEW k \in Resolver, ResolveGiveUp(k) PROVE TypeOK'
    <2>1. resolvers' \in [Resolver -> ResolverState] /\ resolving' \in Rec \cup {0}
      BY <1>4, IdleTypes DEF ResolveGiveUp, TypeOK
    <2>2. late' \subseteq Rec
      BY <1>4 DEF ResolveGiveUp, TypeOK, VerdictsBacked
    <2> QED
      BY <1>4, <2>1, <2>2, FaultType DEF ResolveGiveUp, TypeOK
  <1>5. CASE Restart
    <2>1. calls' \in [Call -> CallState] /\ resolvers' \in [Resolver -> ResolverState]
      BY <1>5, IdleTypes DEF Restart
    <2>2. wire' \subseteq [call : Call \cup {Nobody}, batch : SUBSET Rec]
      BY <1>5, OrphanType DEF Restart
    <2>3. late' \subseteq Rec
      BY <1>5 DEF Restart, TypeOK, VerdictsBacked
    <2>4. /\ current' \in [rec : Rec \cup {0}, state : SyncState \cup {"ABSENT"}]
          /\ view' \in [Rec -> Row]
      BY <1>5, IdleTypes DEF Restart, NoCurrent, EmptyView
    <2> QED
      BY <1>5, <2>1, <2>2, <2>3, <2>4, IdleTypes, FaultType DEF Restart, TypeOK
  <1> QED
    BY <1>1, <1>2, <1>3, <1>4, <1>5 DEF FaultStep


LEMMA TypeStep ==
  ASSUME TypeOK, VerdictsBacked, [Next]_vars
  PROVE  TypeOK'
  <1>1. CASE Next
    <2>1. CASE Officer
      <3>1. ASSUME NextCandidate PROVE TypeOK'
        BY <3>1 DEF NextCandidate, NoCurrent, TypeOK, remote
      <3> QED
        BY <2>1, <3>1, OpenPageType, CaptureType, SendType, ResolveType DEF Officer
    <2> QED
      BY <1>1, <2>1, CallStepType, ResolverStepType, MountType, ServerType,
         FaultStepType DEF Next, MountStep
  <1>2. CASE UNCHANGED vars
    BY <1>2 DEF vars, screen, remote, TypeOK
  <1> QED
    BY <1>1, <1>2

----------------------------------------------------------------------------
(* Every claim is backed *)

\* What the server has decided stays decided: it may learn of a record, and
\* settle what it holds, and that is all.
Grows ==
  /\ \A r \in Rec : /\ server[r] # "unknown" => server'[r] # "unknown"
                    /\ server[r] \in {"held", "settled"} => server'[r] \in {"held", "settled"}
                    /\ server[r] = "settled" => server'[r] = "settled"
  /\ refused \subseteq refused'

\* What a local state says of record r is true on the server.
Backed(state, r) ==
  /\ state \in {"ACCEPTED", "DUPLICATE_REPLAY"} => server[r] # "unknown"
  /\ state \in Held => server[r] \in {"held", "settled"}
  /\ state = "RESOLVED" => server[r] = "settled"
  /\ state = "REJECTED_VALIDATION" => r \in refused

\* Claims already made stay backed while the server moves on.
LEMMA ClaimsKeep ==
  ASSUME ClaimsBacked, UNCHANGED ledger, Grows
  PROVE  ClaimsBacked'
  BY DEF ClaimsBacked, Grows

\* A new claim is backed when its event was.
LEMMA ClaimsMove ==
  ASSUME TypeOK, ClaimsBacked, NEW r \in Rec, NEW e \in SyncEvent, NEW s,
         ApplyEvent(r, e, s), Backed(Target(e), r), UNCHANGED <<server, refused>>
  PROVE  ClaimsBacked'
  BY DEF ClaimsBacked, Backed, ApplyEvent, TypeOK

\* The states that claim nothing.
LEMMA NoClaim ==
  ASSUME NEW r, NEW n \in {"SEND", "SEND_UNCERTAIN"}
  PROVE  Backed(Target(Plain(n)), r) /\ Plain(n) \in SyncEvent
  BY EventTypes DEF Backed, Target, Plain, WaitingState, PlainEvent, Held

\* The strengthening is about the calls, the resolvers and the server only.
LEMMA CallsKeep ==
  ASSUME AnswersBacked, BadBacked, UNCHANGED calls, Grows
  PROVE  AnswersBacked' /\ BadBacked'
  BY DEF AnswersBacked, BadBacked, Grows

\* A call whose outcomes and failures are no more than they were.
LEMMA CallKeeps ==
  ASSUME AnswersBacked, BadBacked, TypeOK, TypeOK', Grows,
         \A c \in Call : /\ \A r \in Rec : calls'[c].outcome[r] \in {calls[c].outcome[r], "UNCERTAIN"}
                         /\ calls'[c].bad \subseteq calls[c].bad \cup refused'
  PROVE  AnswersBacked' /\ BadBacked'
  BY DEF AnswersBacked, BadBacked, Grows

LEMMA VerdictsKeep ==
  ASSUME VerdictsBacked, UNCHANGED resolvers, Grows
  PROVE  VerdictsBacked'
  BY DEF VerdictsBacked, Grows

\* Nothing moved on the server: it has grown, by nothing.
LEMMA Still == ASSUME UNCHANGED <<server, refused>> PROVE Grows
  BY DEF Grows

\* What a screen may do without a send beginning.
LEMMA ScreenBacks ==
  ASSUME IInv, TypeOK',
         (\E p \in Pages : OpenPage(p)) \/ NextCandidate \/ MountList \/ MountLoad
           \/ \E r \in Rec : MountRecover(r)
  PROVE  IInv'
  <1>1. Grows
    BY Still DEF OpenPage, NextCandidate, MountList, MountLoad, MountRecover, remote
  <1>2. ClaimsBacked'
    <2>1. CASE UNCHANGED ledger
      BY <1>1, <2>1, ClaimsKeep DEF IInv
    <2>2. ASSUME NEW r \in Rec, MountRecover(r) PROVE ClaimsBacked'
      BY <2>2, NoClaim, ClaimsMove DEF MountRecover, remote, IInv
    <2> QED
      BY <2>1, <2>2 DEF OpenPage, NextCandidate, MountList, MountLoad
  <1>3. AnswersBacked' /\ BadBacked'
    <2>1. ASSUME NEW p \in Pages, OpenPage(p), NEW c \in Call
          PROVE  calls'[c].outcome = calls[c].outcome /\ calls'[c].bad = calls[c].bad
      <3>1. calls[c] \in CallState
        BY DEF IInv, TypeOK
      <3> QED
        BY <2>1, <3>1 DEF OpenPage, CallState
    <2>2. CASE UNCHANGED calls
      BY <1>1, <2>2, CallsKeep DEF IInv
    <2> QED
      BY <1>1, <2>1, <2>2, CallKeeps
      DEF OpenPage, NextCandidate, MountList, MountLoad, MountRecover, IInv
  <1>4. VerdictsBacked'
    <2>1. ASSUME NEW p \in Pages, OpenPage(p), NEW k \in Resolver
          PROVE  /\ resolvers'[k].verdict = resolvers[k].verdict
                 /\ resolvers'[k].phase = resolvers[k].phase
                 /\ resolvers'[k].rec = resolvers[k].rec
      <3>1. resolvers[k] \in ResolverState
        BY DEF IInv, TypeOK
      <3> QED
        BY <2>1, <3>1 DEF OpenPage, ResolverState
    <2>2. ASSUME NEW p \in Pages, OpenPage(p) PROVE VerdictsBacked'
      BY <1>1, <2>1, <2>2 DEF VerdictsBacked, Grows, IInv
    <2>3. CASE UNCHANGED resolvers
      BY <1>1, <2>3, VerdictsKeep DEF IInv
    <2> QED
      BY <2>2, <2>3 DEF NextCandidate, MountList, MountLoad, MountRecover
  <1> QED
    BY <1>2, <1>3, <1>4 DEF IInv

\* Beginning a send: what the signer failed on is refused, the rest unknown.
LEMMA BeginBacks ==
  ASSUME TypeOK, TypeOK', AnswersBacked, BadBacked,
         NEW c \in Call, NEW snapshot, NEW own, Begin(c, snapshot, own)
  PROVE  Grows /\ AnswersBacked' /\ BadBacked'
  <1> DEFINE S == {r \in Rec : snapshot[r] \in Sendable}
  <1>1. PICK bad \in SUBSET S :
          /\ refused' = refused \cup bad
          /\ UNCHANGED <<wire, late, server>>
          /\ calls' = [calls EXCEPT ![c] =
               [phase |-> IF S = {} THEN "finish" ELSE IF bad = {} THEN "mark" ELSE "refuse",
                live |-> TRUE, ownsBusy |-> own, bad |-> bad,
                batch |-> S \ bad, todo |-> S \ bad,
                outcome |-> NoAnswerYet, named |-> {}]]
    BY DEF Begin
  <1>2. Grows
    BY <1>1 DEF Grows
  <1>3. calls'[c].outcome = NoAnswerYet /\ calls'[c].bad = bad
    BY <1>1 DEF TypeOK
  <1>4. \A d \in Call : d # c => calls'[d] = calls[d]
    BY <1>1 DEF TypeOK
  <1>5. \A d \in Call : /\ \A r \in Rec : calls'[d].outcome[r] \in {calls[d].outcome[r], "UNCERTAIN"}
                        /\ calls'[d].bad \subseteq calls[d].bad \cup refused'
    BY <1>1, <1>3, <1>4 DEF NoAnswerYet
  <1> QED
    BY <1>2, <1>5, CallKeeps

LEMMA SendBacks ==
  ASSUME IInv, TypeOK', NEW c \in Call,
         (\E r \in Rec : Capture(c, r)) \/ SendAgain(c) \/ SendAll(c) \/ SendWaiting(c)
  PROVE  IInv'
  <1>1. Grows /\ AnswersBacked' /\ BadBacked'
    BY BeginBacks DEF Capture, SendAgain, SendAll, SendWaiting, IInv
  <1>2. ClaimsBacked'
    <2>1. CASE UNCHANGED ledger
      BY <1>1, <2>1, ClaimsKeep DEF IInv
    <2>2. ASSUME NEW r \in Rec, Capture(c, r) PROVE ClaimsBacked'
      BY <1>1, <2>2 DEF Capture, ClaimsBacked, Grows, Held, IInv, TypeOK
    <2> QED
      BY <2>1, <2>2 DEF SendAgain, SendAll, SendWaiting
  <1>3. VerdictsBacked'
    BY <1>1, VerdictsKeep DEF Capture, SendAgain, SendAll, SendWaiting, IInv
  <1> QED
    BY <1>1, <1>2, <1>3 DEF IInv

\* The events a send applies to the ledger are backed: the signer's refusals
\* and the server's answers.
LEMMA RefusalIsBacked ==
  ASSUME IInv, NEW c \in Call, NEW r \in Rec, RefuseAck(c, r)
  PROVE  /\ Ack("REJECTED_VALIDATION") \in SyncEvent
         /\ Backed(Target(Ack("REJECTED_VALIDATION")), r)
  <1>1. r \in refused
    BY DEF RefuseAck, IsFirst, IInv, BadBacked
  <1> QED
    BY <1>1, EventTypes DEF Backed, Target, Ack, Held, AckOutcome

LEMMA AnswerIsBacked ==
  ASSUME IInv, NEW c \in Call, NEW r \in Rec
  PROVE  /\ EventOf(calls[c].outcome[r]) \in SyncEvent
         /\ Backed(Target(EventOf(calls[c].outcome[r])), r)
  <1>1. calls[c].outcome[r] \in Outcome
    BY DEF IInv, TypeOK, CallState
  <1>2. EventOf(calls[c].outcome[r]) \in SyncEvent
    BY <1>1, EventTypes
  <1>3. CASE calls[c].outcome[r] = "UNCERTAIN"
    BY <1>2, <1>3, NoClaim DEF EventOf
  <1>4. ASSUME NEW o \in AckOutcome, calls[c].outcome[r] = o
        PROVE  Backed(Target(EventOf(o)), r)
    <2>1. Target(EventOf(o)) = o
      BY DEF EventOf, Target, Ack, AckOutcome
    <2>2. Backed(o, r)
      BY <1>4 DEF Backed, Held, AnswersBacked, IInv, AckOutcome
    <2> QED
      BY <2>1, <2>2
  <1> QED
    BY <1>1, <1>2, <1>3, <1>4 DEF Outcome

\* So are those of a resolution: the server has settled the record.
LEMMA VerdictIsBacked ==
  ASSUME IInv, NEW k \in Resolver, Escalate(k) \/ MarkResolved(k)
  PROVE  /\ resolvers[k].rec \in Rec
         /\ \A n \in {"ESCALATE", "RESOLVED"} :
              Backed(Target(Plain(n)), resolvers[k].rec) /\ Plain(n) \in SyncEvent
  <1>1. resolvers[k].rec \in Rec /\ server[resolvers[k].rec] = "settled"
    BY DEF Escalate, MarkResolved, IInv, VerdictsBacked
  <1> QED
    BY <1>1, EventTypes DEF Backed, Target, Plain, PlainEvent, Held

LEMMA CallStepBacks ==
  ASSUME IInv, TypeOK', NEW c \in Call, CallStep(c)
  PROVE  IInv'
  <1>0. calls[c] \in CallState /\ calls \in [Call -> CallState]
    BY DEF IInv, TypeOK
  <1>1. UNCHANGED <<server, refused, resolvers>>
    BY DEF CallStep, RefuseSend, RefuseAck, Mark, Apply, Post, Deliver, Finish, remote
  <1>2. Grows
    BY <1>1, Still
  <1>3. VerdictsBacked'
    BY <1>1, <1>2, VerdictsKeep DEF IInv
  <1>4. AnswersBacked' /\ BadBacked'
    <2>1. \A d \in Call \ {c} : calls'[d] = calls[d]
      BY <1>0 DEF CallStep, RefuseSend, RefuseAck, Mark, Apply, Post, Deliver, Finish
    <2>2. /\ \A r \in Rec : calls'[c].outcome[r] \in {calls[c].outcome[r], "UNCERTAIN"}
          /\ calls'[c].bad \subseteq calls[c].bad
      <3>1. ASSUME NEW r \in Rec, RefuseSend(c, r) \/ RefuseAck(c, r) \/ Mark(c, r)
            PROVE  calls'[c].outcome = calls[c].outcome /\ calls'[c].bad \subseteq calls[c].bad
        <4>1. CASE RefuseSend(c, r)
          BY <1>0, <4>1 DEF RefuseSend, CallState
        <4>2. CASE RefuseAck(c, r)
          BY <1>0, <4>2 DEF RefuseAck, CallState
        <4>3. CASE Mark(c, r)
          BY <1>0, <4>3 DEF Mark, CallState
        <4> QED
          BY <3>1, <4>1, <4>2, <4>3
      <3>2. ASSUME NEW r \in Rec, Apply(c, r)
            PROVE  /\ calls'[c].outcome = [calls[c].outcome EXCEPT ![r] = "UNCERTAIN"]
                   /\ calls'[c].bad = calls[c].bad
        BY <1>0, <3>2 DEF Apply, CallState
      <3>3. CASE Post(c) \/ Deliver(c)
        BY <1>0, <3>3 DEF Post, Deliver, CallState
      <3>4. CASE Finish(c)
        BY <1>0, <3>4 DEF Finish, Idle, NoAnswerYet
      <3>5. calls[c].outcome \in [Rec -> Outcome]
        BY <1>0 DEF CallState
      <3> QED
        BY <3>1, <3>2, <3>3, <3>4, <3>5 DEF CallStep
    <2> QED
      BY <1>2, <2>1, <2>2, CallKeeps DEF IInv
  <1>5. ClaimsBacked'
    <2>1. CASE UNCHANGED ledger
      BY <1>2, <2>1, ClaimsKeep DEF IInv
    <2>2. ASSUME NEW r \in Rec, RefuseSend(c, r) \/ Mark(c, r) PROVE ClaimsBacked'
      BY <1>1, <2>2, NoClaim, ClaimsMove DEF RefuseSend, Mark, IInv
    <2>3. ASSUME NEW r \in Rec, RefuseAck(c, r) PROVE ClaimsBacked'
      BY <1>1, <2>3, RefusalIsBacked, ClaimsMove DEF RefuseAck, IInv
    <2>4. ASSUME NEW r \in Rec, Apply(c, r) PROVE ClaimsBacked'
      BY <1>1, <2>4, AnswerIsBacked, ClaimsMove DEF Apply, AnswerFor, IInv
    <2> QED
      BY <2>1, <2>2, <2>3, <2>4 DEF CallStep, Post, Deliver, Finish
  <1> QED
    BY <1>3, <1>4, <1>5 DEF IInv

\* The server's answer to a record is true of what it then holds.
LEMMA AnswerBacks ==
  ASSUME NEW held \in {"unknown", "stored", "held", "settled"},
         NEW st \in StatusFor(held)
  PROVE  /\ st \in RecordStatus
         /\ OutcomeOf(st) \in {"ACCEPTED", "DUPLICATE_REPLAY"} => HeldAfter(held, st) # "unknown"
         /\ OutcomeOf(st) = "STALE_CONFLICT" => HeldAfter(held, st) \in {"held", "settled"}
         /\ OutcomeOf(st) = "REJECTED_VALIDATION" => st \in {"NOT_FOUND", "REJECTED"}
         /\ held # "unknown" => HeldAfter(held, st) # "unknown"
         /\ held \in {"held", "settled"} => HeldAfter(held, st) \in {"held", "settled"}
         /\ held = "settled" => HeldAfter(held, st) = "settled"
  BY DEF StatusFor, HeldAfter, OutcomeOf, RecordStatus

\* An answer that is backed, written into a send, keeps the strengthening.
LEMMA ReplyBacks ==
  ASSUME TypeOK, TypeOK', AnswersBacked, BadBacked, Grows,
         NEW q \in wire, NEW o, NEW named, Reply(q, o, named),
         \A r \in Rec :
           /\ o[r] \in {"ACCEPTED", "DUPLICATE_REPLAY"} => server'[r] # "unknown"
           /\ o[r] = "STALE_CONFLICT" => server'[r] \in {"held", "settled"}
           /\ o[r] = "REJECTED_VALIDATION" => r \in refused'
  PROVE  AnswersBacked' /\ BadBacked'
  <1>1. CASE q.call = Nobody
    BY <1>1, CallsKeep DEF Reply
  <1>2. CASE q.call # Nobody
    <2>1. q.call \in Call /\ calls[q.call] \in CallState
      BY <1>2 DEF TypeOK
    <2>2. calls'[q.call].outcome = o /\ calls'[q.call].bad = calls[q.call].bad
      BY <1>2, <2>1 DEF Reply, TypeOK, CallState
    <2>3. \A d \in Call \ {q.call} : calls'[d] = calls[d]
      BY <1>2, <2>1 DEF Reply, TypeOK
    <2> QED
      BY <2>1, <2>2, <2>3 DEF AnswersBacked, BadBacked, Grows
  <1> QED
    BY <1>1, <1>2

LEMMA SettledGrows ==
  ASSUME TypeOK, NEW r \in Rec, SettledBy(r), UNCHANGED refused
  PROVE  Grows /\ (server[r] = "held" => server'[r] = "settled")
  BY DEF SettledBy, Grows, TypeOK

LEMMA ServerBacks ==
  ASSUME IInv, TypeOK', ServerStep
  PROVE  IInv'
  <1>1. ASSUME NEW q \in wire, ServerSync(q) PROVE IInv'
    <2>1. PICK status \in [q.batch -> RecordStatus], named \in SUBSET q.batch :
            /\ \A r \in q.batch : status[r] \in StatusFor(server[r])
            /\ server' = [r \in Rec |-> IF r \in q.batch
                            THEN HeldAfter(server[r], status[r]) ELSE server[r]]
            /\ refused' = refused \cup
                 {r \in q.batch : status[r] \in {"NOT_FOUND", "REJECTED"}}
            /\ Reply(q, [r \in Rec |-> IF r \in q.batch THEN OutcomeOf(status[r])
                                        ELSE "UNCERTAIN"], named)
      BY <1>1 DEF ServerSync
    <2> DEFINE o == [r \in Rec |-> IF r \in q.batch THEN OutcomeOf(status[r])
                                   ELSE "UNCERTAIN"]
    <2>2. ASSUME NEW r \in Rec
          PROVE  /\ server[r] # "unknown" => server'[r] # "unknown"
                 /\ server[r] \in {"held", "settled"} => server'[r] \in {"held", "settled"}
                 /\ server[r] = "settled" => server'[r] = "settled"
                 /\ o[r] \in {"ACCEPTED", "DUPLICATE_REPLAY"} => server'[r] # "unknown"
                 /\ o[r] = "STALE_CONFLICT" => server'[r] \in {"held", "settled"}
                 /\ o[r] = "REJECTED_VALIDATION" => r \in refused'
      <3>1. server[r] \in {"unknown", "stored", "held", "settled"}
        BY DEF IInv, TypeOK
      <3>2. CASE r \in q.batch
        BY <2>1, <3>1, <3>2, AnswerBacks
      <3>3. CASE r \notin q.batch
        BY <2>1, <3>1, <3>3
      <3> QED
        BY <3>2, <3>3
    <2>3. Grows
      BY <2>1, <2>2 DEF Grows
    <2>4. AnswersBacked' /\ BadBacked'
      <3>1. Reply(q, o, named)
        BY <2>1
      <3> HIDE DEF o
      <3> QED
        BY <2>2, <2>3, <3>1, ReplyBacks DEF IInv
    <2> QED
      BY <1>1, <2>3, <2>4, ClaimsKeep, VerdictsKeep DEF ServerSync, IInv
  <1>2. ASSUME NEW q \in wire, ServerRefusesBatch(q) PROVE IInv'
    <2> DEFINE o == [r \in Rec |-> IF r \in q.batch THEN "REJECTED_VALIDATION"
                                   ELSE "UNCERTAIN"]
    <2>1. Grows /\ Reply(q, o, {})
      BY <1>2 DEF ServerRefusesBatch, Grows
    <2>2. \A r \in Rec : /\ o[r] \in {"REJECTED_VALIDATION", "UNCERTAIN"}
                         /\ o[r] = "REJECTED_VALIDATION" => r \in refused'
      BY <1>2 DEF ServerRefusesBatch
    <2>3. AnswersBacked' /\ BadBacked'
      <3> HIDE DEF o
      <3> QED
        BY <2>1, <2>2, ReplyBacks DEF IInv
    <2> QED
      BY <1>2, <2>1, <2>3, ClaimsKeep, VerdictsKeep DEF ServerRefusesBatch, IInv
  <1>3. ASSUME NEW k \in Resolver, ServerResolve(k) PROVE IInv'
    <2>1. resolvers[k] \in ResolverState /\ resolvers[k].rec \in Rec
      BY <1>3 DEF ServerResolve, IInv, TypeOK, VerdictsBacked
    <2>2. Grows /\ (server[resolvers[k].rec] = "held" => server'[resolvers[k].rec] = "settled")
      BY <1>3, <2>1, SettledGrows DEF ServerResolve, IInv
    <2>3. /\ resolvers'[k].rec = resolvers[k].rec
          /\ resolvers'[k].phase = "answered"
          /\ resolvers'[k].verdict = "RESOLVED" => server[resolvers[k].rec] = "held"
      BY <1>3, <2>1 DEF ServerResolve, IInv, TypeOK, ResolverState
    <2>4. \A j \in Resolver \ {k} : resolvers'[j] = resolvers[j]
      BY <1>3 DEF ServerResolve, IInv, TypeOK
    <2>5. VerdictsBacked'
      BY <2>1, <2>2, <2>3, <2>4 DEF VerdictsBacked, Grows, IInv
    <2> QED
      BY <1>3, <2>2, <2>5, ClaimsKeep, CallsKeep DEF ServerResolve, IInv
  <1>4. ASSUME NEW r \in Rec, ServerResolvesLate(r) PROVE IInv'
    <2>1. Grows
      BY <1>4, SettledGrows DEF ServerResolvesLate, IInv
    <2> QED
      BY <1>4, <2>1, ClaimsKeep, CallsKeep, VerdictsKeep DEF ServerResolvesLate, IInv
  <1> QED
    BY <1>1, <1>2, <1>3, <1>4 DEF ServerStep

\* A resolver that only goes on, ends, or begins keeps its verdict backed.
LEMMA VerdictsMove ==
  ASSUME VerdictsBacked, UNCHANGED server, NEW k \in Resolver,
         \A j \in Resolver \ {k} : resolvers'[j] = resolvers[j],
         resolvers'[k].verdict = "RESOLVED" =>
           /\ resolvers[k].verdict = "RESOLVED"
           /\ resolvers'[k].rec = resolvers[k].rec,
         resolvers'[k].phase \in {"escalate", "resolve"} => resolvers'[k].verdict = "RESOLVED",
         resolvers'[k].phase = "asked" => resolvers'[k].rec \in Rec
  PROVE  VerdictsBacked'
  BY DEF VerdictsBacked

LEMMA ResolverBacks ==
  ASSUME IInv, TypeOK', NEW k \in Resolver,
         ResolverStep(k) \/ ResolveThrows(k) \/ ResolveGiveUp(k)
           \/ \E r \in Rec : Resolve(k, r)
  PROVE  IInv'
  <1>0. resolvers[k] \in ResolverState /\ resolvers \in [Resolver -> ResolverState]
    BY DEF IInv, TypeOK
  <1>1. UNCHANGED <<server, refused, calls>>
    BY DEF ResolverStep, ResolveVerdict, Escalate, MarkResolved, ResolveReload,
           ResolveThrows, ResolveGiveUp, Resolve, remote
  <1>2. Grows
    BY <1>1, Still
  <1>3. AnswersBacked' /\ BadBacked'
    BY <1>1, <1>2, CallsKeep DEF IInv
  <1>4. ClaimsBacked'
    <2>1. CASE UNCHANGED ledger
      BY <1>2, <2>1, ClaimsKeep DEF IInv
    <2>2. CASE Escalate(k)
      BY <1>1, <2>2, VerdictIsBacked, ClaimsMove DEF Escalate, IInv
    <2>3. CASE MarkResolved(k)
      BY <1>1, <2>3, VerdictIsBacked, ClaimsMove DEF MarkResolved, IInv
    <2> QED
      BY <2>1, <2>2, <2>3 DEF ResolverStep, ResolveVerdict, ResolveReload, ResolveThrows,
         ResolveGiveUp, Resolve
  <1>5. VerdictsBacked'
    <2>1. \A j \in Resolver \ {k} : resolvers'[j] = resolvers[j]
      BY <1>0 DEF ResolverStep, ResolveVerdict, Escalate, MarkResolved, ResolveReload,
                  ResolveThrows, ResolveGiveUp, Resolve
    <2>2. CASE resolvers'[k] = IdleResolver
      BY <1>1, <2>1, <2>2, VerdictsMove DEF IdleResolver, IInv
    <2>3. ASSUME NEW p \in {"escalate", "resolve", "reload"},
                 resolvers' = [resolvers EXCEPT ![k].phase = p],
                 resolvers[k].verdict = "RESOLVED"
          PROVE  VerdictsBacked'
      <3>1. /\ resolvers'[k].phase = p
            /\ resolvers'[k].verdict = "RESOLVED"
            /\ resolvers'[k].rec = resolvers[k].rec
        BY <1>0, <2>3 DEF ResolverState
      <3> QED
        BY <1>1, <2>1, <2>3, <3>1, VerdictsMove DEF IInv
    <2>4. ASSUME NEW r \in Rec, Resolve(k, r) PROVE VerdictsBacked'
      <3>1. /\ resolvers'[k].verdict = "none"
            /\ resolvers'[k].phase = "asked" /\ resolvers'[k].rec = r
        BY <1>0, <2>4 DEF Resolve
      <3> QED
        BY <1>1, <2>1, <3>1, VerdictsMove DEF IInv
    <2>5. CASE Escalate(k) \/ MarkResolved(k) \/ ResolveThrows(k)
      <3>1. resolvers[k].verdict = "RESOLVED"
        BY <2>5 DEF Escalate, MarkResolved, ResolveThrows, IInv, VerdictsBacked
      <3> QED
        BY <2>3, <2>5, <3>1 DEF Escalate, MarkResolved, ResolveThrows
    <2>6. CASE ResolveVerdict(k)
      BY <1>0, <2>2, <2>3, <2>6 DEF ResolveVerdict
    <2>7. CASE ResolveReload(k) \/ ResolveGiveUp(k)
      BY <1>0, <2>2, <2>7 DEF ResolveReload, ResolveGiveUp
    <2> QED
      BY <2>4, <2>5, <2>6, <2>7 DEF ResolverStep
  <1> QED
    BY <1>3, <1>4, <1>5 DEF IInv

\* A send cut off, or left without its answer, has no answers to apply.
LEMMA LossBacks ==
  ASSUME IInv, TypeOK', Restart \/ \E c \in Call : SendThrows(c) \/ GiveUp(c)
  PROVE  IInv'
  <1>1. Grows /\ UNCHANGED ledger
    BY Still DEF Restart, SendThrows, GiveUp, remote
  <1>2. ASSUME NEW c \in Call, SendThrows(c) \/ GiveUp(c)
        PROVE  AnswersBacked' /\ BadBacked' /\ VerdictsBacked'
    <2>0. calls[c] \in CallState /\ calls \in [Call -> CallState]
      BY DEF IInv, TypeOK
    <2>1. /\ calls'[c].outcome = NoAnswerYet
          /\ calls'[c].bad \subseteq calls[c].bad
          /\ \A d \in Call \ {c} : calls'[d] = calls[d]
      <3>1. CASE SendThrows(c)
        BY <2>0, <3>1 DEF SendThrows, Idle
      <3>2. CASE GiveUp(c)
        BY <2>0, <3>2 DEF GiveUp, CallState
      <3> QED
        BY <1>2, <3>1, <3>2
    <2>2. \A d \in Call : /\ \A r \in Rec : calls'[d].outcome[r] \in {calls[d].outcome[r], "UNCERTAIN"}
                          /\ calls'[d].bad \subseteq calls[d].bad \cup refused'
      BY <2>1 DEF NoAnswerYet
    <2>3. AnswersBacked' /\ BadBacked'
      BY <1>1, <2>2, CallKeeps DEF IInv
    <2>4. VerdictsBacked'
      BY <1>1, <1>2, VerdictsKeep DEF SendThrows, GiveUp, IInv
    <2> QED
      BY <2>3, <2>4
  <1>3. ASSUME Restart PROVE AnswersBacked' /\ BadBacked' /\ VerdictsBacked'
    <2>1. \A c \in Call : calls'[c].outcome = NoAnswerYet /\ calls'[c].bad = {}
      BY <1>3 DEF Restart, Idle
    <2>2. \A k \in Resolver : resolvers'[k].verdict = "none" /\ resolvers'[k].phase = "idle"
      BY <1>3 DEF Restart, IdleResolver
    <2> QED
      BY <2>1, <2>2 DEF AnswersBacked, BadBacked, VerdictsBacked, NoAnswerYet
  <1>4. ClaimsBacked'
    BY <1>1, ClaimsKeep DEF IInv
  <1> QED
    BY <1>2, <1>3, <1>4 DEF IInv

LEMMA InitInv == Init => IInv
  <1> SUFFICES ASSUME Init PROVE IInv
    OBVIOUS
  <1>1. ClaimsBacked
    BY DEF Init, ClaimsBacked, Absent, Held
  <1>2. AnswersBacked /\ BadBacked
    BY DEF Init, AnswersBacked, BadBacked, Idle, NoAnswerYet
  <1>3. VerdictsBacked
    BY DEF Init, VerdictsBacked, IdleResolver
  <1> QED
    BY <1>1, <1>2, <1>3, InitType DEF IInv

LEMMA StepInv == IInv /\ [Next]_vars => IInv'
  <1> SUFFICES ASSUME IInv, [Next]_vars PROVE IInv'
    OBVIOUS
  <1>1. TypeOK'
    BY TypeStep DEF IInv
  <1>2. CASE Officer
    BY <1>1, <1>2, ScreenBacks, SendBacks, ResolverBacks DEF Officer
  <1>3. CASE \E c \in Call : CallStep(c)
    BY <1>1, <1>3, CallStepBacks
  <1>4. CASE \E k \in Resolver : ResolverStep(k)
    BY <1>1, <1>4, ResolverBacks
  <1>5. CASE MountStep
    BY <1>1, <1>5, ScreenBacks DEF MountStep
  <1>6. CASE ServerStep
    BY <1>1, <1>6, ServerBacks
  <1>7. CASE FaultStep
    BY <1>1, <1>7, LossBacks, ResolverBacks DEF FaultStep
  <1>8. CASE UNCHANGED vars
    <2>1. Grows
      BY <1>8, Still DEF vars, remote
    <2> QED
      BY <1>1, <1>8, <2>1, ClaimsKeep, CallsKeep, VerdictsKeep DEF vars, screen, remote, IInv
  <1> QED
    BY <1>2, <1>3, <1>4, <1>5, <1>6, <1>7, <1>8 DEF Next

LEMMA Inductive == Spec => []IInv
  BY InitInv, StepInv, PTL DEF Spec

\* The variables keep their types in every reachable state.
THEOREM TypeCorrect == Spec => []TypeOK
  <1>1. IInv => TypeOK
    BY DEF IInv
  <1> QED
    BY <1>1, Inductive, PTL

\* A station never shows a record saved, held, resolved or refused that the
\* server (or the signer) has not stored, held, settled or refused: for any
\* number of records, overlapping sends and resolutions, and faults.
THEOREM ClaimsAreBacked == Spec => []ClaimsBacked
  <1>1. IInv => ClaimsBacked
    BY DEF IInv
  <1> QED
    BY <1>1, Inductive, PTL

----------------------------------------------------------------------------
(* The busy flag and the send that raised it *)

\* The same sends own the flag, and they still run.
LEMMA OwnersKeep ==
  ASSUME BusyHasOneOwner, busy' = busy,
         \A c \in Call : /\ calls'[c].ownsBusy = calls[c].ownsBusy
                         /\ calls'[c].live = calls[c].live
                         /\ calls[c].phase # "idle" => calls'[c].phase # "idle"
  PROVE  BusyHasOneOwner'
  BY Zenon DEF BusyHasOneOwner

\* The same, when one send has moved on and the others have not.
LEMMA OwnerMoves ==
  ASSUME BusyHasOneOwner, busy' = busy, NEW c \in Call,
         \A d \in Call \ {c} : calls'[d] = calls[d],
         calls'[c].ownsBusy = calls[c].ownsBusy, calls'[c].live = calls[c].live,
         calls'[c].phase # "idle"
  PROVE  BusyHasOneOwner'
  <1>1. \A d \in Call : /\ calls'[d].ownsBusy = calls[d].ownsBusy
                        /\ calls'[d].live = calls[d].live
                        /\ calls[d].phase # "idle" => calls'[d].phase # "idle"
    BY Zenon
  <1> QED
    BY <1>1, OwnersKeep

\* No page instance is there to own anything.
LEMMA NoOwner ==
  ASSUME busy' = FALSE, \A c \in Call : calls'[c].ownsBusy = FALSE
  PROVE  BusyHasOneOwner'
  BY Zenon DEF BusyHasOneOwner

\* The flag was down, so nobody owned it: the send that raises it does.
LEMMA OwnerBegins ==
  ASSUME BusyHasOneOwner, ~busy, busy' = TRUE, NEW c \in Call,
         \A d \in Call \ {c} : calls'[d] = calls[d],
         calls'[c].ownsBusy = TRUE, calls'[c].live = TRUE, calls'[c].phase # "idle"
  PROVE  BusyHasOneOwner'
  <1>1. \A d \in Call : ~calls[d].ownsBusy
    BY Zenon DEF BusyHasOneOwner
  <1>2. \A d \in Call : calls'[d].ownsBusy => d = c
    BY <1>1, Zenon
  <1> QED
    BY <1>2, Zenon DEF BusyHasOneOwner

\* A send that ends takes the flag down if it raised it, and leaves the one
\* another send raised alone: there is never a second owner.
LEMMA OwnerEnds ==
  ASSUME BusyHasOneOwner, NEW c \in Call, busy' = (busy /\ ~calls[c].ownsBusy),
         \A d \in Call \ {c} : calls'[d] = calls[d], calls'[c].ownsBusy = FALSE
  PROVE  BusyHasOneOwner'
  <1>1. CASE calls[c].ownsBusy
    <2>1. ~busy' /\ \A d \in Call : ~calls'[d].ownsBusy
      BY <1>1, Zenon DEF BusyHasOneOwner
    <2> QED
      BY <2>1, Zenon DEF BusyHasOneOwner
  <1>2. CASE ~calls[c].ownsBusy
    <2>1. (busy' <=> busy) /\ \A d \in Call : (calls'[d].ownsBusy <=> calls[d].ownsBusy)
      BY <1>2, Zenon
    <2>2. \A d \in Call : calls'[d].ownsBusy => calls'[d].live /\ calls'[d].phase # "idle"
      BY Zenon DEF BusyHasOneOwner
    <2> QED
      BY <2>1, <2>2, Zenon DEF BusyHasOneOwner
  <1> QED
    BY <1>1, <1>2

\* What Begin writes into its call.
LEMMA BeginCall ==
  ASSUME TypeOK, NEW c \in Call, NEW snapshot, NEW own \in BOOLEAN, Begin(c, snapshot, own)
  PROVE  /\ \A d \in Call \ {c} : calls'[d] = calls[d]
         /\ calls'[c].ownsBusy = own
         /\ calls'[c].live = TRUE
         /\ calls'[c].phase # "idle"
  <1>1. PICK s : /\ s.ownsBusy = own /\ s.live = TRUE /\ s.phase # "idle"
                 /\ calls' = [calls EXCEPT ![c] = s]
    BY Zenon DEF Begin
  <1> QED
    BY <1>1 DEF TypeOK

\* A send that has not begun owns no flag.
LEMMA IdleOwnsNothing ==
  ASSUME BusyHasOneOwner, NEW c \in Call, calls[c].phase = "idle"
  PROVE  ~calls[c].ownsBusy
  BY Zenon DEF BusyHasOneOwner

LEMMA OwnersBegin ==
  ASSUME IInv, TypeOK', BusyHasOneOwner, NEW c \in Call,
         (\E r \in Rec : Capture(c, r)) \/ SendAgain(c) \/ SendAll(c) \/ SendWaiting(c)
  PROVE  BusyHasOneOwner'
  <1>1. CASE (\E r \in Rec : Capture(c, r)) \/ SendAgain(c) \/ SendWaiting(c)
    <2>1. ~busy /\ busy' = TRUE /\ \E snapshot : Begin(c, snapshot, TRUE)
      BY <1>1, Zenon DEF Capture, SendAgain, SendWaiting
    <2> QED
      BY <2>1, BeginCall, OwnerBegins DEF IInv
  <1>2. CASE SendAll(c)
    <2>1. busy' = busy /\ \E snapshot : Begin(c, snapshot, FALSE)
      BY <1>2, Zenon DEF SendAll, screen
    <2>2. ~calls[c].ownsBusy /\ calls[c].ownsBusy \in BOOLEAN
      BY <1>2, IdleOwnsNothing DEF SendAll, IInv, TypeOK, CallState
    <2>3. /\ \A d \in Call \ {c} : calls'[d] = calls[d]
          /\ calls'[c].ownsBusy = FALSE
      BY <2>1, BeginCall DEF IInv
    <2>4. busy' = (busy /\ ~calls[c].ownsBusy)
      BY <2>1, <2>2 DEF IInv, TypeOK
    <2> QED
      BY <2>3, <2>4, OwnerEnds
  <1> QED
    BY <1>1, <1>2

\* A running send keeps its flag until its last step.
LEMMA OwnersStep ==
  ASSUME IInv, TypeOK', BusyHasOneOwner, NEW c \in Call,
         CallStep(c) \/ SendThrows(c) \/ GiveUp(c)
  PROVE  BusyHasOneOwner'
  <1>0. calls[c] \in CallState /\ calls \in [Call -> CallState]
    BY DEF IInv, TypeOK
  <1>1. \A d \in Call \ {c} : calls'[d] = calls[d]
    <2>1. CASE CallStep(c)
      <3>1. ASSUME NEW r \in Rec, RefuseSend(c, r) \/ RefuseAck(c, r)
            PROVE  \A d \in Call \ {c} : calls'[d] = calls[d]
        BY <1>0, <3>1 DEF RefuseSend, RefuseAck
      <3>2. ASSUME NEW r \in Rec, Mark(c, r) \/ Apply(c, r)
            PROVE  \A d \in Call \ {c} : calls'[d] = calls[d]
        BY <1>0, <3>2 DEF Mark, Apply
      <3>3. CASE Post(c) \/ Deliver(c) \/ Finish(c)
        BY <1>0, <3>3 DEF Post, Deliver, Finish
      <3> QED
        BY <2>1, <3>1, <3>2, <3>3 DEF CallStep
    <2>2. CASE SendThrows(c)
      BY <1>0, <2>2 DEF SendThrows
    <2>3. CASE GiveUp(c)
      BY <1>0, <2>3 DEF GiveUp
    <2> QED
      BY <2>1, <2>2, <2>3
  <1>2. CASE Finish(c) \/ SendThrows(c)
    <2>1. calls'[c].ownsBusy = FALSE
      BY <1>0, <1>2 DEF Finish, SendThrows, Idle
    <2>2. busy' = (busy /\ ~calls[c].ownsBusy)
      <3>1. CASE SendThrows(c) \/ calls[c].live
        BY <1>2, <3>1, Zenon DEF Finish, SendThrows
      <3>2. CASE Finish(c) /\ ~calls[c].live
        <4>1. ~calls[c].ownsBusy /\ busy' = busy
          BY <3>2, Zenon DEF BusyHasOneOwner, Finish
        <4> QED
          BY <1>0, <4>1 DEF IInv, TypeOK
      <3> QED
        BY <1>2, <3>1, <3>2
    <2> QED
      BY <1>1, <2>1, <2>2, OwnerEnds
  <1>3. ASSUME NEW r \in Rec, RefuseSend(c, r) \/ RefuseAck(c, r) \/ Mark(c, r) \/ Apply(c, r)
        PROVE  /\ busy' = busy /\ calls'[c].ownsBusy = calls[c].ownsBusy
               /\ calls'[c].live = calls[c].live /\ calls'[c].phase # "idle"
    <2>1. CASE RefuseSend(c, r)
      BY <1>0, <2>1 DEF RefuseSend, CallState, screen
    <2>2. CASE RefuseAck(c, r)
      BY <1>0, <2>2 DEF RefuseAck, CallState, screen
    <2>3. CASE Mark(c, r)
      BY <1>0, <2>3 DEF Mark, CallState, screen
    <2>4. CASE Apply(c, r)
      BY <1>0, <2>4 DEF Apply, CallState, screen
    <2> QED
      BY <1>3, <2>1, <2>2, <2>3, <2>4
  <1>4. ASSUME Post(c) \/ Deliver(c) \/ GiveUp(c)
        PROVE  /\ busy' = busy /\ calls'[c].ownsBusy = calls[c].ownsBusy
               /\ calls'[c].live = calls[c].live /\ calls'[c].phase # "idle"
    BY <1>0, <1>4 DEF Post, Deliver, GiveUp, CallState, screen
  <1> QED
    BY <1>1, <1>2, <1>3, <1>4, OwnerMoves DEF CallStep

\* An answer that arrives does not touch the flag.
LEMMA OwnersReply ==
  ASSUME IInv, BusyHasOneOwner, busy' = busy, NEW q \in wire, NEW o, NEW named,
         Reply(q, o, named)
  PROVE  BusyHasOneOwner'
  <1>1. CASE q.call = Nobody
    BY <1>1, OwnersKeep DEF Reply
  <1>2. CASE q.call # Nobody
    <2>1. q.call \in Call /\ calls[q.call] \in CallState /\ calls \in [Call -> CallState]
      BY <1>2 DEF IInv, TypeOK
    <2>2. /\ calls'[q.call].ownsBusy = calls[q.call].ownsBusy
          /\ calls'[q.call].live = calls[q.call].live
          /\ calls'[q.call].phase # "idle"
          /\ \A d \in Call \ {q.call} : calls'[d] = calls[d]
      BY <1>2, <2>1 DEF Reply, CallState
    <2> QED
      BY <2>1, <2>2, OwnerMoves
  <1> QED
    BY <1>1, <1>2

\* Nothing but the page and its sends touches the flag.
LEMMA OwnersServer ==
  ASSUME IInv, BusyHasOneOwner, ServerStep
  PROVE  BusyHasOneOwner'
  <1>1. busy' = busy
    BY DEF ServerStep, ServerSync, ServerRefusesBatch, ServerResolve, ServerResolvesLate,
           screen
  <1>2. ASSUME NEW q \in wire, ServerSync(q) \/ ServerRefusesBatch(q)
        PROVE  BusyHasOneOwner'
    <2>1. \E o, named : Reply(q, o, named)
      BY <1>2, Zenon DEF ServerSync, ServerRefusesBatch
    <2> QED
      BY <1>1, <2>1, OwnersReply
  <1>3. CASE UNCHANGED calls
    BY <1>1, <1>3, OwnersKeep
  <1> QED
    BY <1>2, <1>3 DEF ServerStep, ServerResolve, ServerResolvesLate

LEMMA OwnersInductive == IInv /\ IInv' /\ BusyHasOneOwner /\ [Next]_vars => BusyHasOneOwner'
  <1> SUFFICES ASSUME IInv, IInv', BusyHasOneOwner, [Next]_vars PROVE BusyHasOneOwner'
    OBVIOUS
  <1>1. TypeOK'
    BY DEF IInv
  <1>2. ASSUME NEW p \in Pages, OpenPage(p) PROVE BusyHasOneOwner'
    <2>1. ASSUME NEW c \in Call PROVE calls'[c].ownsBusy = FALSE
      <3>1. calls[c] \in CallState
        BY DEF IInv, TypeOK
      <3> QED
        BY <1>2, <3>1, Zenon DEF OpenPage, CallState
    <2>2. busy' = FALSE
      BY <1>2, Zenon DEF OpenPage
    <2> QED
      BY <2>1, <2>2, NoOwner
  <1>3. CASE Restart
    <2>1. busy' = FALSE /\ \A c \in Call : calls'[c].ownsBusy = FALSE
      BY <1>3 DEF Restart, Idle
    <2> QED
      BY <2>1, NoOwner
  <1>4. CASE UNCHANGED <<busy, calls>>
    BY <1>4, OwnersKeep
  <1>5. CASE Officer
    BY <1>1, <1>2, <1>4, <1>5, OwnersBegin DEF Officer, NextCandidate, Resolve
  <1>6. CASE \E c \in Call : CallStep(c)
    BY <1>1, <1>6, OwnersStep
  <1>7. CASE (\E k \in Resolver : ResolverStep(k)) \/ MountStep
    BY <1>4, <1>7 DEF ResolverStep, ResolveVerdict, Escalate, MarkResolved, ResolveReload,
                      MountStep, MountList, MountLoad, MountRecover, screen
  <1>8. CASE ServerStep
    BY <1>8, OwnersServer
  <1>9. CASE FaultStep
    BY <1>1, <1>3, <1>4, <1>9, OwnersStep DEF FaultStep, ResolveThrows, ResolveGiveUp, screen
  <1> QED
    BY <1>4, <1>5, <1>6, <1>7, <1>8, <1>9 DEF Next, vars, screen

\* However sends overlap, throw, are left behind by a page change or lost with
\* the tab, the flag that disables the buttons is up exactly while one send of
\* the page that is on the screen runs, and that send takes it down.
THEOREM BusyIsOwned == Spec => []BusyHasOneOwner
  <1>1. Init => BusyHasOneOwner
    <2> SUFFICES ASSUME Init PROVE BusyHasOneOwner
      OBVIOUS
    <2>1. ~busy /\ \A c \in Call : calls[c].ownsBusy = FALSE
      BY DEF Init, Idle
    <2> QED
      BY <2>1, Zenon DEF BusyHasOneOwner
  <1> QED
    BY <1>1, Inductive, OwnersInductive, PTL DEF Spec

----------------------------------------------------------------------------
(* The tablet implements the promise *)

PromiseStep == [Promise!PromiseNext]_(Promise!promiseVars)

\* Nothing the promise speaks of moved.
LEMMA PromiseStutters ==
  ASSUME UNCHANGED <<ledger, server, refused>>
  PROVE  PromiseStep
  BY DEF PromiseStep, Promise!promiseVars

\* The server decides, the stations say what they said.
LEMMA PromiseDecides ==
  ASSUME TypeOK, TypeOK', UNCHANGED ledger, refused \subseteq refused',
         \A r \in Rec : \/ server'[r] = server[r]
                        \/ <<server[r], server'[r]>> \in Promise!Moves
  PROVE  PromiseStep
  <1>1. server' \in [Rec -> Promise!Truth] /\ refused' \subseteq Rec
    BY DEF TypeOK, Promise!Truth
  <1>2. Promise!Decide
    BY <1>1 DEF Promise!Decide
  <1> QED
    BY <1>2 DEF PromiseStep, Promise!PromiseNext

\* Where each event leads, in the words of the promise.
LEMMA FateOfEvent ==
  ASSUME NEW e \in SyncEvent, NEW s \in AcceptedFrom(e)
  PROVE  \/ FateOf(Target(e)) = FateOf(s)
         \/ FateOf(s) = "waiting" /\ FateOf(Target(e)) = "saved"
              /\ Target(e) \in {"ACCEPTED", "DUPLICATE_REPLAY"}
         \/ FateOf(s) = "waiting" /\ FateOf(Target(e)) = "refused"
              /\ Target(e) = "REJECTED_VALIDATION"
         \/ FateOf(s) = "waiting" /\ FateOf(Target(e)) = "held" /\ Target(e) \in Held
         \/ FateOf(s) = "held" /\ FateOf(Target(e)) = "resolved"
              /\ Target(e) = "RESOLVED"
  <1>1. CASE e.type # "ACK"
    BY <1>1 DEF SyncEvent, PlainEvent, AcceptedFrom, Target, WaitingState, FateOf,
       Waiting, Sendable, Held
  <1>2. CASE e.type = "ACK"
    BY <1>2 DEF SyncEvent, AckOutcome, PlainEvent, AcceptedFrom, Target, FateOf,
       Waiting, Sendable, Held
  <1> QED
    BY <1>1, <1>2

\* An event applied to the ledger, when it is backed, is a step of the promise.
LEMMA PromiseApplies ==
  ASSUME TypeOK, TypeOK', NEW r \in Rec, NEW e \in SyncEvent, NEW s,
         ApplyEvent(r, e, s), Backed(Target(e), r), UNCHANGED <<server, refused>>
  PROVE  PromiseStep
  <1> DEFINE fate == [q \in Rec |-> FateOf(ledger[q].state)]
  <1>1. CASE ledger[r].state \notin AcceptedFrom(e)
    BY <1>1, PromiseStutters DEF ApplyEvent
  <1>2. CASE ledger[r].state \in AcceptedFrom(e)
    <2>1. ledger'[r].state = Target(e) /\ \A q \in Rec \ {r} : ledger'[q] = ledger[q]
      BY <1>2 DEF ApplyEvent, TypeOK
    <2>2. fate' = [fate EXCEPT ![r] = FateOf(Target(e))]
      BY <2>1
    <2>3. fate[r] = FateOf(ledger[r].state)
      OBVIOUS
    <2>4. CASE FateOf(Target(e)) = FateOf(ledger[r].state)
      <3>1. fate' = fate
        BY <2>2, <2>3, <2>4
      <3> QED
        BY <3>1 DEF PromiseStep, Promise!promiseVars
    <2>5. CASE Target(e) \in {"ACCEPTED", "DUPLICATE_REPLAY"} /\ FateOf(Target(e)) = "saved"
               /\ FateOf(ledger[r].state) = "waiting"
      <3>1. Promise!Save(r)
        BY <2>2, <2>3, <2>5 DEF Promise!Save, Promise!Becomes, Backed
      <3> QED
        BY <3>1 DEF PromiseStep, Promise!PromiseNext
    <2>6. CASE Target(e) = "REJECTED_VALIDATION" /\ FateOf(Target(e)) = "refused"
               /\ FateOf(ledger[r].state) = "waiting"
      <3>1. Promise!Refuse(r)
        BY <2>2, <2>3, <2>6 DEF Promise!Refuse, Promise!Becomes, Backed
      <3> QED
        BY <3>1 DEF PromiseStep, Promise!PromiseNext
    <2>7. CASE Target(e) \in Held /\ FateOf(Target(e)) = "held"
               /\ FateOf(ledger[r].state) = "waiting"
      <3>1. Promise!Hold(r)
        BY <2>2, <2>3, <2>7 DEF Promise!Hold, Promise!Becomes, Backed
      <3> QED
        BY <3>1 DEF PromiseStep, Promise!PromiseNext
    <2>8. CASE Target(e) = "RESOLVED" /\ FateOf(Target(e)) = "resolved"
               /\ FateOf(ledger[r].state) = "held"
      <3>1. Promise!Settle(r)
        BY <2>2, <2>3, <2>8 DEF Promise!Settle, Promise!Becomes, Backed
      <3> QED
        BY <3>1 DEF PromiseStep, Promise!PromiseNext
    <2> QED
      BY <1>2, <2>4, <2>5, <2>6, <2>7, <2>8, FateOfEvent
  <1> QED
    BY <1>1, <1>2

LEMMA FirstFates == FateOf("ABSENT") = "absent" /\ FateOf("LOCAL_ONLY") = "waiting"
  BY DEF FateOf, Waiting, Sendable, Held

\* Every step of the tablet is a step of the promise, or changes nothing in it.
LEMMA PromiseKeepsUp == IInv /\ IInv' /\ [Next]_vars => PromiseStep
  <1> SUFFICES ASSUME IInv, IInv', [Next]_vars PROVE PromiseStep
    OBVIOUS
  <1>0. TypeOK /\ TypeOK'
    BY DEF IInv
  <1>1. CASE Officer
    <2>1. ASSUME NEW c \in Call, NEW r \in Rec, Capture(c, r) PROVE PromiseStep
      <3> DEFINE fate == [q \in Rec |-> FateOf(ledger[q].state)]
      <3>1. ledger[r].state = "ABSENT"
        BY <2>1 DEF Capture, IsFirst, Recorded
      <3>2. /\ ledger'[r].state = "LOCAL_ONLY"
            /\ \A q \in Rec \ {r} : ledger'[q] = ledger[q]
        BY <1>0, <2>1 DEF Capture, TypeOK
      <3>3. fate[r] = "absent" /\ fate' = [fate EXCEPT ![r] = "waiting"]
        <4>1. fate[r] = "absent" /\ fate'[r] = "waiting"
          BY <3>1, <3>2, FirstFates
        <4>2. \A q \in Rec \ {r} : fate'[q] = fate[q]
          BY <3>2
        <4> QED
          BY <4>1, <4>2
      <3>4. UNCHANGED server /\ refused \subseteq refused'
        <4>1. Begin(c, [q \in Rec |-> IF q = r THEN "LOCAL_ONLY" ELSE "ABSENT"], TRUE)
          BY <2>1 DEF Capture
        <4> QED
          BY <4>1 DEF Begin
      <3>5. Promise!Record(r)
        BY <3>3, <3>4 DEF Promise!Record, Promise!Becomes
      <3> QED
        BY <3>5 DEF PromiseStep, Promise!PromiseNext
    <2>2. ASSUME NEW c \in Call, SendAgain(c) \/ SendAll(c) \/ SendWaiting(c)
          PROVE  PromiseStep
      <3>1. UNCHANGED <<ledger, server>> /\ refused \subseteq refused'
        BY <2>2 DEF SendAgain, SendAll, SendWaiting, Begin
      <3> QED
        BY <1>0, <3>1, PromiseDecides
    <2>3. CASE NextCandidate \/ (\E p \in Pages : OpenPage(p))
               \/ \E k \in Resolver, r \in Rec : Resolve(k, r)
      BY <2>3, PromiseStutters DEF NextCandidate, OpenPage, Resolve, remote
    <2> QED
      BY <1>1, <2>1, <2>2, <2>3 DEF Officer
  <1>2. ASSUME NEW c \in Call, CallStep(c) PROVE PromiseStep
    <2>1. UNCHANGED <<server, refused>>
      BY <1>2 DEF CallStep, RefuseSend, RefuseAck, Mark, Apply, Post, Deliver, Finish, remote
    <2>2. ASSUME NEW r \in Rec, RefuseSend(c, r) \/ Mark(c, r) PROVE PromiseStep
      BY <1>0, <2>1, <2>2, NoClaim, PromiseApplies DEF RefuseSend, Mark
    <2>3. ASSUME NEW r \in Rec, RefuseAck(c, r) PROVE PromiseStep
      BY <1>0, <2>1, <2>3, RefusalIsBacked, PromiseApplies DEF RefuseAck
    <2>4. ASSUME NEW r \in Rec, Apply(c, r) PROVE PromiseStep
      BY <1>0, <2>1, <2>4, AnswerIsBacked, PromiseApplies DEF Apply, AnswerFor
    <2>5. CASE Post(c) \/ Deliver(c) \/ Finish(c)
      BY <2>1, <2>5, PromiseStutters DEF Post, Deliver, Finish
    <2> QED
      BY <1>2, <2>2, <2>3, <2>4, <2>5 DEF CallStep
  <1>3. ASSUME NEW k \in Resolver, ResolverStep(k) PROVE PromiseStep
    <2>1. UNCHANGED <<server, refused>>
      BY <1>3 DEF ResolverStep, ResolveVerdict, Escalate, MarkResolved, ResolveReload, remote
    <2>2. CASE Escalate(k)
      BY <1>0, <2>1, <2>2, VerdictIsBacked, PromiseApplies DEF Escalate
    <2>3. CASE MarkResolved(k)
      BY <1>0, <2>1, <2>3, VerdictIsBacked, PromiseApplies DEF MarkResolved
    <2>4. CASE ResolveVerdict(k) \/ ResolveReload(k)
      BY <2>1, <2>4, PromiseStutters DEF ResolveVerdict, ResolveReload
    <2> QED
      BY <1>3, <2>2, <2>3, <2>4 DEF ResolverStep
  <1>4. CASE MountStep
    <2>1. CASE MountList \/ MountLoad
      BY <2>1, PromiseStutters DEF MountList, MountLoad, remote
    <2>2. ASSUME NEW r \in Rec, MountRecover(r) PROVE PromiseStep
      BY <1>0, <2>2, NoClaim, PromiseApplies DEF MountRecover, remote
    <2> QED
      BY <1>4, <2>1, <2>2 DEF MountStep
  <1>5. CASE ServerStep
    <2>1. UNCHANGED ledger /\ refused \subseteq refused'
      BY <1>5 DEF ServerStep, ServerSync, ServerRefusesBatch, ServerResolve, ServerResolvesLate
    <2>2. ASSUME NEW r \in Rec
          PROVE  server'[r] = server[r] \/ <<server[r], server'[r]>> \in Promise!Moves
      <3>1. ASSUME NEW q \in wire, ServerSync(q)
            PROVE  server'[r] = server[r] \/ <<server[r], server'[r]>> \in Promise!Moves
        BY <1>0, <3>1 DEF ServerSync, StatusFor, HeldAfter, Promise!Moves, TypeOK
      <3>2. ASSUME NEW q, SettledBy(q)
            PROVE  server'[r] = server[r] \/ <<server[r], server'[r]>> \in Promise!Moves
        BY <1>0, <3>2 DEF SettledBy, Promise!Moves, TypeOK
      <3> QED
        BY <1>5, <3>1, <3>2
        DEF ServerStep, ServerRefusesBatch, ServerResolve, ServerResolvesLate
    <2> QED
      BY <1>0, <2>1, <2>2, PromiseDecides
  <1>6. CASE FaultStep
    BY <1>6, PromiseStutters
    DEF FaultStep, SendThrows, GiveUp, ResolveThrows, ResolveGiveUp, Restart, remote
  <1>7. CASE UNCHANGED vars
    BY <1>7, PromiseStutters DEF vars, remote
  <1> QED
    BY <1>1, <1>2, <1>3, <1>4, <1>5, <1>6, <1>7 DEF Next

\* FieldSync implements StationPromise: no claim is taken back, and each is
\* backed when it is made - a record captured is never lost, decided once, and
\* resolved only when the server has settled it.
THEOREM PromiseIsKept == Spec => KeepsPromise
  <1>1. Init => Promise!PromiseInit
    BY FirstFates DEF Init, Promise!PromiseInit, Absent
  <1> QED
    BY <1>1, Inductive, PromiseKeepsUp, PTL
    DEF Spec, KeepsPromise, Promise!PromiseSpec, PromiseStep

=============================================================================
