------------------------------ MODULE EdgeProofs ------------------------------
(***************************************************************************)
(* Theorems about the two halves of the way to the edge: Transport, for    *)
(* any number of calls, any counts of retries and any statuses a service   *)
(* may answer, and SessionLife, for any number of tabs, any lifetimes and  *)
(* any bounds.                                                             *)
(***************************************************************************)
EXTENDS Transport, SessionLife, TLAPS

-----------------------------------------------------------------------------
(* Transport                                                               *)

Denies(s) == ErrorKind(s) \in Refusals
Asking == {"idle", "request", "clientWait", "screenWait"}

(* What a call's place in its layers says of its write: a layer sends it   *)
(* again only when nothing can have been applied.                          *)
Fits(s, n) ==
  /\ n <= 1 /\ (s.op \in Reads => n = 0)
  /\ \A l \in Leg : ~s.leg[l].done => s.leg[l].tries <= EdgeRetries
  /\ s.at \in Asking => n = 0 /\ s.leg = Fresh
  /\ s.at = "edge" => LET p == s.leg["primary"] IN ~p.done \/ Denies(p.status) => n = 0
  /\ s.at = "response" /\ Denies(s.answer) => n = 0
  /\ IF s.at = "settled" THEN s.kind \in Refusals => n = 0 ELSE s.kind = "none"

TInv == TransportTypeOK /\ \A c \in Call : Fits(call[c], applied[c])

LegState == [tries : 0..EdgeRetries + 1, status : {0} \cup Statuses, done : BOOLEAN]

-----------------------------------------------------------------------------
(* A refusal is one of ten statuses, and none of them applies anything.    *)
LEMMA DenialsAre ==
  ASSUME NEW s \in Int, Denies(s)
  PROVE  s \in {400, 401, 403, 404, 409, 413, 415, 422, 501, 503}
BY DEF Denies, ErrorKind, Refusals, G2G

LEMMA KindIsKind == \A s \in Int : ErrorKind(s) \in Kind \ {"none"}
BY DEF ErrorKind, Kind, Refusals

LEMMA NoEffectOfADenial ==
  ASSUME NEW c \in Call, NEW s \in Int, Denies(s), NEW n \in Effects(c, s) PROVE n = 0
<1>1. s \in {400, 401, 403, 404, 409, 413, 415, 422, 501, 503}
  BY DenialsAre
<1>2. s \notin Success /\ ~(s > 499 /\ s \notin {501, G2G})
  BY <1>1 DEF Success, G2G
<1> QED
  BY <1>2 DEF Effects

LEMMA EffectIsOne ==
  ASSUME NEW c \in Call, NEW s \in Int, NEW n \in Effects(c, s)
  PROVE  n \in {0, 1} /\ (call[c].op \in Reads => n = 0)
<1>1. CASE call[c].op \in Reads
  BY <1>1 DEF Effects
<1>2. CASE call[c].op \notin Reads
  BY <1>2 DEF Effects
<1> QED
  BY <1>1, <1>2

LEMMA FreshLegs == Fresh \in [Leg -> LegState] /\ \A l \in Leg : ~Fresh[l].done /\ Fresh[l].tries = 0
<1>1. Waiting \in LegState
  BY TransportRetries DEF Waiting, LegState
<1> QED
  BY <1>1 DEF Fresh, Waiting

LEMMA InitTInv == TransportInit => TInv
<1> SUFFICES ASSUME TransportInit PROVE TInv
  OBVIOUS
<1>1. Unused \in CallState
  BY FreshLegs, TransportRetries DEF Unused, CallState, LegState, At, Operation, Reads, Unsafe, Kind
<1>2. TransportTypeOK
  BY <1>1 DEF TransportInit, TransportTypeOK
<1>3. Fits(Unused, 0)
  BY FreshLegs, TransportRetries DEF Unused, Fits, Asking
<1> QED
  BY <1>2, <1>3 DEF TInv, TransportInit

LEMMA ToState == {"clientWait", "screenWait"} \subseteq At /\ 0 \in 0..ClientRetries /\ LegState =
  [tries : 0..EdgeRetries + 1, status : {0} \cup Statuses, done : BOOLEAN]
BY TransportRetries DEF At, LegState

(* One call moves, and its new state fits what it has applied.             *)
LEMMA OneCallMoves ==
  ASSUME TInv, NEW c \in Call, NEW s \in CallState, NEW n \in Nat, Fits(s, n),
         call' = [call EXCEPT ![c] = s], applied' = [applied EXCEPT ![c] = n],
         reached' \in [Call -> Nat], session' \in BOOLEAN
  PROVE  TInv'
<1>1. TransportTypeOK'
  BY DEF TInv, TransportTypeOK
<1>2. ASSUME NEW d \in Call PROVE Fits(call[d], applied[d])'
  <2>1. Fits(call[d], applied[d])
    BY DEF TInv
  <2>2. CASE d = c
    <3>1. call'[d] = s /\ applied'[d] = n
      BY <2>2 DEF TInv, TransportTypeOK
    <3> QED
      BY <3>1 DEF Fits, Denies
  <2>3. CASE d # c
    <3>1. call'[d] = call[d] /\ applied'[d] = applied[d]
      BY <2>3 DEF TInv, TransportTypeOK
    <3> QED
      BY <2>1, <3>1 DEF Fits, Denies
  <2> QED
    BY <2>2, <2>3
<1> QED
  BY <1>1, <1>2 DEF TInv

(* The same where nothing is asked of a service.                           *)
LEMMA OneCallTurns ==
  ASSUME TInv, NEW c \in Call, NEW s \in CallState, Fits(s, applied[c]),
         call' = [call EXCEPT ![c] = s], UNCHANGED <<session, reached, applied>>
  PROVE  TInv'
<1>1. applied[c] \in Nat /\ applied' = [applied EXCEPT ![c] = applied[c]]
  BY DEF TInv, TransportTypeOK
<1>2. reached' \in [Call -> Nat] /\ session' \in BOOLEAN
  BY DEF TInv, TransportTypeOK
<1> HIDE DEF TInv
<1> QED
  BY <1>1, <1>2, OneCallMoves

LEMMA StateOf ==
  ASSUME TInv, NEW c \in Call
  PROVE  call[c] \in CallState /\ applied[c] \in Nat /\ Fits(call[c], applied[c])
BY DEF TInv, TransportTypeOK

-----------------------------------------------------------------------------
(* The browser. An attempt ends in a kind that denies only what is so.     *)
LEMMA AttemptEnds ==
  ASSUME TInv, NEW c \in Call, NEW kind \in Kind \ {"none"},
         call[c].at \in {"request", "response"},
         kind \in Refusals => applied[c] = 0,
         EndAttempt(c, kind)
  PROVE  TInv'
<1> DEFINE s == call[c]
           again == [s EXCEPT !.at = "clientWait", !.client = @ + 1, !.leg = Fresh, !.answer = 0]
           anew == [s EXCEPT !.at = "screenWait", !.screen = @ + 1, !.client = 0,
                             !.leg = Fresh, !.answer = 0]
           over == [s EXCEPT !.at = "settled", !.kind = kind]
<1>1. s \in CallState /\ applied[c] \in Nat /\ Fits(s, applied[c])
  BY StateOf
<1>2. call' = [call EXCEPT ![c] = After(c, kind)] /\ UNCHANGED <<session, reached, applied>>
  BY DEF EndAttempt
<1>3. CASE ShouldRetry(kind, s.op) /\ s.client < ClientRetries
  <2>1. After(c, kind) = again /\ kind = "g2gUnavailable"
    BY <1>3 DEF After, ShouldRetry
  <2>2. applied[c] = 0
    BY <2>1 DEF Refusals
  <2>3. s.client + 1 \in 0..ClientRetries
    BY <1>1, <1>3, TransportRetries DEF CallState
  <2>5. again \in CallState
    BY <1>1, <2>3, FreshLegs, ToState DEF CallState
  <2>4. Fits(again, 0)
    BY <1>1, FreshLegs, TransportRetries DEF Fits, CallState, Asking
  <2> HIDE DEF again
  <2> QED
    BY <1>2, <2>1, <2>2, <2>5, <2>4, OneCallTurns
<1>4. CASE /\ ~(ShouldRetry(kind, s.op) /\ s.client < ClientRetries)
           /\ kind # "ok" /\ s.screen < ScreenRetry(s.op)
  <2>1. After(c, kind) = anew
    BY <1>4 DEF After
  <2>2. s.op \in Reads /\ s.screen + 1 \in 0..ScreenRetries
    BY <1>1, <1>4, TransportRetries DEF ScreenRetry, Reads, CallState
  <2>3. applied[c] = 0
    BY <1>1, <2>2 DEF Fits
  <2>4. anew \in CallState
    BY <1>1, <2>2, FreshLegs, ToState DEF CallState
  <2>5. Fits(anew, 0)
    BY <1>1, FreshLegs, TransportRetries DEF Fits, CallState, Asking
  <2> HIDE DEF anew
  <2> QED
    BY <1>2, <2>1, <2>3, <2>4, <2>5, OneCallTurns
<1>5. CASE /\ ~(ShouldRetry(kind, s.op) /\ s.client < ClientRetries)
           /\ ~(kind # "ok" /\ s.screen < ScreenRetry(s.op))
  <2>1. After(c, kind) = over
    BY <1>5 DEF After
  <2>2. over \in CallState
    BY <1>1 DEF CallState, At
  <2>3. Fits(over, applied[c])
    BY <1>1 DEF Fits, CallState, Asking
  <2> HIDE DEF over
  <2> QED
    BY <1>2, <2>1, <2>2, <2>3, OneCallTurns
<1> QED
  BY <1>3, <1>4, <1>5

LEMMA BrowserKeeps == ASSUME TInv, NEW c \in Call, Browser(c) PROVE TInv'
<1>1. call[c] \in CallState /\ applied[c] \in Nat /\ Fits(call[c], applied[c])
  BY StateOf
<1>2. CASE SendAgain(c)
  <2> DEFINE t == [call[c] EXCEPT !.at = "request"]
  <2>1. t \in CallState
    BY <1>1 DEF CallState, At
  <2>2. Fits(t, applied[c])
    BY <1>1, <1>2 DEF Fits, CallState, Asking, SendAgain
  <2>3. call' = [call EXCEPT ![c] = t] /\ UNCHANGED <<session, reached, applied>>
    BY <1>2 DEF SendAgain
  <2> HIDE DEF t
  <2> QED
    BY <2>1, <2>2, <2>3, OneCallTurns
<1>3. CASE LoseRequest(c) \/ LoseResponse(c)
  <2>1. "network" \in Kind \ {"none"} /\ "network" \notin Refusals
    BY DEF Kind, Refusals
  <2> QED
    BY <1>3, <2>1, AttemptEnds DEF LoseRequest, LoseResponse
<1>4. CASE ReceiveMalformed(c)
  <2>1. "malformed" \in Kind \ {"none"} /\ "malformed" \notin Refusals
    BY DEF Kind, Refusals
  <2> QED
    BY <1>4, <2>1, AttemptEnds DEF ReceiveMalformed
<1>5. CASE Receive(c)
  <2>1. CASE call[c].answer \in Success
    <3>1. "ok" \in Kind \ {"none"} /\ "ok" \notin Refusals
      BY DEF Kind, Refusals
    <3> QED
      BY <1>5, <2>1, <3>1, AttemptEnds DEF Receive
  <2>2. CASE call[c].answer \notin Success
    <3> DEFINE kind == ErrorKind(call[c].answer)
    <3>1. kind \in Kind \ {"none"}
      BY <1>1, KindIsKind DEF CallState
    <3>2. kind \in Refusals => applied[c] = 0
      BY <1>1, <1>5 DEF Fits, Denies, Receive
    <3>3. EndAttempt(c, kind) /\ call[c].at = "response"
      BY <1>5, <2>2 DEF Receive
    <3> HIDE DEF kind
    <3> QED
      BY <3>1, <3>2, <3>3, AttemptEnds
  <2> QED
    BY <2>1, <2>2
<1> QED
  BY <1>2, <1>3, <1>4, <1>5 DEF Browser

-----------------------------------------------------------------------------
(* The edge                                                                *)

LEMMA AskKeeps == ASSUME TInv, NEW c \in Call, NEW l \in Leg, AskService(c, l) PROVE TInv'
<1>1. call[c] \in CallState /\ applied[c] \in Nat /\ Fits(call[c], applied[c])
  BY StateOf
<1>0. PICK s \in Statuses : \E n \in Effects(c, s) :
        /\ call' = [call EXCEPT ![c].leg[l] = LegAfter(c, l, s)]
        /\ applied' = [applied EXCEPT ![c] = @ + n]
  BY DEF AskService
<1>2. PICK n \in Effects(c, s) :
        /\ call' = [call EXCEPT ![c].leg[l] = LegAfter(c, l, s)]
        /\ applied' = [applied EXCEPT ![c] = @ + n]
  BY <1>0
<1>3. call[c].at = "edge" /\ l \in Legs(call[c].op) /\ ~call[c].leg[l].done
  BY DEF AskService
<1> DEFINE p == LegAfter(c, l, s)
           t == [call[c] EXCEPT !.leg[l] = p]
           total == applied[c] + n
<1>4. s \in Int
  BY TransportStatuses
<1>5. call[c].leg \in [Leg -> LegState] /\ call[c].leg[l].tries \in 0..EdgeRetries
  BY <1>1, <1>3, TransportRetries DEF CallState, LegState, Fits
<1>6. p \in LegState /\ p.status = s
  <2>1. call[c].leg[l].tries + 1 \in 0..EdgeRetries + 1
    BY <1>5, TransportRetries
  <2>2. (~(s = G2G /\ EdgeRetryable(call[c].op) /\ call[c].leg[l].tries < EdgeRetries)) \in BOOLEAN
    OBVIOUS
  <2> HIDE DEF t
  <2> QED
    BY <2>1, <2>2, Zenon DEF LegAfter, LegState
<1>7. ~p.done => p.tries <= EdgeRetries /\ s = G2G
  <2>1. ~p.done => s = G2G /\ call[c].leg[l].tries < EdgeRetries
    <3>1. p.done = ~(s = G2G /\ EdgeRetryable(call[c].op) /\ call[c].leg[l].tries < EdgeRetries)
      BY Zenon DEF LegAfter
    <3> QED
      BY <3>1, Zenon
  <2>2. p.tries = call[c].leg[l].tries + 1
    BY DEF LegAfter
  <2> HIDE DEF p, t
  <2> QED
    BY <1>5, <2>1, <2>2, TransportRetries
<1>8. t \in CallState
  <2>1. [call[c].leg EXCEPT ![l] = p] \in [Leg -> LegState]
    BY <1>5, <1>6
  <2>2. t = [call[c] EXCEPT !.leg = [call[c].leg EXCEPT ![l] = p]]
    OBVIOUS
  <2> HIDE DEF p, t
  <2> QED
    BY <1>1, <2>1, <2>2 DEF CallState, LegState
<1>9. t.op = call[c].op /\ t.at = "edge" /\ t.leg = [call[c].leg EXCEPT ![l] = p] /\ t.kind = call[c].kind
  BY <1>1, <1>3 DEF CallState
<1>10. n \in {0, 1} /\ (call[c].op \in Reads => n = 0) /\ (Denies(s) => n = 0)
  BY <1>4, EffectIsOne, NoEffectOfADenial
<1>14. \A k \in Leg : ~t.leg[k].done => t.leg[k].tries <= EdgeRetries
  <2> SUFFICES ASSUME NEW k \in Leg, ~t.leg[k].done PROVE t.leg[k].tries <= EdgeRetries
    OBVIOUS
  <2>1. CASE k = l
    <3>1. t.leg[k] = p
      BY <1>5, <1>9, <2>1
    <3> HIDE DEF p, t
    <3> QED
      BY <1>7, <3>1
  <2>2. CASE k # l
    <3>1. t.leg[k] = call[c].leg[k]
      BY <1>5, <1>9, <2>2
    <3> HIDE DEF t
    <3> QED
      BY <1>1, <3>1 DEF Fits
  <2> QED
    BY <2>1, <2>2
<1>11. Fits(t, total)
  <2>1. CASE call[c].op \in Reads
    <3>1. total = 0
      BY <1>1, <1>10, <2>1 DEF Fits
    <3> HIDE DEF total, t, p
    <3> QED
      BY <1>1, <1>3, <1>9, <1>14, <3>1 DEF Fits, Asking
  <2>2. CASE call[c].op \notin Reads
    <3>1. l = "primary"
      BY <1>3, <2>2 DEF Legs, Reads
    <3>2. applied[c] = 0
      BY <1>1, <1>3, <3>1 DEF Fits
    <3>3. Denies(G2G)
      BY DEF Denies, ErrorKind, Refusals
    <3>4. ~p.done \/ Denies(p.status) => total = 0
      BY <1>6, <1>7, <1>10, <3>2, <3>3
    <3>5. total <= 1 /\ t.leg["primary"] = p
      BY <1>5, <1>9, <1>10, <3>1, <3>2
    <3> HIDE DEF total, t, p
    <3> QED
      BY <1>1, <1>3, <1>9, <1>14, <2>2, <3>4, <3>5 DEF Fits, Asking
  <2> QED
    BY <2>1, <2>2
<1>12. call' = [call EXCEPT ![c] = t] /\ applied' = [applied EXCEPT ![c] = total] /\ total \in Nat
  BY <1>1, <1>2, <1>10
<1>13. reached' \in [Call -> Nat] /\ session' \in BOOLEAN
  BY DEF AskService, TInv, TransportTypeOK
<1> HIDE DEF t, p, total
<1> QED
  BY <1>8, <1>11, <1>12, <1>13, OneCallMoves

LEMMA EdgeKeeps == ASSUME TInv, NEW c \in Call, Edge(c) PROVE TInv'
<1>1. call[c] \in CallState /\ applied[c] \in Nat /\ Fits(call[c], applied[c])
  BY StateOf
<1>2. CASE Refuse(c)
  <2>1. PICK s \in EdgeRefusals(call[c].op) :
          call' = [call EXCEPT ![c].at = "response", ![c].answer = s]
    BY <1>2 DEF Refuse
  <2> DEFINE t == [call[c] EXCEPT !.at = "response", !.answer = s]
  <2>2. s \in 200..599
    BY DEF EdgeRefusals
  <2>3. t \in CallState
    BY <1>1, <2>2 DEF CallState, At
  <2>4. Fits(t, applied[c])
    BY <1>1, <1>2 DEF Fits, CallState, Asking, Refuse
  <2>5. call' = [call EXCEPT ![c] = t] /\ UNCHANGED <<session, reached, applied>>
    BY <1>2, <2>1 DEF Refuse
  <2> HIDE DEF t
  <2> QED
    BY <2>3, <2>4, <2>5, OneCallTurns
<1>3. CASE Admit(c)
  <2> DEFINE t == [call[c] EXCEPT !.at = "edge"]
  <2>1. t \in CallState
    BY <1>1 DEF CallState, At
  <2>2. Fits(t, applied[c])
    BY <1>1, <1>3 DEF Fits, CallState, Asking, Admit
  <2>3. call' = [call EXCEPT ![c] = t] /\ UNCHANGED <<session, reached, applied>>
    BY <1>3 DEF Admit
  <2> HIDE DEF t
  <2> QED
    BY <2>1, <2>2, <2>3, OneCallTurns
<1>4. CASE \E l \in Leg : AskService(c, l)
  BY <1>4, AskKeeps
<1>5. CASE Answer(c)
  <2> DEFINE t == [call[c] EXCEPT !.at = "response", !.answer = Composed(c)]
  <2>1. Composed(c) \in {0} \cup 200..599
    BY <1>1, TransportStatuses DEF Composed, CallState, Leg
  <2>2. t \in CallState
    BY <1>1, <2>1 DEF CallState, At
  <2>3. call[c].at = "edge"
    BY <1>5 DEF Answer
  <2>4. Fits(t, applied[c])
    BY <1>1, <2>3 DEF Fits, CallState, Asking, Composed
  <2>5. call' = [call EXCEPT ![c] = t] /\ UNCHANGED <<session, reached, applied>>
    BY <1>5 DEF Answer
  <2> HIDE DEF t
  <2> QED
    BY <2>2, <2>4, <2>5, OneCallTurns
<1> QED
  BY <1>2, <1>3, <1>4, <1>5 DEF Edge

LEMMA TransportStep == ASSUME TInv, [TransportNext]_transportVars PROVE TInv'
<1>1. ASSUME NEW c \in Call, NEW op \in Operation, Press(c, op) PROVE TInv'
  <2> DEFINE t == [call[c] EXCEPT !.at = "request", !.op = op]
  <2>1. call[c] \in CallState /\ applied[c] \in Nat /\ Fits(call[c], applied[c])
    BY StateOf
  <2>2. t \in CallState
    BY <2>1 DEF CallState, At
  <2>3. Fits(t, applied[c])
    BY <1>1, <2>1 DEF Fits, CallState, Asking, Press
  <2>4. call' = [call EXCEPT ![c] = t] /\ UNCHANGED <<session, reached, applied>>
    BY <1>1 DEF Press
  <2> HIDE DEF t
  <2> QED
    BY <2>2, <2>3, <2>4, OneCallTurns
<1>2. CASE EndSession
  BY <1>2 DEF EndSession, TInv, TransportTypeOK, Fits, Denies
<1>3. CASE UNCHANGED transportVars
  BY <1>3 DEF transportVars, TInv, TransportTypeOK, Fits, Denies
<1> QED
  BY <1>1, <1>2, <1>3, BrowserKeeps, EdgeKeeps DEF TransportNext

-----------------------------------------------------------------------------
(* Theorems                                                                *)

LEMMA TransportHolds == TransportSpec => []TInv
<1>1. TransportInit => TInv
  BY InitTInv
<1>2. TInv /\ [TransportNext]_transportVars => TInv'
  BY TransportStep
<1> QED
  BY <1>1, <1>2, PTL DEF TransportSpec

(* A call keeps its types through the three layers of retry (transport.ts, *)
(* retry.ts, the edge's upstream.ts).                                      *)
THEOREM TransportTypeCorrect == TransportSpec => []TransportTypeOK
  BY TransportHolds, PTL DEF TInv

(* An error that denies a write is never the end of one that was applied,  *)
(* and none is applied twice, whatever is lost and however often the       *)
(* layers ask again (retry.ts, errors.ts, upstream.ts).                    *)
THEOREM DenialsAreTrue == TransportSpec => []RefusalMeansNotApplied
<1>1. TInv => RefusalMeansNotApplied
  <2> SUFFICES ASSUME TInv, NEW c \in Call
               PROVE  applied[c] <= 1 /\ (call[c].kind \in Refusals => applied[c] = 0)
    BY DEF RefusalMeansNotApplied
  <2>1. Fits(call[c], applied[c])
    BY StateOf
  <2>2. "none" \notin Refusals
    BY DEF Refusals
  <2> QED
    BY <2>1, <2>2 DEF Fits
<1> QED
  BY <1>1, TransportHolds, PTL

-----------------------------------------------------------------------------
(* The budget of a call: what each layer may spend of it                   *)

EdgeTries(op) == IF EdgeRetryable(op) THEN EdgeRetries + 1 ELSE 1
ClientTries(op) == IF RetryOnG2G(op) THEN ClientRetries + 1 ELSE 1
PerAttempt(op) == IF op = "detail" THEN 2 * EdgeTries(op) ELSE EdgeTries(op)
PerScreen(op) == ClientTries(op) * PerAttempt(op)

(* The most that the attempts already ended have cost.                     *)
Ended(op, screen, client) == screen * PerScreen(op) + client * PerAttempt(op)

(* A call that has come this far can have reached the services n times.    *)
Affords(s, n) ==
  /\ n <= Ended(s.op, s.screen, s.client) + s.leg["primary"].tries + s.leg["history"].tries
  /\ s.screen <= ScreenRetry(s.op) /\ s.client < ClientTries(s.op)
  /\ s.op # "detail" => s.leg["history"].tries = 0
  /\ \A l \in Leg : /\ s.leg[l].tries <= EdgeTries(s.op)
                    /\ ~s.leg[l].done => s.leg[l].tries < EdgeTries(s.op)
  /\ s.at = "idle" => n = 0 /\ s.screen = 0 /\ s.client = 0

AllAfford == \A c \in Call : Affords(call[c], reached[c])

LEMMA Grows1 == ASSUME NEW a \in Nat, NEW b \in Nat PROVE (a + 1) * b = a * b + b /\ a * b \in Nat
  OBVIOUS

LEMMA TimesGrow == ASSUME NEW a \in Nat, NEW b \in Nat, NEW d \in Nat, a <= b PROVE a * d <= b * d
  OBVIOUS

LEMMA TriesAreNat ==
  ASSUME NEW op \in Operation
  PROVE  /\ EdgeTries(op) \in Nat \ {0} /\ ClientTries(op) \in Nat \ {0}
         /\ PerAttempt(op) \in Nat /\ PerScreen(op) \in Nat /\ ScreenRetry(op) \in Nat
<1>1. EdgeTries(op) \in Nat \ {0} /\ ClientTries(op) \in Nat \ {0} /\ ScreenRetry(op) \in Nat
  BY TransportRetries DEF EdgeTries, ClientTries, ScreenRetry
<1>2. PerAttempt(op) \in Nat
  BY <1>1 DEF PerAttempt
<1> QED
  BY <1>1, <1>2, Grows1 DEF PerScreen

(* One more attempt costs what an attempt costs ...                        *)
LEMMA AttemptCosts ==
  ASSUME NEW op \in Operation, NEW m \in Nat, NEW k \in Nat
  PROVE  /\ Ended(op, m, k) \in Nat
         /\ Ended(op, m, k + 1) = Ended(op, m, k) + PerAttempt(op)
<1> DEFINE a == PerAttempt(op)
           b == PerScreen(op)
<1>1. a \in Nat /\ b \in Nat
  BY TriesAreNat
<1> HIDE DEF a, b
<1>2. (k + 1) * a = k * a + a /\ k * a \in Nat /\ m * b \in Nat
  BY <1>1, Grows1
<1>3. Ended(op, m, k) = m * b + k * a /\ Ended(op, m, k + 1) = m * b + (k + 1) * a
  BY DEF Ended, a, b
<1> QED
  BY <1>1, <1>2, <1>3 DEF a

(* ... a screen's round costs what its attempts do ...                     *)
LEMMA RoundCosts ==
  ASSUME NEW op \in Operation, NEW m \in Nat, NEW k \in Nat, k < ClientTries(op)
  PROVE  Ended(op, m, k) + PerAttempt(op) <= Ended(op, m + 1, 0)
<1> DEFINE a == PerAttempt(op)
           b == PerScreen(op)
           t == ClientTries(op)
<1>1. a \in Nat /\ b \in Nat /\ t \in Nat /\ b = t * a /\ k + 1 <= t
  BY TriesAreNat DEF PerScreen
<1>2. Ended(op, m, k) = m * b + k * a /\ Ended(op, m + 1, 0) = (m + 1) * b + 0 * a
  BY DEF Ended
<1> HIDE DEF a, b, t
<1>3. (k + 1) * a <= t * a
  <2>1. k + 1 \in Nat
    OBVIOUS
  <2> QED
    BY <1>1, <2>1, TimesGrow
<1>4. (k + 1) * a = k * a + a /\ k * a \in Nat /\ (m + 1) * b = m * b + b /\ m * b \in Nat
  BY <1>1, Grows1
<1>5. 0 * a = 0
  BY <1>1
<1>6. Ended(op, m, k) + a <= Ended(op, m + 1, 0)
  BY <1>1, <1>2, <1>3, <1>4, <1>5
<1> QED
  BY <1>6 DEF a

(* ... and all the rounds together cost the budget.                        *)
LEMMA BudgetIsSpent ==
  ASSUME NEW op \in Operation, NEW m \in Nat, m <= ScreenRetry(op)
  PROVE  Ended(op, m + 1, 0) <= Budget(op) /\ Budget(op) \in Nat
<1> DEFINE b == PerScreen(op)
           r == ScreenRetry(op)
<1>1. b \in Nat /\ r \in Nat /\ m + 1 \in Nat /\ r + 1 \in Nat
  BY TriesAreNat
<1>2. Ended(op, m + 1, 0) = (m + 1) * b
  <2>1. PerAttempt(op) \in Nat
    BY TriesAreNat
  <2>2. (m + 1) * b \in Nat
    <3> HIDE DEF b
    <3> QED
      BY <1>1, Grows1
  <2> QED
    BY <2>1, <2>2 DEF Ended
<1>3. (r + 1) * b = Budget(op)
  <2> DEFINE e == EdgeRetries + 1
             k == ClientRetries + 1
             n == ScreenRetries + 1
  <2>1. e \in Nat /\ k \in Nat /\ n \in Nat
    BY TransportRetries
  <2>2. CASE op = "detail"
    <3>1. (r + 1) * b = n * (k * (2 * e)) /\ Budget(op) = 2 * e * k * n
      BY <2>2 DEF PerScreen, PerAttempt, EdgeTries, ClientTries, ScreenRetry, EdgeRetryable,
         RetryOnG2G, Reads, Budget
    <3> HIDE DEF e, k, n
    <3>2. n * (k * (2 * e)) = 2 * e * k * n
      BY <2>1
    <3> QED
      BY <3>1, <3>2
  <2>3. CASE op = "read"
    <3>1. (r + 1) * b = n * (k * e) /\ Budget(op) = e * k * n
      BY <2>3 DEF PerScreen, PerAttempt, EdgeTries, ClientTries, ScreenRetry, EdgeRetryable,
         RetryOnG2G, Reads, Budget
    <3> HIDE DEF e, k, n
    <3>2. n * (k * e) = e * k * n
      BY <2>1
    <3> QED
      BY <3>1, <3>2
  <2>4. CASE op = "poll"
    <3>1. (r + 1) * b = 1 * (k * e) /\ Budget(op) = e * k
      BY <2>4 DEF PerScreen, PerAttempt, EdgeTries, ClientTries, ScreenRetry, EdgeRetryable,
         RetryOnG2G, Reads, Budget
    <3> HIDE DEF e, k, n
    <3>2. 1 * (k * e) = e * k
      BY <2>1
    <3> QED
      BY <3>1, <3>2
  <2>5. CASE op \in {"ask", "verify", "write"}
    BY <2>1, <2>5, TransportRetries DEF PerScreen, PerAttempt, EdgeTries, ClientTries,
       ScreenRetry, EdgeRetryable, RetryOnG2G, Reads, Budget
  <2> QED
    BY <2>2, <2>3, <2>4, <2>5 DEF Operation, Reads, Unsafe
<1>4. m + 1 <= r + 1
  BY <1>1
<1> HIDE DEF b, r
<1>5. (m + 1) * b <= (r + 1) * b /\ (r + 1) * b \in Nat
  BY <1>1, <1>4, TimesGrow, Grows1
<1> QED
  BY <1>2, <1>3, <1>5

(* An attempt costs no more than its legs may be tried.                    *)
LEMMA LegsCost ==
  ASSUME TInv, NEW c \in Call, Affords(call[c], reached[c])
  PROVE  /\ call[c].op \in Operation /\ call[c].screen \in Nat /\ call[c].client \in Nat
         /\ \A l \in Leg : call[c].leg[l] \in LegState /\ call[c].leg[l].tries \in Nat
         /\ call[c].leg["primary"].tries + call[c].leg["history"].tries <= PerAttempt(call[c].op)
         /\ reached[c] \in Nat
         /\ reached[c] <= Ended(call[c].op, call[c].screen, call[c].client)
                            + PerAttempt(call[c].op)
<1> DEFINE s == call[c]
<1>1. s \in CallState /\ reached[c] \in Nat
  BY StateOf DEF TInv, TransportTypeOK
<1>2. s.op \in Operation /\ s.screen \in Nat /\ s.client \in Nat /\ s.leg \in [Leg -> LegState]
  BY <1>1, TransportRetries DEF CallState, LegState
<1>3. \A l \in Leg : s.leg[l] \in LegState /\ s.leg[l].tries \in Nat
  BY <1>2, TransportRetries DEF LegState
<1>4. s.leg["primary"].tries + s.leg["history"].tries <= PerAttempt(s.op)
  <2>1. EdgeTries(s.op) \in Nat
    BY <1>2, TriesAreNat
  <2>2. s.leg["primary"].tries <= EdgeTries(s.op) /\ s.leg["history"].tries <= EdgeTries(s.op)
    BY DEF Affords, Leg
  <2>3. s.leg["primary"].tries \in Nat /\ s.leg["history"].tries \in Nat
    BY <1>3 DEF Leg
  <2>4. s.op # "detail" => s.leg["history"].tries = 0
    BY DEF Affords
  <2> HIDE DEF s
  <2> QED
    BY <2>1, <2>2, <2>3, <2>4 DEF PerAttempt
<1>5. Ended(s.op, s.screen, s.client) \in Nat /\ PerAttempt(s.op) \in Nat
  BY <1>2, AttemptCosts, TriesAreNat
<1>6. reached[c] <= Ended(s.op, s.screen, s.client)
                      + s.leg["primary"].tries + s.leg["history"].tries
  BY DEF Affords
<1>7. s.leg["primary"].tries \in Nat /\ s.leg["history"].tries \in Nat
  BY <1>3 DEF Leg
<1> HIDE DEF s
<1>8. reached[c] <= Ended(s.op, s.screen, s.client) + PerAttempt(s.op)
  BY <1>1, <1>4, <1>5, <1>6, <1>7
<1> QED
  BY <1>1, <1>2, <1>3, <1>4, <1>8 DEF s

LEMMA AffordsBudget == ASSUME TInv, AllAfford PROVE WithinBudget
<1> SUFFICES ASSUME NEW c \in Call PROVE reached[c] <= Budget(call[c].op)
  BY Zenon DEF WithinBudget
<1> DEFINE op == call[c].op
           m == call[c].screen
           k == call[c].client
<1>1. op \in Operation /\ m \in Nat /\ k \in Nat /\ reached[c] \in Nat
      /\ reached[c] <= Ended(op, m, k) + PerAttempt(op)
  BY LegsCost DEF AllAfford
<1>2. m <= ScreenRetry(op) /\ k < ClientTries(op)
  BY DEF AllAfford, Affords
<1> HIDE DEF op, m, k
<1>3. Ended(op, m, k) + PerAttempt(op) <= Ended(op, m + 1, 0)
  BY <1>1, <1>2, RoundCosts
<1>4. Ended(op, m + 1, 0) <= Budget(op) /\ Budget(op) \in Nat
  BY <1>1, <1>2, BudgetIsSpent
<1>5. Ended(op, m, k) \in Nat /\ Ended(op, m + 1, 0) \in Nat /\ PerAttempt(op) \in Nat
  BY <1>1, AttemptCosts, TriesAreNat
<1> QED
  BY <1>1, <1>3, <1>4, <1>5 DEF op

(* One call moves and can afford where it is; the others are untouched.    *)
LEMMA OneCallAffords ==
  ASSUME TInv, AllAfford, NEW c \in Call, NEW s, NEW n, Affords(s, n),
         call' = [call EXCEPT ![c] = s], reached' = [reached EXCEPT ![c] = n]
  PROVE  AllAfford'
<1> SUFFICES ASSUME NEW d \in Call PROVE Affords(call[d], reached[d])'
  BY DEF AllAfford
<1>1. call'[d] = (IF d = c THEN s ELSE call[d]) /\ reached'[d] = (IF d = c THEN n ELSE reached[d])
  BY DEF TInv, TransportTypeOK
<1> QED
  BY <1>1 DEF Affords, AllAfford, Ended, EdgeTries, ClientTries, PerAttempt, PerScreen

LEMMA OneCallTurnsAffords ==
  ASSUME TInv, AllAfford, NEW c \in Call, NEW s, Affords(s, reached[c]),
         call' = [call EXCEPT ![c] = s], UNCHANGED reached
  PROVE  AllAfford'
<1>1. reached' = [reached EXCEPT ![c] = reached[c]]
  BY DEF TInv, TransportTypeOK
<1> QED
  BY <1>1, OneCallAffords

LEMMA FreshIsPaid ==
  ASSUME NEW op \in Operation
  PROVE  /\ Fresh["primary"].tries = 0 /\ Fresh["history"].tries = 0
         /\ \A l \in Leg : Fresh[l].tries <= EdgeTries(op) /\ Fresh[l].tries < EdgeTries(op)
<1>1. EdgeTries(op) \in Nat \ {0}
  BY TriesAreNat
<1> QED
  BY <1>1, FreshLegs DEF Leg

(* An attempt that ends has cost what an attempt may.                      *)
LEMMA AttemptAffords ==
  ASSUME TInv, AllAfford, NEW c \in Call, NEW kind, EndAttempt(c, kind),
         call[c].at \in {"request", "response"}
  PROVE  AllAfford'
<1> DEFINE s == call[c]
           op == s.op
           m == s.screen
           k == s.client
           again == [s EXCEPT !.at = "clientWait", !.client = @ + 1, !.leg = Fresh, !.answer = 0]
           anew == [s EXCEPT !.at = "screenWait", !.screen = @ + 1, !.client = 0,
                             !.leg = Fresh, !.answer = 0]
           over == [s EXCEPT !.at = "settled", !.kind = kind]
<1>1. call' = [call EXCEPT ![c] = After(c, kind)] /\ UNCHANGED reached
  BY DEF EndAttempt
<1>2. Affords(s, reached[c]) /\ s \in CallState
  BY StateOf DEF AllAfford
<1>3. op \in Operation /\ m \in Nat /\ k \in Nat /\ reached[c] \in Nat
      /\ reached[c] <= Ended(op, m, k) + PerAttempt(op)
  BY LegsCost DEF AllAfford
<1>4. m <= ScreenRetry(op) /\ k < ClientTries(op)
  BY <1>2 DEF Affords
<1>5. CASE ShouldRetry(kind, op) /\ k < ClientRetries
  <2>1. After(c, kind) = again
    BY <1>5 DEF After
  <2>2. again.at = "clientWait" /\ again.op = op /\ again.screen = m /\ again.client = k + 1
        /\ again.leg = Fresh
    BY <1>2 DEF CallState
  <2>3. k + 1 < ClientTries(op)
    BY <1>3, <1>5, TransportRetries DEF ClientTries, ShouldRetry
  <2> HIDE DEF again, s, op, m, k
  <2>4. reached[c] <= Ended(op, m, k + 1) /\ Ended(op, m, k + 1) \in Nat
    <3>1. Ended(op, m, k + 1) = Ended(op, m, k) + PerAttempt(op)
      BY <1>3, AttemptCosts
    <3>2. Ended(op, m, k) \in Nat /\ PerAttempt(op) \in Nat
      BY <1>3, AttemptCosts, TriesAreNat
    <3> QED
      BY <1>3, <3>1, <3>2
  <2>5. Affords(again, reached[c])
    BY <1>3, <1>4, <2>2, <2>3, <2>4, FreshIsPaid DEF Affords
  <2> QED
    BY <1>1, <2>1, <2>5, OneCallTurnsAffords
<1>6. CASE /\ ~(ShouldRetry(kind, op) /\ k < ClientRetries)
           /\ kind # "ok" /\ m < ScreenRetry(op)
  <2>1. After(c, kind) = anew
    BY <1>6 DEF After
  <2>2. anew.at = "screenWait" /\ anew.op = op /\ anew.screen = m + 1 /\ anew.client = 0
        /\ anew.leg = Fresh
    BY <1>2 DEF CallState
  <2>3. m + 1 <= ScreenRetry(op) /\ 0 < ClientTries(op)
    BY <1>3, <1>6, TriesAreNat
  <2>4. reached[c] <= Ended(op, m + 1, 0) /\ Ended(op, m + 1, 0) \in Nat
    <3> HIDE DEF s, op, m, k
    <3>1. Ended(op, m, k) + PerAttempt(op) <= Ended(op, m + 1, 0)
      BY <1>3, <1>4, RoundCosts
    <3>2. Ended(op, m, k) \in Nat /\ Ended(op, m + 1, 0) \in Nat /\ PerAttempt(op) \in Nat
      BY <1>3, AttemptCosts, TriesAreNat
    <3> QED
      BY <1>3, <3>1, <3>2
  <2> HIDE DEF anew, s, op, m, k
  <2>5. Affords(anew, reached[c])
    BY <1>3, <2>2, <2>3, <2>4, FreshIsPaid DEF Affords
  <2> QED
    BY <1>1, <2>1, <2>5, OneCallTurnsAffords
<1>7. CASE /\ ~(ShouldRetry(kind, op) /\ k < ClientRetries)
           /\ ~(kind # "ok" /\ m < ScreenRetry(op))
  <2>1. After(c, kind) = over
    BY <1>7 DEF After
  <2>2. over.at = "settled" /\ over.op = op /\ over.screen = m /\ over.client = k
        /\ over.leg = s.leg
    BY <1>2 DEF CallState
  <2> HIDE DEF over
  <2>3. Affords(over, reached[c])
    BY <1>2, <2>2 DEF Affords
  <2> QED
    BY <1>1, <2>1, <2>3, OneCallTurnsAffords
<1> QED
  BY <1>5, <1>6, <1>7

LEMMA BrowserAffords == ASSUME TInv, AllAfford, NEW c \in Call, Browser(c) PROVE AllAfford'
<1>1. CASE SendAgain(c)
  <2> DEFINE t == [call[c] EXCEPT !.at = "request"]
  <2>1. Affords(call[c], reached[c]) /\ call[c] \in CallState
    BY StateOf DEF AllAfford
  <2>2. t.at = "request" /\ t.op = call[c].op /\ t.screen = call[c].screen
        /\ t.client = call[c].client /\ t.leg = call[c].leg
    BY <2>1 DEF CallState
  <2>3. call' = [call EXCEPT ![c] = t] /\ UNCHANGED reached
    BY <1>1 DEF SendAgain
  <2> HIDE DEF t
  <2>4. Affords(t, reached[c])
    BY <2>1, <2>2 DEF Affords
  <2> QED
    BY <2>3, <2>4, OneCallTurnsAffords
<1>2. CASE LoseRequest(c) \/ LoseResponse(c) \/ ReceiveMalformed(c) \/ Receive(c)
  BY <1>2, AttemptAffords DEF LoseRequest, LoseResponse, ReceiveMalformed, Receive
<1> QED
  BY <1>1, <1>2 DEF Browser

(* A leg asks once more: it had not been tried as often as it may.         *)
LEMMA AskAffords ==
  ASSUME TInv, AllAfford, NEW c \in Call, NEW l \in Leg, AskService(c, l)
  PROVE  AllAfford'
<1>1. PICK s \in Statuses : call' = [call EXCEPT ![c].leg[l] = LegAfter(c, l, s)]
  BY DEF AskService
<1>2. reached' = [reached EXCEPT ![c] = reached[c] + 1]
  BY DEF AskService
<1> DEFINE p == LegAfter(c, l, s)
           t == [call[c] EXCEPT !.leg[l] = p]
           op == call[c].op
           old == call[c].leg
<1>3. Affords(call[c], reached[c]) /\ call[c] \in CallState /\ Fits(call[c], applied[c])
  BY StateOf DEF AllAfford
<1>4. op \in Operation /\ \A k \in Leg : old[k].tries \in Nat
  BY LegsCost DEF AllAfford
<1>5. old \in [Leg -> LegState]
  BY <1>3 DEF CallState, LegState
<1>6. t.op = op /\ t.at = "edge" /\ t.leg = [old EXCEPT ![l] = p]
      /\ t.screen = call[c].screen /\ t.client = call[c].client
  BY <1>3 DEF CallState, AskService
<1>7. l \in Legs(op) /\ ~old[l].done /\ old[l].tries < EdgeTries(op)
  BY <1>3 DEF AskService, Affords
<1>8. p.tries = old[l].tries + 1
  BY DEF LegAfter
<1>9. ~p.done => p.tries < EdgeTries(op)
  <2>1. p.done = ~(s = G2G /\ EdgeRetryable(op) /\ old[l].tries < EdgeRetries)
    BY Zenon DEF LegAfter
  <2>2. ~p.done => EdgeRetryable(op) /\ old[l].tries < EdgeRetries
    BY <2>1, Zenon
  <2> HIDE DEF p, t, op, old
  <2> QED
    BY <1>4, <1>8, <2>2, TransportRetries DEF EdgeTries
<1>10. EdgeTries(op) \in Nat
  BY <1>4, TriesAreNat
<1>11. t.leg[l] = p /\ \A k \in Leg \ {l} : t.leg[k] = old[k]
  BY <1>5, <1>6
<1>12. Ended(op, call[c].screen, call[c].client) \in Nat /\ reached[c] \in Nat
  BY LegsCost, AttemptCosts DEF AllAfford
<1>13. /\ reached[c] <= Ended(op, call[c].screen, call[c].client)
                          + old["primary"].tries + old["history"].tries
       /\ call[c].screen <= ScreenRetry(op) /\ call[c].client < ClientTries(op)
       /\ op # "detail" => old["history"].tries = 0
       /\ \A k \in Leg : /\ old[k].tries <= EdgeTries(op)
                         /\ ~old[k].done => old[k].tries < EdgeTries(op)
  BY <1>3 DEF Affords
<1>14. op # "detail" => l = "primary"
  BY <1>7 DEF Legs
<1>15. call' = [call EXCEPT ![c] = t]
  BY <1>1
<1> HIDE DEF p, t, op, old
<1>16. t.leg["primary"].tries + t.leg["history"].tries
         = old["primary"].tries + old["history"].tries + 1
  BY <1>4, <1>8, <1>11 DEF Leg
<1>17. \A k \in Leg : t.leg[k].tries \in Nat
  BY <1>4, <1>8, <1>11
<1>18. reached[c] + 1 <= Ended(t.op, t.screen, t.client)
                           + t.leg["primary"].tries + t.leg["history"].tries
  BY <1>4, <1>6, <1>12, <1>13, <1>16, <1>17 DEF Leg
<1>19. t.op # "detail" => t.leg["history"].tries = 0
  BY <1>6, <1>11, <1>13, <1>14 DEF Leg
<1>20. \A k \in Leg : /\ t.leg[k].tries <= EdgeTries(t.op)
                      /\ ~t.leg[k].done => t.leg[k].tries < EdgeTries(t.op)
  BY <1>4, <1>6, <1>7, <1>8, <1>9, <1>10, <1>11, <1>13
<1>21. Affords(t, reached[c] + 1)
  BY <1>6, <1>13, <1>18, <1>19, <1>20 DEF Affords
<1> QED
  BY <1>2, <1>15, <1>21, OneCallAffords

(* A call that only comes to the edge, or to an answer, spends nothing.    *)
LEMMA ComingAffords ==
  ASSUME TInv, AllAfford, NEW c \in Call, NEW t, t.at # "idle", t.op = call[c].op,
         t.screen = call[c].screen, t.client = call[c].client, t.leg = call[c].leg,
         call' = [call EXCEPT ![c] = t], UNCHANGED reached
  PROVE  AllAfford'
<1>1. Affords(t, reached[c])
  BY DEF Affords, AllAfford
<1> QED
  BY <1>1, OneCallTurnsAffords

LEMMA EdgeAffords == ASSUME TInv, AllAfford, NEW c \in Call, Edge(c) PROVE AllAfford'
<1>1. Affords(call[c], reached[c]) /\ call[c] \in CallState
  BY StateOf DEF AllAfford
<1>2. ASSUME NEW a, call' = [call EXCEPT ![c].at = "response", ![c].answer = a],
             UNCHANGED reached
      PROVE  AllAfford'
  <2> DEFINE t == [call[c] EXCEPT !.at = "response", !.answer = a]
  <2>1. /\ t.at = "response" /\ t.op = call[c].op /\ t.screen = call[c].screen
        /\ t.client = call[c].client /\ t.leg = call[c].leg
        /\ call' = [call EXCEPT ![c] = t]
    BY <1>1, <1>2 DEF CallState
  <2> HIDE DEF t
  <2> QED
    BY <1>2, <2>1, ComingAffords
<1>3. CASE Refuse(c) \/ Answer(c)
  BY <1>2, <1>3 DEF Refuse, Answer
<1>4. CASE Admit(c)
  <2> DEFINE t == [call[c] EXCEPT !.at = "edge"]
  <2>1. /\ t.at = "edge" /\ t.op = call[c].op /\ t.screen = call[c].screen
        /\ t.client = call[c].client /\ t.leg = call[c].leg
        /\ call' = [call EXCEPT ![c] = t] /\ UNCHANGED reached
    BY <1>1, <1>4 DEF CallState, Admit
  <2> HIDE DEF t
  <2> QED
    BY <2>1, ComingAffords
<1> QED
  BY <1>3, <1>4, AskAffords DEF Edge

LEMMA BudgetStep ==
  ASSUME TInv, AllAfford, [TransportNext]_transportVars PROVE AllAfford'
<1>1. ASSUME NEW c \in Call, NEW op \in Operation, Press(c, op) PROVE AllAfford'
  <2> DEFINE t == [call[c] EXCEPT !.at = "request", !.op = op]
  <2>1. /\ Affords(call[c], reached[c]) /\ call[c] \in CallState
        /\ call[c].at = "idle" /\ call[c].leg = Fresh
    BY <1>1, StateOf DEF AllAfford, Press, Fits, Asking
  <2>2. reached[c] = 0 /\ call[c].screen = 0 /\ call[c].client = 0
    BY <2>1 DEF Affords
  <2>3. t.at = "request" /\ t.op = op /\ t.screen = 0 /\ t.client = 0 /\ t.leg = Fresh
    BY <2>1, <2>2 DEF CallState
  <2>4. call' = [call EXCEPT ![c] = t] /\ UNCHANGED reached
    BY <1>1 DEF Press
  <2> HIDE DEF t
  <2>5. Ended(op, 0, 0) \in Nat /\ ScreenRetry(op) \in Nat /\ ClientTries(op) \in Nat \ {0}
    BY AttemptCosts, TriesAreNat
  <2>6. Affords(t, reached[c])
    BY <2>2, <2>3, <2>5, FreshIsPaid DEF Affords
  <2> QED
    BY <2>4, <2>6, OneCallTurnsAffords
<1>2. CASE UNCHANGED <<call, reached>>
  BY <1>2 DEF AllAfford, Affords, Ended, EdgeTries, ClientTries, PerAttempt, PerScreen
<1> QED
  BY <1>1, <1>2, BrowserAffords, EdgeAffords DEF TransportNext, EndSession, transportVars

LEMMA InitAffords == TransportInit => AllAfford
<1> SUFFICES ASSUME TransportInit, NEW c \in Call PROVE Affords(call[c], reached[c])
  BY Zenon DEF AllAfford
<1>1. call[c] = Unused /\ reached[c] = 0 /\ "read" \in Operation
  BY DEF TransportInit, Operation, Reads
<1>2. /\ Unused.op = "read" /\ Unused.screen = 0 /\ Unused.client = 0 /\ Unused.leg = Fresh
  BY DEF Unused
<1>3. Ended("read", 0, 0) \in Nat /\ ScreenRetry("read") \in Nat /\ ClientTries("read") \in Nat \ {0}
  BY <1>1, AttemptCosts, TriesAreNat
<1>4. Fresh["primary"].tries = 0 /\ Fresh["history"].tries = 0
      /\ \A l \in Leg : Fresh[l].tries <= EdgeTries("read") /\ Fresh[l].tries < EdgeTries("read")
  BY <1>1, FreshIsPaid
<1> QED
  BY <1>1, <1>2, <1>3, <1>4 DEF Affords

(* One press costs the services no more than its operation's budget:       *)
(* the product of what the screen, the client and the edge may each try,   *)
(* for any counts of retries and whatever is lost; a write costs one       *)
(* request (retry.ts, upstream.ts, QueryClient).                           *)
THEOREM BudgetIsKept == TransportSpec => []WithinBudget
<1>1. TInv /\ AllAfford => WithinBudget
  BY AffordsBudget
<1>2. TInv /\ AllAfford /\ [TransportNext]_transportVars => AllAfford'
  BY BudgetStep
<1> QED
  BY <1>1, <1>2, InitAffords, TransportHolds, PTL DEF TransportSpec

-----------------------------------------------------------------------------
(* Sessions                                                                *)

(* Every handle that a cookie, a call or a sign-out names was created.     *)
Created(h) == h = 0 \/ store[h].ceiling # 0
CallCreated(c) == Created(c.handle) /\ Created(c.set.handle)
Known ==
  /\ Created(cookie.handle) /\ \A h \in signedOut : Created(h)
  /\ \A t \in Tab, k \in CallKind : CallCreated(calls[t][k])

(* A session signed out of is dead at the edge, from the moment its        *)
(* sign-out is answered.                                                   *)
Dead(h) == h = 0 \/ ~store[h].open
Over == EdgeAnswers =>
  /\ \A h \in signedOut : Dead(h)
  /\ \A t \in Tab : calls[t]["logout"].phase = "answered" => Dead(calls[t]["logout"].handle)

LInv == SessionTypeOK /\ Known /\ Over

SetIs == [keep : BOOLEAN, handle : Handle \cup {0}]

LEMMA Times ==
  /\ MaxTime \in Nat /\ AbsoluteTtl \in Nat /\ IdleTtl \in Nat /\ IdleTtl <= AbsoluteTtl /\ AbsoluteTtl > 0
  /\ MinDelay \in Nat /\ Warning \in Nat /\ 0 \in Time /\ Time \subseteq Nat
  /\ \A n \in 0..MaxTime : n \in Time /\ n \in Nat /\ n + IdleTtl \in Time /\ n + AbsoluteTtl \in Time
BY SessionNumbers, CeilingAboveWindow DEF Time

LEMMA HandlesAre == Handle \subseteq Nat \ {0} /\ 0 \notin Handle
BY SessionNumbers DEF Handle

LEMMA RecordsAre ==
  /\ NoView \in View /\ Keep \in SetIs /\ Clear \in SetIs /\ \A h \in Handle \cup {0} : Issue(h) \in SetIs
  /\ Keep.handle = 0 /\ Clear.handle = 0 /\ \A h : Issue(h).handle = h
  /\ Idle \in AuthCall /\ Idle.handle = 0 /\ Idle.set.handle = 0 /\ Idle.phase = "idle"
<1>1. NoView \in View /\ Keep \in SetIs /\ Clear \in SetIs /\ \A h \in Handle \cup {0} : Issue(h) \in SetIs
  BY Times DEF NoView, View, Keep, Clear, Issue, SetIs
<1>2. Keep.handle = 0 /\ Clear.handle = 0 /\ \A h : Issue(h).handle = h
  BY DEF Keep, Clear, Issue
<1>3. Idle \in AuthCall /\ Idle.handle = 0 /\ Idle.set.handle = 0 /\ Idle.phase = "idle"
  BY <1>1, <1>2 DEF Idle, AuthCall, SetIs
<1> QED
  BY <1>1, <1>2, <1>3

LEMMA ShowsIs ==
  \A s \in {"closed", "checking", "anonymous", "authenticated", "expired"} :
    Shows(s) \in TabState /\ Shows(s) = [status |-> s, view |-> NoView, timer |-> "none", at |-> 0]
BY RecordsAre, Times DEF Shows, Closed, TabState

LEMMA PlanIs ==
  ASSUME now \in 0..MaxTime, NEW v \in View
  PROVE  Plan(v) \in TabState
<1> DEFINE scheduled == Maximum(MinDelay, ((v.idle - now) * 3) \div 4)
           delay == Minimum(scheduled, Maximum(MinDelay, v.ceiling - now - Warning))
<1>1. v.idle \in Nat /\ v.ceiling \in Nat /\ now \in Nat
  BY Times DEF View
<1>2. CASE v.ceiling <= now \/ v.idle <= now
  BY <1>2, ShowsIs DEF Plan
<1>3. CASE ~(v.ceiling <= now \/ v.idle <= now) /\ v.ceiling - now <= Warning
  BY <1>1, <1>3, ShowsIs DEF Plan, TabState
<1>4. CASE ~(v.ceiling <= now \/ v.idle <= now) /\ ~(v.ceiling - now <= Warning)
  <2>1. (v.idle - now) * 3 \in Nat
    BY <1>1, <1>4
  <2>2. ((v.idle - now) * 3) \div 4 \in Nat
    BY <2>1
  <2>3. v.ceiling - now - Warning \in Nat
    BY <1>1, <1>4, Times
  <2>4. delay \in Nat
    BY <2>2, <2>3, Times DEF Maximum, Minimum
  <2>5. now + delay \in Nat
    BY <1>1, <2>4
  <2> HIDE DEF delay
  <2>6. Plan(v) = [Shows("authenticated") EXCEPT !.view = v, !.timer = "refresh", !.at = now + delay]
    BY <1>4 DEF Plan, delay
  <2> QED
    BY <2>5, <2>6, ShowsIs DEF TabState
<1> QED
  BY <1>2, <1>3, <1>4

LEMMA LInvInit == SessionInit => LInv
<1> SUFFICES ASSUME SessionInit PROVE LInv
  OBVIOUS
<1>1. Closed \in TabState
  BY RecordsAre, Times DEF Closed, TabState
<1>2. SessionTypeOK
  <2>1. now \in 0..MaxTime /\ store \in [Handle -> [open : BOOLEAN, seen : Time, ceiling : Time]]
    BY Times DEF SessionInit
  <2>2. cookie \in [handle : Handle \cup {0}, until : Time] /\ upstream \subseteq Handle /\ signedOut \subseteq Handle
    BY Times DEF SessionInit
  <2>3. tabs \in [Tab -> TabState] /\ calls \in [Tab -> [CallKind -> AuthCall]]
    BY <1>1, RecordsAre DEF SessionInit
  <2>4. left \in [closes : 0..MaxCloses, errors : 0..MaxErrors, throws : 0..MaxThrows]
    BY SessionNumbers DEF SessionInit
  <2> QED
    BY <2>1, <2>2, <2>3, <2>4 DEF SessionTypeOK
<1>3. \A t \in Tab, k \in CallKind : calls[t][k] = Idle
  BY DEF SessionInit
<1>4. Known
  BY <1>3, RecordsAre DEF SessionInit, Known, Created, CallCreated
<1>5. Over
  BY <1>3, RecordsAre DEF SessionInit, Over, CallKind
<1> QED
  BY <1>2, <1>4, <1>5 DEF LInv

(* What every step keeps: a session once created stays created, and one    *)
(* that is dead stays dead.                                                *)
Ages ==
  /\ store' \in [Handle -> [open : BOOLEAN, seen : Time, ceiling : Time]] /\ upstream' \subseteq Handle
  /\ \A h \in Handle : store[h].ceiling # 0 => store'[h].ceiling # 0 /\ (Dead(h) => Dead(h)')

LEMMA AgesAre ==
  ASSUME Ages
  PROVE  \A h \in Handle \cup {0} : (Created(h) => Created(h)') /\ (Created(h) /\ Dead(h) => Dead(h)')
<1> SUFFICES ASSUME NEW h \in Handle \cup {0}, Created(h)
             PROVE  Created(h)' /\ (Dead(h) => Dead(h)')
  OBVIOUS
<1>1. CASE h = 0
  <2>1. Created(0)' /\ Dead(0)'
    BY Zenon DEF Created, Dead
  <2> QED
    BY <1>1, <2>1
<1>2. CASE h # 0
  <2>1. h \in Handle /\ store[h].ceiling # 0
    BY <1>2 DEF Created
  <2>2. store'[h].ceiling # 0 /\ (Dead(h) => Dead(h)')
    BY <2>1 DEF Ages
  <2> QED
    BY <2>2 DEF Created
<1> QED
  BY <1>1, <1>2

LEMMA SameStore == ASSUME LInv, UNCHANGED <<store, upstream>> PROVE Ages
BY DEF LInv, SessionTypeOK, Ages, Dead

LEMMA TouchedAges ==
  ASSUME LInv, NEW h \in Handle \cup {0}, store' = Touched(h), UNCHANGED upstream
  PROVE  Ages
<1>1. CASE h = 0
  BY <1>1, SameStore DEF Touched
<1>2. CASE h # 0 /\ Touches(h)
  BY <1>2, Times DEF Touched, Touches, LInv, SessionTypeOK, Ages, Dead
<1>3. CASE h # 0 /\ ~Touches(h)
  BY <1>3 DEF Touched, LInv, SessionTypeOK, Ages, Dead
<1> QED
  BY <1>1, <1>2, <1>3

(* One call of a tab becomes another.                                      *)
Moves(t, k, c) == \A u \in Tab, j \in CallKind : calls'[u][j] = IF u = t /\ j = k THEN c ELSE calls[u][j]

LEMMA OneMoves ==
  ASSUME calls \in [Tab -> [CallKind -> AuthCall]], NEW t \in Tab, NEW k \in CallKind, NEW c \in AuthCall,
         calls' = [calls EXCEPT ![t] = [@ EXCEPT ![k] = c]]
  PROVE  calls' \in [Tab -> [CallKind -> AuthCall]] /\ Moves(t, k, c)
BY DEF Moves

LEMMA CallStep ==
  ASSUME LInv, Ages, NEW t \in Tab, NEW k \in CallKind, NEW c \in AuthCall, Moves(t, k, c),
         calls' \in [Tab -> [CallKind -> AuthCall]], tabs' \in [Tab -> TabState], EdgeAnswers' => EdgeAnswers,
         left' \in [closes : 0..MaxCloses, errors : 0..MaxErrors, throws : 0..MaxThrows],
         CallCreated(c)', k = "logout" /\ c.phase = "answered" /\ EdgeAnswers' => Dead(c.handle)',
         UNCHANGED <<now, cookie, signedOut>>
  PROVE  LInv'
<1>1. SessionTypeOK'
  BY DEF LInv, SessionTypeOK, Ages
<1>2. \A h \in Handle \cup {0} : (Created(h) => Created(h)') /\ (Created(h) /\ Dead(h) => Dead(h)')
  BY AgesAre
<1>3. cookie.handle \in Handle \cup {0} /\ signedOut \subseteq Handle
  BY DEF LInv, SessionTypeOK
<1>4. ASSUME NEW u \in Tab, NEW j \in CallKind
      PROVE  /\ calls[u][j].handle \in Handle \cup {0} /\ calls[u][j].set.handle \in Handle \cup {0}
             /\ CallCreated(calls[u][j]) /\ calls'[u][j] = IF u = t /\ j = k THEN c ELSE calls[u][j]
  <2>1. calls[u][j] \in AuthCall
    BY DEF LInv, SessionTypeOK
  <2> QED
    BY <2>1 DEF LInv, Known, Moves, AuthCall
<1>5. Known'
  <2>1. ASSUME NEW u \in Tab, NEW j \in CallKind PROVE CallCreated(calls[u][j])'
    BY <1>2, <1>4 DEF CallCreated
  <2> QED
    BY <1>2, <1>3, <2>1 DEF LInv, Known
<1>6. Over'
  <2> SUFFICES ASSUME EdgeAnswers'
               PROVE  /\ \A h \in signedOut : Dead(h)'
                      /\ \A u \in Tab : calls'[u]["logout"].phase = "answered" => Dead(calls[u]["logout"].handle)'
    BY DEF Over
  <2>1. EdgeAnswers /\ "logout" \in CallKind
    BY DEF CallKind
  <2>2. \A h \in signedOut : Dead(h)'
    BY <1>2, <1>3, <2>1 DEF LInv, Known, Over
  <2>3. ASSUME NEW u \in Tab, calls'[u]["logout"].phase = "answered" PROVE Dead(calls[u]["logout"].handle)'
    <3>1. CASE u = t /\ k = "logout"
      BY <1>4, <2>1, <2>3, <3>1 DEF Dead
    <3>2. CASE ~(u = t /\ k = "logout")
      <4>1. calls'[u]["logout"] = calls[u]["logout"]
        BY <1>4, <2>1, <3>2
      <4>2. Dead(calls[u]["logout"].handle) /\ Created(calls[u]["logout"].handle)
        BY <1>4, <2>1, <2>3, <4>1 DEF LInv, Over, CallCreated
      <4> QED
        BY <1>2, <1>4, <2>1, <4>1, <4>2 DEF Dead
    <3> QED
      BY <3>1, <3>2
  <2> QED
    BY <2>2, <2>3
<1> QED
  BY <1>1, <1>5, <1>6 DEF LInv

(* No call is begun, but one that asks for a session that was created.     *)
SameRequest(c, d) == c.phase = d.phase /\ c.handle = d.handle /\ c.set = d.set
Follow == \A u \in Tab, j \in CallKind :
  \/ calls'[u][j] = Idle
  \/ SameRequest(calls'[u][j], calls[u][j])
  \/ j = "load" /\ CallCreated(calls[u][j])'

LEMMA FollowKeeps ==
  ASSUME LInv, Ages, Follow, EdgeAnswers' => EdgeAnswers, now' \in 0..MaxTime,
         calls' \in [Tab -> [CallKind -> AuthCall]], tabs' \in [Tab -> TabState],
         left' \in [closes : 0..MaxCloses, errors : 0..MaxErrors, throws : 0..MaxThrows],
         cookie' \in [handle : Handle \cup {0}, until : Time], Created(cookie.handle)', signedOut' \subseteq Handle,
         \A h \in signedOut' : h \in signedOut \/ (Created(h)' /\ (EdgeAnswers' => Dead(h)'))
  PROVE  LInv'
<1>1. SessionTypeOK'
  BY DEF LInv, SessionTypeOK, Ages
<1>2. \A h \in Handle \cup {0} : (Created(h) => Created(h)') /\ (Created(h) /\ Dead(h) => Dead(h)')
  BY AgesAre
<1>3. signedOut \subseteq Handle
  BY DEF LInv, SessionTypeOK
<1>4. ASSUME NEW u \in Tab, NEW j \in CallKind
      PROVE  /\ calls[u][j].handle \in Handle \cup {0} /\ calls[u][j].set.handle \in Handle \cup {0}
             /\ CallCreated(calls[u][j])
  <2>1. calls[u][j] \in AuthCall
    BY DEF LInv, SessionTypeOK
  <2> QED
    BY <2>1 DEF LInv, Known, AuthCall
<1>5. Known'
  <2>1. ASSUME NEW u \in Tab, NEW j \in CallKind PROVE CallCreated(calls[u][j])'
    <3>1. CASE calls'[u][j] = Idle
      BY <3>1, RecordsAre DEF CallCreated, Created
    <3>2. CASE SameRequest(calls'[u][j], calls[u][j])
      BY <1>2, <1>4, <3>2 DEF CallCreated, SameRequest
    <3> QED
      BY <3>1, <3>2 DEF Follow
  <2>2. \A h \in signedOut : Created(h)
    BY DEF LInv, Known
  <2>3. \A h \in signedOut' : Created(h)'
    BY <1>2, <1>3, <2>2
  <2> QED
    BY <2>1, <2>3 DEF Known
<1>6. Over'
  <2> SUFFICES ASSUME EdgeAnswers'
               PROVE  /\ \A h \in signedOut' : Dead(h)'
                      /\ \A u \in Tab : calls'[u]["logout"].phase = "answered" => Dead(calls[u]["logout"].handle)'
    BY DEF Over
  <2>1. EdgeAnswers /\ "logout" \in CallKind
    BY DEF CallKind
  <2>2. \A h \in signedOut : Dead(h) /\ Created(h)
    BY <2>1 DEF LInv, Known, Over
  <2>3. \A h \in signedOut' : Dead(h)'
    BY <1>2, <1>3, <2>2
  <2>4. ASSUME NEW u \in Tab, calls'[u]["logout"].phase = "answered" PROVE Dead(calls[u]["logout"].handle)'
    <3>1. SameRequest(calls'[u]["logout"], calls[u]["logout"])
      BY <2>1, <2>4, RecordsAre DEF Follow
    <3>2. Dead(calls[u]["logout"].handle) /\ Created(calls[u]["logout"].handle)
      BY <1>4, <2>1, <2>4, <3>1 DEF LInv, Over, CallCreated, SameRequest
    <3> QED
      BY <1>2, <1>4, <2>1, <3>1, <3>2 DEF SameRequest
  <2> QED
    BY <2>3, <2>4
<1> QED
  BY <1>1, <1>5, <1>6 DEF LInv

LEMMA HushIs ==
  ASSUME NEW c \in AuthCall
  PROVE  [c EXCEPT !.live = FALSE] \in AuthCall /\ SameRequest([c EXCEPT !.live = FALSE], c)
<1>1. [c EXCEPT !.live = FALSE] \in AuthCall
  BY DEF AuthCall
<1>2. SameRequest([c EXCEPT !.live = FALSE], c)
  BY DEF AuthCall, SameRequest
<1> QED
  BY <1>1, <1>2

LEMMA HushKeeps ==
  ASSUME calls \in [Tab -> [CallKind -> AuthCall]], NEW t \in Tab, NEW k \in CallKind
  PROVE  /\ [calls EXCEPT ![t][k].live = FALSE] \in [Tab -> [CallKind -> AuthCall]]
         /\ \A u \in Tab, j \in CallKind : SameRequest([calls EXCEPT ![t][k].live = FALSE][u][j], calls[u][j])
<1>1. PICK c : c = [calls[t][k] EXCEPT !.live = FALSE]
  OBVIOUS
<1>2. c \in AuthCall /\ SameRequest(c, calls[t][k])
  BY <1>1, HushIs
<1>3. [calls EXCEPT ![t][k].live = FALSE] = [calls EXCEPT ![t] = [@ EXCEPT ![k] = c]]
  BY <1>1
<1>4. [calls EXCEPT ![t] = [@ EXCEPT ![k] = c]] \in [Tab -> [CallKind -> AuthCall]]
  BY <1>2
<1>5. ASSUME NEW u \in Tab, NEW j \in CallKind
      PROVE  SameRequest([calls EXCEPT ![t] = [@ EXCEPT ![k] = c]][u][j], calls[u][j])
  BY <1>2 DEF SameRequest
<1> QED
  BY <1>3, <1>4, <1>5

LEMMA SentIs ==
  ASSUME LInv
  PROVE  Sent \in AuthCall /\ CallCreated(Sent) /\ Sent.phase = "sent" /\ Sent.set.handle = 0
<1>1. BrowserHandle \in Handle \cup {0} /\ Created(BrowserHandle)
  BY DEF LInv, SessionTypeOK, Known, BrowserHandle, Created
<1>2. /\ Sent \in AuthCall /\ Sent.handle = BrowserHandle /\ Sent.phase = "sent" /\ Sent.set = Idle.set
  BY <1>1, RecordsAre DEF Sent, AuthCall
<1> QED
  BY <1>1, <1>2, RecordsAre DEF CallCreated, Created

(* A tab sends a request.                                                  *)
LEMMA Asks ==
  ASSUME LInv, NEW t \in Tab, NEW k \in CallKind, calls' = [calls EXCEPT ![t][k] = Sent],
         tabs' \in [Tab -> TabState], UNCHANGED <<now, store, upstream, cookie, left, signedOut>>
  PROVE  LInv'
<1>1. Ages /\ CallCreated(Sent)
  BY SameStore, SentIs
<1>2. PICK c : c = Sent
  OBVIOUS
<1>3. c \in AuthCall /\ c.phase = "sent" /\ CallCreated(c)
  BY <1>1, <1>2, SentIs
<1>4. CallCreated(c)'
  BY <1>3 DEF CallCreated, Created
<1>5. calls' \in [Tab -> [CallKind -> AuthCall]] /\ Moves(t, k, c)
  BY <1>2, <1>3, OneMoves DEF LInv, SessionTypeOK
<1>6. left' \in [closes : 0..MaxCloses, errors : 0..MaxErrors, throws : 0..MaxThrows] /\ EdgeAnswers' = EdgeAnswers
  BY DEF LInv, SessionTypeOK, EdgeAnswers
<1> QED
  BY <1>1, <1>3, <1>4, <1>5, <1>6, CallStep

LEMMA TabsStep ==
  ASSUME LInv, NEW t \in Tab, Open(t) \/ Close(t) \/ SignIn(t) \/ SignOut(t) \/ Work(t) \/ TimerFires(t)
  PROVE  LInv'
<1>0. /\ tabs \in [Tab -> TabState] /\ calls \in [Tab -> [CallKind -> AuthCall]]
      /\ left \in [closes : 0..MaxCloses, errors : 0..MaxErrors, throws : 0..MaxThrows]
      /\ {"boot", "refresh", "login", "logout"} \subseteq CallKind
      /\ now \in 0..MaxTime /\ cookie \in [handle : Handle \cup {0}, until : Time] /\ Created(cookie.handle)
      /\ signedOut \subseteq Handle
  BY DEF LInv, SessionTypeOK, CallKind, Known
<1>1. CASE Open(t)
  BY <1>0, <1>1, ShowsIs, Asks DEF Open
<1>2. CASE Close(t)
  <2>1. Closed \in TabState
    BY RecordsAre, Times DEF Closed, TabState
  <2>2. tabs' \in [Tab -> TabState]
    BY <1>0, <1>2, <2>1 DEF Close
  <2>3. PICK f : f = [k \in CallKind |-> [calls[t][k] EXCEPT !.live = FALSE]]
    OBVIOUS
  <2>4. f \in [CallKind -> AuthCall] /\ \A k \in CallKind : SameRequest(f[k], calls[t][k])
    <3>1. ASSUME NEW k \in CallKind PROVE f[k] \in AuthCall /\ SameRequest(f[k], calls[t][k])
      <4>1. calls[t][k] \in AuthCall /\ f[k] = [calls[t][k] EXCEPT !.live = FALSE]
        BY <1>0, <2>3
      <4> QED
        BY <4>1, HushIs
    <3> QED
      BY <2>3, <3>1
  <2>5. calls' \in [Tab -> [CallKind -> AuthCall]] /\ Follow
    <3>1. calls' = [calls EXCEPT ![t] = f]
      BY <1>2, <2>3 DEF Close
    <3> QED
      BY <1>0, <2>4, <3>1 DEF Follow, SameRequest
  <2>6. left' \in [closes : 0..MaxCloses, errors : 0..MaxErrors, throws : 0..MaxThrows] /\ left'.errors = left.errors
    BY <1>0, <1>2, SessionNumbers DEF Close
  <2>7. Ages /\ Created(cookie.handle)'
    BY <1>0, <1>2, SameStore DEF Close, Created
  <2> QED
    BY <1>0, <1>2, <2>2, <2>5, <2>6, <2>7, FollowKeeps DEF Close, EdgeAnswers
<1>3. CASE SignIn(t)
  BY <1>0, <1>3, Asks DEF SignIn
<1>4. CASE SignOut(t)
  BY <1>0, <1>4, Asks DEF SignOut
<1>5. CASE Work(t)
  <2>1. BrowserHandle \in Handle \cup {0}
    BY <1>0 DEF BrowserHandle
  <2>2. Ages
    BY <1>5, <2>1, TouchedAges DEF Work
  <2>3. Created(cookie.handle)'
    BY <1>0, <1>5, <2>2, AgesAre DEF Work
  <2>4. Follow
    BY <1>5 DEF Work, Follow, SameRequest
  <2> QED
    BY <1>0, <1>5, <2>2, <2>3, <2>4, FollowKeeps DEF Work, EdgeAnswers
<1>6. CASE TimerFires(t)
  <2>1. CASE /\ tabs' = [tabs EXCEPT ![t].timer = "none"]
             /\ calls' = [calls EXCEPT ![t]["refresh"] = Sent]
    <3>1. tabs' \in [Tab -> TabState]
      BY <1>0, <2>1 DEF TabState
    <3> QED
      BY <1>0, <1>6, <2>1, <3>1, Asks DEF TimerFires
  <2>2. CASE tabs' = [tabs EXCEPT ![t] = Shows("expired")] /\ calls' = EndLoop(t, calls)
    <3>1. tabs' \in [Tab -> TabState]
      BY <1>0, <2>2, ShowsIs
    <3>2. calls' \in [Tab -> [CallKind -> AuthCall]] /\ Follow
      BY <1>0, <2>2, HushKeeps DEF EndLoop, Follow
    <3>3. Ages /\ Created(cookie.handle)'
      BY <1>0, <1>6, SameStore DEF TimerFires, Created
    <3> QED
      BY <1>0, <1>6, <3>1, <3>2, <3>3, FollowKeeps DEF TimerFires, EdgeAnswers
  <2> QED
    BY <1>6, <2>1, <2>2 DEF TimerFires
<1> QED
  BY <1>1, <1>2, <1>3, <1>4, <1>5, <1>6

LEMMA TickStep == ASSUME LInv, Tick PROVE LInv'
<1>1. Ages /\ Follow /\ Created(cookie.handle)' /\ now' \in 0..MaxTime
  BY SameStore, SessionNumbers DEF Tick, Follow, SameRequest, LInv, SessionTypeOK, Known, Created
<1> QED
  BY <1>1, FollowKeeps DEF Tick, LInv, SessionTypeOK, EdgeAnswers

(* The edge answers a call.                                                *)
LEMMA AnswerStep ==
  ASSUME LInv, Ages, NEW t \in Tab, NEW k \in CallKind, NEW ok \in BOOLEAN, NEW v \in View, NEW set \in SetIs,
         NEW h, h = calls[t][k].handle, Answered(t, k, ok, v, set), Created(set.handle)',
         k = "logout" /\ EdgeAnswers' => Dead(h)', EdgeAnswers' => EdgeAnswers,
         left' \in [closes : 0..MaxCloses, errors : 0..MaxErrors, throws : 0..MaxThrows],
         UNCHANGED <<now, cookie, tabs, signedOut>>
  PROVE  LInv'
<1>1. calls \in [Tab -> [CallKind -> AuthCall]] /\ calls[t][k] \in AuthCall /\ h \in Handle \cup {0} /\ Created(h)
  BY DEF LInv, SessionTypeOK, AuthCall, Known, CallCreated
<1>2. PICK c : c = [calls[t][k] EXCEPT !.phase = "answered", !.ok = ok, !.view = v, !.set = set]
  OBVIOUS
<1>3. c \in AuthCall
  BY <1>1, <1>2 DEF AuthCall, SetIs
<1>5. c.handle = h /\ c.set = set /\ c.phase = "answered"
  BY <1>1, <1>2 DEF AuthCall
<1>6. calls' = [calls EXCEPT ![t] = [@ EXCEPT ![k] = c]]
  BY <1>1, <1>2 DEF Answered
<1>7. calls' \in [Tab -> [CallKind -> AuthCall]] /\ Moves(t, k, c)
  BY <1>1, <1>3, <1>6, OneMoves
<1>9. CallCreated(c)'
  BY <1>1, <1>5, AgesAre DEF CallCreated
<1>10. tabs' \in [Tab -> TabState] /\ (k = "logout" /\ c.phase = "answered" /\ EdgeAnswers' => Dead(c.handle)')
  BY <1>5 DEF LInv, SessionTypeOK
<1> QED
  BY <1>3, <1>7, <1>9, <1>10, CallStep

LEMMA ServeSessionStep ==
  ASSUME LInv, NEW t \in Tab, NEW k \in CallKind, ServeSession(t, k)
  PROVE  LInv'
<1>1. PICK h : h = calls[t][k].handle
  OBVIOUS
<1>2. h \in Handle \cup {0} /\ Created(h)
  <2>1. calls[t][k] \in AuthCall
    BY DEF LInv, SessionTypeOK
  <2> QED
    BY <1>1, <2>1 DEF LInv, AuthCall, Known, CallCreated
<1>3. Ages
  BY <1>1, <1>2, TouchedAges DEF ServeSession
<1>4. Created(h)' /\ Created(0)'
  BY <1>2, <1>3, AgesAre DEF Created
<1>5. left' \in [closes : 0..MaxCloses, errors : 0..MaxErrors, throws : 0..MaxThrows] /\ EdgeAnswers' = EdgeAnswers
  BY DEF ServeSession, LInv, SessionTypeOK, EdgeAnswers
<1>6. PICK set : set = IF Touches(h) THEN (IF k = "refresh" THEN Issue(h) ELSE Keep)
                       ELSE (IF k = "refresh" THEN Clear ELSE Keep)
  OBVIOUS
<1>7. set \in SetIs /\ set.handle \in {h, 0}
  BY <1>2, <1>6, RecordsAre
<1>8. PICK v : v = IF Touches(h) THEN ViewOf(h) ELSE NoView
  OBVIOUS
<1>9. v \in View
  <2>1. ASSUME Touches(h) PROVE ViewOf(h) \in View
    <3>1. now \in 0..MaxTime /\ h \in Handle /\ store[h].ceiling \in Time
      BY <1>2, <2>1 DEF Touches, LInv, SessionTypeOK
    <3>2. Minimum(now + IdleTtl, store[h].ceiling) \in Time
      BY <3>1, Times DEF Minimum
    <3> QED
      BY <3>1, <3>2 DEF ViewOf, View
  <2> QED
    BY <1>8, <2>1, RecordsAre
<1>10. k # "logout" /\ Answered(t, k, Touches(h), v, set)
  <2>1. CASE Touches(h)
    <3>1. Answered(t, k, TRUE, v, set)
      BY <1>1, <1>6, <1>8, <2>1, Zenon DEF ServeSession
    <3>2. Touches(h) = TRUE
      BY <2>1 DEF Touches
    <3> QED
      BY <3>1, <3>2 DEF ServeSession
  <2>2. CASE ~Touches(h)
    <3>1. Answered(t, k, FALSE, v, set)
      BY <1>1, <1>6, <1>8, <2>2, Zenon DEF ServeSession
    <3>2. Touches(h) = FALSE
      BY <2>2 DEF Touches
    <3> QED
      BY <3>1, <3>2 DEF ServeSession
  <2> QED
    BY <2>1, <2>2
<1>11. PICK ok \in BOOLEAN : ok = Touches(h)
  BY DEF Touches
<1>12. Created(set.handle)'
  BY <1>4, <1>7
<1> QED
  BY <1>1, <1>3, <1>5, <1>7, <1>9, <1>10, <1>11, <1>12, AnswerStep DEF ServeSession

LEMMA ErrorsEnd ==
  ASSUME LInv, left.errors > 0, left' = [left EXCEPT !.errors = @ - 1]
  PROVE  left' \in [closes : 0..MaxCloses, errors : 0..MaxErrors, throws : 0..MaxThrows] /\ ~EdgeAnswers'
BY SessionNumbers DEF LInv, SessionTypeOK, EdgeAnswers

LEMMA ServeLoginStep == ASSUME LInv, NEW t \in Tab, ServeLogin(t) PROVE LInv'
<1>1. "login" \in CallKind /\ NoView \in View /\ Keep \in SetIs /\ Keep.handle = 0 /\ Created(0)'
  BY RecordsAre DEF CallKind, Created
<1>2. PICK q : q = calls[t]["login"].handle
  OBVIOUS
<1>3. left' \in [closes : 0..MaxCloses, errors : 0..MaxErrors, throws : 0..MaxThrows] /\ EdgeAnswers' = EdgeAnswers
  BY DEF ServeLogin, LInv, SessionTypeOK, EdgeAnswers
<1>4. CASE Answered(t, "login", FALSE, NoView, Keep) /\ UNCHANGED <<store, upstream>>
  BY <1>1, <1>2, <1>3, <1>4, SameStore, AnswerStep DEF ServeLogin
<1>5. ASSUME NEW h \in Handle, store[h].ceiling = 0, upstream' = upstream \cup {h},
             store' = [store EXCEPT ![h] = [open |-> TRUE, seen |-> now, ceiling |-> now + AbsoluteTtl]],
             Answered(t, "login", TRUE, NoView, Issue(h))
      PROVE  LInv'
  <2>1. now \in Time /\ now + AbsoluteTtl \in Time /\ now + AbsoluteTtl # 0 /\ now \in Nat
    <3>1. now \in 0..MaxTime
      BY DEF LInv, SessionTypeOK
    <3>2. now \in Time /\ now \in Nat /\ now + AbsoluteTtl \in Time
      BY <3>1, Times
    <3> QED
      BY <3>2, Times
  <2>2. PICK r : r = [open |-> TRUE, seen |-> now, ceiling |-> now + AbsoluteTtl]
    OBVIOUS
  <2>3. r \in [open : BOOLEAN, seen : Time, ceiling : Time] /\ r.ceiling # 0
    BY <2>1, <2>2
  <2>4. store' = [store EXCEPT ![h] = r]
    BY <1>5, <2>2
  <2>5. store \in [Handle -> [open : BOOLEAN, seen : Time, ceiling : Time]] /\ upstream \subseteq Handle
    BY DEF LInv, SessionTypeOK
  <2>6. store' \in [Handle -> [open : BOOLEAN, seen : Time, ceiling : Time]] /\ store'[h].ceiling # 0
    BY <2>3, <2>4, <2>5
  <2>7. ASSUME NEW g \in Handle, store[g].ceiling # 0 PROVE store'[g].ceiling # 0 /\ (Dead(g) => Dead(g)')
    <3>1. g # h /\ store'[g] = store[g] /\ (g \in upstream' <=> g \in upstream)
      BY <1>5, <2>4, <2>5, <2>7
    <3> QED
      BY <2>7, <3>1 DEF Dead
  <2>8. Ages
    BY <1>5, <2>5, <2>6, <2>7 DEF Ages
  <2>9. Issue(h) \in SetIs /\ Issue(h).handle = h /\ Created(h)'
    BY <2>6, RecordsAre DEF Created
  <2>10. PICK set \in SetIs : set = Issue(h)
    BY <2>9
  <2>11. Created(set.handle)'
    BY <2>9, <2>10
  <2> QED
    BY <1>1, <1>2, <1>3, <1>5, <2>8, <2>10, <2>11, AnswerStep DEF ServeLogin
<1> QED
  BY <1>4, <1>5 DEF ServeLogin

LEMMA ServeLogoutStep == ASSUME LInv, NEW t \in Tab, ServeLogout(t) PROVE LInv'
<1>1. "logout" \in CallKind /\ NoView \in View /\ Clear \in SetIs /\ Clear.handle = 0 /\ Created(0)'
  BY RecordsAre DEF CallKind, Created
<1>2. PICK h : h = calls[t]["logout"].handle
  OBVIOUS
<1>3. h \in Handle \cup {0}
  <2>1. calls[t]["logout"] \in AuthCall
    BY <1>1 DEF LInv, SessionTypeOK
  <2> QED
    BY <1>2, <2>1 DEF AuthCall
<1>4. store \in [Handle -> [open : BOOLEAN, seen : Time, ceiling : Time]] /\ upstream \subseteq Handle
  BY DEF LInv, SessionTypeOK
<1>5. store' = IF h = 0 THEN store ELSE [store EXCEPT ![h].open = FALSE]
  BY <1>2 DEF ServeLogout
<1>6. upstream' \subseteq upstream
  BY DEF ServeLogout
<1>7. Ages
  <2>1. CASE h = 0
    BY <1>4, <1>5, <1>6, <2>1 DEF Ages, Dead
  <2>2. CASE h # 0
    <3>1. store' \in [Handle -> [open : BOOLEAN, seen : Time, ceiling : Time]]
      BY <1>3, <1>4, <1>5, <2>2
    <3>2. \A g \in Handle : store'[g].ceiling = store[g].ceiling /\ (store'[g].open => store[g].open)
      BY <1>3, <1>4, <1>5, <2>2
    <3> QED
      BY <1>4, <1>6, <3>1, <3>2 DEF Ages, Dead
  <2> QED
    BY <2>1, <2>2
<1>8. /\ left' \in [closes : 0..MaxCloses, errors : 0..MaxErrors, throws : 0..MaxThrows]
      /\ EdgeAnswers' => EdgeAnswers
  <2>1. CASE left' = left
    BY <2>1 DEF LInv, SessionTypeOK, EdgeAnswers
  <2>2. CASE left.errors > 0 /\ left' = [left EXCEPT !.errors = @ - 1]
    BY <2>2, ErrorsEnd
  <2> QED
    BY <2>1, <2>2 DEF ServeLogout
<1>9. Dead(h)'
  BY <1>3, <1>4, <1>5 DEF Dead
<1> QED
  BY <1>1, <1>2, <1>7, <1>8, <1>9, AnswerStep DEF ServeLogout

LEMMA ServeErrorStep == ASSUME LInv, NEW t \in Tab, NEW k \in CallKind, ServeError(t, k) PROVE LInv'
<1>1. NoView \in View /\ Keep \in SetIs /\ Keep.handle = 0 /\ Created(0)'
  BY RecordsAre DEF Created
<1>2. PICK h : h = calls[t][k].handle
  OBVIOUS
<1>3. left' \in [closes : 0..MaxCloses, errors : 0..MaxErrors, throws : 0..MaxThrows] /\ ~EdgeAnswers'
  BY ErrorsEnd DEF ServeError
<1> QED
  BY <1>1, <1>2, <1>3, SameStore, AnswerStep DEF ServeError

LEMMA ThrowStep == ASSUME LInv, NEW t \in Tab, NEW k \in CallKind, Throw(t, k) PROVE LInv'
<1>1. left' \in [closes : 0..MaxCloses, errors : 0..MaxErrors, throws : 0..MaxThrows] /\ left'.errors = left.errors
  BY SessionNumbers DEF Throw, LInv, SessionTypeOK
<1>2. calls' \in [Tab -> [CallKind -> AuthCall]] /\ Moves(t, k, Idle)
  BY RecordsAre, OneMoves DEF Throw, Gone, LInv, SessionTypeOK
<1>3. CallCreated(Idle)'
  BY RecordsAre DEF CallCreated, Created
<1> QED
  BY <1>1, <1>2, <1>3, SameStore, RecordsAre, CallStep DEF Throw, LInv, SessionTypeOK, EdgeAnswers

(* An answer is heard, by the browser and by the tab that waits for it.    *)
LEMMA HeardCookie ==
  ASSUME LInv, NEW t \in Tab, NEW k \in CallKind, HearAnswer(t, k)
  PROVE  cookie' \in [handle : Handle \cup {0}, until : Time] /\ Created(cookie.handle)'
<1>1. /\ calls[t][k] \in AuthCall /\ CallCreated(calls[t][k]) /\ cookie \in [handle : Handle \cup {0}, until : Time]
      /\ now \in 0..MaxTime /\ Created(cookie.handle)
  BY DEF LInv, SessionTypeOK, Known
<1>2. SetCookie(calls[t][k]) /\ store' = store
  BY DEF HearAnswer
<1>3. CASE calls[t][k].set.keep
  <2>1. cookie' = cookie
    BY <1>2, <1>3, Zenon DEF SetCookie
  <2> QED
    BY <1>1, <1>2, <2>1 DEF Created
<1>4. CASE ~calls[t][k].set.keep
  <2>1. PICK u : u = IF calls[t][k].set = Clear THEN 0 ELSE now + IdleTtl
    OBVIOUS
  <2>2. cookie' = [handle |-> calls[t][k].set.handle, until |-> u]
    BY <1>2, <1>4, <2>1, Zenon DEF SetCookie
  <2>3. u \in Time /\ calls[t][k].set.handle \in Handle \cup {0}
    BY <1>1, <2>1, Times DEF AuthCall
  <2> QED
    BY <1>1, <1>2, <2>2, <2>3 DEF Created, CallCreated
<1> QED
  BY <1>3, <1>4

LEMMA HeardTabs ==
  ASSUME LInv, NEW t \in Tab, NEW k \in CallKind, HearAnswer(t, k)
  PROVE  tabs' \in [Tab -> TabState]
<1>1. calls[t][k] \in AuthCall /\ tabs \in [Tab -> TabState] /\ now \in 0..MaxTime
  BY DEF LInv, SessionTypeOK
<1>2. calls[t][k].view \in View
  BY <1>1 DEF AuthCall
<1>3. Plan(calls[t][k].view) \in TabState /\ Shows("anonymous") \in TabState /\ Shows("expired") \in TabState
  BY <1>1, <1>2, PlanIs, ShowsIs
<1>4. PICK after : after = AfterAnswer(t, k)
  OBVIOUS
<1>5. after \in TabState
  <2>1. CASE k \in {"boot", "load"}
    <3>1. after = IF calls[t][k].ok THEN Plan(calls[t][k].view) ELSE Shows("anonymous")
      BY <1>4, <2>1, Zenon DEF AfterAnswer
    <3> QED
      BY <1>3, <3>1, Zenon
  <2>2. CASE k = "refresh"
    <3>1. after = IF calls[t][k].ok THEN Plan(calls[t][k].view) ELSE Shows("expired")
      BY <1>4, <2>2, Zenon DEF AfterAnswer
    <3> QED
      BY <1>3, <3>1, Zenon
  <2>3. CASE k = "logout"
    <3>1. after = Shows("anonymous")
      BY <1>4, <2>3, Zenon DEF AfterAnswer
    <3> QED
      BY <1>3, <3>1, Zenon
  <2>4. CASE k = "login"
    <3>1. after = tabs[t]
      BY <1>4, <2>4, Zenon DEF AfterAnswer
    <3> QED
      BY <1>1, <3>1
  <2> QED
    BY <2>1, <2>2, <2>3, <2>4 DEF CallKind
<1>6. tabs' = tabs \/ tabs' = [tabs EXCEPT ![t] = after]
  BY <1>4, Zenon DEF HearAnswer
<1> QED
  BY <1>1, <1>5, <1>6

LEMMA HeardCalls ==
  ASSUME LInv, NEW t \in Tab, NEW k \in CallKind, HearAnswer(t, k)
  PROVE  calls' \in [Tab -> [CallKind -> AuthCall]] /\ Follow
<1>1. /\ calls \in [Tab -> [CallKind -> AuthCall]] /\ {"load", "refresh"} \subseteq CallKind
      /\ cookie' \in [handle : Handle \cup {0}, until : Time] /\ Created(cookie.handle)'
  BY HeardCookie DEF LInv, SessionTypeOK, CallKind
<1>2. CASE calls' = Gone(t, k, calls)
  BY <1>1, <1>2, RecordsAre DEF Gone, Follow, SameRequest
<1>3. CASE calls' = Gone(t, k, EndLoop(t, calls))
  <2>1. PICK cs : cs = [calls EXCEPT ![t]["refresh"].live = FALSE]
    OBVIOUS
  <2>2. cs \in [Tab -> [CallKind -> AuthCall]] /\ \A u \in Tab, j \in CallKind : SameRequest(cs[u][j], calls[u][j])
    BY <1>1, <2>1, HushKeeps
  <2>3. calls' = [cs EXCEPT ![t][k] = Idle]
    BY <1>3, <2>1 DEF Gone, EndLoop
  <2> QED
    BY <2>2, <2>3, RecordsAre DEF Follow
<1>4. CASE calls' = [Gone(t, k, calls) EXCEPT ![t]["load"] = [Sent EXCEPT !.handle = cookie'.handle]]
  <2>1. PICK c : c = [Sent EXCEPT !.handle = cookie'.handle]
    OBVIOUS
  <2>2. c \in AuthCall /\ c.handle = cookie'.handle /\ c.set.handle = 0
    BY <1>1, <2>1, SentIs DEF AuthCall
  <2>3. Created(c.handle)' /\ Created(c.set.handle)'
    BY <1>1, <2>2 DEF Created
  <2>4. calls' = [[calls EXCEPT ![t][k] = Idle] EXCEPT ![t]["load"] = c]
    BY <1>4, <2>1 DEF Gone
  <2>5. calls' \in [Tab -> [CallKind -> AuthCall]]
    BY <1>1, <2>2, <2>4, RecordsAre
  <2>6. ASSUME NEW u \in Tab, NEW j \in CallKind
        PROVE  calls'[u][j] \in {Idle, calls[u][j]} \/ (j = "load" /\ calls'[u][j] = c)
    BY <1>1, <2>4
  <2>7. Follow
    BY <2>3, <2>6 DEF Follow, SameRequest, CallCreated
  <2> QED
    BY <2>5, <2>7
<1>5. CASE calls[t][k].live /\ k = "login" /\ calls[t][k].ok
  <2>1. calls' = [Gone(t, k, calls) EXCEPT ![t]["load"] = [Sent EXCEPT !.handle = cookie'.handle]]
    BY <1>5, Zenon DEF HearAnswer
  <2> QED
    BY <1>4, <2>1
<1>6. CASE calls[t][k].live /\ k # "login"
  <2>1. calls' = Gone(t, k, EndLoop(t, calls))
    BY <1>6, Zenon DEF HearAnswer
  <2> QED
    BY <1>3, <2>1
<1>7. CASE ~(calls[t][k].live /\ k = "login" /\ calls[t][k].ok) /\ ~(calls[t][k].live /\ k # "login")
  <2>1. calls' = Gone(t, k, calls)
    BY <1>7, Zenon DEF HearAnswer
  <2> QED
    BY <1>2, <2>1
<1> QED
  BY <1>5, <1>6, <1>7

LEMMA HearAnswerStep == ASSUME LInv, NEW t \in Tab, NEW k \in CallKind, HearAnswer(t, k) PROVE LInv'
<1>1. PICK h : h = calls[t][k].handle
  OBVIOUS
<1>2. h \in Handle \cup {0} /\ Created(h) /\ signedOut \subseteq Handle
  <2>1. calls[t][k] \in AuthCall
    BY DEF LInv, SessionTypeOK
  <2> QED
    BY <1>1, <2>1 DEF LInv, AuthCall, Known, CallCreated, SessionTypeOK
<1>3. Ages /\ EdgeAnswers' = EdgeAnswers /\ now' \in 0..MaxTime
  BY SameStore DEF HearAnswer, EdgeAnswers, LInv, SessionTypeOK
<1>4. left' \in [closes : 0..MaxCloses, errors : 0..MaxErrors, throws : 0..MaxThrows]
  BY DEF HearAnswer, LInv, SessionTypeOK
<1>5. k = "logout" /\ EdgeAnswers => Dead(h)
  BY <1>1 DEF LInv, Over, HearAnswer
<1>6. Created(h)' /\ (k = "logout" /\ EdgeAnswers' => Dead(h)')
  BY <1>2, <1>3, <1>5, AgesAre
<1>7. signedOut' = IF k = "logout" THEN signedOut \cup ({h} \ {0}) ELSE signedOut
  BY <1>1 DEF HearAnswer
<1>8. signedOut' \subseteq Handle
  BY <1>2, <1>7
<1>9. \A g \in signedOut' : g \in signedOut \/ (Created(g)' /\ (EdgeAnswers' => Dead(g)'))
  BY <1>6, <1>7
<1> QED
  BY <1>3, <1>4, <1>8, <1>9, HeardCookie, HeardTabs, HeardCalls, FollowKeeps

LEMMA SessionStep == LInv /\ [SessionNext]_sessionVars => LInv'
<1>1. CASE UNCHANGED sessionVars
  BY <1>1 DEF sessionVars, LInv, SessionTypeOK, Known, Over, Created, CallCreated, Dead, EdgeAnswers
<1>2. CASE SessionNext
  BY <1>2, TabsStep, TickStep, ServeSessionStep, ServeLoginStep, ServeLogoutStep, ServeErrorStep, ThrowStep, HearAnswerStep
     DEF SessionNext, Serve, Answers
<1> SUFFICES ASSUME LInv, [SessionNext]_sessionVars PROVE LInv'
  OBVIOUS
<1> QED
  BY <1>1, <1>2

(* This follows from what the invariant says of a session signed out of.   *)
LEMMA LInvMeans == LInv => SignedOutMeansRevoked
BY HandlesAre DEF LInv, SessionTypeOK, Over, Dead, Live, SignedOutMeansRevoked

(* A session is deleted by the request that finds it expired, or by a      *)
(* sign-out that has found it there and has revoked it upstream.           *)
Lapsed(h) == now >= store[h].ceiling \/ now >= store[h].seen + IdleTtl
Orphans == \A h \in upstream : store[h].open \/ Lapsed(h)

(* To touch a session never leaves it closed and unexpired.                *)
LEMMA TouchedOrphans ==
  ASSUME LInv, Orphans, NEW g \in Handle \cup {0},
         store' = Touched(g), UNCHANGED <<now, upstream>>
  PROVE  Orphans'
<1>1. store \in [Handle -> [open : BOOLEAN, seen : Time, ceiling : Time]] /\ upstream \subseteq Handle
  BY DEF LInv, SessionTypeOK
<1>2. now \in Nat /\ IdleTtl \in Nat /\ \A h \in Handle : store[h].seen \in Nat /\ store[h].ceiling \in Nat
  BY <1>1, Times DEF LInv, SessionTypeOK
<1> SUFFICES ASSUME NEW h \in upstream PROVE (store[h].open \/ Lapsed(h))'
  BY DEF Orphans
<1>3. CASE h # g \/ store' = store
  <2>1. store'[h] = store[h]
    BY <1>1, <1>2, <1>3, HandlesAre DEF Touched
  <2> QED
    BY <2>1 DEF Orphans, Lapsed
<1>4. CASE h = g /\ Touches(g)
  <2>1. store'[h] = [store[h] EXCEPT !.seen = now] /\ store[h].open
    BY <1>1, <1>4, HandlesAre DEF Touched, Touches
  <2>2. store'[h].open
    BY <1>1, <2>1
  <2> QED
    BY <2>2
<1>5. CASE h = g /\ ~Touches(g)
  <2>1. /\ store'[h].seen = store[h].seen /\ store'[h].ceiling = store[h].ceiling
        /\ g # 0
    BY <1>1, <1>5, HandlesAre DEF Touched
  <2>2. ~store[h].open \/ now >= store[h].ceiling \/ now >= store[h].seen + IdleTtl
    BY <1>1, <1>2, <1>5, <2>1 DEF Touches
  <2>3. Lapsed(h)
    BY <2>2 DEF Orphans, Lapsed
  <2> QED
    BY <2>1, <2>3 DEF Lapsed
<1> QED
  BY <1>3, <1>4, <1>5

(* A sign-out leaves none but what it did not find.                        *)
LEMMA SignOutOrphans ==
  ASSUME LInv, Orphans, Applicant, EdgeAnswers', NEW t \in Tab, ServeLogout(t)
  PROVE  Orphans'
<1>1. store \in [Handle -> [open : BOOLEAN, seen : Time, ceiling : Time]] /\ upstream \subseteq Handle
  BY DEF LInv, SessionTypeOK
<1>2. PICK g : g = calls[t]["logout"].handle
  OBVIOUS
<1>3. g \in Handle \cup {0}
  <2>1. calls[t]["logout"] \in AuthCall
    BY DEF LInv, SessionTypeOK, CallKind
  <2> QED
    BY <1>2, <2>1 DEF AuthCall
<1>4. /\ store' = IF g = 0 THEN store ELSE [store EXCEPT ![g].open = FALSE]
      /\ upstream' = (IF Applicant /\ Peeks(g) THEN upstream \ {g} ELSE upstream)
         \/ (left.errors > 0 /\ left' = [left EXCEPT !.errors = @ - 1])
      /\ now' = now
  BY <1>2 DEF ServeLogout
<1>5. upstream' = IF Peeks(g) THEN upstream \ {g} ELSE upstream
  BY <1>4, ErrorsEnd
<1> SUFFICES ASSUME NEW h \in upstream' PROVE (store[h].open \/ Lapsed(h))'
  BY DEF Orphans
<1>6. h \in upstream /\ h \in Handle /\ (h = g => ~Peeks(g))
  BY <1>1, <1>5
<1>7. store'[h].seen = store[h].seen /\ store'[h].ceiling = store[h].ceiling
  BY <1>1, <1>3, <1>4, <1>6
<1>8. CASE h # g
  <2>1. store'[h] = store[h]
    BY <1>1, <1>3, <1>4, <1>6, <1>8
  <2> QED
    BY <1>4, <1>6, <2>1 DEF Orphans, Lapsed
<1>9. CASE h = g
  <2>1. ~store[h].open
    BY <1>6, <1>9, HandlesAre, Zenon DEF Peeks
  <2>2. Lapsed(h)
    BY <1>6, <2>1 DEF Orphans
  <2> QED
    BY <1>4, <1>7, <2>2 DEF Lapsed
<1> QED
  BY <1>8, <1>9

LEMMA OrphansStep ==
  ASSUME LInv, Applicant, EdgeAnswers => Orphans, [SessionNext]_sessionVars, EdgeAnswers'
  PROVE  Orphans'
<1>t. /\ store \in [Handle -> [open : BOOLEAN, seen : Time, ceiling : Time]] /\ upstream \subseteq Handle
      /\ now \in Nat /\ cookie.handle \in Handle \cup {0}
      /\ IdleTtl \in Nat /\ \A h \in Handle : store[h].seen \in Nat /\ store[h].ceiling \in Nat
  BY Times DEF LInv, SessionTypeOK
<1>e. EdgeAnswers
  <2>1. left' = left \/ left'.errors = left.errors
        \/ (left.errors > 0 /\ left' = [left EXCEPT !.errors = @ - 1])
    BY DEF SessionNext, sessionVars, Open, Close, SignIn, SignOut, Work, TimerFires, Tick, Serve,
           ServeSession, ServeLogin, ServeLogout, Answers, HearAnswer, ServeError, Throw,
           LInv, SessionTypeOK
  <2> QED
    BY <2>1, ErrorsEnd DEF EdgeAnswers
<1>o. Orphans
  BY <1>e
<1>1. ASSUME store' = store, upstream' = upstream, now' = now \/ now' = now + 1
      PROVE  Orphans'
  <2> SUFFICES ASSUME NEW h \in upstream PROVE (store[h].open \/ Lapsed(h))'
    BY <1>1 DEF Orphans
  <2>1. store[h].open \/ Lapsed(h)
    BY <1>o DEF Orphans
  <2>2. Lapsed(h) => Lapsed(h)'
    BY <1>1, <1>t DEF Lapsed
  <2> QED
    BY <1>1, <2>1, <2>2
<1>2. ASSUME NEW t \in Tab, Open(t) \/ Close(t) \/ SignIn(t) \/ SignOut(t) \/ TimerFires(t) \/ Answers(t)
                            \/ \E k \in CallKind : ServeError(t, k) \/ Throw(t, k)
      PROVE  Orphans'
  <2>1. UNCHANGED <<now, store, upstream>>
    BY <1>2 DEF Open, Close, SignIn, SignOut, TimerFires, Answers, HearAnswer, ServeError, Throw
  <2> QED
    BY <1>1, <2>1
<1>3. ASSUME NEW t \in Tab, Work(t) PROVE Orphans'
  <2>1. BrowserHandle \in Handle \cup {0}
    BY <1>t DEF BrowserHandle
  <2>2. store' = Touched(BrowserHandle) /\ UNCHANGED <<now, upstream>>
    BY <1>3 DEF Work
  <2>3. PICK g \in Handle \cup {0} : g = BrowserHandle
    BY <2>1
  <2>4. store' = Touched(g)
    BY <2>2, <2>3
  <2> QED
    BY <1>o, <2>2, <2>4, TouchedOrphans
<1>4. ASSUME NEW t \in Tab, NEW k \in CallKind, ServeSession(t, k) PROVE Orphans'
  <2>1. calls[t][k] \in AuthCall
    BY DEF LInv, SessionTypeOK
  <2>2. PICK g \in Handle \cup {0} : g = calls[t][k].handle
    BY <2>1 DEF AuthCall
  <2>3. store' = Touched(g) /\ UNCHANGED <<now, upstream>>
    BY <1>4, <2>2 DEF ServeSession
  <2> QED
    BY <1>o, <2>3, TouchedOrphans
<1>5. ASSUME NEW t \in Tab, ServeLogin(t) PROVE Orphans'
  <2>1. CASE UNCHANGED <<store, upstream>>
    BY <1>1, <1>5, <2>1 DEF ServeLogin
  <2>2. ASSUME NEW h \in Handle, upstream' = upstream \cup {h},
               store' = [store EXCEPT ![h] = [open |-> TRUE, seen |-> now, ceiling |-> now + AbsoluteTtl]]
        PROVE  Orphans'
    <3>1. now' = now
      BY <1>5 DEF ServeLogin
    <3>2. store'[h].open
      BY <1>t, <2>2
    <3>3. ASSUME NEW g \in upstream, g # h PROVE (store[g].open \/ Lapsed(g))'
      <4>1. store'[g] = store[g]
        BY <1>t, <2>2, <3>3
      <4> QED
        BY <1>o, <3>1, <4>1 DEF Orphans, Lapsed
    <3> QED
      BY <2>2, <3>2, <3>3 DEF Orphans
  <2> QED
    BY <1>5, <2>1, <2>2 DEF ServeLogin
<1>6. ASSUME NEW t \in Tab, ServeLogout(t) PROVE Orphans'
  BY <1>6, <1>o, SignOutOrphans
<1>7. CASE Tick
  BY <1>1, <1>7 DEF Tick
<1>8. CASE UNCHANGED sessionVars
  BY <1>1, <1>8 DEF sessionVars
<1> QED
  BY <1>2, <1>3, <1>4, <1>5, <1>6, <1>7, <1>8 DEF SessionNext, Serve

(* The stores, the cookie jar and the tabs stay well-formed.               *)
THEOREM SessionTypeCorrect == SessionSpec => []SessionTypeOK
<1>1. LInv => SessionTypeOK
  BY DEF LInv
<1> QED
  BY LInvInit, SessionStep, <1>1, PTL DEF SessionSpec

(* While the edge answers, a session signed out of is dead at the edge,    *)
(* whatever is still in flight: routes.ts, the logout handlers.            *)
THEOREM SignedOutIsRevoked == SessionSpec => []SignedOutMeansRevoked
BY LInvInit, SessionStep, LInvMeans, PTL DEF SessionSpec

(* While edge and upstream answer, a citizen's session that is alive in    *)
(* identity-service and that the edge has forgotten is one that expired at *)
(* the edge (EdgeSessionStore.touch): no sign-out leaves one of which the  *)
(* window and the ceiling had not passed (applicantLogout, routes.ts).     *)
THEOREM OnlyTheExpiredAreOrphaned == SessionSpec => []OrphansHadExpired
<1> DEFINE OInv == LInv /\ (Applicant /\ EdgeAnswers => Orphans)
<1>1. SessionInit => OInv
  BY LInvInit DEF SessionInit, Orphans
<1>2. OInv /\ [SessionNext]_sessionVars => OInv'
  BY SessionStep, OrphansStep
<1>3. OInv => OrphansHadExpired
  BY DEF OrphansHadExpired, Orphans, Lapsed
<1> QED
  BY <1>1, <1>2, <1>3, PTL DEF SessionSpec

-----------------------------------------------------------------------------
(* How long a session lasts                                                *)

SessionCall == {"boot", "load", "refresh"}

LEMMA SentFields ==
  /\ Sent.phase = "sent" /\ Sent.live = TRUE /\ Sent.handle = BrowserHandle
  /\ Idle.phase = "idle" /\ Idle.live = FALSE
  BY DEF Sent, Idle

LEMMA CallsAre ==
  ASSUME LInv
  PROVE  /\ calls \in [Tab -> [CallKind -> AuthCall]] /\ tabs \in [Tab -> TabState]
         /\ store \in [Handle -> [open : BOOLEAN, seen : Time, ceiling : Time]]
         /\ now \in 0..MaxTime /\ now \in Nat
         /\ cookie \in [handle : Handle \cup {0}, until : Time]
         /\ SessionCall \subseteq CallKind /\ CallKind = SessionCall \cup {"login", "logout"}
  BY SessionNumbers DEF LInv, SessionTypeOK, SessionCall, CallKind

LEMMA PutCall ==
  ASSUME LInv, NEW t \in Tab, NEW k \in CallKind, NEW c, calls' = [calls EXCEPT ![t][k] = c]
  PROVE  /\ calls'[t][k] = c
         /\ \A u \in Tab, j \in CallKind : u # t \/ j # k => calls'[u][j] = calls[u][j]
  BY CallsAre

LEMMA AnsweredIs ==
  ASSUME LInv, NEW t \in Tab, NEW k \in CallKind, NEW ok, NEW v, NEW set, Answered(t, k, ok, v, set)
  PROVE  /\ calls'[t][k].phase = "answered" /\ calls'[t][k].ok = ok
         /\ calls'[t][k].view = v /\ calls'[t][k].set = set
         /\ calls'[t][k].handle = calls[t][k].handle /\ calls'[t][k].live = calls[t][k].live
         /\ \A u \in Tab, j \in CallKind : u # t \/ j # k => calls'[u][j] = calls[u][j]
<1>1. calls[t][k] \in AuthCall
  BY CallsAre
<1>2. PICK c : c = [calls[t][k] EXCEPT !.phase = "answered", !.ok = ok, !.view = v, !.set = set]
  OBVIOUS
<1>3. /\ c.phase = "answered" /\ c.ok = ok /\ c.view = v /\ c.set = set
      /\ c.handle = calls[t][k].handle /\ c.live = calls[t][k].live
  BY <1>1, <1>2 DEF AuthCall
<1>4. calls' = [calls EXCEPT ![t][k] = c]
  BY <1>2, CallsAre DEF Answered
<1>5. calls'[t][k] = c /\ \A u \in Tab, j \in CallKind : u # t \/ j # k => calls'[u][j] = calls[u][j]
  BY <1>4, CallsAre
<1> QED
  BY <1>3, <1>5

(* A call is one that was, but for whether it is waited for.               *)
Like(c, d) == c.phase = d.phase /\ c.handle = d.handle /\ c.ok = d.ok /\ c.view = d.view /\ c.set = d.set

LEMMA HushLike ==
  ASSUME NEW c \in AuthCall, NEW d, d = [c EXCEPT !.live = FALSE]
  PROVE  Like(d, c) /\ d.live = FALSE
  BY DEF AuthCall, Like

LEMMA HeardIs ==
  ASSUME LInv, NEW t \in Tab, NEW k \in CallKind, HearAnswer(t, k)
  PROVE  /\ calls'[t][k] = Idle
         /\ \A u \in Tab, j \in CallKind : u # t => calls'[u][j] = calls[u][j]
         /\ calls[t][k].live /\ k = "login" /\ calls[t][k].ok =>
              /\ calls'[t]["load"] = [Sent EXCEPT !.handle = cookie'.handle]
              /\ \A j \in CallKind \ {k, "load"} : calls'[t][j] = calls[t][j]
         /\ calls[t][k].live /\ k # "login" =>
              /\ k # "refresh" => Like(calls'[t]["refresh"], calls[t]["refresh"])
                                  /\ calls'[t]["refresh"].live = FALSE
              /\ \A j \in CallKind \ {k, "refresh"} : calls'[t][j] = calls[t][j]
         /\ ~(calls[t][k].live /\ (k # "login" \/ calls[t][k].ok)) =>
              \A j \in CallKind \ {k} : calls'[t][j] = calls[t][j]
<1>1. calls \in [Tab -> [CallKind -> AuthCall]] /\ {"load", "refresh"} \subseteq CallKind
  BY CallsAre DEF SessionCall
<1>2. CASE calls[t][k].live /\ k = "login" /\ calls[t][k].ok
  <2>1. calls' = [Gone(t, k, calls) EXCEPT ![t]["load"] = [Sent EXCEPT !.handle = cookie'.handle]]
    BY <1>2, Zenon DEF HearAnswer
  <2>2. PICK c : c = [Sent EXCEPT !.handle = cookie'.handle]
    OBVIOUS
  <2>3. calls' = [[calls EXCEPT ![t][k] = Idle] EXCEPT ![t]["load"] = c]
    BY <2>1, <2>2 DEF Gone
  <2>4. calls'[t][k] = Idle /\ calls'[t]["load"] = c
    BY <1>1, <1>2, <2>3
  <2>5. /\ \A j \in CallKind \ {k, "load"} : calls'[t][j] = calls[t][j]
        /\ \A u \in Tab, j \in CallKind : u # t => calls'[u][j] = calls[u][j]
    BY <1>1, <2>3
  <2> QED
    BY <1>2, <2>2, <2>4, <2>5
<1>3. CASE calls[t][k].live /\ k # "login"
  <2>1. calls' = Gone(t, k, EndLoop(t, calls))
    BY <1>3, Zenon DEF HearAnswer
  <2>2. PICK d : d = [calls[t]["refresh"] EXCEPT !.live = FALSE]
    OBVIOUS
  <2>3. Like(d, calls[t]["refresh"]) /\ d.live = FALSE
    BY <1>1, <2>2, HushLike
  <2>4. EndLoop(t, calls) = [calls EXCEPT ![t]["refresh"] = d]
    BY <2>2 DEF EndLoop
  <2>5. calls' = [[calls EXCEPT ![t]["refresh"] = d] EXCEPT ![t][k] = Idle]
    BY <2>1, <2>4 DEF Gone
  <2>6. calls'[t][k] = Idle /\ (k # "refresh" => calls'[t]["refresh"] = d)
    BY <1>1, <2>5
  <2>7. /\ \A j \in CallKind \ {k, "refresh"} : calls'[t][j] = calls[t][j]
        /\ \A u \in Tab, j \in CallKind : u # t => calls'[u][j] = calls[u][j]
    BY <1>1, <2>5
  <2> QED
    BY <1>3, <2>3, <2>6, <2>7
<1>4. CASE ~(calls[t][k].live /\ (k # "login" \/ calls[t][k].ok))
  <2>1. calls' = Gone(t, k, calls)
    BY <1>4, Zenon DEF HearAnswer
  <2> QED
    BY <1>1, <1>4, <2>1 DEF Gone
<1> QED
  BY <1>2, <1>3, <1>4

(* What a tab does about the session it was shown.                         *)
LEMMA PlanGives ==
  ASSUME now \in 0..MaxTime, NEW v \in View, now < v.idle, now < v.ceiling, NEW p, p = Plan(v)
  PROVE  /\ p.status = "authenticated" /\ p.view = v /\ now < p.at
         /\ p.timer = IF v.ceiling - now <= Warning THEN "ceiling" ELSE "refresh"
         /\ p.timer = "ceiling" => p.at = v.ceiling
         /\ p.timer = "refresh" /\ MinDelay < IdleTtl /\ v.idle <= now + IdleTtl => p.at < now + IdleTtl
<1> DEFINE scheduled == Maximum(MinDelay, ((v.idle - now) * 3) \div 4)
           left4 == Maximum(MinDelay, v.ceiling - now - Warning)
           delay == Minimum(scheduled, left4)
<1>1. v.idle \in Nat /\ v.ceiling \in Nat /\ now \in Nat /\ Warning \in Nat
  BY Times DEF View
<1>2. IdleTtl \in Nat \ {0} /\ MinDelay \in Nat \ {0}
  BY SessionNumbers
<1>3. CASE v.ceiling - now <= Warning
  <2>1. p = [Shows("authenticated") EXCEPT !.view = v, !.timer = "ceiling", !.at = v.ceiling]
    BY <1>1, <1>3 DEF Plan
  <2> QED
    BY <1>3, <2>1, ShowsIs
<1>4. CASE ~(v.ceiling - now <= Warning)
  <2>1. PICK x \in Nat \ {0} : x = v.idle - now
    BY <1>1
  <2>2. (x * 3) \div 4 \in Nat /\ (x * 3) \div 4 < x
    OBVIOUS
  <2>3. scheduled \in Nat /\ scheduled >= MinDelay /\ (MinDelay < IdleTtl /\ x <= IdleTtl => scheduled < IdleTtl)
    BY <1>2, <2>1, <2>2 DEF Maximum
  <2>4. left4 \in Nat /\ left4 >= MinDelay
    BY <1>1, <1>2, <1>4 DEF Maximum
  <2> HIDE DEF scheduled, left4
  <2>5. delay \in Nat \ {0} /\ (MinDelay < IdleTtl /\ x <= IdleTtl => delay < IdleTtl)
    BY <1>2, <2>3, <2>4 DEF Minimum
  <2>6. p = [Shows("authenticated") EXCEPT !.view = v, !.timer = "refresh", !.at = now + delay]
    BY <1>1, <1>4 DEF Plan, scheduled, left4
  <2> HIDE DEF delay
  <2>7. p.status = "authenticated" /\ p.view = v /\ p.timer = "refresh" /\ p.at = now + delay
    BY <2>6, ShowsIs
  <2> QED
    BY <1>1, <1>2, <1>4, <2>1, <2>5, <2>7
<1> QED
  BY <1>3, <1>4

LEMMA HeardTab ==
  ASSUME LInv, NEW t \in Tab, NEW k \in CallKind, HearAnswer(t, k)
  PROVE  /\ \A u \in Tab : u # t => tabs'[u] = tabs[u]
         /\ ~calls[t][k].live \/ k = "login" => tabs' = tabs
         /\ calls[t][k].live /\ k \in SessionCall /\ calls[t][k].ok => tabs'[t] = Plan(calls[t][k].view)
         /\ calls[t][k].live /\ k \in {"boot", "load"} /\ ~calls[t][k].ok => tabs'[t] = Shows("anonymous")
         /\ calls[t][k].live /\ k = "refresh" /\ ~calls[t][k].ok => tabs'[t] = Shows("expired")
         /\ calls[t][k].live /\ k = "logout" => tabs'[t] = Shows("anonymous")
<1>1. tabs \in [Tab -> TabState]
  BY CallsAre
<1>2. CASE ~calls[t][k].live
  <2>1. tabs' = tabs
    BY <1>2, Zenon DEF HearAnswer
  <2> QED
    BY <1>2, <2>1
<1>3. CASE calls[t][k].live
  <2>1. PICK after : after = AfterAnswer(t, k)
    OBVIOUS
  <2>2. tabs' = [tabs EXCEPT ![t] = after]
    BY <1>3, <2>1, Zenon DEF HearAnswer
  <2>3. tabs'[t] = after /\ \A u \in Tab : u # t => tabs'[u] = tabs[u]
    BY <1>1, <2>2
  <2>4. k = "login" => after = tabs[t]
    BY <2>1, Zenon DEF AfterAnswer
  <2>5. k = "login" => tabs' = tabs
    BY <1>1, <2>2, <2>4
  <2>6. k \in SessionCall /\ calls[t][k].ok => after = Plan(calls[t][k].view)
    BY <2>1, Zenon DEF AfterAnswer, SessionCall
  <2>7. k \in {"boot", "load"} /\ ~calls[t][k].ok => after = Shows("anonymous")
    BY <2>1, Zenon DEF AfterAnswer
  <2>8. k = "refresh" /\ ~calls[t][k].ok => after = Shows("expired")
    BY <2>1, Zenon DEF AfterAnswer
  <2>9. k = "logout" => after = Shows("anonymous")
    BY <2>1, Zenon DEF AfterAnswer
  <2> QED
    BY <1>3, <2>3, <2>5, <2>6, <2>7, <2>8, <2>9, Zenon
<1> QED
  BY <1>2, <1>3

LEMMA HeardJar ==
  ASSUME LInv, NEW t \in Tab, NEW k \in CallKind, HearAnswer(t, k)
  PROVE  /\ calls[t][k].set = Keep => cookie' = cookie
         /\ calls[t][k].set = Clear => cookie'.handle = 0 /\ cookie'.until = 0
         /\ \A h \in Handle : calls[t][k].set = Issue(h) =>
              cookie'.handle = h /\ cookie'.until = now + IdleTtl
<1>1. SetCookie(calls[t][k])
  BY DEF HearAnswer
<1>2. ASSUME calls[t][k].set = Keep PROVE cookie' = cookie
  <2>1. calls[t][k].set.keep
    BY <1>2 DEF Keep
  <2> QED
    BY <1>1, <2>1, Zenon DEF SetCookie
<1>3. ASSUME calls[t][k].set = Clear PROVE cookie'.handle = 0 /\ cookie'.until = 0
  <2>1. ~calls[t][k].set.keep /\ calls[t][k].set.handle = 0
    BY <1>3 DEF Clear
  <2>2. cookie' = [handle |-> calls[t][k].set.handle, until |-> 0]
    BY <1>1, <1>3, <2>1, Zenon DEF SetCookie
  <2> QED
    BY <2>1, <2>2
<1>4. ASSUME NEW h \in Handle, calls[t][k].set = Issue(h)
      PROVE  cookie'.handle = h /\ cookie'.until = now + IdleTtl
  <2>1. ~calls[t][k].set.keep /\ calls[t][k].set.handle = h
    BY <1>4 DEF Issue
  <2>2. calls[t][k].set # Clear
    BY <2>1, HandlesAre DEF Clear
  <2>3. cookie' = [handle |-> calls[t][k].set.handle, until |-> now + IdleTtl]
    BY <1>1, <2>1, <2>2, Zenon DEF SetCookie
  <2> QED
    BY <2>1, <2>3
<1> QED
  BY <1>2, <1>3, <1>4

(* A session that was closed before its end was signed out of, by a call   *)
(* whose answer is known or will be.                                       *)
Out(h) ==
  \/ h \in signedOut
  \/ \E u \in Tab : calls[u]["logout"].phase = "answered" /\ calls[u]["logout"].handle = h
There(h, c) == store[h].ceiling = c /\ (store[h].open \/ Out(h))

(* What a tab warns of, or is about to be told, is what a session has.     *)
Seen == \A h \in Handle : store[h].seen <= now
EndsAt(c) == \E h \in Handle : There(h, c) /\ store[h].seen + IdleTtl >= c
Warned == \A t \in Tab : tabs[t].timer = "ceiling" /\ now < tabs[t].at => EndsAt(tabs[t].at)
IsTold(v) ==
  /\ now < v.ceiling /\ v.idle = Minimum(now + IdleTtl, v.ceiling)
  /\ \E h \in Handle : There(h, v.ceiling) /\ store[h].seen + IdleTtl >= v.idle
Told == \A t \in Tab, k \in SessionCall :
  calls[t][k].phase = "answered" /\ calls[t][k].ok => IsTold(calls[t][k].view)

VInv == Seen /\ Warned /\ Told

(* Once a call is left without an answer, that stays so.                   *)
LEMMA NoThrow ==
  ASSUME LInv, NothingLost', SessionNext
  PROVE  NothingLost /\ \A t \in Tab, k \in CallKind : ~Throw(t, k)
<1>1. left \in [closes : 0..MaxCloses, errors : 0..MaxErrors, throws : 0..MaxThrows] /\ MaxThrows \in Nat
  BY SessionNumbers DEF LInv, SessionTypeOK
<1>2. \A t \in Tab, k \in CallKind : ~Throw(t, k)
  BY <1>1 DEF Throw, NothingLost
<1>3. left'.throws = left.throws
  <2>1. left' = [left EXCEPT !.closes = @ - 1] \/ left' = [left EXCEPT !.errors = @ - 1] => left'.throws = left.throws
    BY <1>1
  <2> QED
    BY <1>2, <2>1 DEF SessionNext, Open, Close, SignIn, SignOut, Work, TimerFires, Tick, Serve, ServeSession,
       ServeLogin, ServeLogout, Answers, HearAnswer, ServeError
<1> QED
  BY <1>2, <1>3 DEF NothingLost

(* A sign-out is served and heard, and nothing else becomes of it.         *)
LEMMA LogoutStays ==
  ASSUME LInv, NothingLost', SessionNext, NEW u \in Tab, calls[u]["logout"].phase # "idle",
         ~HearAnswer(u, "logout")
  PROVE  /\ calls'[u]["logout"].phase # "idle" /\ calls'[u]["logout"].handle = calls[u]["logout"].handle
         /\ calls[u]["logout"].phase = "answered" => calls'[u]["logout"].phase = "answered"
<1> DEFINE stays == /\ calls'[u]["logout"].phase # "idle"
                    /\ calls'[u]["logout"].handle = calls[u]["logout"].handle
                    /\ calls[u]["logout"].phase = "answered" => calls'[u]["logout"].phase = "answered"
<1>0. "logout" \in CallKind
  BY DEF CallKind
<1>1. CASE UNCHANGED calls
  BY <1>1
<1>2. ASSUME NEW t \in Tab, NEW k \in CallKind, calls' = [calls EXCEPT ![t][k] = Sent], Free(t, k)
      PROVE  stays
  BY <1>0, <1>2, PutCall DEF Free
<1>3. ASSUME NEW t \in Tab, NEW k \in CallKind, NEW ok, NEW v, NEW set, Answered(t, k, ok, v, set)
      PROVE  stays
  <2>1. u # t \/ "logout" # k => calls'[u]["logout"] = calls[u]["logout"]
    BY <1>0, <1>3, AnsweredIs
  <2>2. calls'[t][k].phase = "answered" /\ calls'[t][k].handle = calls[t][k].handle
    BY <1>3, AnsweredIs
  <2> QED
    BY <2>1, <2>2
<1>4. ASSUME NEW t \in Tab, NEW k \in CallKind, HearAnswer(t, k) PROVE stays
  <2>1. CASE t # u
    <3>1. \A w \in Tab, j \in CallKind : w # t => calls'[w][j] = calls[w][j]
      BY <1>4, HeardIs
    <3> QED
      BY <1>0, <2>1, <3>1
  <2>2. CASE t = u /\ k # "logout"
    <3>1. calls'[u]["logout"] = calls[u]["logout"]
      <4>1. "logout" \in CallKind \ {k, "load"} /\ "logout" \in CallKind \ {k, "refresh"} /\ "logout" \in CallKind \ {k}
        BY <1>0, <2>2
      <4>2. CASE calls[t][k].live /\ k = "login" /\ calls[t][k].ok
        BY <1>4, <2>2, <4>1, <4>2, HeardIs, Zenon
      <4>3. CASE calls[t][k].live /\ k # "login"
        BY <1>4, <2>2, <4>1, <4>3, HeardIs, Zenon
      <4>4. CASE ~(calls[t][k].live /\ (k # "login" \/ calls[t][k].ok))
        BY <1>4, <2>2, <4>1, <4>4, HeardIs, Zenon
      <4> QED
        BY <4>2, <4>3, <4>4
    <3> QED
      BY <3>1
  <2> QED
    BY <1>4, <2>1, <2>2
<1>5. ASSUME NEW t \in Tab, Close(t) PROVE stays
  <2>1. calls' = [calls EXCEPT ![t] = [j \in CallKind |-> [@[j] EXCEPT !.live = FALSE]]]
    BY <1>5 DEF Close
  <2>2. t = u => calls'[u]["logout"] = [calls[u]["logout"] EXCEPT !.live = FALSE]
    BY <1>0, <2>1, CallsAre
  <2>3. t # u => calls'[u]["logout"] = calls[u]["logout"]
    BY <2>1, CallsAre
  <2>4. calls[u]["logout"] \in AuthCall
    BY <1>0, CallsAre
  <2> QED
    BY <2>2, <2>3, <2>4, HushLike DEF Like
<1>6. ASSUME NEW t \in Tab, calls' = EndLoop(t, calls) PROVE stays
  BY <1>0, <1>6, CallsAre DEF EndLoop
<1>7. ASSUME NEW t \in Tab, Open(t) \/ SignIn(t) \/ SignOut(t) \/ TimerFires(t) PROVE stays
  <2>1. {"boot", "login", "logout", "refresh"} \subseteq CallKind
    BY DEF CallKind
  <2> QED
    BY <1>2, <1>6, <1>7, <2>1 DEF Open, SignIn, SignOut, TimerFires
<1>8. ASSUME NEW t \in Tab, NEW k \in CallKind,
             ServeSession(t, k) \/ ServeLogin(t) \/ ServeLogout(t) \/ ServeError(t, k)
      PROVE  stays
  <2>1. {"login", "logout"} \subseteq CallKind
    BY DEF CallKind
  <2>2. \E j \in CallKind : \E ok, v, set : Answered(t, j, ok, v, set)
    BY <1>8, <2>1 DEF ServeSession, ServeLogin, ServeLogout, ServeError
  <2> QED
    BY <1>3, <2>2
<1>9. ASSUME NEW t \in Tab, Work(t) PROVE stays
  BY <1>1, <1>9 DEF Work
<1>10. ASSUME Tick PROVE stays
  BY <1>1, <1>10 DEF Tick
<1>11. \A t \in Tab, k \in CallKind : ~Throw(t, k)
  BY NoThrow
<1> QED
  BY <1>0, <1>4, <1>5, <1>7, <1>8, <1>9, <1>10, <1>11 DEF SessionNext, Serve, Answers

LEMMA SignedOutStays ==
  ASSUME LInv, SessionNext
  PROVE  /\ signedOut \subseteq signedOut'
         /\ \A u \in Tab, h \in Handle : HearAnswer(u, "logout") /\ calls[u]["logout"].handle = h => h \in signedOut'
<1>1. signedOut \subseteq signedOut'
  BY DEF SessionNext, Open, Close, SignIn, SignOut, Work, TimerFires, Tick, Serve, ServeSession,
     ServeLogin, ServeLogout, Answers, HearAnswer, ServeError, Throw
<1>2. ASSUME NEW u \in Tab, NEW h \in Handle, HearAnswer(u, "logout"), calls[u]["logout"].handle = h
      PROVE  h \in signedOut'
  BY <1>2, HandlesAre DEF HearAnswer
<1> QED
  BY <1>1, <1>2

LEMMA OutStays ==
  ASSUME LInv, NothingLost', SessionNext, NEW h \in Handle, Out(h)
  PROVE  Out(h)'
<1>1. CASE h \in signedOut
  BY <1>1, SignedOutStays DEF Out
<1>2. ASSUME NEW u \in Tab, calls[u]["logout"].phase = "answered", calls[u]["logout"].handle = h
      PROVE  Out(h)'
  <2>1. CASE HearAnswer(u, "logout")
    BY <1>2, <2>1, SignedOutStays DEF Out
  <2>2. CASE ~HearAnswer(u, "logout")
    <3>1. calls'[u]["logout"].phase = "answered" /\ calls'[u]["logout"].handle = h
      BY <1>2, <2>2, LogoutStays
    <3> QED
      BY <3>1 DEF Out
  <2> QED
    BY <2>1, <2>2
<1> QED
  BY <1>1, <1>2 DEF Out

(* A session is not closed before its end, but by a sign-out.              *)
Lasting == \A h \in Handle : store[h].ceiling # 0 =>
  /\ store'[h].ceiling = store[h].ceiling /\ store'[h].seen >= store[h].seen
  /\ now < store[h].ceiling /\ now < store[h].seen + IdleTtl /\ (store[h].open \/ Out(h)) =>
       store'[h].open \/ Out(h)'

LEMMA TouchLasts ==
  ASSUME LInv, Seen, NEW g \in Handle \cup {0}, store' = Touched(g), now' = now,
         \A h \in Handle : Out(h) => Out(h)'
  PROVE  Lasting /\ Seen'
<1>0. /\ store \in [Handle -> [open : BOOLEAN, seen : Time, ceiling : Time]] /\ now \in Nat
      /\ Time \subseteq Nat /\ IdleTtl \in Nat
  BY CallsAre, Times
<1>1. ASSUME NEW h \in Handle, h # g \/ store' = store PROVE store'[h] = store[h]
  BY <1>0, <1>1 DEF Touched
<1>2. ASSUME NEW h \in Handle, h = g, Touches(h)
      PROVE  store'[h].ceiling = store[h].ceiling /\ store'[h].seen = now /\ store'[h].open = store[h].open
  BY <1>0, <1>2 DEF Touched, Touches
<1>3. ASSUME NEW h \in Handle, h = g, ~Touches(h)
      PROVE  store'[h].ceiling = store[h].ceiling /\ store'[h].seen = store[h].seen
  BY <1>0, <1>3, HandlesAre DEF Touched
<1>4. ASSUME NEW h \in Handle
      PROVE  /\ store'[h].ceiling = store[h].ceiling /\ store'[h].seen >= store[h].seen /\ store'[h].seen <= now
             /\ now < store[h].ceiling /\ now < store[h].seen + IdleTtl /\ (store[h].open \/ Out(h)) =>
                  store'[h].open \/ Out(h)'
  <2>0. store[h].seen \in Nat /\ store[h].ceiling \in Nat /\ store[h].seen <= now /\ h # 0
    BY <1>0, HandlesAre DEF Seen
  <2>1. CASE h # g
    BY <1>1, <2>0, <2>1
  <2>2. CASE h = g /\ Touches(h)
    <3>1. store'[h].ceiling = store[h].ceiling /\ store'[h].seen = now
      BY <1>2, <2>2
    <3>2. store'[h].open = store[h].open /\ store[h].open
      BY <1>2, <2>2, Zenon DEF Touches
    <3>3. store'[h].open
      BY <3>2, Zenon
    <3>4. store'[h].seen >= store[h].seen /\ store'[h].seen <= now
      BY <1>0, <2>0, <3>1
    <3> QED
      BY <3>1, <3>3, <3>4, Zenon
  <2>3. CASE h = g /\ ~Touches(h)
    <3>1. ASSUME now < store[h].ceiling, now < store[h].seen + IdleTtl, store[h].open PROVE FALSE
      BY <1>0, <2>0, <2>3, <3>1 DEF Touches
    <3> QED
      BY <1>3, <2>0, <2>3, <3>1
  <2> QED
    BY <2>1, <2>2, <2>3
<1> QED
  BY <1>4 DEF Lasting, Seen

LEMMA StoreLasts ==
  ASSUME LInv, Seen, NothingLost', SessionNext
  PROVE  Lasting /\ Seen'
<1>0. \A h \in Handle : Out(h) => Out(h)'
  BY OutStays
<1>1. /\ store \in [Handle -> [open : BOOLEAN, seen : Time, ceiling : Time]] /\ now \in Nat
      /\ Time \subseteq Nat /\ IdleTtl \in Nat /\ \A h \in Handle : h # 0
  BY CallsAre, Times, HandlesAre
<1>2. ASSUME store' = store, now' \in {now, now + 1} PROVE Lasting /\ Seen'
  <2>1. ASSUME NEW h \in Handle
        PROVE  /\ store'[h].ceiling = store[h].ceiling /\ store'[h].seen >= store[h].seen
               /\ store'[h].seen <= now'
    <3>1. store[h].seen \in Nat /\ store[h].seen <= now
      BY <1>1 DEF Seen
    <3> QED
      BY <1>1, <1>2, <3>1
  <2>2. ASSUME NEW h \in Handle, store[h].open \/ Out(h) PROVE store'[h].open \/ Out(h)'
    BY <1>0, <1>2, <2>2, Zenon
  <2> QED
    BY <2>1, <2>2 DEF Lasting, Seen
<1>3. ASSUME NEW t \in Tab, Work(t) PROVE Lasting /\ Seen'
  <2>1. BrowserHandle \in Handle \cup {0}
    BY CallsAre DEF BrowserHandle
  <2> QED
    BY <1>0, <1>3, <2>1, TouchLasts DEF Work
<1>4. ASSUME NEW t \in Tab, NEW k \in CallKind, ServeSession(t, k) PROVE Lasting /\ Seen'
  <2>1. calls[t][k].handle \in Handle \cup {0}
    BY CallsAre DEF AuthCall
  <2> QED
    BY <1>0, <1>4, <2>1, TouchLasts DEF ServeSession
<1>5. ASSUME NEW t \in Tab, ServeLogin(t) PROVE Lasting /\ Seen'
  <2>1. CASE store' = store
    BY <1>2, <1>5, <2>1 DEF ServeLogin
  <2>2. ASSUME NEW g \in Handle, store[g].ceiling = 0,
               store' = [store EXCEPT ![g] = [open |-> TRUE, seen |-> now, ceiling |-> now + AbsoluteTtl]]
        PROVE  Lasting /\ Seen'
    <3>1. store'[g].seen = now /\ \A h \in Handle : h # g => store'[h] = store[h]
      BY <1>1, <2>2
    <3>2. now' = now
      BY <1>5 DEF ServeLogin
    <3>3. ASSUME NEW h \in Handle, h # g
          PROVE  /\ store'[h].ceiling = store[h].ceiling /\ store'[h].seen >= store[h].seen
                 /\ store'[h].seen <= now'
      <4>1. store[h].seen \in Nat /\ store[h].seen <= now /\ store'[h] = store[h]
        BY <1>1, <3>1, <3>3 DEF Seen
      <4>2. store'[h].seen = store[h].seen /\ store'[h].ceiling = store[h].ceiling
        BY <4>1
      <4> QED
        BY <3>2, <4>1, <4>2
    <3>4. ASSUME NEW h \in Handle, h # g, store[h].open \/ Out(h) PROVE store'[h].open \/ Out(h)'
      BY <1>0, <3>1, <3>4, Zenon
    <3>5. store'[g].seen <= now'
      BY <1>1, <3>1, <3>2
    <3> QED
      BY <2>2, <3>3, <3>4, <3>5 DEF Lasting, Seen
  <2> QED
    BY <1>5, <2>1, <2>2 DEF ServeLogin
<1>6. ASSUME NEW t \in Tab, ServeLogout(t) PROVE Lasting /\ Seen'
  <2>1. PICK g : g = calls[t]["logout"].handle
    OBVIOUS
  <2>2. now' = now /\ store' = IF g = 0 THEN store ELSE [store EXCEPT ![g].open = FALSE]
    BY <1>6, <2>1 DEF ServeLogout
  <2>3. g \in Handle => Out(g)'
    <3>1. "logout" \in CallKind
      BY DEF CallKind
    <3>2. Answered(t, "logout", TRUE, NoView, Clear)
      BY <1>6, Zenon DEF ServeLogout
    <3>3. \E ok, v, set : Answered(t, "logout", ok, v, set)
      BY <3>2
    <3>4. calls'[t]["logout"].phase = "answered" /\ calls'[t]["logout"].handle = calls[t]["logout"].handle
      <4>1. PICK ok, v, set : Answered(t, "logout", ok, v, set)
        BY <3>3
      <4> QED
        BY <3>1, <4>1, AnsweredIs
    <3> QED
      BY <2>1, <3>4 DEF Out
  <2>4. \A h \in Handle : /\ store'[h].ceiling = store[h].ceiling /\ store'[h].seen = store[h].seen
                          /\ h # g => store'[h] = store[h]
    BY <1>1, <2>2
  <2> QED
    BY <1>0, <1>1, <2>2, <2>3, <2>4 DEF Lasting, Seen
<1> QED
  BY <1>2, <1>3, <1>4, <1>5, <1>6 DEF SessionNext, Open, Close, SignIn, SignOut, TimerFires, Tick, Serve,
     Answers, HearAnswer, ServeError, Throw

LEMMA EndsStay ==
  ASSUME LInv, Lasting, NEW c \in Nat, NEW d \in Nat, now < c, c <= d,
         NEW h \in Handle, There(h, d), store[h].seen + IdleTtl >= c, store' \in [Handle -> [open : BOOLEAN, seen : Time, ceiling : Time]]
  PROVE  There(h, d)' /\ store'[h].seen + IdleTtl >= c
<1>1. /\ store[h].seen \in Nat /\ store[h].ceiling = d /\ store'[h].seen \in Nat /\ now \in Nat
      /\ IdleTtl \in Nat
  BY CallsAre, Times DEF There
<1>2. store'[h].ceiling = d /\ store'[h].seen >= store[h].seen
  BY <1>1 DEF Lasting
<1>3. now < store[h].ceiling /\ now < store[h].seen + IdleTtl /\ store[h].ceiling # 0
  BY <1>1
<1>4. store[h].open \/ Out(h)
  BY Zenon DEF There
<1>5. store'[h].open \/ Out(h)'
  BY <1>3, <1>4, Zenon DEF Lasting
<1>6. There(h, d)'
  BY <1>2, <1>5, Zenon DEF There
<1> QED
  BY <1>1, <1>2, <1>6

(* The two ways in which a step may keep what the tabs know.               *)
NoNewWarning == \A t \in Tab : tabs'[t].timer = "ceiling" =>
                  tabs[t].timer = "ceiling" /\ tabs'[t].at = tabs[t].at
NoNewAnswer == \A t \in Tab, k \in SessionCall : calls'[t][k].phase = "answered" /\ calls'[t][k].ok =>
                 calls[t][k].phase = "answered" /\ calls[t][k].ok /\ calls'[t][k].view = calls[t][k].view

LEMMA WarnedStays ==
  ASSUME LInv, LInv', VInv, Lasting, NoNewWarning, now' >= now
  PROVE  Warned'
<1> SUFFICES ASSUME NEW t \in Tab, tabs'[t].timer = "ceiling", now' < tabs'[t].at
             PROVE  EndsAt(tabs[t].at)'
  BY Zenon DEF Warned
<1>1. tabs[t].timer = "ceiling" /\ tabs'[t].at = tabs[t].at
  BY DEF NoNewWarning
<1>2. tabs[t].at \in Nat /\ now \in Nat /\ now' \in Nat
  BY CallsAre, Times DEF TabState, LInv, SessionTypeOK
<1>3. now < tabs[t].at
  BY <1>1, <1>2
<1>4. PICK h \in Handle : There(h, tabs[t].at) /\ store[h].seen + IdleTtl >= tabs[t].at
  BY <1>1, <1>3 DEF VInv, Warned, EndsAt
<1>5. PICK c \in Nat : c = tabs[t].at
  BY <1>2
<1>6. store' \in [Handle -> [open : BOOLEAN, seen : Time, ceiling : Time]]
  BY DEF LInv, SessionTypeOK
<1>7. There(h, c)' /\ store'[h].seen + IdleTtl >= c
  BY <1>3, <1>4, <1>5, <1>6, EndsStay
<1>8. EndsAt(c)' /\ c = tabs'[t].at
  BY <1>1, <1>5, <1>7 DEF EndsAt
<1> QED
  BY <1>8 DEF EndsAt, There, Out

LEMMA ToldStays ==
  ASSUME LInv, LInv', VInv, Lasting, now' = now, NEW v \in View, IsTold(v)
  PROVE  IsTold(v)'
<1>1. PICK h \in Handle : There(h, v.ceiling) /\ store[h].seen + IdleTtl >= v.idle
  BY DEF IsTold
<1>2. v.idle \in Nat /\ v.ceiling \in Nat /\ now < v.idle /\ v.idle <= v.ceiling
  <2>1. v.idle \in Nat /\ v.ceiling \in Nat /\ now \in Nat /\ IdleTtl \in Nat \ {0}
    BY CallsAre, Times, SessionNumbers DEF View
  <2> QED
    BY <2>1 DEF IsTold, Minimum
<1>3. store' \in [Handle -> [open : BOOLEAN, seen : Time, ceiling : Time]]
  BY DEF LInv, SessionTypeOK
<1>4. There(h, v.ceiling)' /\ store'[h].seen + IdleTtl >= v.idle
  BY <1>1, <1>2, <1>3, EndsStay
<1> QED
  BY <1>4 DEF IsTold

LEMMA ToldAllStays ==
  ASSUME LInv, LInv', VInv, Lasting, now' = now, NoNewAnswer
  PROVE  Told'
<1> SUFFICES ASSUME NEW t \in Tab, NEW k \in SessionCall, calls'[t][k].phase = "answered", calls'[t][k].ok
             PROVE  IsTold(calls[t][k].view)'
  BY Zenon DEF Told
<1>1. calls[t][k].phase = "answered" /\ calls[t][k].ok /\ calls'[t][k].view = calls[t][k].view
  BY Zenon DEF NoNewAnswer
<1>2. IsTold(calls[t][k].view) /\ calls[t][k].view \in View
  BY <1>1, CallsAre DEF VInv, Told, AuthCall
<1>3. PICK v \in View : v = calls[t][k].view
  BY <1>2
<1>4. IsTold(v)'
  BY <1>2, <1>3, ToldStays
<1> QED
  BY <1>1, <1>3, <1>4 DEF IsTold, There, Out

LEMMA SentNews ==
  ASSUME LInv, NEW t \in Tab, NEW k \in CallKind, NEW c, calls' = [calls EXCEPT ![t][k] = c],
         ~(c.phase = "answered" /\ c.ok)
  PROVE  NoNewAnswer
BY CallsAre, PutCall DEF NoNewAnswer

LEMMA AnsweredNews ==
  ASSUME LInv, NEW t \in Tab, NEW k \in CallKind, NEW ok, NEW v, NEW set,
         Answered(t, k, ok, v, set), k \in SessionCall => ~ok
  PROVE  NoNewAnswer
<1> SUFFICES ASSUME NEW u \in Tab, NEW j \in SessionCall, calls'[u][j].phase = "answered", calls'[u][j].ok
             PROVE  calls[u][j].phase = "answered" /\ calls[u][j].ok /\ calls'[u][j].view = calls[u][j].view
  BY Zenon DEF NoNewAnswer
<1>1. j \in CallKind
  BY CallsAre
<1>2. /\ calls'[t][k].ok = ok
      /\ \A w \in Tab, i \in CallKind : w # t \/ i # k => calls'[w][i] = calls[w][i]
  BY AnsweredIs
<1>3. u # t \/ j # k
  BY <1>2, Zenon
<1> QED
  BY <1>1, <1>2, <1>3, Zenon

LEMMA TabsNews ==
  ASSUME LInv, NEW t \in Tab, Open(t) \/ Close(t) \/ SignIn(t) \/ SignOut(t) \/ Work(t) \/ TimerFires(t)
  PROVE  NoNewWarning /\ NoNewAnswer
<1>0. /\ {"boot", "login", "logout", "refresh"} \subseteq CallKind /\ SessionCall \subseteq CallKind
      /\ ~(Sent.phase = "answered")
  BY SentFields DEF CallKind, SessionCall
<1>1. CASE Open(t)
  <2>1. calls' = [calls EXCEPT ![t]["boot"] = Sent] /\ tabs' = [tabs EXCEPT ![t] = Shows("checking")]
    BY <1>1 DEF Open
  <2>2. NoNewWarning
    BY <2>1, CallsAre, ShowsIs DEF NoNewWarning
  <2> QED
    BY <1>0, <2>1, <2>2, SentNews
<1>2. CASE Close(t)
  <2>1. /\ calls' = [calls EXCEPT ![t] = [j \in CallKind |-> [@[j] EXCEPT !.live = FALSE]]]
        /\ tabs' = [tabs EXCEPT ![t] = Closed]
    BY <1>2 DEF Close
  <2>2. NoNewWarning
    BY <2>1, CallsAre DEF NoNewWarning, Closed
  <2>3. ASSUME NEW u \in Tab, NEW j \in CallKind
        PROVE  Like(calls'[u][j], calls[u][j])
    <3>1. calls[u][j] \in AuthCall
      BY CallsAre
    <3>2. u = t => calls'[u][j] = [calls[u][j] EXCEPT !.live = FALSE]
      BY <2>1, CallsAre
    <3>3. u # t => calls'[u][j] = calls[u][j]
      BY <2>1, CallsAre
    <3> QED
      BY <3>1, <3>2, <3>3, HushLike DEF Like
  <2>4. NoNewAnswer
    BY <1>0, <2>3, Zenon DEF NoNewAnswer, Like
  <2> QED
    BY <2>2, <2>4
<1>3. CASE SignIn(t) \/ SignOut(t)
  <2>1. NoNewAnswer
    BY <1>0, <1>3, SentNews DEF SignIn, SignOut
  <2> QED
    BY <1>3, <2>1 DEF SignIn, SignOut, NoNewWarning
<1>4. CASE Work(t)
  BY <1>4, Zenon DEF Work, NoNewWarning, NoNewAnswer
<1>5. CASE TimerFires(t)
  <2>1. CASE tabs' = [tabs EXCEPT ![t].timer = "none"] /\ calls' = [calls EXCEPT ![t]["refresh"] = Sent]
    <3>1. NoNewWarning
      BY <2>1, CallsAre DEF NoNewWarning, TabState
    <3> QED
      BY <1>0, <2>1, <3>1, SentNews
  <2>2. CASE tabs' = [tabs EXCEPT ![t] = Shows("expired")] /\ calls' = EndLoop(t, calls)
    <3>1. NoNewWarning
      BY <2>2, CallsAre, ShowsIs DEF NoNewWarning
    <3>2. PICK d : d = [calls[t]["refresh"] EXCEPT !.live = FALSE]
      OBVIOUS
    <3>3. calls[t]["refresh"] \in AuthCall
      BY <1>0, CallsAre
    <3>4. Like(d, calls[t]["refresh"])
      BY <3>2, <3>3, HushLike
    <3>5. calls' = [calls EXCEPT ![t]["refresh"] = d]
      BY <2>2, <3>2 DEF EndLoop
    <3>6. ASSUME NEW u \in Tab, NEW j \in CallKind PROVE Like(calls'[u][j], calls[u][j])
      BY <1>0, <3>4, <3>5, PutCall DEF Like
    <3>7. NoNewAnswer
      BY <1>0, <3>6, Zenon DEF NoNewAnswer, Like
    <3> QED
      BY <3>1, <3>7
  <2> QED
    BY <1>5, <2>1, <2>2 DEF TimerFires
<1> QED
  BY <1>1, <1>2, <1>3, <1>4, <1>5

LEMMA ServesNews ==
  ASSUME LInv, NEW t \in Tab, NEW k \in CallKind, ServeLogin(t) \/ ServeLogout(t) \/ ServeError(t, k)
  PROVE  NoNewWarning /\ NoNewAnswer
<1>0. {"login", "logout"} \subseteq CallKind \ SessionCall
  BY DEF CallKind, SessionCall
<1>1. tabs' = tabs
  BY DEF ServeLogin, ServeLogout, ServeError
<1>2. \E j \in CallKind : \E ok, v, set : Answered(t, j, ok, v, set) /\ (j \in SessionCall => ok = FALSE)
  BY <1>0 DEF ServeLogin, ServeLogout, ServeError
<1> QED
  BY <1>1, <1>2, AnsweredNews DEF NoNewWarning

LEMMA ServeSessionTells ==
  ASSUME LInv, LInv', VInv, Lasting, NEW t \in Tab, NEW k \in CallKind, ServeSession(t, k)
  PROVE  Told'
<1>1. PICK h : h = calls[t][k].handle
  OBVIOUS
<1>2. h \in Handle \cup {0} /\ store' = Touched(h) /\ now' = now /\ k \in SessionCall
  <2>1. calls[t][k] \in AuthCall
    BY CallsAre
  <2> QED
    BY <1>1, <2>1 DEF ServeSession, AuthCall, SessionCall
<1>3. CASE ~Touches(h)
  <2>1. PICK set : Answered(t, k, FALSE, NoView, set)
    BY <1>1, <1>3, Zenon DEF ServeSession
  <2>2. NoNewAnswer
    BY <2>1, AnsweredNews
  <2> QED
    BY <1>2, <2>2, ToldAllStays
<1>4. CASE Touches(h)
  <2>1. PICK ok, set : Answered(t, k, ok, ViewOf(h), set)
    BY <1>1, <1>4, Zenon DEF ServeSession
  <2>2. PICK v : v = ViewOf(h)
    OBVIOUS
  <2>3. /\ h \in Handle /\ now < store[h].ceiling /\ now \in Nat /\ IdleTtl \in Nat
        /\ store \in [Handle -> [open : BOOLEAN, seen : Time, ceiling : Time]]
        /\ store[h].ceiling \in Nat
    BY <1>2, <1>4, CallsAre, Times DEF Touches
  <2>4. store' = [store EXCEPT ![h].seen = now]
    BY <1>2, <1>4, <2>3, HandlesAre DEF Touched
  <2>5. store'[h].ceiling = store[h].ceiling /\ store'[h].seen = now
    BY <2>3, <2>4
  <2>6. store'[h].open
    <3>1. store'[h].open = store[h].open
      BY <2>3, <2>4
    <3>2. store[h].open
      BY <1>4, Zenon DEF Touches
    <3> QED
      BY <3>1, <3>2, Zenon
  <2>7. v.idle = Minimum(now + IdleTtl, store[h].ceiling) /\ v.ceiling = store[h].ceiling
    BY <2>2 DEF ViewOf
  <2>8. There(h, v.ceiling)'
    BY <2>5, <2>6, <2>7, Zenon DEF There
  <2>9. v.idle <= now + IdleTtl
    BY <2>3, <2>7 DEF Minimum
  <2>10. now' < v.ceiling /\ v.idle = Minimum(now' + IdleTtl, v.ceiling) /\ store'[h].seen + IdleTtl >= v.idle
    BY <1>2, <2>3, <2>5, <2>7, <2>9
  <2>11. IsTold(v)'
    BY <2>3, <2>8, <2>10 DEF IsTold
  <2>12. calls'[t][k].view = v /\ \A u \in Tab, j \in CallKind : u # t \/ j # k => calls'[u][j] = calls[u][j]
    BY <2>1, <2>2, AnsweredIs
  <2> SUFFICES ASSUME NEW u \in Tab, NEW j \in SessionCall, calls'[u][j].phase = "answered", calls'[u][j].ok
               PROVE  IsTold(calls[u][j].view)'
    BY Zenon DEF Told
  <2>13. CASE u = t /\ j = k
    BY <2>11, <2>12, <2>13 DEF IsTold, There, Out
  <2>14. CASE u # t \/ j # k
    <3>1. calls'[u][j] = calls[u][j] /\ j \in CallKind
      BY <2>12, <2>14, CallsAre
    <3>2. calls[u][j].phase = "answered" /\ calls[u][j].ok
      BY <3>1, Zenon
    <3>3. IsTold(calls[u][j].view) /\ calls[u][j].view \in View
      BY <3>1, <3>2, CallsAre DEF VInv, Told, AuthCall
    <3>4. PICK w \in View : w = calls[u][j].view
      BY <3>3
    <3>5. IsTold(w)'
      BY <1>2, <3>3, <3>4, ToldStays
    <3> QED
      BY <3>1, <3>4, <3>5 DEF IsTold, There, Out
  <2> QED
    BY <2>13, <2>14
<1> QED
  BY <1>3, <1>4

LEMMA HeardLike ==
  ASSUME LInv, NEW t \in Tab, NEW k \in CallKind, HearAnswer(t, k),
         NEW u \in Tab, NEW j \in CallKind, calls'[u][j].phase = "answered"
  PROVE  Like(calls'[u][j], calls[u][j])
<1>1. Idle.phase # "answered" /\ Sent.phase # "answered"
  BY CallsAre, SentFields
<1>2. CASE u # t
  <2>1. calls'[u][j] = calls[u][j]
    <3>1. \A w \in Tab, i \in CallKind : w # t => calls'[w][i] = calls[w][i]
      BY HeardIs
    <3> QED
      BY <1>1, <1>2, <3>1, Zenon
  <2> QED
    BY <2>1 DEF Like
<1>3. CASE u = t /\ j = k
  BY <1>1, <1>3, HeardIs
<1>4. CASE u = t /\ j # k
  <2>1. CASE calls[t][k].live /\ k = "login" /\ calls[t][k].ok
    <3>1. [Sent EXCEPT !.handle = cookie'.handle].phase # "answered"
      BY DEF Sent, Idle
    <3>2. /\ calls'[t]["load"] = [Sent EXCEPT !.handle = cookie'.handle]
          /\ \A i \in CallKind \ {k, "load"} : calls'[t][i] = calls[t][i]
      BY <2>1, HeardIs, Zenon
    <3> QED
      BY <1>1, <1>4, <3>1, <3>2 DEF Like
  <2>2. CASE calls[t][k].live /\ k # "login"
    <3>1. /\ k # "refresh" => Like(calls'[t]["refresh"], calls[t]["refresh"])
                              /\ calls'[t]["refresh"].live = FALSE
          /\ \A i \in CallKind \ {k, "refresh"} : calls'[t][i] = calls[t][i]
      BY <2>2, HeardIs, Zenon
    <3> QED
      BY <1>1, <1>4, <3>1 DEF Like
  <2>3. CASE ~(calls[t][k].live /\ (k # "login" \/ calls[t][k].ok))
    <3>1. \A i \in CallKind \ {k} : calls'[t][i] = calls[t][i]
      BY <2>3, HeardIs, Zenon
    <3> QED
      BY <1>1, <1>4, <3>1 DEF Like
  <2> QED
    BY <2>1, <2>2, <2>3
<1> QED
  BY <1>2, <1>3, <1>4

LEMMA HeardTells ==
  ASSUME LInv, LInv', VInv, Lasting, Warning <= IdleTtl, NEW t \in Tab, NEW k \in CallKind, HearAnswer(t, k)
  PROVE  Warned' /\ Told'
<1>1. now' = now /\ now \in Nat
  BY CallsAre DEF HearAnswer
<1>2. NoNewAnswer
  <2>1. ASSUME NEW u \in Tab, NEW j \in SessionCall, calls'[u][j].phase = "answered"
        PROVE  Like(calls'[u][j], calls[u][j])
    BY <2>1, CallsAre, HeardLike
  <2> QED
    BY <2>1, Zenon DEF NoNewAnswer, Like
<1>3. Told'
  BY <1>1, <1>2, ToldAllStays
<1>4. CASE NoNewWarning
  BY <1>1, <1>3, <1>4, WarnedStays
<1>5. CASE ~NoNewWarning
  <2>1. calls[t][k].live /\ k \in SessionCall /\ calls[t][k].ok /\ tabs'[t] = Plan(calls[t][k].view)
    <3>1. Shows("anonymous").timer = "none" /\ Shows("expired").timer = "none"
      BY ShowsIs
    <3>2. calls[t][k].live /\ k # "login"
      BY <1>5, HeardTab, Zenon DEF NoNewWarning
    <3>3. tabs'[t].timer = "ceiling"
      BY <1>5, HeardTab, Zenon DEF NoNewWarning
    <3>4. k \in SessionCall \cup {"logout"}
      BY <3>2, CallsAre
    <3>5. k # "logout"
      BY <3>1, <3>2, <3>3, HeardTab, Zenon
    <3>6. calls[t][k].ok
      <4>1. CASE k \in {"boot", "load"}
        BY <3>1, <3>2, <3>3, <4>1, HeardTab, Zenon
      <4>2. CASE k = "refresh"
        BY <3>1, <3>2, <3>3, <4>2, HeardTab, Zenon
      <4> QED
        BY <3>4, <3>5, <4>1, <4>2 DEF SessionCall
    <3> QED
      BY <3>2, <3>4, <3>5, <3>6, HeardTab, Zenon
  <2>2. calls[t][k].phase = "answered"
    BY DEF HearAnswer
  <2>3. PICK v \in View : v = calls[t][k].view
    <3>1. calls[t][k] \in AuthCall
      BY CallsAre
    <3> QED
      BY <3>1 DEF AuthCall
  <2>4. IsTold(v)
    BY <2>1, <2>2, <2>3, Zenon DEF VInv, Told
  <2>5. /\ v.ceiling \in Nat /\ v.idle \in Nat /\ IdleTtl \in Nat \ {0} /\ Warning \in Nat /\ now \in 0..MaxTime
        /\ now < v.ceiling /\ v.idle = Minimum(now + IdleTtl, v.ceiling)
    BY <2>4, CallsAre, Times, SessionNumbers DEF View, IsTold
  <2>6. now < v.idle /\ (v.ceiling - now <= Warning => v.idle = v.ceiling)
    BY <1>1, <2>5 DEF Minimum
  <2>7. tabs'[t].timer = "ceiling" => tabs'[t].at = v.ceiling /\ v.idle = v.ceiling
    <3>1. PICK p : p = Plan(v)
      OBVIOUS
    <3>2. /\ p.timer = IF v.ceiling - now <= Warning THEN "ceiling" ELSE "refresh"
          /\ p.timer = "ceiling" => p.at = v.ceiling
      BY <2>5, <2>6, <3>1, PlanGives
    <3> QED
      BY <2>1, <2>3, <2>6, <3>1, <3>2
  <2>8. IsTold(v)'
    BY <1>1, <2>4, ToldStays
  <2>9. ASSUME NEW u \in Tab, tabs'[u].timer = "ceiling", now' < tabs'[u].at PROVE EndsAt(tabs[u].at)'
    <3>1. CASE u = t
      <4>1. tabs'[t].at = v.ceiling /\ v.idle = v.ceiling
        BY <2>7, <2>9, <3>1
      <4>2. EndsAt(v.ceiling)'
        BY <2>8, <4>1 DEF IsTold, EndsAt, There, Out
      <4> QED
        BY <3>1, <4>1, <4>2 DEF EndsAt, There, Out
    <3>2. CASE u # t
      <4>1. tabs'[u] = tabs[u]
        BY <3>2, HeardTab
      <4>2. EndsAt(tabs[u].at) /\ tabs[u].at \in Nat /\ now < tabs[u].at
        BY <1>1, <2>9, <4>1, CallsAre DEF VInv, Warned, TabState
      <4>3. PICK h \in Handle : There(h, tabs[u].at) /\ store[h].seen + IdleTtl >= tabs[u].at
        BY <4>2 DEF EndsAt
      <4>4. store' \in [Handle -> [open : BOOLEAN, seen : Time, ceiling : Time]]
        BY DEF LInv, SessionTypeOK
      <4>5. PICK c \in Nat : c = tabs[u].at
        BY <4>2
      <4>6. There(h, c)' /\ store'[h].seen + IdleTtl >= c
        BY <4>2, <4>3, <4>4, <4>5, EndsStay
      <4> QED
        BY <4>1, <4>5, <4>6 DEF EndsAt, There, Out
    <3> QED
      BY <3>1, <3>2
  <2>10. Warned'
    BY <2>9, Zenon DEF Warned
  <2> QED
    BY <1>3, <2>10
<1> QED
  BY <1>4, <1>5

LEMMA VStep ==
  ASSUME LInv, LInv', VInv, Warning <= IdleTtl, NothingLost', SessionNext
  PROVE  VInv'
<1>1. Lasting /\ Seen' /\ now \in Nat
  BY StoreLasts, CallsAre DEF VInv
<1>2. ASSUME NoNewWarning, NoNewAnswer, now' = now PROVE VInv'
  BY <1>1, <1>2, WarnedStays, ToldAllStays DEF VInv
<1>3. CASE Tick
  <2>1. NoNewWarning /\ now' = now + 1
    BY <1>3 DEF Tick, NoNewWarning
  <2>2. \A t \in Tab, k \in SessionCall : calls'[t][k].phase = "idle"
    BY <1>3, CallsAre DEF Tick, Free
  <2>3. Told'
    BY <2>2 DEF Told
  <2>4. Warned'
    BY <1>1, <2>1, WarnedStays
  <2> QED
    BY <1>1, <2>3, <2>4 DEF VInv
<1>4. ASSUME NEW t \in Tab, Open(t) \/ Close(t) \/ SignIn(t) \/ SignOut(t) \/ Work(t) \/ TimerFires(t) PROVE VInv'
  <2>1. now' = now
    BY <1>4 DEF Open, Close, SignIn, SignOut, Work, TimerFires
  <2> QED
    BY <1>2, <1>4, <2>1, TabsNews
<1>5. ASSUME NEW t \in Tab, NEW k \in CallKind, ServeLogin(t) \/ ServeLogout(t) \/ ServeError(t, k) PROVE VInv'
  <2>1. now' = now
    BY <1>5 DEF ServeLogin, ServeLogout, ServeError
  <2> QED
    BY <1>2, <1>5, <2>1, ServesNews
<1>6. ASSUME NEW t \in Tab, NEW k \in CallKind, ServeSession(t, k) PROVE VInv'
  <2>1. now' = now /\ NoNewWarning
    BY <1>6 DEF ServeSession, NoNewWarning
  <2>2. Warned'
    BY <1>1, <2>1, WarnedStays
  <2> QED
    BY <1>1, <1>6, <2>2, ServeSessionTells DEF VInv
<1>7. ASSUME NEW t \in Tab, NEW k \in CallKind, HearAnswer(t, k) PROVE VInv'
  BY <1>1, <1>7, HeardTells DEF VInv
<1>8. \A t \in Tab, k \in CallKind : ~Throw(t, k)
  BY NoThrow
<1>9. "login" \in CallKind
  BY DEF CallKind
<1> QED
  BY <1>3, <1>4, <1>5, <1>6, <1>7, <1>8, <1>9 DEF SessionNext, Serve, Answers

LEMMA VInit == SessionInit => VInv
<1>1. \A h \in Handle : h # 0
  BY HandlesAre
<1>2. ASSUME SessionInit PROVE Seen
  BY <1>2 DEF SessionInit, Seen
<1>3. ASSUME SessionInit PROVE Warned
  BY <1>3 DEF SessionInit, Warned, Closed
<1>4. ASSUME SessionInit PROVE Told
  BY <1>4, CallsAre, LInvInit, SentFields DEF SessionInit, Told
<1> QED
  BY <1>2, <1>3, <1>4 DEF VInv

LEMMA VInvMeans == LInv /\ VInv => WarnIsHonest
<1> SUFFICES ASSUME LInv, VInv, NoSignOut, NEW t \in Tab, tabs[t].timer = "ceiling", now < tabs[t].at
             PROVE  \E h \in Handle : /\ store[h].open /\ store[h].ceiling = tabs[t].at
                                      /\ store[h].seen + IdleTtl >= tabs[t].at
  BY Zenon DEF WarnIsHonest
<1>1. EndsAt(tabs[t].at)
  BY DEF VInv, Warned
<1>2. \A h : ~Out(h)
  BY DEF Out, NoSignOut, Free
<1> QED
  BY <1>1, <1>2, Zenon DEF EndsAt, There

(* While no call has been left without an answer, a tab that warns of the  *)
(* ceiling names the time its session really ends: refresh.ts, planRefresh *)
(* and the loop's onSession, against touch() of session-store.ts.          *)
THEOREM WarningIsHonest ==
  ASSUME Warning <= IdleTtl
  PROVE  SessionSpec => [](NothingLost => WarnIsHonest)
<1> DEFINE Inv == LInv /\ (NothingLost => VInv)
<1>1. SessionInit => Inv
  BY LInvInit, VInit
<1>2. Inv /\ [SessionNext]_sessionVars => Inv'
  <2> SUFFICES ASSUME Inv, [SessionNext]_sessionVars PROVE Inv'
    OBVIOUS
  <2>1. LInv'
    BY SessionStep
  <2>2. CASE UNCHANGED sessionVars
    BY <2>1, <2>2 DEF sessionVars, VInv, Seen, Warned, Told, EndsAt, IsTold, There, Out, NothingLost
  <2>3. CASE SessionNext
    <3>1. ASSUME NothingLost' PROVE VInv'
      <4>1. NothingLost
        BY <2>3, <3>1, NoThrow
      <4> QED
        BY <2>1, <2>3, <3>1, <4>1, VStep
    <3> QED
      BY <2>1, <3>1
  <2> QED
    BY <2>2, <2>3
<1>3. Inv => (NothingLost => WarnIsHonest)
  BY VInvMeans
<1> HIDE DEF Inv
<1> QED
  BY <1>1, <1>2, <1>3, PTL DEF SessionSpec

-----------------------------------------------------------------------------
(* A lone tab that says its session is over is right                       *)

(* The sessions a request could still use, and the one the next would.     *)
Lives == {h \in Handle : Live(h)}
Jar == BrowserHandle

Busy(c) == c.phase # "idle"
Due(t) == tabs[t].timer # "none" /\ tabs[t].at <= now

(* Which calls a tab may have in flight in which state, and which of them  *)
(* are still waited for.                                                   *)
Stages(t) ==
  /\ tabs[t].status # "closed" => \A k \in CallKind \ {"refresh"} : Busy(calls[t][k]) => calls[t][k].live
  /\ tabs[t].status = "closed" => \A k \in CallKind : Busy(calls[t][k]) => ~calls[t][k].live
  /\ tabs[t].status = "checking" => /\ Busy(calls[t]["boot"])
                                    /\ \A k \in CallKind \ {"boot"} : ~Busy(calls[t][k])
  /\ tabs[t].status \notin {"checking", "closed"} => ~Busy(calls[t]["boot"])
  /\ tabs[t].status = "authenticated" => ~Busy(calls[t]["login"]) /\ ~Busy(calls[t]["load"])
  /\ ~(Busy(calls[t]["login"]) /\ Busy(calls[t]["load"]))
  /\ tabs[t].status = "expired" => ~Busy(calls[t]["refresh"])
  /\ tabs[t].status # "authenticated" =>
       tabs[t].timer = "none" /\ (Busy(calls[t]["refresh"]) => ~calls[t]["refresh"].live)
  /\ tabs[t].timer = "ceiling" => tabs[t].at = tabs[t].view.ceiling
  /\ Busy(calls[t]["refresh"]) => ~Due(t)

(* Which session each call was sent for, against the one in the jar.       *)
Aims(t) ==
  /\ tabs[t].status = "expired" => Busy(calls[t]["load"]) \/ Jar \notin Lives
  /\ tabs[t].status = "authenticated" /\ Busy(calls[t]["refresh"]) /\ calls[t]["refresh"].live =>
       /\ calls[t]["refresh"].handle = Jar
       /\ Busy(calls[t]["logout"]) => calls[t]["logout"].handle = Jar
  /\ Due(t) /\ Busy(calls[t]["logout"]) => calls[t]["logout"].handle = Jar
  /\ tabs[t].status # "closed" /\ Busy(calls[t]["refresh"]) /\ ~calls[t]["refresh"].live =>
       calls[t]["refresh"].handle \notin Lives
  /\ tabs[t].status = "checking" => calls[t]["boot"].handle = Jar
  /\ tabs[t].status # "closed" /\ Busy(calls[t]["load"]) =>
       cookie.handle = calls[t]["load"].handle \/ Jar \notin Lives
  /\ tabs[t].status = "authenticated" /\ Jar \in Lives => store[Jar].ceiling = tabs[t].view.ceiling

(* What an answer on its way says is so.                                   *)
Right(c) ==
  /\ c.ok => /\ c.handle \in Handle /\ store[c.handle].ceiling = c.view.ceiling
             /\ now < c.view.idle /\ now < c.view.ceiling
  /\ ~c.ok => c.handle \notin Lives
ReplyTo(t, k) == calls[t][k].phase = "answered" =>
  /\ k \in SessionCall => Right(calls[t][k])
  /\ k \in {"boot", "load"} => calls[t][k].set = Keep
  /\ k = "refresh" /\ calls[t][k].ok => calls[t][k].set = Issue(calls[t][k].handle)
  /\ k = "refresh" /\ ~calls[t][k].ok => calls[t][k].set = Clear
  /\ k = "login" /\ ~calls[t][k].ok => calls[t][k].set = Keep
  /\ k = "logout" => calls[t][k].set = Clear /\ calls[t][k].handle \notin Lives
Replies(t) == \A k \in CallKind : ReplyTo(t, k)

Lone(t) == Stages(t) /\ Aims(t) /\ Replies(t)

(* No step revives a session, but a login makes a new one.                 *)
Fades == \A h \in Handle : store[h].ceiling # 0 =>
           store'[h].ceiling = store[h].ceiling /\ (h \in Lives' => h \in Lives)

LEMMA TouchFades ==
  ASSUME LInv, NEW g \in Handle \cup {0}, store' = Touched(g), now' = now
  PROVE  Fades
<1>1. /\ store \in [Handle -> [open : BOOLEAN, seen : Time, ceiling : Time]] /\ now \in Nat
      /\ Time \subseteq Nat /\ IdleTtl \in Nat /\ \A h \in Handle : h # 0
  BY CallsAre, Times, HandlesAre
<1> SUFFICES ASSUME NEW h \in Handle
             PROVE  store'[h].ceiling = store[h].ceiling /\ (Live(h)' => Live(h))
  BY DEF Fades, Lives
<1>2. CASE h # g
  <2>1. store'[h] = store[h]
    BY <1>1, <1>2 DEF Touched
  <2> QED
    BY <1>1, <2>1, Zenon DEF Live
<1>3. CASE h = g /\ Touches(g)
  <2>1. store' = [store EXCEPT ![h].seen = now]
    BY <1>1, <1>3 DEF Touched
  <2>2. store[h].open
    BY <1>3, Zenon DEF Touches
  <2>3. h # 0 /\ now < store[h].ceiling /\ now < store[h].seen + IdleTtl
    <3>1. store[h].seen \in Nat /\ now - store[h].seen < IdleTtl
      BY <1>1, <1>3 DEF Touches
    <3> QED
      BY <1>1, <1>3, <3>1 DEF Touches
  <2>4. Live(h)
    BY <2>2, <2>3, Zenon DEF Live
  <2>5. store'[h].ceiling = store[h].ceiling
    BY <1>1, <2>1
  <2> QED
    BY <2>4, <2>5
<1>4. CASE h = g /\ ~Touches(g)
  <2>1. store' = [store EXCEPT ![h].open = FALSE]
    BY <1>1, <1>4 DEF Touched
  <2>2. store'[h].ceiling = store[h].ceiling /\ ~store'[h].open
    BY <1>1, <2>1
  <2> QED
    BY <2>2, Zenon DEF Live
<1> QED
  BY <1>2, <1>3, <1>4

LEMMA StoreFades ==
  ASSUME LInv, SessionNext
  PROVE  Fades
<1>1. /\ store \in [Handle -> [open : BOOLEAN, seen : Time, ceiling : Time]] /\ now \in Nat
      /\ Time \subseteq Nat /\ IdleTtl \in Nat /\ \A h \in Handle : h # 0
  BY CallsAre, Times, HandlesAre
<1>2. ASSUME store' = store, now' = now PROVE Fades
  BY <1>2, Zenon DEF Fades, Lives, Live
<1>3. ASSUME NEW t \in Tab, Work(t) PROVE Fades
  <2>1. BrowserHandle \in Handle \cup {0}
    BY CallsAre DEF BrowserHandle
  <2> QED
    BY <1>3, <2>1, TouchFades DEF Work
<1>4. ASSUME NEW t \in Tab, NEW k \in CallKind, ServeSession(t, k) PROVE Fades
  <2>1. calls[t][k].handle \in Handle \cup {0}
    BY CallsAre DEF AuthCall
  <2> QED
    BY <1>4, <2>1, TouchFades DEF ServeSession
<1>5. ASSUME NEW t \in Tab, ServeLogin(t) PROVE Fades
  <2>1. CASE store' = store
    BY <1>2, <1>5, <2>1 DEF ServeLogin
  <2>2. ASSUME NEW g \in Handle, store[g].ceiling = 0,
               store' = [store EXCEPT ![g] = [open |-> TRUE, seen |-> now, ceiling |-> now + AbsoluteTtl]]
        PROVE  Fades
    <3>1. \A h \in Handle : store[h].ceiling # 0 => store'[h] = store[h]
      BY <1>1, <2>2
    <3>2. now' = now
      BY <1>5 DEF ServeLogin
    <3> QED
      BY <3>1, <3>2, Zenon DEF Fades, Lives, Live
  <2> QED
    BY <1>5, <2>1, <2>2 DEF ServeLogin
<1>6. ASSUME NEW t \in Tab, ServeLogout(t) PROVE Fades
  <2>1. PICK g : g = calls[t]["logout"].handle
    OBVIOUS
  <2>2. now' = now /\ store' = IF g = 0 THEN store ELSE [store EXCEPT ![g].open = FALSE]
    BY <1>6, <2>1 DEF ServeLogout
  <2>3. ASSUME NEW h \in Handle PROVE store'[h].ceiling = store[h].ceiling /\ (Live(h)' => Live(h))
    <3>1. CASE h = g
      <4>1. store'[h].ceiling = store[h].ceiling /\ ~store'[h].open
        BY <1>1, <2>2, <3>1
      <4> QED
        BY <4>1, Zenon DEF Live
    <3>2. CASE h # g
      <4>1. store'[h] = store[h]
        BY <1>1, <2>2, <3>2
      <4> QED
        BY <2>2, <4>1, Zenon DEF Live
    <3> QED
      BY <3>1, <3>2
  <2> QED
    BY <2>3 DEF Fades, Lives
<1>7. ASSUME Tick PROVE Fades
  <2>1. store' = store /\ now' = now + 1
    BY <1>7 DEF Tick
  <2>2. ASSUME NEW h \in Handle, Live(h)' PROVE Live(h)
    <3>1. store[h].open
      BY <2>1, <2>2, Zenon DEF Live
    <3>2. now + 1 < store[h].ceiling /\ now + 1 < store[h].seen + IdleTtl
      BY <2>1, <2>2 DEF Live
    <3>3. h # 0 /\ now < store[h].ceiling /\ now < store[h].seen + IdleTtl
      <4>1. store[h].seen \in Nat /\ store[h].ceiling \in Nat
        BY <1>1
      <4> QED
        BY <1>1, <3>2, <4>1
    <3> QED
      BY <3>1, <3>3, Zenon DEF Live
  <2> QED
    BY <2>1, <2>2, Zenon DEF Fades, Lives
<1> QED
  BY <1>2, <1>3, <1>4, <1>5, <1>6, <1>7 DEF SessionNext, Open, Close, SignIn, SignOut, TimerFires, Serve,
     Answers, HearAnswer, ServeError, Throw

LEMMA CallsFade ==
  ASSUME LInv, Fades, NEW t \in Tab, NEW k \in CallKind
  PROVE  /\ calls[t][k].handle \in Lives' => calls[t][k].handle \in Lives
         /\ calls[t][k].handle \in Handle => /\ store'[calls[t][k].handle].ceiling = store[calls[t][k].handle].ceiling
<1>1. Created(calls[t][k].handle) /\ calls[t][k].handle \in Handle \cup {0}
  BY CallsAre DEF LInv, Known, CallCreated, AuthCall
<1>2. Lives' \subseteq Handle /\ 0 \notin Handle
  BY HandlesAre DEF Lives
<1> QED
  BY <1>1, <1>2 DEF Created, Fades

LEMMA JarStays ==
  ASSUME LInv, Fades, cookie' = cookie, now' \in {now, now + 1}
  PROVE  /\ now' = now => Jar' = Jar
         /\ Jar' \in Lives' => Jar' = Jar /\ Jar \in Lives /\ store'[Jar].ceiling = store[Jar].ceiling
<1>1. /\ cookie.handle \in Handle \cup {0} /\ cookie.until \in Nat /\ now \in Nat /\ Created(cookie.handle)
      /\ 0 \notin Handle /\ Lives' \subseteq Handle
  BY CallsAre, Times, HandlesAre DEF LInv, Known, Lives
<1>2. Jar' # 0 => Jar' = Jar /\ Jar = cookie.handle
  BY <1>1 DEF Jar, BrowserHandle
<1>3. now' = now => Jar' = Jar
  BY DEF Jar, BrowserHandle
<1> QED
  BY <1>1, <1>2, <1>3 DEF Created, Fades

LEMMA RepliesStay ==
  ASSUME LInv, LInv', Fades, NEW t \in Tab, Replies(t), now' = now,
         \A k \in CallKind : (calls'[t][k].phase = "answered" => Like(calls'[t][k], calls[t][k])) \/ ReplyTo(t, k)'
  PROVE  Replies(t)'
<1>1. ASSUME NEW k \in CallKind, calls'[t][k].phase = "answered", Like(calls'[t][k], calls[t][k])
      PROVE  ReplyTo(t, k)'
  <2>1. calls'[t][k].ok = calls[t][k].ok
    BY <1>1 DEF Like
  <2>2. calls'[t][k].ok <=> calls[t][k].ok
    BY <2>1, Zenon
  <2>3. /\ calls[t][k].phase = "answered" /\ calls'[t][k].set = calls[t][k].set /\ calls'[t][k].handle = calls[t][k].handle
        /\ calls'[t][k].view = calls[t][k].view
    BY <1>1 DEF Like
  <2>4. /\ calls[t][k].handle \in Lives' => calls[t][k].handle \in Lives
        /\ calls[t][k].handle \in Handle => store'[calls[t][k].handle].ceiling = store[calls[t][k].handle].ceiling
    BY CallsFade
  <2>5. Right(calls[t][k]) => Right(calls[t][k])'
    BY <2>2, <2>3, <2>4, Zenon DEF Right
  <2>6. ReplyTo(t, k)
    BY DEF Replies
  <2> QED
    BY <2>2, <2>3, <2>4, <2>5, <2>6, Zenon DEF ReplyTo
<1>2. \A k \in CallKind : calls'[t][k].phase # "answered" => ReplyTo(t, k)'
  BY DEF ReplyTo
<1> QED
  BY <1>1, <1>2, Zenon DEF Replies

LEMMA SentNow ==
  ASSUME LInv, NEW t \in Tab, NEW k \in CallKind, calls' = [calls EXCEPT ![t][k] = Sent]
  PROVE  /\ calls'[t][k].phase = "sent" /\ calls'[t][k].live /\ calls'[t][k].handle = Jar
         /\ \A j \in CallKind \ {k} : calls'[t][j] = calls[t][j]
<1>1. calls'[t][k] = Sent /\ \A u \in Tab, j \in CallKind : u # t \/ j # k => calls'[u][j] = calls[u][j]
  <2>1. PICK c : c = Sent
    OBVIOUS
  <2>2. calls' = [calls EXCEPT ![t][k] = c]
    BY <2>1
  <2> QED
    BY <2>1, <2>2, CallsAre
<1>2. \A j \in CallKind \ {k} : calls'[t][j] = calls[t][j]
  BY <1>1
<1>3. Sent.phase = "sent" /\ Sent.live /\ Sent.handle = Jar
  BY SentFields DEF Jar
<1> QED
  BY <1>1, <1>2, <1>3, Zenon

(* A call is sent: no answer is new.                                       *)
LEMMA SentReplies ==
  ASSUME LInv, LInv', Fades, NEW t \in Tab, Replies(t), now' = now, NEW k \in CallKind,
         calls' = [calls EXCEPT ![t][k] = Sent]
  PROVE  Replies(t)'
<1>1. \A j \in CallKind : calls'[t][j].phase = "answered" => Like(calls'[t][j], calls[t][j])
  <2>1. calls'[t][k].phase = "sent" /\ \A j \in CallKind \ {k} : calls'[t][j] = calls[t][j]
    BY SentNow
  <2> QED
    BY <2>1 DEF Like
<1> QED
  BY <1>1, RepliesStay

LEMMA LoneOpens ==
  ASSUME LInv, LInv', Fades, NEW t \in Tab, Lone(t), Open(t)
  PROVE  Lone(t)'
<1>0. {"boot", "load", "refresh", "login", "logout"} = CallKind
  BY DEF CallKind
<1>1. /\ calls' = [calls EXCEPT ![t]["boot"] = Sent] /\ tabs'[t] = Shows("checking")
      /\ now' = now /\ cookie' = cookie /\ \A k \in CallKind : ~Busy(calls[t][k])
  BY CallsAre DEF Open, Busy, Free
<1>2. /\ calls'[t]["boot"].phase = "sent" /\ calls'[t]["boot"].live /\ calls'[t]["boot"].handle = Jar
      /\ \A j \in CallKind \ {"boot"} : calls'[t][j] = calls[t][j]
  BY <1>0, <1>1, SentNow
<1>3. Jar' = Jar
  BY <1>1, JarStays
<1>4. tabs'[t].status = "checking" /\ tabs'[t].timer = "none"
  BY <1>1, ShowsIs
<1>5. /\ \A k \in CallKind \ {"boot"} : ~Busy(calls'[t][k])
      /\ Busy(calls'[t]["boot"]) /\ calls'[t]["boot"].live
  BY <1>1, <1>2, Zenon DEF Busy
<1>6. Stages(t)'
  BY <1>0, <1>4, <1>5, Zenon DEF Stages, Busy
<1>7. Aims(t)'
  BY <1>0, <1>2, <1>3, <1>4, <1>5 DEF Aims, Due, Busy
<1>8. Replies(t)'
  BY <1>0, <1>1, SentReplies DEF Lone
<1> QED
  BY <1>6, <1>7, <1>8 DEF Lone

LEMMA LoneCloses ==
  ASSUME LInv, LInv', Fades, NEW t \in Tab, Lone(t), Close(t)
  PROVE  Lone(t)'
<1>0. {"boot", "load", "refresh", "login", "logout"} = CallKind
  BY DEF CallKind
<1>1. /\ calls' = [calls EXCEPT ![t] = [k \in CallKind |-> [@[k] EXCEPT !.live = FALSE]]]
      /\ tabs'[t] = Closed /\ now' = now
  BY CallsAre DEF Close
<1>2. ASSUME NEW k \in CallKind PROVE Like(calls'[t][k], calls[t][k]) /\ calls'[t][k].live = FALSE
  <2>1. calls'[t][k] = [calls[t][k] EXCEPT !.live = FALSE] /\ calls[t][k] \in AuthCall
    BY <1>1, CallsAre
  <2> QED
    BY <2>1, HushLike
<1>3. tabs'[t].status = "closed" /\ tabs'[t].timer = "none"
  BY <1>1 DEF Closed
<1>4. Stages(t)'
  BY <1>0, <1>2, <1>3, Zenon DEF Stages, Busy, Due, Like, Lone
<1>5. Aims(t)'
  BY <1>3 DEF Aims, Due
<1>6. Replies(t)'
  BY <1>1, <1>2, RepliesStay DEF Lone
<1> QED
  BY <1>4, <1>5, <1>6 DEF Lone

LEMMA LoneSignsIn ==
  ASSUME LInv, LInv', Fades, BootIsFast, NEW t \in Tab, Lone(t), SignIn(t)
  PROVE  Lone(t)'
<1>0. {"boot", "load", "refresh", "login", "logout"} = CallKind
  BY DEF CallKind
<1>1. /\ calls' = [calls EXCEPT ![t]["login"] = Sent] /\ tabs' = tabs
      /\ now' = now /\ cookie' = cookie /\ store' = store
      /\ tabs[t].status \in {"checking", "anonymous", "expired"}
      /\ ~Busy(calls[t]["login"]) /\ ~Busy(calls[t]["load"]) /\ ~Busy(calls[t]["boot"])
  BY Zenon DEF SignIn, Busy, Free
<1>2. /\ calls'[t]["login"].phase = "sent" /\ calls'[t]["login"].live /\ calls'[t]["login"].handle = Jar
      /\ \A j \in CallKind \ {"login"} : calls'[t][j] = calls[t][j]
  BY <1>0, <1>1, SentNow
<1>3. Jar' = Jar /\ Lives' = Lives
  BY <1>1, JarStays, Zenon DEF Lives, Live
<1>4. tabs[t].status \in {"anonymous", "expired"} /\ tabs[t].timer = "none"
  BY <1>1, Zenon DEF Lone, Stages
<1>5. /\ Busy(calls'[t]["login"]) /\ calls'[t]["login"].live
      /\ calls'[t]["boot"] = calls[t]["boot"] /\ calls'[t]["load"] = calls[t]["load"]
      /\ calls'[t]["refresh"] = calls[t]["refresh"] /\ calls'[t]["logout"] = calls[t]["logout"]
  BY <1>0, <1>2 DEF Busy
<1>6. Stages(t)'
  <2>1. \A k \in CallKind \ {"refresh"} : k = "login" \/ calls'[t][k] = calls[t][k]
    BY <1>0, <1>5
  <2>2. /\ tabs[t].status # "closed" /\ tabs[t].status # "checking" /\ tabs[t].status # "authenticated"
        /\ tabs'[t] = tabs[t]
    BY <1>1, <1>4
  <2>3. \A k \in CallKind \ {"refresh"} : Busy(calls'[t][k]) => calls'[t][k].live
    BY <1>5, <2>1, <2>2, Zenon DEF Lone, Stages, Busy
  <2> QED
    BY <1>1, <1>4, <1>5, <2>2, <2>3, Zenon DEF Lone, Stages, Busy, Due
<1>7. Aims(t)'
  BY <1>0, <1>1, <1>3, <1>4, <1>5 DEF Lone, Aims, Due, Busy
<1>8. Replies(t)'
  BY <1>0, <1>1, SentReplies DEF Lone
<1> QED
  BY <1>6, <1>7, <1>8 DEF Lone

LEMMA LoneSignsOut ==
  ASSUME LInv, LInv', Fades, NEW t \in Tab, Lone(t), SignOut(t)
  PROVE  Lone(t)'
<1>0. {"boot", "load", "refresh", "login", "logout"} = CallKind
  BY DEF CallKind
<1>1. /\ calls' = [calls EXCEPT ![t]["logout"] = Sent] /\ tabs' = tabs
      /\ now' = now /\ cookie' = cookie /\ store' = store
      /\ tabs[t].status = "authenticated"
  BY Zenon DEF SignOut
<1>2. /\ calls'[t]["logout"].phase = "sent" /\ calls'[t]["logout"].live /\ calls'[t]["logout"].handle = Jar
      /\ \A j \in CallKind \ {"logout"} : calls'[t][j] = calls[t][j]
  BY <1>0, <1>1, SentNow
<1>3. Jar' = Jar /\ Lives' = Lives
  BY <1>1, JarStays, Zenon DEF Lives, Live
<1>4. /\ calls'[t]["boot"] = calls[t]["boot"] /\ calls'[t]["load"] = calls[t]["load"]
      /\ calls'[t]["refresh"] = calls[t]["refresh"] /\ calls'[t]["login"] = calls[t]["login"]
  BY <1>0, <1>2
<1>5. Stages(t)'
  <2>1. \A k \in CallKind : k = "logout" \/ calls'[t][k] = calls[t][k]
    BY <1>0, <1>4
  <2>2. /\ tabs[t].status # "closed" /\ tabs[t].status # "checking" /\ tabs[t].status # "expired"
        /\ tabs'[t] = tabs[t]
    BY <1>1
  <2>3. \A k \in CallKind \ {"refresh"} : Busy(calls'[t][k]) => calls'[t][k].live
    BY <1>2, <2>1, <2>2, Zenon DEF Lone, Stages, Busy
  <2> QED
    BY <1>1, <1>4, <2>2, <2>3, Zenon DEF Lone, Stages, Busy, Due
<1>6. Aims(t)'
  BY <1>0, <1>1, <1>2, <1>3, <1>4 DEF Lone, Aims, Due, Busy
<1>7. Replies(t)'
  BY <1>0, <1>1, SentReplies DEF Lone
<1> QED
  BY <1>5, <1>6, <1>7 DEF Lone

LEMMA LoneWorks ==
  ASSUME LInv, LInv', Fades, NEW t \in Tab, Lone(t), Work(t)
  PROVE  Lone(t)'
<1>1. calls' = calls /\ tabs' = tabs /\ now' = now /\ cookie' = cookie
  BY DEF Work
<1>2. Jar' = Jar /\ (Jar \in Lives' => Jar \in Lives /\ store'[Jar].ceiling = store[Jar].ceiling)
  BY <1>1, JarStays
<1>3. calls[t]["refresh"].handle \notin Lives => calls[t]["refresh"].handle \notin Lives'
  BY CallsFade DEF CallKind
<1>4. Stages(t)'
  BY <1>1 DEF Lone, Stages, Busy, Due
<1>5. Aims(t)'
  BY <1>1, <1>2, <1>3, Zenon DEF Lone, Aims, Due, Busy
<1>6. Replies(t)'
  BY <1>1, RepliesStay DEF Like, Lone
<1> QED
  BY <1>4, <1>5, <1>6 DEF Lone

LEMMA LoneTimer ==
  ASSUME LInv, LInv', Fades, NEW t \in Tab, Lone(t), TimerFires(t)
  PROVE  Lone(t)'
<1>0. {"boot", "load", "refresh", "login", "logout"} = CallKind /\ tabs[t] \in TabState
  BY CallsAre DEF CallKind
<1>1. /\ now' = now /\ cookie' = cookie /\ store' = store /\ Due(t)
      /\ tabs[t].status = "authenticated" /\ ~Busy(calls[t]["refresh"])
      /\ ~Busy(calls[t]["boot"]) /\ ~Busy(calls[t]["login"]) /\ ~Busy(calls[t]["load"])
  BY Zenon DEF TimerFires, Due, Lone, Stages
<1>2. Jar' = Jar /\ Lives' = Lives
  BY <1>1, JarStays, Zenon DEF Lives, Live
<1>3. CASE tabs' = [tabs EXCEPT ![t].timer = "none"] /\ calls' = [calls EXCEPT ![t]["refresh"] = Sent]
  <2>1. /\ calls'[t]["refresh"].phase = "sent" /\ calls'[t]["refresh"].live /\ calls'[t]["refresh"].handle = Jar
        /\ \A j \in CallKind \ {"refresh"} : calls'[t][j] = calls[t][j]
    BY <1>0, <1>3, SentNow
  <2>2. /\ tabs'[t].status = "authenticated" /\ tabs'[t].timer = "none" /\ tabs'[t].view = tabs[t].view
    BY <1>0, <1>1, <1>3, CallsAre DEF TabState
  <2>3. /\ calls'[t]["boot"] = calls[t]["boot"] /\ calls'[t]["load"] = calls[t]["load"]
        /\ calls'[t]["logout"] = calls[t]["logout"] /\ calls'[t]["login"] = calls[t]["login"]
    BY <1>0, <2>1
  <2>4. Stages(t)'
    BY <1>0, <1>1, <2>1, <2>2, <2>3, Zenon DEF Lone, Stages, Busy, Due
  <2>5. Aims(t)'
    BY <1>0, <1>1, <1>2, <2>1, <2>2, <2>3, Zenon DEF Lone, Aims, Due, Busy
  <2>6. Replies(t)'
    BY <1>0, <1>1, <1>3, SentReplies DEF Lone
  <2> QED
    BY <2>4, <2>5, <2>6 DEF Lone
<1>4. CASE tabs[t].timer = "ceiling" /\ tabs' = [tabs EXCEPT ![t] = Shows("expired")] /\ calls' = EndLoop(t, calls)
  <2>1. PICK d : d = [calls[t]["refresh"] EXCEPT !.live = FALSE]
    OBVIOUS
  <2>2. Like(d, calls[t]["refresh"]) /\ calls' = [calls EXCEPT ![t]["refresh"] = d]
    <3>1. calls[t]["refresh"] \in AuthCall
      BY <1>0, CallsAre
    <3> QED
      BY <1>4, <2>1, <3>1, HushLike DEF EndLoop
  <2>3. Like(calls'[t]["refresh"], calls[t]["refresh"]) /\ \A j \in CallKind \ {"refresh"} : calls'[t][j] = calls[t][j]
    <3>1. /\ calls'[t]["refresh"] = d
          /\ \A u \in Tab, j \in CallKind : u # t \/ j # "refresh" => calls'[u][j] = calls[u][j]
      BY <1>0, <2>2, PutCall
    <3> QED
      BY <2>2, <3>1
  <2>4. tabs'[t].status = "expired" /\ tabs'[t].timer = "none"
    BY <1>4, CallsAre, ShowsIs
  <2>5. Jar \notin Lives
    <3>1. SUFFICES ASSUME Jar \in Lives PROVE FALSE
      OBVIOUS
    <3>2. store[Jar].ceiling = tabs[t].at
      BY <1>1, <1>4, <3>1, Zenon DEF Lone, Stages, Aims
    <3>3. Jar \in Handle /\ now < store[Jar].ceiling
      BY <3>1, Zenon DEF Lives, Live
    <3>4. tabs[t].at <= now /\ now \in Nat /\ tabs[t].at \in Nat
      BY <1>0, <1>1, CallsAre DEF Due, TabState
    <3> QED
      BY <3>2, <3>3, <3>4
  <2>6. /\ calls'[t]["boot"] = calls[t]["boot"] /\ calls'[t]["load"] = calls[t]["load"]
        /\ calls'[t]["logout"] = calls[t]["logout"] /\ calls'[t]["login"] = calls[t]["login"]
        /\ calls'[t]["refresh"].phase = calls[t]["refresh"].phase
    BY <1>0, <2>3 DEF Like
  <2>7. Stages(t)'
    <3>1. \A k \in CallKind \ {"refresh"} : Busy(calls'[t][k]) => calls'[t][k].live
      BY <1>1, <2>3, Zenon DEF Lone, Stages, Busy
    <3> QED
      BY <1>1, <2>4, <2>6, <3>1, Zenon DEF Lone, Stages, Busy, Due
  <2>8. Aims(t)'
    BY <1>0, <1>1, <1>2, <2>4, <2>5, <2>6, Zenon DEF Lone, Aims, Due, Busy
  <2>9. Replies(t)'
    <3>1. \A j \in CallKind : Like(calls'[t][j], calls[t][j])
      BY <1>0, <2>3 DEF Like
    <3> QED
      BY <1>1, <3>1, RepliesStay DEF Lone
  <2> QED
    BY <2>7, <2>8, <2>9 DEF Lone
<1> QED
  BY <1>3, <1>4 DEF TimerFires

LEMMA LoneTicks ==
  ASSUME LInv, LInv', Fades, NEW t \in Tab, Lone(t), Tick
  PROVE  Lone(t)'
<1>0. {"boot", "load", "refresh", "login", "logout"} = CallKind
  BY DEF CallKind
<1>1. /\ calls' = calls /\ tabs' = tabs /\ now' = now + 1 /\ cookie' = cookie
      /\ \A k \in CallKind : calls[t][k].phase = "idle"
  BY Zenon DEF Tick, Free
<1>2. Jar' \in Lives' => Jar' = Jar /\ Jar \in Lives /\ store'[Jar].ceiling = store[Jar].ceiling
  BY <1>1, JarStays
<1>3. \A k \in CallKind : calls'[t][k].phase = "idle" /\ ~Busy(calls'[t][k])
  BY <1>1, Zenon DEF Busy
<1>4. Stages(t)'
  BY <1>0, <1>1, <1>3, Zenon DEF Lone, Stages, Busy
<1>5. Aims(t)'
  BY <1>0, <1>1, <1>2, <1>3, Zenon DEF Lone, Stages, Aims, Busy
<1>6. Replies(t)'
  BY <1>3, Zenon DEF Replies, ReplyTo
<1> QED
  BY <1>4, <1>5, <1>6 DEF Lone

LEMMA AnsweredSlots ==
  ASSUME LInv, NEW t \in Tab, NEW k \in CallKind, NEW ok, NEW v, NEW set, Answered(t, k, ok, v, set),
         calls[t][k].phase = "sent"
  PROVE  /\ calls'[t][k].phase = "answered" /\ calls'[t][k].ok = ok
         /\ calls'[t][k].view = v /\ calls'[t][k].set = set
         /\ \A j \in CallKind : /\ calls'[t][j].handle = calls[t][j].handle
                                /\ calls'[t][j].live = calls[t][j].live
                                /\ Busy(calls'[t][j]) <=> Busy(calls[t][j])
         /\ \A j \in CallKind \ {k} : calls'[t][j] = calls[t][j]
<1>1. /\ calls'[t][k].phase = "answered" /\ calls'[t][k].ok = ok
      /\ calls'[t][k].view = v /\ calls'[t][k].set = set
      /\ calls'[t][k].handle = calls[t][k].handle /\ calls'[t][k].live = calls[t][k].live
      /\ \A u \in Tab, j \in CallKind : u # t \/ j # k => calls'[u][j] = calls[u][j]
  BY AnsweredIs
<1>2. \A j \in CallKind \ {k} : calls'[t][j] = calls[t][j]
  BY <1>1
<1> QED
  BY <1>1, <1>2 DEF Busy

(* A call is answered: the tab and the jar have not heard yet.             *)
LEMMA ServedStages ==
  ASSUME LInv, LInv', Fades, NEW t \in Tab, Lone(t), UNCHANGED <<now, cookie, tabs>>,
         \A j \in CallKind : /\ calls'[t][j].handle = calls[t][j].handle
                             /\ calls'[t][j].live = calls[t][j].live
                             /\ Busy(calls'[t][j]) <=> Busy(calls[t][j])
  PROVE  Stages(t)' /\ Aims(t)'
<1>0. {"boot", "load", "refresh", "login", "logout"} = CallKind
  BY DEF CallKind
<1>1. Jar' = Jar /\ (Jar \in Lives' => Jar \in Lives /\ store'[Jar].ceiling = store[Jar].ceiling)
  BY JarStays
<1>2. calls[t]["refresh"].handle \notin Lives => calls'[t]["refresh"].handle \notin Lives'
  BY <1>0, CallsFade
<1>3. /\ Busy(calls'[t]["boot"]) <=> Busy(calls[t]["boot"])
      /\ Busy(calls'[t]["load"]) <=> Busy(calls[t]["load"])
      /\ Busy(calls'[t]["refresh"]) <=> Busy(calls[t]["refresh"])
      /\ Busy(calls'[t]["login"]) <=> Busy(calls[t]["login"])
      /\ Busy(calls'[t]["logout"]) <=> Busy(calls[t]["logout"])
  BY <1>0
<1>4. /\ calls'[t]["boot"].handle = calls[t]["boot"].handle
      /\ calls'[t]["load"].handle = calls[t]["load"].handle
      /\ calls'[t]["refresh"].handle = calls[t]["refresh"].handle
      /\ calls'[t]["logout"].handle = calls[t]["logout"].handle
      /\ calls'[t]["refresh"].live = calls[t]["refresh"].live
      /\ tabs'[t] = tabs[t] /\ now' = now /\ cookie' = cookie
  BY <1>0
<1>5. Due(t)' <=> Due(t)
  BY DEF Due
<1>6. \A j \in CallKind : /\ Busy(calls'[t][j]) => Busy(calls[t][j])
                          /\ calls'[t][j].live <=> calls[t][j].live
  BY Zenon
<1>7. Stages(t)'
  BY <1>0, <1>3, <1>4, <1>5, <1>6, Zenon DEF Lone, Stages
<1>8. Aims(t)'
  BY <1>0, <1>1, <1>2, <1>3, <1>4, <1>5, Zenon DEF Lone, Aims
<1> QED
  BY <1>7, <1>8

LEMMA LoneServed ==
  ASSUME LInv, LInv', Fades, NEW t \in Tab, Lone(t), NEW k \in CallKind, ServeSession(t, k)
  PROVE  Lone(t)'
<1>0. {"boot", "load", "refresh", "login", "logout"} = CallKind
  BY DEF CallKind
<1>1. PICK h : h = calls[t][k].handle
  OBVIOUS
<1>2. /\ h \in Handle \cup {0} /\ store' = Touched(h) /\ UNCHANGED <<now, cookie, tabs>>
      /\ k \in {"boot", "load", "refresh"} /\ calls[t][k].phase = "sent"
  <2>1. calls[t][k] \in AuthCall
    BY CallsAre
  <2> QED
    BY <1>1, <2>1 DEF ServeSession, AuthCall
<1>3. PICK ok, v, set :
        /\ Answered(t, k, ok, v, set)
        /\ IF Touches(h) THEN ok = TRUE /\ v = ViewOf(h) /\ set = IF k = "refresh" THEN Issue(h) ELSE Keep
           ELSE ok = FALSE /\ set = IF k = "refresh" THEN Clear ELSE Keep
  BY <1>1, Zenon DEF ServeSession
<1>4. /\ calls'[t][k].phase = "answered" /\ calls'[t][k].ok = ok
      /\ calls'[t][k].view = v /\ calls'[t][k].set = set
      /\ \A j \in CallKind : /\ calls'[t][j].handle = calls[t][j].handle
                             /\ calls'[t][j].live = calls[t][j].live
                             /\ Busy(calls'[t][j]) <=> Busy(calls[t][j])
      /\ \A j \in CallKind \ {k} : calls'[t][j] = calls[t][j]
  BY <1>2, <1>3, AnsweredSlots
<1>5. Stages(t)' /\ Aims(t)'
  BY <1>2, <1>4, ServedStages
<1>6. CASE Touches(h)
  <2>1. h \in Handle /\ store' = [store EXCEPT ![h].seen = now] /\ now < store[h].ceiling /\ now \in Nat
    BY <1>2, <1>6, HandlesAre, CallsAre DEF Touched, Touches
  <2>2. store'[h].ceiling = store[h].ceiling /\ store[h].ceiling \in Nat
    BY <2>1, CallsAre, Times
  <2>3. v.ceiling = store[h].ceiling /\ v.idle = Minimum(now + IdleTtl, store[h].ceiling)
    BY <1>3, <1>6 DEF ViewOf
  <2>4. now < v.idle /\ now < v.ceiling
    BY <2>1, <2>2, <2>3, SessionNumbers DEF Minimum
  <2>5. calls'[t][k].ok /\ calls'[t][k].handle = h /\ calls'[t][k].view = v
    BY <1>1, <1>3, <1>4, <1>6, Zenon
  <2>6. Right(calls[t][k])'
    BY <1>2, <2>1, <2>2, <2>3, <2>4, <2>5, Zenon DEF Right
  <2>7. k = "refresh" => set = Issue(h)
    BY <1>3, <1>6, Zenon
  <2>8. k # "refresh" => set = Keep
    BY <1>3, <1>6, Zenon
  <2>9. ReplyTo(t, k)'
    BY <1>2, <1>4, <2>5, <2>6, <2>7, <2>8, Zenon DEF ReplyTo
  <2>10. Replies(t)'
    BY <1>2, <1>4, <2>9, RepliesStay DEF Lone, Like
  <2> QED
    BY <1>5, <2>10 DEF Lone
<1>7. CASE ~Touches(h)
  <2>1. ~calls'[t][k].ok /\ calls'[t][k].handle = h
    BY <1>1, <1>3, <1>4, <1>7, Zenon
  <2>2. h \notin Lives'
    <3>1. store' = IF h = 0 THEN store ELSE [store EXCEPT ![h].open = FALSE]
      BY <1>2, <1>7 DEF Touched
    <3>2. h # 0 => ~store'[h].open
      BY <1>2, <3>1, CallsAre
    <3> QED
      BY <3>2, HandlesAre, Zenon DEF Lives, Live
  <2>3. Right(calls[t][k])'
    BY <2>1, <2>2, Zenon DEF Right
  <2>4. k = "refresh" => set = Clear
    BY <1>3, <1>7, Zenon
  <2>5. k # "refresh" => set = Keep
    BY <1>3, <1>7, Zenon
  <2>6. ReplyTo(t, k)'
    BY <1>2, <1>4, <2>1, <2>3, <2>4, <2>5, Zenon DEF ReplyTo
  <2>7. Replies(t)'
    BY <1>2, <1>4, <2>6, RepliesStay DEF Lone, Like
  <2> QED
    BY <1>5, <2>7 DEF Lone
<1> QED
  BY <1>6, <1>7

LEMMA LoneLogsIn ==
  ASSUME LInv, LInv', Fades, NEW t \in Tab, Lone(t), ServeLogin(t)
  PROVE  Lone(t)'
<1>0. "login" \in CallKind /\ "login" \notin SessionCall /\ now' = now /\ UNCHANGED <<now, cookie, tabs>>
      /\ calls[t]["login"].phase = "sent"
  BY DEF CallKind, SessionCall, ServeLogin
<1>1. PICK ok, v, set : Answered(t, "login", ok, v, set) /\ (~ok => set = Keep)
  BY Zenon DEF ServeLogin
<1>2. /\ calls'[t]["login"].phase = "answered" /\ calls'[t]["login"].ok = ok
      /\ calls'[t]["login"].view = v /\ calls'[t]["login"].set = set
      /\ \A j \in CallKind : /\ calls'[t][j].handle = calls[t][j].handle
                             /\ calls'[t][j].live = calls[t][j].live
                             /\ Busy(calls'[t][j]) <=> Busy(calls[t][j])
      /\ \A j \in CallKind \ {"login"} : calls'[t][j] = calls[t][j]
  BY <1>0, <1>1, AnsweredSlots
<1>3. Stages(t)' /\ Aims(t)'
  BY <1>0, <1>2, ServedStages
<1>4. ReplyTo(t, "login")'
  BY <1>0, <1>1, <1>2, Zenon DEF ReplyTo
<1>5. Replies(t)'
  BY <1>0, <1>2, <1>4, RepliesStay DEF Lone, Like
<1> QED
  BY <1>3, <1>5 DEF Lone

LEMMA LoneLogsOut ==
  ASSUME LInv, LInv', Fades, NEW t \in Tab, Lone(t), ServeLogout(t)
  PROVE  Lone(t)'
<1>0. "logout" \in CallKind /\ "logout" \notin SessionCall /\ now' = now /\ UNCHANGED <<now, cookie, tabs>>
      /\ calls[t]["logout"].phase = "sent"
  BY DEF CallKind, SessionCall, ServeLogout
<1>1. PICK ok, v, set : Answered(t, "logout", ok, v, set) /\ set = Clear
  BY Zenon DEF ServeLogout
<1>2. /\ calls'[t]["logout"].phase = "answered" /\ calls'[t]["logout"].ok = ok
      /\ calls'[t]["logout"].view = v /\ calls'[t]["logout"].set = set
      /\ \A j \in CallKind : /\ calls'[t][j].handle = calls[t][j].handle
                             /\ calls'[t][j].live = calls[t][j].live
                             /\ Busy(calls'[t][j]) <=> Busy(calls[t][j])
      /\ \A j \in CallKind \ {"logout"} : calls'[t][j] = calls[t][j]
  BY <1>0, <1>1, AnsweredSlots
<1>3. Stages(t)' /\ Aims(t)'
  BY <1>0, <1>2, ServedStages
<1>4. calls'[t]["logout"].handle \notin Lives'
  <2>1. PICK g : g = calls[t]["logout"].handle
    OBVIOUS
  <2>2. store' = IF g = 0 THEN store ELSE [store EXCEPT ![g].open = FALSE]
    BY <2>1 DEF ServeLogout
  <2>3. g \in Handle => ~store'[g].open
    BY <2>2, CallsAre, HandlesAre
  <2>4. g \notin Lives'
    BY <2>3, Zenon DEF Lives, Live
  <2> QED
    BY <1>0, <1>2, <2>1, <2>4
<1>5. ReplyTo(t, "logout")'
  BY <1>0, <1>1, <1>2, <1>4, Zenon DEF ReplyTo
<1>6. Replies(t)'
  BY <1>0, <1>2, <1>5, RepliesStay DEF Lone, Like
<1> QED
  BY <1>3, <1>6 DEF Lone

(* What is in the jar once an answer is heard.                             *)
LEMMA HeardBrowser ==
  ASSUME LInv, NEW t \in Tab, NEW k \in CallKind, HearAnswer(t, k)
  PROVE  /\ Lives' = Lives /\ store' = store /\ now' = now
         /\ calls[t][k].set = Keep => Jar' = Jar /\ cookie' = cookie
         /\ calls[t][k].set = Clear => Jar' \notin Lives'
         /\ calls[t][k].set = Issue(calls[t][k].handle) => Jar' = calls[t][k].handle
         /\ Jar' = cookie'.handle \/ Jar' \notin Lives'
<1>1. store' = store /\ now' = now
  BY DEF HearAnswer
<1>2. Lives' = Lives /\ 0 \notin Lives
  BY <1>1, HandlesAre, Zenon DEF Lives, Live
<1>3. Jar' = IF cookie'.until > now THEN cookie'.handle ELSE 0
  BY <1>1 DEF Jar, BrowserHandle
<1>4. calls[t][k].set = Keep => Jar' = Jar /\ cookie' = cookie
  BY <1>1, HeardJar DEF Jar, BrowserHandle
<1>5. calls[t][k].set = Clear => Jar' = 0
  BY <1>3, HeardJar
<1>6. calls[t][k].set = Issue(calls[t][k].handle) => Jar' = calls[t][k].handle
  <2>1. CASE calls[t][k].handle \in Handle
    <3>1. PICK h \in Handle : h = calls[t][k].handle
      BY <2>1
    <3>2. calls[t][k].set = Issue(h) => cookie'.handle = h /\ cookie'.until = now + IdleTtl
      BY HeardJar
    <3> QED
      BY <1>3, <3>1, <3>2, CallsAre, SessionNumbers
  <2>2. CASE calls[t][k].handle = 0
    <3>1. Issue(0) = Clear
      BY DEF Issue, Clear
    <3> QED
      BY <1>5, <2>2, <3>1
  <2> QED
    BY <2>1, <2>2, CallsAre DEF AuthCall
<1> QED
  BY <1>1, <1>2, <1>3, <1>4, <1>5, <1>6

(* A tab that is told of its session takes it up, and nothing is due yet.  *)
LEMMA HeardPlan ==
  ASSUME LInv, NEW t \in Tab, NEW k \in CallKind, HearAnswer(t, k), calls[t][k].live, k \in SessionCall,
         calls[t][k].ok, now < calls[t][k].view.idle, now < calls[t][k].view.ceiling
  PROVE  /\ tabs'[t].status = "authenticated" /\ tabs'[t].view = calls[t][k].view
         /\ tabs'[t].timer = "ceiling" => tabs'[t].at = tabs'[t].view.ceiling
         /\ ~Due(t)'
<1>1. tabs'[t] = Plan(calls[t][k].view)
  BY HeardTab, Zenon
<1>2. PICK v \in View : v = calls[t][k].view
  <2>1. calls[t][k] \in AuthCall
    BY CallsAre
  <2> QED
    BY <2>1 DEF AuthCall
<1>3. PICK p : p = Plan(v)
  OBVIOUS
<1>4. /\ p.status = "authenticated" /\ p.view = v /\ now < p.at
      /\ p.timer = IF v.ceiling - now <= Warning THEN "ceiling" ELSE "refresh"
      /\ p.timer = "ceiling" => p.at = v.ceiling
  BY <1>2, <1>3, CallsAre, PlanGives
<1>5. p = tabs'[t]
  BY <1>1, <1>2, <1>3
<1>6. tabs'[t].at \in Nat /\ now' = now /\ now \in Nat
  <2>1. tabs' \in [Tab -> TabState]
    BY HeardTabs
  <2> QED
    BY <2>1, CallsAre DEF HearAnswer, TabState
<1> QED
  BY <1>2, <1>4, <1>5, <1>6 DEF Due

(* A tab that is closed hears nothing; the browser does.                   *)
LEMMA ClosedHears ==
  ASSUME LInv, LInv', Fades, NEW t \in Tab, Lone(t), NEW k \in CallKind, HearAnswer(t, k),
         tabs[t].status = "closed"
  PROVE  Stages(t)' /\ Aims(t)'
<1>1. ~calls[t][k].live
  BY Zenon DEF Lone, Stages, HearAnswer, Busy
<1>2. tabs' = tabs /\ calls'[t][k] = Idle /\ \A j \in CallKind \ {k} : calls'[t][j] = calls[t][j]
  <2>1. ~(calls[t][k].live /\ (k # "login" \/ calls[t][k].ok))
    BY <1>1, Zenon
  <2> QED
    BY <1>1, <2>1, HeardIs, HeardTab, Zenon
<1>3. Idle.phase = "idle" /\ {"boot", "load", "refresh", "login", "logout"} = CallKind
  BY SentFields DEF CallKind
<1>4. \A j \in CallKind : Busy(calls'[t][j]) => Busy(calls[t][j]) /\ calls'[t][j] = calls[t][j]
  BY <1>2, <1>3 DEF Busy
<1>5. tabs[t].timer = "none"
  BY DEF Lone, Stages
<1>6. Stages(t)'
  BY <1>2, <1>3, <1>4, <1>5, Zenon DEF Lone, Stages, Busy, Due
<1>7. Aims(t)'
  BY <1>2, <1>5 DEF Aims, Due
<1> QED
  BY <1>6, <1>7

(* Any other tab still waits for what it hears, but for a refresh.         *)
LEMMA BootHeard ==
  ASSUME LInv, LInv', Fades, NEW t \in Tab, Lone(t), HearAnswer(t, "boot"), tabs[t].status # "closed"
  PROVE  Stages(t)' /\ Aims(t)'
<1>0. {"boot", "load", "refresh", "login", "logout"} = CallKind /\ "boot" \in SessionCall
  BY DEF CallKind, SessionCall
<1>1. /\ Busy(calls[t]["boot"]) /\ calls[t]["boot"].live /\ tabs[t].status = "checking"
      /\ \A j \in CallKind \ {"boot"} : ~Busy(calls[t][j])
      /\ ReplyTo(t, "boot") /\ calls[t]["boot"].phase = "answered"
  BY <1>0, Zenon DEF Lone, Stages, Replies, HearAnswer, Busy
<1>2. \A j \in CallKind : ~Busy(calls'[t][j])
  <2>1. /\ calls'[t]["boot"] = Idle
        /\ Like(calls'[t]["refresh"], calls[t]["refresh"])
        /\ \A j \in CallKind \ {"boot", "refresh"} : calls'[t][j] = calls[t][j]
    BY <1>0, <1>1, HeardIs, Zenon
  <2> QED
    BY <1>0, <1>1, <2>1, SentFields DEF Busy, Like
<1>3. calls[t]["boot"].set = Keep /\ Right(calls[t]["boot"])
  BY <1>0, <1>1, Zenon DEF ReplyTo
<1>4. Jar' = Jar /\ Lives' = Lives /\ store' = store
  BY <1>0, <1>3, HeardBrowser
<1>5. CASE calls[t]["boot"].ok
  <2>1. /\ now < calls[t]["boot"].view.idle /\ now < calls[t]["boot"].view.ceiling
        /\ store[calls[t]["boot"].handle].ceiling = calls[t]["boot"].view.ceiling
    BY <1>3, <1>5, Zenon DEF Right
  <2>2. /\ tabs'[t].status = "authenticated" /\ tabs'[t].view = calls[t]["boot"].view
        /\ tabs'[t].timer = "ceiling" => tabs'[t].at = tabs'[t].view.ceiling
        /\ ~Due(t)'
    BY <1>0, <1>1, <1>5, <2>1, HeardPlan, Zenon
  <2>3. Stages(t)'
    BY <1>0, <1>2, <2>2, Zenon DEF Stages
  <2>4. calls[t]["boot"].handle = Jar
    BY <1>1, Zenon DEF Lone, Aims
  <2>5. Aims(t)'
    BY <1>0, <1>2, <1>4, <2>1, <2>2, <2>4, Zenon DEF Aims
  <2> QED
    BY <2>3, <2>5
<1>6. CASE ~calls[t]["boot"].ok
  <2>1. tabs'[t] = Shows("anonymous")
    BY <1>0, <1>1, <1>6, HeardTab, Zenon
  <2>2. tabs'[t].status = "anonymous" /\ tabs'[t].timer = "none"
    BY <2>1, ShowsIs
  <2>3. Stages(t)'
    BY <1>0, <1>2, <2>2, Zenon DEF Stages
  <2>4. Aims(t)'
    BY <1>0, <1>2, <2>2, Zenon DEF Aims, Due
  <2> QED
    BY <2>3, <2>4
<1> QED
  BY <1>5, <1>6

LEMMA LoadHeard ==
  ASSUME LInv, LInv', Fades, NEW t \in Tab, Lone(t), HearAnswer(t, "load"), tabs[t].status # "closed"
  PROVE  Stages(t)' /\ Aims(t)'
<1>0. {"boot", "load", "refresh", "login", "logout"} = CallKind /\ "load" \in SessionCall
  BY DEF CallKind, SessionCall
<1>1. /\ Busy(calls[t]["load"]) /\ calls[t]["load"].live /\ tabs[t].status \notin {"closed", "checking", "authenticated"}
      /\ ~Busy(calls[t]["boot"]) /\ ~Busy(calls[t]["login"]) /\ calls[t]["load"].phase = "answered"
      /\ ReplyTo(t, "load")
  BY <1>0, Zenon DEF Lone, Stages, Replies, HearAnswer, Busy
<1>2. /\ calls'[t]["load"] = Idle
      /\ Like(calls'[t]["refresh"], calls[t]["refresh"]) /\ calls'[t]["refresh"].live = FALSE
      /\ \A j \in CallKind \ {"load", "refresh"} : calls'[t][j] = calls[t][j]
  BY <1>0, <1>1, HeardIs, Zenon
<1>3. /\ ~Busy(calls'[t]["load"]) /\ ~Busy(calls'[t]["boot"]) /\ ~Busy(calls'[t]["login"])
      /\ calls'[t]["logout"] = calls[t]["logout"]
      /\ calls'[t]["refresh"].handle = calls[t]["refresh"].handle
      /\ Busy(calls'[t]["refresh"]) <=> Busy(calls[t]["refresh"])
      /\ ~calls'[t]["refresh"].live
  BY <1>0, <1>1, <1>2, SentFields DEF Busy, Like
<1>4. calls[t]["load"].set = Keep /\ Right(calls[t]["load"])
  BY <1>0, <1>1, Zenon DEF ReplyTo
<1>5. Jar' = Jar /\ Lives' = Lives /\ store' = store /\ cookie' = cookie
  BY <1>0, <1>4, HeardBrowser
<1>6. calls[t]["refresh"].handle \notin Lives \/ ~Busy(calls[t]["refresh"])
  BY <1>1, Zenon DEF Lone, Stages, Aims
<1>7. \A k \in CallKind \ {"refresh"} : Busy(calls'[t][k]) => calls'[t][k].live
  BY <1>0, <1>1, <1>2, <1>3, Zenon DEF Lone, Stages
<1>8. CASE calls[t]["load"].ok
  <2>1. /\ now < calls[t]["load"].view.idle /\ now < calls[t]["load"].view.ceiling
        /\ store[calls[t]["load"].handle].ceiling = calls[t]["load"].view.ceiling
    BY <1>4, <1>8, Zenon DEF Right
  <2>2. /\ tabs'[t].status = "authenticated" /\ tabs'[t].view = calls[t]["load"].view
        /\ tabs'[t].timer = "ceiling" => tabs'[t].at = tabs'[t].view.ceiling
        /\ ~Due(t)'
    BY <1>0, <1>1, <1>8, <2>1, HeardPlan, Zenon
  <2>3. Stages(t)'
    BY <1>0, <1>3, <1>7, <2>2, Zenon DEF Stages
  <2>4. Jar \in Lives => calls[t]["load"].handle = Jar
    <3>1. cookie.handle = calls[t]["load"].handle \/ Jar \notin Lives
      BY <1>1, Zenon DEF Lone, Aims
    <3>2. Jar \in Lives => cookie.handle = Jar
      BY HandlesAre DEF Jar, BrowserHandle, Lives
    <3> QED
      BY <3>1, <3>2
  <2>5. Aims(t)'
    BY <1>0, <1>3, <1>5, <1>6, <2>1, <2>2, <2>4, Zenon DEF Aims
  <2> QED
    BY <2>3, <2>5
<1>9. CASE ~calls[t]["load"].ok
  <2>1. tabs'[t] = Shows("anonymous")
    BY <1>0, <1>1, <1>9, HeardTab, Zenon
  <2>2. tabs'[t].status = "anonymous" /\ tabs'[t].timer = "none"
    BY <2>1, ShowsIs
  <2>3. Stages(t)'
    BY <1>0, <1>3, <1>7, <2>2, Zenon DEF Stages, Due
  <2>4. Aims(t)'
    BY <1>0, <1>3, <1>5, <1>6, <2>2, Zenon DEF Aims, Due
  <2> QED
    BY <2>3, <2>4
<1> QED
  BY <1>8, <1>9

LEMMA LoginHeard ==
  ASSUME LInv, LInv', Fades, NEW t \in Tab, Lone(t), HearAnswer(t, "login"), tabs[t].status # "closed"
  PROVE  Stages(t)' /\ Aims(t)'
<1>0. {"boot", "load", "refresh", "login", "logout"} = CallKind
  BY DEF CallKind
<1>1. /\ Busy(calls[t]["login"]) /\ calls[t]["login"].live /\ tabs[t].status \notin {"closed", "checking", "authenticated"}
      /\ ~Busy(calls[t]["boot"]) /\ ~Busy(calls[t]["load"]) /\ calls[t]["login"].phase = "answered"
      /\ ReplyTo(t, "login") /\ tabs[t].timer = "none"
  BY <1>0, Zenon DEF Lone, Stages, Replies, HearAnswer, Busy
<1>2. tabs'[t] = tabs[t] /\ Lives' = Lives /\ store' = store /\ calls'[t]["login"] = Idle
  BY <1>0, HeardTab, HeardBrowser, HeardIs
<1>3. CASE calls[t]["login"].ok
  <2>1. /\ calls'[t]["load"] = [Sent EXCEPT !.handle = cookie'.handle]
        /\ \A j \in CallKind \ {"login", "load"} : calls'[t][j] = calls[t][j]
    BY <1>0, <1>1, <1>3, HeardIs, Zenon
  <2>2. Busy(calls'[t]["load"]) /\ calls'[t]["load"].live /\ calls'[t]["load"].handle = cookie'.handle
    BY <2>1 DEF Sent, Idle, Busy
  <2>3. /\ ~Busy(calls'[t]["login"]) /\ calls'[t]["boot"] = calls[t]["boot"]
        /\ calls'[t]["refresh"] = calls[t]["refresh"] /\ calls'[t]["logout"] = calls[t]["logout"]
    BY <1>0, <1>2, <2>1, SentFields DEF Busy
  <2>4. \A k \in CallKind \ {"refresh"} : Busy(calls'[t][k]) => calls'[t][k].live
    BY <1>0, <1>1, <2>1, <2>2, <2>3, Zenon DEF Lone, Stages
  <2>5. Stages(t)'
    BY <1>0, <1>1, <1>2, <2>2, <2>3, <2>4, Zenon DEF Lone, Stages, Due
  <2>6. Aims(t)'
    BY <1>0, <1>1, <1>2, <2>2, <2>3, Zenon DEF Lone, Aims, Due
  <2> QED
    BY <2>5, <2>6
<1>4. CASE ~calls[t]["login"].ok
  <2>1. calls[t]["login"].set = Keep
    BY <1>1, <1>4, Zenon DEF ReplyTo
  <2>2. Jar' = Jar /\ cookie' = cookie
    BY <1>0, <2>1, HeardBrowser
  <2>3. \A j \in CallKind \ {"login"} : calls'[t][j] = calls[t][j]
    BY <1>0, <1>4, HeardIs, Zenon
  <2>4. /\ ~Busy(calls'[t]["login"]) /\ calls'[t]["boot"] = calls[t]["boot"] /\ calls'[t]["load"] = calls[t]["load"]
        /\ calls'[t]["refresh"] = calls[t]["refresh"] /\ calls'[t]["logout"] = calls[t]["logout"]
    BY <1>0, <1>2, <2>3, SentFields DEF Busy
  <2>5. \A k \in CallKind \ {"refresh"} : Busy(calls'[t][k]) => calls'[t][k].live
    BY <1>0, <1>1, <2>3, <2>4, Zenon DEF Lone, Stages
  <2>6. Stages(t)'
    BY <1>0, <1>1, <1>2, <2>4, <2>5, Zenon DEF Lone, Stages, Due
  <2>7. Aims(t)'
    BY <1>0, <1>1, <1>2, <2>2, <2>4, Zenon DEF Lone, Aims, Due
  <2> QED
    BY <2>6, <2>7
<1> QED
  BY <1>3, <1>4

LEMMA LogoutHeard ==
  ASSUME LInv, LInv', Fades, NEW t \in Tab, Lone(t), HearAnswer(t, "logout"), tabs[t].status # "closed"
  PROVE  Stages(t)' /\ Aims(t)'
<1>0. {"boot", "load", "refresh", "login", "logout"} = CallKind
  BY DEF CallKind
<1>1. /\ Busy(calls[t]["logout"]) /\ calls[t]["logout"].live /\ tabs[t].status \notin {"closed", "checking"}
      /\ ~Busy(calls[t]["boot"]) /\ calls[t]["logout"].phase = "answered"
      /\ ReplyTo(t, "logout")
  BY <1>0, Zenon DEF Lone, Stages, Replies, HearAnswer, Busy
<1>2. /\ calls'[t]["logout"] = Idle
      /\ Like(calls'[t]["refresh"], calls[t]["refresh"]) /\ calls'[t]["refresh"].live = FALSE
      /\ \A j \in CallKind \ {"logout", "refresh"} : calls'[t][j] = calls[t][j]
  BY <1>0, <1>1, HeardIs, Zenon
<1>3. /\ ~Busy(calls'[t]["logout"]) /\ calls'[t]["boot"] = calls[t]["boot"]
      /\ calls'[t]["login"] = calls[t]["login"] /\ calls'[t]["load"] = calls[t]["load"]
      /\ calls'[t]["refresh"].handle = calls[t]["refresh"].handle
      /\ Busy(calls'[t]["refresh"]) <=> Busy(calls[t]["refresh"])
      /\ ~calls'[t]["refresh"].live
  BY <1>0, <1>1, <1>2, SentFields DEF Busy, Like
<1>4. calls[t]["logout"].set = Clear /\ calls[t]["logout"].handle \notin Lives
  BY <1>1, Zenon DEF ReplyTo
<1>5. Jar' \notin Lives' /\ Lives' = Lives /\ store' = store
  BY <1>0, <1>4, HeardBrowser
<1>6. calls[t]["refresh"].handle \notin Lives \/ ~Busy(calls[t]["refresh"])
  BY <1>1, <1>4, Zenon DEF Lone, Stages, Aims
<1>7. \A k \in CallKind \ {"refresh"} : Busy(calls'[t][k]) => calls'[t][k].live
  BY <1>0, <1>1, <1>2, <1>3, Zenon DEF Lone, Stages
<1>8. tabs'[t] = Shows("anonymous")
  BY <1>0, <1>1, HeardTab, Zenon
<1>9. tabs'[t].status = "anonymous" /\ tabs'[t].timer = "none"
  BY <1>8, ShowsIs
<1>10. Stages(t)'
  BY <1>0, <1>1, <1>3, <1>7, <1>9, Zenon DEF Lone, Stages, Due
<1>11. Aims(t)'
  BY <1>0, <1>3, <1>5, <1>6, <1>9, Zenon DEF Aims, Due
<1> QED
  BY <1>10, <1>11

LEMMA RefreshHeard ==
  ASSUME LInv, LInv', Fades, NEW t \in Tab, Lone(t), HearAnswer(t, "refresh"), tabs[t].status # "closed"
  PROVE  Stages(t)' /\ Aims(t)'
<1>0. {"boot", "load", "refresh", "login", "logout"} = CallKind /\ "refresh" \in SessionCall
  BY DEF CallKind, SessionCall
<1>1. /\ Busy(calls[t]["refresh"]) /\ tabs[t].status \notin {"closed", "checking", "expired"}
      /\ ~Busy(calls[t]["boot"]) /\ calls[t]["refresh"].phase = "answered"
      /\ ReplyTo(t, "refresh") /\ ~Due(t)
  BY <1>0, Zenon DEF Lone, Stages, Replies, HearAnswer, Busy
<1>2. Right(calls[t]["refresh"])
  BY <1>0, <1>1, Zenon DEF ReplyTo
<1>3. /\ calls'[t]["refresh"] = Idle
      /\ \A j \in CallKind \ {"refresh"} : calls'[t][j] = calls[t][j]
  <2>1. calls'[t]["refresh"] = Idle
    BY <1>0, HeardIs
  <2>2. CASE calls[t]["refresh"].live
    <3>1. \A j \in CallKind \ {"refresh", "refresh"} : calls'[t][j] = calls[t][j]
      BY <1>0, <2>2, HeardIs, Zenon
    <3> QED
      BY <2>1, <3>1
  <2>3. CASE ~calls[t]["refresh"].live
    <3>1. \A j \in CallKind \ {"refresh"} : calls'[t][j] = calls[t][j]
      BY <1>0, <2>3, HeardIs, Zenon
    <3> QED
      BY <2>1, <3>1
  <2> QED
    BY <2>2, <2>3
<1>4. /\ ~Busy(calls'[t]["refresh"]) /\ calls'[t]["boot"] = calls[t]["boot"]
      /\ calls'[t]["login"] = calls[t]["login"] /\ calls'[t]["load"] = calls[t]["load"]
      /\ calls'[t]["logout"] = calls[t]["logout"]
  BY <1>0, <1>3, SentFields DEF Busy
<1>5. \A k \in CallKind \ {"refresh"} : Busy(calls'[t][k]) => calls'[t][k].live
  BY <1>0, <1>1, <1>3, <1>4, Zenon DEF Lone, Stages
<1>6. store' = store /\ Lives' = Lives
  BY <1>0, HeardBrowser
<1>7. CASE calls[t]["refresh"].live /\ calls[t]["refresh"].ok
  <2>1. /\ now < calls[t]["refresh"].view.idle /\ now < calls[t]["refresh"].view.ceiling
        /\ store[calls[t]["refresh"].handle].ceiling = calls[t]["refresh"].view.ceiling
    BY <1>2, <1>7, Zenon DEF Right
  <2>2. tabs[t].status = "authenticated" /\ ~Busy(calls[t]["login"]) /\ ~Busy(calls[t]["load"])
    BY <1>1, <1>7, Zenon DEF Lone, Stages
  <2>3. /\ tabs'[t].status = "authenticated" /\ tabs'[t].view = calls[t]["refresh"].view
        /\ tabs'[t].timer = "ceiling" => tabs'[t].at = tabs'[t].view.ceiling
        /\ ~Due(t)'
    BY <1>0, <1>1, <1>7, <2>1, HeardPlan, Zenon
  <2>4. Jar' = calls[t]["refresh"].handle
    <3>1. calls[t]["refresh"].set = Issue(calls[t]["refresh"].handle)
      BY <1>1, <1>7, Zenon DEF ReplyTo
    <3> QED
      BY <1>0, <3>1, HeardBrowser
  <2>5. Stages(t)'
    BY <1>0, <1>1, <1>4, <1>5, <2>2, <2>3, Zenon DEF Stages
  <2>6. Aims(t)'
    BY <1>0, <1>4, <1>6, <2>1, <2>2, <2>3, <2>4, Zenon DEF Aims
  <2> QED
    BY <2>5, <2>6
<1>8. CASE calls[t]["refresh"].live /\ ~calls[t]["refresh"].ok
  <2>1. tabs[t].status = "authenticated" /\ ~Busy(calls[t]["login"]) /\ ~Busy(calls[t]["load"])
    BY <1>1, <1>8, Zenon DEF Lone, Stages
  <2>2. tabs'[t] = Shows("expired")
    BY <1>0, <1>8, HeardTab, Zenon
  <2>3. tabs'[t].status = "expired" /\ tabs'[t].timer = "none"
    BY <2>2, ShowsIs
  <2>4. Jar' \notin Lives'
    <3>1. calls[t]["refresh"].set = Clear
      BY <1>1, <1>8, Zenon DEF ReplyTo
    <3> QED
      BY <1>0, <3>1, HeardBrowser
  <2>5. Stages(t)'
    BY <1>0, <1>1, <1>4, <1>5, <2>1, <2>3, Zenon DEF Stages, Due
  <2>6. Aims(t)'
    BY <1>0, <1>4, <2>1, <2>3, <2>4, Zenon DEF Aims, Due
  <2> QED
    BY <2>5, <2>6
<1>9. CASE ~calls[t]["refresh"].live
  <2>1. tabs'[t] = tabs[t] /\ calls[t]["refresh"].handle \notin Lives
    <3>1. tabs' = tabs
      BY <1>0, <1>9, HeardTab, Zenon
    <3>2. calls[t]["refresh"].handle \notin Lives
      BY <1>1, <1>9, Zenon DEF Lone, Aims
    <3> QED
      BY <3>1, <3>2
  <2>2. Jar' \notin Lives'
    <3>1. \/ calls[t]["refresh"].set = Clear
          \/ calls[t]["refresh"].set = Issue(calls[t]["refresh"].handle)
      BY <1>1, Zenon DEF ReplyTo
    <3>2. /\ calls[t]["refresh"].set = Clear => Jar' \notin Lives'
          /\ calls[t]["refresh"].set = Issue(calls[t]["refresh"].handle) => Jar' = calls[t]["refresh"].handle
      BY <1>0, HeardBrowser
    <3> QED
      BY <1>6, <2>1, <3>1, <3>2
  <2>3. ~Due(t)'
    BY <1>1, <2>1 DEF Due, HearAnswer
  <2>4. Stages(t)'
    BY <1>0, <1>1, <1>4, <1>5, <2>1, <2>3, Zenon DEF Lone, Stages
  <2>5. Aims(t)'
    BY <1>0, <1>1, <1>4, <2>1, <2>2, <2>3, Zenon DEF Aims
  <2> QED
    BY <2>4, <2>5
<1> QED
  BY <1>7, <1>8, <1>9, Zenon

LEMMA LoneHears ==
  ASSUME LInv, LInv', Fades, NEW t \in Tab, Lone(t), NEW k \in CallKind, HearAnswer(t, k)
  PROVE  Lone(t)'
<1>1. k \in {"boot", "load", "refresh", "login", "logout"}
  BY DEF CallKind
<1>2. Stages(t)' /\ Aims(t)'
  <2>1. CASE tabs[t].status = "closed"
    BY <2>1, ClosedHears
  <2>2. CASE tabs[t].status # "closed"
    <3>1. CASE k = "boot"
      BY <2>2, <3>1, BootHeard
    <3>2. CASE k = "load"
      BY <2>2, <3>2, LoadHeard
    <3>3. CASE k = "login"
      BY <2>2, <3>3, LoginHeard
    <3>4. CASE k = "logout"
      BY <2>2, <3>4, LogoutHeard
    <3>5. CASE k = "refresh"
      BY <2>2, <3>5, RefreshHeard
    <3> QED
      BY <1>1, <3>1, <3>2, <3>3, <3>4, <3>5
  <2> QED
    BY <2>1, <2>2
<1>3. now' = now
  BY DEF HearAnswer
<1>4. \A j \in CallKind : calls'[t][j].phase = "answered" => Like(calls'[t][j], calls[t][j])
  BY HeardLike
<1>5. Replies(t)'
  BY <1>3, <1>4, RepliesStay DEF Lone
<1> QED
  BY <1>2, <1>5 DEF Lone

(* Once an answer is a 5xx, that stays so.                                 *)
LEMMA NoError ==
  ASSUME LInv, EdgeAnswers', SessionNext
  PROVE  EdgeAnswers /\ \A t \in Tab, k \in CallKind : ~ServeError(t, k)
<1>1. left \in [closes : 0..MaxCloses, errors : 0..MaxErrors, throws : 0..MaxThrows] /\ MaxErrors \in Nat
  BY SessionNumbers DEF LInv, SessionTypeOK
<1>2. /\ left' = [left EXCEPT !.errors = @ - 1] => left'.errors # MaxErrors
      /\ left' = [left EXCEPT !.closes = @ - 1] => left'.errors = left.errors
      /\ left' = [left EXCEPT !.throws = @ - 1] => left'.errors = left.errors
  BY <1>1
<1>3. left'.errors = MaxErrors
  BY DEF EdgeAnswers
<1>4. \A t \in Tab, k \in CallKind : ~ServeError(t, k)
  BY <1>2, <1>3 DEF ServeError
<1>5. left'.errors = left.errors
  BY <1>2, <1>3, <1>4 DEF SessionNext, Open, Close, SignIn, SignOut, Work, TimerFires, Tick, Serve, ServeSession,
     ServeLogin, ServeLogout, Answers, HearAnswer, Throw
<1> QED
  BY <1>3, <1>4, <1>5 DEF EdgeAnswers

LEMMA LoneStep ==
  ASSUME LInv, LInv', BootIsFast, NEW t \in Tab, \A u \in Tab : u = t, Lone(t), SessionNext,
         EdgeAnswers', NothingLost'
  PROVE  Lone(t)'
<1>1. Fades /\ "login" \in CallKind
  BY StoreFades DEF CallKind
<1>2. ASSUME Open(t) \/ Close(t) \/ SignIn(t) \/ SignOut(t) \/ Work(t) \/ TimerFires(t)
      PROVE  Lone(t)'
  BY <1>1, <1>2, LoneOpens, LoneCloses, LoneSignsIn, LoneSignsOut, LoneWorks, LoneTimer
<1>3. ASSUME Tick PROVE Lone(t)'
  BY <1>1, <1>3, LoneTicks
<1>4. ASSUME ServeLogin(t) \/ ServeLogout(t) PROVE Lone(t)'
  BY <1>1, <1>4, LoneLogsIn, LoneLogsOut
<1>5. ASSUME NEW k \in CallKind, ServeSession(t, k) PROVE Lone(t)'
  BY <1>1, <1>5, LoneServed
<1>6. ASSUME NEW k \in CallKind, HearAnswer(t, k) PROVE Lone(t)'
  BY <1>1, <1>6, LoneHears
<1>7. \A k \in CallKind : ~Throw(t, k) /\ ~ServeError(t, k)
  BY NoThrow, NoError
<1>8. \/ \/ Open(t) \/ Close(t) \/ SignIn(t) \/ SignOut(t) \/ Work(t) \/ TimerFires(t)
         \/ Serve(t) \/ Answers(t)
         \/ \E k \in CallKind : ServeError(t, k) \/ Throw(t, k)
      \/ Tick
  BY DEF SessionNext
<1> QED
  BY <1>2, <1>3, <1>4, <1>5, <1>6, <1>7, <1>8 DEF Serve, Answers

LEMMA LoneInit == ASSUME SessionInit, NEW t \in Tab PROVE Lone(t)
<1>1. tabs[t].status = "closed" /\ tabs[t].timer = "none" /\ \A k \in CallKind : calls[t][k].phase = "idle"
  BY SentFields DEF SessionInit, Closed
<1>2. {"boot", "load", "refresh", "login", "logout"} = CallKind
  BY DEF CallKind
<1>3. Stages(t)
  BY <1>1, <1>2, Zenon DEF Stages, Busy
<1>4. Aims(t)
  BY <1>1, <1>2 DEF Aims, Busy, Due
<1>5. Replies(t)
  BY <1>1, Zenon DEF Replies, ReplyTo
<1> QED
  BY <1>3, <1>4, <1>5 DEF Lone

LEMMA LoneMeans ==
  ASSUME LInv, NEW t \in Tab, Lone(t), tabs[t].status = "expired", Quiet(t)
  PROVE  ~Live(BrowserHandle)
<1>1. Jar \notin Lives
  BY Zenon DEF Lone, Aims, Quiet, Free, Busy, CallKind
<1>2. BrowserHandle \in Handle \cup {0}
  BY CallsAre DEF BrowserHandle
<1>3. Live(BrowserHandle) => BrowserHandle \in Handle
  BY <1>2 DEF Live
<1> QED
  BY <1>1, <1>3 DEF Lives, Jar

(* While every call is answered, and none by a 5xx, the only tab of a      *)
(* browser says its session is over when it is: refresh.ts, planRefresh    *)
(* and the loop, context.tsx, and touch() of session-store.ts.             *)
THEOREM ExpiryIsTrue ==
  ASSUME \A t, u \in Tab : t = u, BootIsFast
  PROVE  SessionSpec => []ExpiredMeansLost
<1> DEFINE Inv == LInv /\ (EdgeAnswers /\ NothingLost => \A t \in Tab : Lone(t))
<1>1. SessionInit => Inv
  BY LInvInit, LoneInit
<1>2. Inv /\ [SessionNext]_sessionVars => Inv'
  <2> SUFFICES ASSUME Inv, [SessionNext]_sessionVars PROVE Inv'
    OBVIOUS
  <2>1. LInv'
    BY SessionStep
  <2>2. CASE UNCHANGED sessionVars
    BY <2>1, <2>2 DEF sessionVars, EdgeAnswers, NothingLost, Lone, Stages, Aims, Replies, ReplyTo, Right, Busy,
       Due, Lives, Live, Jar, BrowserHandle
  <2>3. CASE SessionNext
    <3>1. ASSUME EdgeAnswers', NothingLost', NEW t \in Tab PROVE Lone(t)'
      <4>1. EdgeAnswers /\ NothingLost
        BY <2>3, <3>1, NoThrow, NoError
      <4>2. \A u \in Tab : u = t
        OBVIOUS
      <4> QED
        BY <2>1, <2>3, <3>1, <4>1, <4>2, LoneStep
    <3> QED
      BY <2>1, <3>1
  <2> QED
    BY <2>2, <2>3
<1>3. Inv => ExpiredMeansLost
  BY LoneMeans DEF ExpiredMeansLost
<1> HIDE DEF Inv
<1> QED
  BY <1>1, <1>2, <1>3, PTL DEF SessionSpec

-----------------------------------------------------------------------------
(* An active user keeps the session                                        *)

(* The first session ends, and is the only one there was; no tab was       *)
(* closed, and every call was answered.                                    *)
Ceil == store[1].ceiling
OnlyFirst == \A h \in Handle : store[h].ceiling # 0 => h = 1
Undisturbed == OnlyFirst /\ left.closes = MaxCloses /\ EdgeAnswers /\ NothingLost

(* Nobody has signed out of it, and its ceiling is still to come.          *)
Fine ==
  /\ 1 \notin signedOut /\ (Ceil = 0 \/ now < Ceil)
  /\ \A t \in Tab : Busy(calls[t]["logout"]) => calls[t]["logout"].handle # 1

(* What a tab knows of it is so.                                           *)
Knows ==
  /\ \A t \in Tab : /\ tabs[t].status = "authenticated" => Ceil # 0 /\ tabs[t].view.ceiling = Ceil
                    /\ tabs[t].timer = "ceiling" => tabs[t].status = "authenticated" /\ tabs[t].at = Ceil
  /\ \A t \in Tab, k \in SessionCall : calls[t][k].phase = "answered" /\ calls[t][k].ok =>
       Ceil # 0 /\ calls[t][k].view.ceiling = Ceil

(* The stages of a tab, with the one call each may have in flight.         *)
OnlyBusy(t, K) == \A k \in CallKind \ K : ~Busy(calls[t][k])
Stage(t) ==
  /\ tabs[t].status \in {"closed", "checking", "anonymous", "authenticated"}
  /\ tabs[t].status = "closed" => OnlyBusy(t, {})
  /\ tabs[t].status = "checking" => OnlyBusy(t, {"boot"}) /\ Busy(calls[t]["boot"])
  /\ tabs[t].status = "anonymous" => OnlyBusy(t, {"login"}) \/ OnlyBusy(t, {"load"})
  /\ tabs[t].status = "authenticated" => /\ OnlyBusy(t, {"refresh"}) /\ cookie.handle = 1
                                         /\ tabs[t].timer = "none" => Busy(calls[t]["refresh"])
  /\ tabs[t].timer # "none" => tabs[t].status = "authenticated"
  /\ \A k \in CallKind : Busy(calls[t][k]) => calls[t][k].live

(* A call and its answer.                                                  *)
Fit(c, k) ==
  /\ Busy(c) /\ k \in {"load", "refresh"} => c.handle = 1
  /\ Busy(c) /\ c.handle = 1 => cookie.handle = 1
  /\ c.phase = "answered" =>
       /\ k \in {"load", "refresh"} => c.ok
       /\ k \in {"boot", "load"} => c.set = Keep
       /\ k = "refresh" => c.set = Issue(1)
       /\ k = "login" /\ c.ok => c.set = Issue(1)
       /\ k = "login" /\ ~c.ok => c.set = Keep
       /\ c.ok => Ceil # 0 /\ store[1].seen = now
       /\ c.ok /\ k \in SessionCall => /\ c.handle = 1 /\ c.view.ceiling = Ceil
                                       /\ c.view.idle = Minimum(now + IdleTtl, Ceil)

(* A tab that will have the cookie re-issued before it runs out.           *)
Keeps(t) ==
  \/ calls[t]["login"].phase = "answered" /\ calls[t]["login"].ok
  \/ Busy(calls[t]["load"]) /\ cookie.until = now + IdleTtl
  \/ /\ tabs[t].status = "authenticated"
     /\ \/ tabs[t].timer = "refresh" /\ tabs[t].at < cookie.until
        \/ tabs[t].timer = "ceiling" /\ Ceil <= cookie.until
        \/ Busy(calls[t]["refresh"])

JarGood == cookie.handle = 1 =>
  /\ Ceil # 0 /\ now < cookie.until
  /\ cookie.until <= store[1].seen + IdleTtl /\ cookie.until <= now + IdleTtl
StoreGood == Ceil # 0 =>
  store[1].open /\ store[1].seen <= now /\ now < store[1].seen + IdleTtl

Good ==
  /\ \A t \in Tab : Stage(t) /\ \A k \in CallKind : Fit(calls[t][k], k)
  /\ JarGood /\ StoreGood /\ (Ceil # 0 => \E t \in Tab : Keeps(t))

LEMMA FirstIs == 1 \in Handle
BY SessionNumbers DEF Handle

LEMMA UndisturbedBefore ==
  ASSUME LInv, SessionNext, Undisturbed'
  PROVE  /\ Undisturbed /\ Fades /\ (Ceil # 0 => Ceil' = Ceil)
         /\ \A t \in Tab : ~Close(t) /\ \A k \in CallKind : ~ServeError(t, k) /\ ~Throw(t, k)
<1>1. left \in [closes : 0..MaxCloses, errors : 0..MaxErrors, throws : 0..MaxThrows] /\ MaxCloses \in Nat
  BY SessionNumbers DEF LInv, SessionTypeOK
<1>2. /\ left' = [left EXCEPT !.closes = @ - 1] => left'.closes # MaxCloses
      /\ left' = [left EXCEPT !.errors = @ - 1] => left'.closes = left.closes
      /\ left' = [left EXCEPT !.throws = @ - 1] => left'.closes = left.closes
  BY <1>1
<1>3. left'.closes = MaxCloses
  BY DEF Undisturbed
<1>4. \A t \in Tab : ~Close(t)
  BY <1>2, <1>3 DEF Close
<1>5. EdgeAnswers /\ NothingLost /\ \A t \in Tab, k \in CallKind : ~ServeError(t, k) /\ ~Throw(t, k)
  BY NoError, NoThrow DEF Undisturbed
<1>6. left'.closes = left.closes
  BY <1>2, <1>3, <1>4, <1>5 DEF SessionNext, Open, SignIn, SignOut, Work, TimerFires, Tick, Serve, ServeSession,
     ServeLogin, ServeLogout, Answers, HearAnswer
<1>7. Fades
  BY StoreFades
<1>8. OnlyFirst
  BY <1>7 DEF Undisturbed, OnlyFirst, Fades
<1>9. Ceil # 0 => Ceil' = Ceil
  BY <1>7, FirstIs DEF Ceil, Fades
<1> QED
  BY <1>3, <1>4, <1>5, <1>6, <1>7, <1>8, <1>9 DEF Undisturbed

(* The first session is the only one a call or the jar can be for.         *)
LEMMA OnlyHandles ==
  ASSUME LInv, OnlyFirst
  PROVE  /\ cookie.handle \in {0, 1} /\ BrowserHandle \in {0, 1}
         /\ \A t \in Tab, k \in CallKind : calls[t][k].handle \in {0, 1}
<1>1. \A h \in Handle \cup {0} : Created(h) => h \in {0, 1}
  BY DEF OnlyFirst, Created
<1>2. cookie.handle \in {0, 1}
  BY <1>1, CallsAre DEF LInv, Known
<1>3. \A t \in Tab, k \in CallKind : calls[t][k].handle \in {0, 1}
  BY <1>1, CallsAre DEF LInv, Known, CallCreated, AuthCall
<1> QED
  BY <1>2, <1>3 DEF BrowserHandle

NoNewUser == \A t \in Tab :
  /\ tabs'[t].status = "authenticated" => tabs[t].status = "authenticated" /\ tabs'[t].view = tabs[t].view
  /\ tabs'[t].timer = "ceiling" => tabs'[t] = tabs[t]

LEMMA KnowsStays ==
  ASSUME LInv, Ceil # 0 => Ceil' = Ceil, Knows, NoNewUser, NoNewAnswer
  PROVE  Knows'
<1>1. ASSUME NEW t \in Tab, tabs'[t].status = "authenticated" PROVE Ceil' # 0 /\ tabs'[t].view.ceiling = Ceil'
  BY <1>1 DEF Knows, NoNewUser
<1>2. ASSUME NEW t \in Tab, tabs'[t].timer = "ceiling" PROVE tabs'[t].status = "authenticated" /\ tabs'[t].at = Ceil'
  BY <1>2 DEF Knows, NoNewUser
<1>3. ASSUME NEW t \in Tab, NEW k \in SessionCall, calls'[t][k].phase = "answered", calls'[t][k].ok
      PROVE  Ceil' # 0 /\ calls'[t][k].view.ceiling = Ceil'
  <2>1. calls[t][k].phase = "answered" /\ calls[t][k].ok /\ calls'[t][k].view = calls[t][k].view
    BY <1>3, Zenon DEF NoNewAnswer
  <2>2. Ceil # 0 /\ calls[t][k].view.ceiling = Ceil
    BY <2>1, Zenon DEF Knows
  <2> QED
    BY <2>1, <2>2
<1> QED
  BY <1>1, <1>2, <1>3, Zenon DEF Knows

LEMMA PlanKnows ==
  ASSUME now \in 0..MaxTime, NEW v \in View, NEW p, p = Plan(v)
  PROVE  /\ p.status = "authenticated" => p.view = v
         /\ p.timer = "ceiling" => p.status = "authenticated" /\ p.at = v.ceiling
<1>1. CASE v.ceiling <= now \/ v.idle <= now
  <2>1. p = Shows("expired")
    BY <1>1 DEF Plan
  <2> QED
    BY <2>1, ShowsIs
<1>2. CASE ~(v.ceiling <= now \/ v.idle <= now)
  <2>1. now < v.idle /\ now < v.ceiling
    <3>1. v.idle \in Nat /\ v.ceiling \in Nat /\ now \in Nat
      BY Times DEF View
    <3> QED
      BY <1>2, <3>1
  <2> QED
    BY <2>1, PlanGives
<1> QED
  BY <1>1, <1>2

LEMMA TabsKnow ==
  ASSUME LInv, NEW t \in Tab, Open(t) \/ Close(t) \/ SignIn(t) \/ SignOut(t) \/ Work(t) \/ TimerFires(t)
  PROVE  NoNewUser
<1>1. CASE tabs' = tabs
  BY <1>1 DEF NoNewUser
<1>2. CASE \E p \in {Shows("checking"), Shows("expired"), Closed} : tabs' = [tabs EXCEPT ![t] = p]
  BY <1>2, CallsAre, ShowsIs DEF NoNewUser, Closed
<1>3. CASE tabs' = [tabs EXCEPT ![t].timer = "none"]
  BY <1>3, CallsAre DEF NoNewUser, TabState
<1> QED
  BY <1>1, <1>2, <1>3 DEF Open, Close, SignIn, SignOut, Work, TimerFires

LEMMA HeardKnows ==
  ASSUME LInv, NEW t \in Tab, NEW k \in CallKind, HearAnswer(t, k), Ceil # 0 => Ceil' = Ceil, Knows
  PROVE  Knows'
<1>1. NoNewAnswer
  <2>1. ASSUME NEW u \in Tab, NEW j \in SessionCall, calls'[u][j].phase = "answered"
        PROVE  Like(calls'[u][j], calls[u][j])
    BY <2>1, CallsAre, HeardLike
  <2> QED
    BY <2>1, Zenon DEF NoNewAnswer, Like
<1>2. CASE NoNewUser
  BY <1>1, <1>2, KnowsStays
<1>3. CASE ~NoNewUser
  <2>1. calls[t][k].live /\ k # "login"
    <3>1. \/ tabs' # tabs
      BY <1>3 DEF NoNewUser
    <3> QED
      BY <3>1, HeardTab, Zenon
  <2>2. tabs'[t] # Shows("anonymous") /\ tabs'[t] # Shows("expired")
    <3>1. \A p \in {Shows("anonymous"), Shows("expired")} : p.status # "authenticated" /\ p.timer # "ceiling"
      BY ShowsIs
    <3>2. \A u \in Tab : u # t => tabs'[u] = tabs[u]
      BY HeardTab
    <3> QED
      BY <1>3, <3>1, <3>2 DEF NoNewUser
  <2>3. k \in SessionCall
    <3>1. k # "logout"
      BY <2>1, <2>2, HeardTab, Zenon
    <3> QED
      BY <2>1, <3>1, CallsAre
  <2>4. calls[t][k].ok
    <3>1. CASE k \in {"boot", "load"}
      BY <2>1, <2>2, <3>1, HeardTab, Zenon
    <3>2. CASE k = "refresh"
      BY <2>1, <2>2, <3>2, HeardTab, Zenon
    <3> QED
      BY <2>3, <3>1, <3>2 DEF SessionCall
  <2>5. tabs'[t] = Plan(calls[t][k].view)
    BY <2>1, <2>3, <2>4, HeardTab, Zenon
  <2>6. Ceil # 0 /\ calls[t][k].view.ceiling = Ceil /\ calls[t][k].view \in View
    <3>1. calls[t][k].phase = "answered"
      BY DEF HearAnswer
    <3>2. calls[t][k].view \in View
      BY CallsAre DEF AuthCall
    <3> QED
      BY <2>3, <2>4, <3>1, <3>2, Zenon DEF Knows
  <2>7. PICK v \in View : v = calls[t][k].view
    BY <2>6
  <2>8. /\ tabs'[t].status = "authenticated" => tabs'[t].view.ceiling = Ceil
        /\ tabs'[t].timer = "ceiling" => tabs'[t].status = "authenticated" /\ tabs'[t].at = Ceil
    <3>1. PICK p : p = Plan(v)
      OBVIOUS
    <3>2. /\ p.status = "authenticated" => p.view = v
          /\ p.timer = "ceiling" => p.status = "authenticated" /\ p.at = v.ceiling
      BY <3>1, CallsAre, PlanKnows
    <3>3. p = tabs'[t]
      BY <2>5, <2>7, <3>1
    <3> QED
      BY <2>6, <2>7, <3>2, <3>3
  <2>9. \A u \in Tab : u # t => tabs'[u] = tabs[u]
    BY HeardTab
  <2>10. ASSUME NEW u \in Tab
         PROVE  /\ tabs'[u].status = "authenticated" => Ceil' # 0 /\ tabs'[u].view.ceiling = Ceil'
                /\ tabs'[u].timer = "ceiling" => tabs'[u].status = "authenticated" /\ tabs'[u].at = Ceil'
    <3>1. CASE u = t
      BY <2>6, <2>8, <3>1
    <3>2. CASE u # t
      BY <2>6, <2>9, <3>2 DEF Knows
    <3> QED
      BY <3>1, <3>2
  <2>11. ASSUME NEW u \in Tab, NEW j \in SessionCall, calls'[u][j].phase = "answered", calls'[u][j].ok
         PROVE  Ceil' # 0 /\ calls'[u][j].view.ceiling = Ceil'
    <3>1. calls[u][j].phase = "answered" /\ calls[u][j].ok /\ calls'[u][j].view = calls[u][j].view
      BY <1>1, <2>11, Zenon DEF NoNewAnswer
    <3>2. Ceil # 0 /\ calls[u][j].view.ceiling = Ceil
      BY <3>1, Zenon DEF Knows
    <3> QED
      BY <3>1, <3>2
  <2> QED
    BY <2>10, <2>11, Zenon DEF Knows
<1> QED
  BY <1>2, <1>3

LEMMA ServedKnows ==
  ASSUME LInv, OnlyFirst, NEW t \in Tab, NEW k \in CallKind, ServeSession(t, k), Ceil # 0 => Ceil' = Ceil, Knows
  PROVE  Knows'
<1>1. PICK h : h = calls[t][k].handle
  OBVIOUS
<1>2. NoNewUser
  BY DEF ServeSession, NoNewUser
<1>3. CASE ~Touches(h)
  <2>1. PICK set : Answered(t, k, FALSE, NoView, set)
    BY <1>1, <1>3, Zenon DEF ServeSession
  <2>2. NoNewAnswer
    BY <2>1, AnsweredNews
  <2> QED
    BY <1>2, <2>2, KnowsStays
<1>4. CASE Touches(h)
  <2>1. PICK ok, set : Answered(t, k, ok, ViewOf(h), set)
    BY <1>1, <1>4, Zenon DEF ServeSession
  <2>2. h = 1 /\ Ceil # 0
    <3>1. h \in {0, 1} /\ h # 0 /\ now < store[h].ceiling
      BY <1>1, <1>4, OnlyHandles DEF Touches
    <3> QED
      BY <3>1, CallsAre DEF Ceil
  <2>3. ViewOf(h).ceiling = Ceil
    BY <2>2 DEF ViewOf, Ceil
  <2>4. calls'[t][k].view = ViewOf(h) /\ \A u \in Tab, j \in CallKind : u # t \/ j # k => calls'[u][j] = calls[u][j]
    BY <2>1, AnsweredIs
  <2>5. ASSUME NEW u \in Tab, NEW j \in SessionCall, calls'[u][j].phase = "answered", calls'[u][j].ok
        PROVE  Ceil' # 0 /\ calls'[u][j].view.ceiling = Ceil'
    <3>1. CASE u = t /\ j = k
      BY <2>2, <2>3, <2>4, <3>1
    <3>2. CASE u # t \/ j # k
      <4>1. calls'[u][j] = calls[u][j]
        BY <2>4, <3>2, CallsAre
      <4>2. Ceil # 0 /\ calls[u][j].view.ceiling = Ceil
        BY <2>5, <4>1, Zenon DEF Knows
      <4> QED
        BY <4>1, <4>2
    <3> QED
      BY <3>1, <3>2
  <2>6. ASSUME NEW u \in Tab
        PROVE  /\ tabs'[u].status = "authenticated" => Ceil' # 0 /\ tabs'[u].view.ceiling = Ceil'
               /\ tabs'[u].timer = "ceiling" => tabs'[u].status = "authenticated" /\ tabs'[u].at = Ceil'
    BY <1>2, <2>2 DEF NoNewUser, Knows
  <2> QED
    BY <2>5, <2>6, Zenon DEF Knows
<1> QED
  BY <1>3, <1>4

LEMMA KnowsStep ==
  ASSUME LInv, SessionNext, Undisturbed', Knows
  PROVE  Knows'
<1>1. /\ Undisturbed /\ (Ceil # 0 => Ceil' = Ceil) /\ "login" \in CallKind
      /\ \A t \in Tab : ~Close(t) /\ \A k \in CallKind : ~ServeError(t, k) /\ ~Throw(t, k)
  BY UndisturbedBefore DEF CallKind
<1>2. ASSUME NEW t \in Tab, Open(t) \/ Close(t) \/ SignIn(t) \/ SignOut(t) \/ Work(t) \/ TimerFires(t)
      PROVE  Knows'
  BY <1>1, <1>2, TabsKnow, TabsNews, KnowsStays
<1>3. ASSUME NEW t \in Tab, ServeLogin(t) \/ ServeLogout(t) PROVE Knows'
  <2>1. NoNewUser
    BY <1>3 DEF ServeLogin, ServeLogout, NoNewUser
  <2>2. NoNewAnswer
    BY <1>1, <1>3, ServesNews
  <2> QED
    BY <1>1, <2>1, <2>2, KnowsStays
<1>4. CASE Tick
  BY <1>1, <1>4, KnowsStays DEF Tick, NoNewUser, NoNewAnswer
<1>5. ASSUME NEW t \in Tab, NEW k \in CallKind, ServeSession(t, k) PROVE Knows'
  BY <1>1, <1>5, ServedKnows DEF Undisturbed
<1>6. ASSUME NEW t \in Tab, NEW k \in CallKind, HearAnswer(t, k) PROVE Knows'
  BY <1>1, <1>6, HeardKnows
<1> QED
  BY <1>1, <1>2, <1>3, <1>4, <1>5, <1>6 DEF SessionNext, Serve, Answers

LEMMA FineBefore ==
  ASSUME LInv, SessionNext, Undisturbed', Fine'
  PROVE  Fine
<1>1. NothingLost' /\ (Ceil # 0 => Ceil' = Ceil)
  BY UndisturbedBefore DEF Undisturbed
<1>2. 1 \notin signedOut
  BY SignedOutStays DEF Fine
<1>3. Ceil = 0 \/ now < Ceil
  <2>1. now' \in {now, now + 1}
    BY DEF SessionNext, Open, Close, SignIn, SignOut, Work, TimerFires, Tick, Serve, ServeSession,
       ServeLogin, ServeLogout, Answers, HearAnswer, ServeError, Throw
  <2>2. now \in Nat /\ Ceil \in Nat
    BY CallsAre, FirstIs, Times DEF Ceil
  <2>3. Ceil' = 0 \/ now' < Ceil'
    BY DEF Fine
  <2> QED
    BY <1>1, <2>1, <2>2, <2>3
<1>4. ASSUME NEW t \in Tab, Busy(calls[t]["logout"]), calls[t]["logout"].handle = 1 PROVE FALSE
  <2>1. CASE HearAnswer(t, "logout")
    BY <1>4, <2>1, FirstIs, SignedOutStays DEF Fine
  <2>2. CASE ~HearAnswer(t, "logout")
    <3>1. calls'[t]["logout"].phase # "idle" /\ calls'[t]["logout"].handle = 1
      BY <1>1, <1>4, <2>2, LogoutStays DEF Busy
    <3> QED
      BY <3>1 DEF Fine, Busy
  <2> QED
    BY <2>1, <2>2
<1> QED
  BY <1>2, <1>3, <1>4 DEF Fine

(* The parts of Good that a step leaves alone.                             *)
LEMMA FitStays ==
  ASSUME NEW c, NEW k, Fit(c, k), now' = now, cookie.handle = 1 => cookie'.handle = 1,
         Ceil # 0 => Ceil' = Ceil /\ store'[1].seen \in {store[1].seen, now}
  PROVE  Fit(c, k)'
<1>1. c.phase = "answered" /\ c.ok => Ceil' = Ceil /\ store'[1].seen = now /\ Ceil # 0
  <2> SUFFICES ASSUME c.phase = "answered", c.ok PROVE Ceil' = Ceil /\ store'[1].seen = now /\ Ceil # 0
    BY Zenon
  <2>1. Ceil # 0 /\ store[1].seen = now
    BY Zenon DEF Fit
  <2> QED
    BY <2>1
<1> QED
  BY <1>1, Zenon DEF Fit

LEMMA StageStays ==
  ASSUME NEW t \in Tab, Stage(t), \A k \in CallKind : calls'[t][k] = calls[t][k], tabs'[t] = tabs[t],
         cookie.handle = 1 => cookie'.handle = 1
  PROVE  Stage(t)'
<1>1. {"boot", "load", "refresh", "login", "logout"} = CallKind
  BY DEF CallKind
<1> QED
  BY <1>1, Zenon DEF Stage, OnlyBusy, Busy

LEMMA KeepsStay ==
  ASSUME NEW t \in Tab, Keeps(t), \A k \in {"load", "refresh", "login"} : calls'[t][k] = calls[t][k], tabs'[t] = tabs[t],
         cookie' = cookie, now' = now, Ceil' = Ceil
  PROVE  Keeps(t)'
BY Zenon DEF Keeps, Busy

(* A step of one tab that leaves the store and the jar alone.              *)
LEMMA OneGood ==
  ASSUME LInv, Good, NEW t \in Tab, now' = now, cookie' = cookie, store' = store,
         \A u \in Tab : u # t => tabs'[u] = tabs[u] /\ \A k \in CallKind : calls'[u][k] = calls[u][k],
         Stage(t)', \A k \in CallKind : calls'[t][k] = calls[t][k] \/ Fit(calls[t][k], k)',
         Keeps(t) => Keeps(t)'
  PROVE  Good'
<1>1. Ceil' = Ceil
  BY DEF Ceil
<1>2. ASSUME NEW u \in Tab PROVE Stage(u)'
  BY <1>2, StageStays DEF Good
<1>3. ASSUME NEW u \in Tab, NEW k \in CallKind PROVE Fit(calls[u][k], k)'
  <2>1. CASE calls'[u][k] = calls[u][k]
    <3>1. Fit(calls[u][k], k)
      BY DEF Good
    <3>2. PICK c : c = calls[u][k]
      OBVIOUS
    <3>3. Fit(c, k)'
      BY <1>1, <3>1, <3>2, FitStays
    <3> QED
      BY <2>1, <3>2, <3>3, Zenon DEF Fit, Busy
  <2>2. CASE calls'[u][k] # calls[u][k]
    BY <2>2
  <2> QED
    BY <2>1, <2>2
<1>4. JarGood' /\ StoreGood'
  <2>1. JarGood'
    BY <1>1 DEF Good, JarGood
  <2>2. StoreGood'
    BY <1>1, Zenon DEF Good, StoreGood
  <2> QED
    BY <2>1, <2>2
<1>5. ASSUME NEW u \in Tab, Keeps(u) PROVE Keeps(u)'
  <2>1. {"load", "refresh", "login"} \subseteq CallKind
    BY DEF CallKind
  <2> QED
    BY <1>1, <1>5, <2>1, KeepsStay
<1>6. Ceil' # 0 => \E u \in Tab : Keeps(u)'
  BY <1>1, <1>5 DEF Good
<1> QED
  BY <1>2, <1>3, <1>4, <1>6, Zenon DEF Good

LEMMA SentOthers ==
  ASSUME LInv, NEW t \in Tab, NEW k \in CallKind, calls' = [calls EXCEPT ![t][k] = Sent]
  PROVE  /\ \A u \in Tab : u # t => \A j \in CallKind : calls'[u][j] = calls[u][j]
         /\ calls'[t][k].phase = "sent" /\ calls'[t][k].live /\ calls'[t][k].handle = BrowserHandle
         /\ \A j \in CallKind \ {k} : calls'[t][j] = calls[t][j]
<1>1. /\ calls'[t][k].phase = "sent" /\ calls'[t][k].live /\ calls'[t][k].handle = Jar
      /\ \A j \in CallKind \ {k} : calls'[t][j] = calls[t][j]
  BY SentNow
<1>2. \A u \in Tab : u # t => \A j \in CallKind : calls'[u][j] = calls[u][j]
  BY CallsAre
<1> QED
  BY <1>1, <1>2 DEF Jar

LEMMA SentFits ==
  ASSUME LInv, OnlyFirst, NEW c, NEW k, c.phase = "sent", c.handle = BrowserHandle, cookie' = cookie,
         k \in {"load", "refresh"} => BrowserHandle = 1
  PROVE  Fit(c, k)'
BY OnlyHandles DEF Fit, BrowserHandle, Busy

LEMMA GoodOpens ==
  ASSUME LInv, OnlyFirst, Good, NEW t \in Tab, Open(t)
  PROVE  Good'
<1>0. {"boot", "load", "refresh", "login", "logout"} = CallKind
  BY DEF CallKind
<1>1. /\ calls' = [calls EXCEPT ![t]["boot"] = Sent] /\ tabs' = [tabs EXCEPT ![t] = Shows("checking")]
      /\ now' = now /\ cookie' = cookie /\ store' = store /\ tabs[t].status = "closed"
      /\ \A k \in CallKind : ~Busy(calls[t][k])
  BY DEF Open, Busy, Free
<1>2. /\ \A u \in Tab : u # t => \A j \in CallKind : calls'[u][j] = calls[u][j]
      /\ calls'[t]["boot"].phase = "sent" /\ calls'[t]["boot"].live /\ calls'[t]["boot"].handle = BrowserHandle
      /\ \A j \in CallKind \ {"boot"} : calls'[t][j] = calls[t][j]
  BY <1>0, <1>1, SentOthers
<1>3. tabs'[t].status = "checking" /\ tabs'[t].timer = "none" /\ \A u \in Tab : u # t => tabs'[u] = tabs[u]
  BY <1>1, CallsAre, ShowsIs
<1>4. Busy(calls'[t]["boot"]) /\ \A k \in CallKind \ {"boot"} : ~Busy(calls'[t][k])
  BY <1>1, <1>2 DEF Busy
<1>5. Stage(t)'
  BY <1>0, <1>2, <1>3, <1>4, Zenon DEF Stage, OnlyBusy, Busy
<1>6. Fit(calls[t]["boot"], "boot")'
  <2>1. PICK c : c = calls'[t]["boot"]
    OBVIOUS
  <2>2. Fit(c, "boot")'
    BY <1>1, <1>2, <2>1, SentFits
  <2> QED
    BY <2>1, <2>2, Zenon DEF Fit, Busy
<1>7. \A k \in CallKind : calls'[t][k] = calls[t][k] \/ Fit(calls[t][k], k)'
  BY <1>0, <1>2, <1>6
<1>8. ~Keeps(t)
  <2>1. "login" \in CallKind /\ "load" \in CallKind
    BY <1>0
  <2> QED
    BY <1>1, <2>1 DEF Keeps, Busy
<1> QED
  BY <1>1, <1>2, <1>3, <1>5, <1>7, <1>8, OneGood

LEMMA GoodSignsIn ==
  ASSUME LInv, OnlyFirst, Good, BootIsFast, NEW t \in Tab, SignIn(t)
  PROVE  Good'
<1>0. {"boot", "load", "refresh", "login", "logout"} = CallKind
  BY DEF CallKind
<1>1. /\ calls' = [calls EXCEPT ![t]["login"] = Sent] /\ tabs' = tabs
      /\ now' = now /\ cookie' = cookie /\ store' = store
      /\ tabs[t].status \in {"checking", "anonymous", "expired"}
      /\ ~Busy(calls[t]["login"]) /\ ~Busy(calls[t]["load"]) /\ ~Busy(calls[t]["boot"])
  BY Zenon DEF SignIn, Busy, Free
<1>2. /\ \A u \in Tab : u # t => \A j \in CallKind : calls'[u][j] = calls[u][j]
      /\ calls'[t]["login"].phase = "sent" /\ calls'[t]["login"].live /\ calls'[t]["login"].handle = BrowserHandle
      /\ \A j \in CallKind \ {"login"} : calls'[t][j] = calls[t][j]
  BY <1>0, <1>1, SentOthers
<1>3. Stage(t) /\ tabs[t].status = "anonymous"
  <2>1. Stage(t)
    BY DEF Good
  <2> QED
    BY <1>1, <2>1, Zenon DEF Stage
<1>4. \A k \in CallKind : ~Busy(calls[t][k])
  BY <1>0, <1>1, <1>3, Zenon DEF Stage, OnlyBusy
<1>5. /\ \A k \in CallKind \ {"login"} : ~Busy(calls'[t][k])
      /\ \A k \in CallKind : Busy(calls'[t][k]) => calls'[t][k].live
  BY <1>0, <1>2, <1>4, Zenon DEF Busy
<1>6. Stage(t)'
  BY <1>0, <1>1, <1>3, <1>5, Zenon DEF Stage, OnlyBusy
<1>7. Fit(calls[t]["login"], "login")'
  <2>1. PICK c : c = calls'[t]["login"]
    OBVIOUS
  <2>2. Fit(c, "login")'
    BY <1>1, <1>2, <2>1, SentFits
  <2> QED
    BY <2>1, <2>2, Zenon DEF Fit, Busy
<1>8. \A k \in CallKind : calls'[t][k] = calls[t][k] \/ Fit(calls[t][k], k)'
  BY <1>0, <1>2, <1>7
<1>9. ~Keeps(t)
  <2>1. "login" \in CallKind /\ "load" \in CallKind
    BY <1>0
  <2> QED
    BY <1>3, <1>4, <2>1 DEF Keeps, Busy
<1> QED
  BY <1>1, <1>2, <1>6, <1>8, <1>9, OneGood

(* A tab that is signed in has a cookie to send.                           *)
LEMMA UserHasCookie ==
  ASSUME LInv, Good, NEW t \in Tab, tabs[t].status = "authenticated"
  PROVE  BrowserHandle = 1 /\ cookie.handle = 1 /\ Ceil # 0
<1>1. cookie.handle = 1
  BY Zenon DEF Good, Stage
<1>2. now < cookie.until /\ Ceil # 0
  BY <1>1 DEF Good, JarGood
<1>3. cookie.until \in Nat /\ now \in Nat
  BY CallsAre, Times
<1> QED
  BY <1>1, <1>2, <1>3 DEF BrowserHandle

(* The session in the jar is found, and its window slides.                 *)
LEMMA TouchGood ==
  ASSUME LInv, Good, Fine, cookie.handle = 1, store' = Touched(1)
  PROVE  Touches(1) /\ store'[1].open /\ store'[1].seen = now /\ store'[1].ceiling = Ceil /\ Ceil # 0
<1>1. Ceil # 0 /\ now < Ceil /\ store[1].seen <= now /\ now < store[1].seen + IdleTtl
  BY DEF Good, JarGood, StoreGood, Fine
<1>2. store[1].open
  BY <1>1, Zenon DEF Good, StoreGood
<1>3. /\ store \in [Handle -> [open : BOOLEAN, seen : Time, ceiling : Time]] /\ now \in Nat
      /\ IdleTtl \in Nat /\ store[1].seen \in Nat
  BY CallsAre, Times, FirstIs
<1>4. now - store[1].seen < IdleTtl
  BY <1>1, <1>3
<1>5. Touches(1)
  <2>1. 1 # 0 /\ now < store[1].ceiling
    BY <1>1 DEF Ceil
  <2> QED
    BY <1>2, <1>4, <2>1, Zenon DEF Touches
<1>6. store' = [store EXCEPT ![1].seen = now]
  BY <1>5 DEF Touched
<1>7. store'[1].open = store[1].open /\ store'[1].seen = now /\ store'[1].ceiling = store[1].ceiling
  BY <1>3, <1>6, FirstIs
<1> QED
  BY <1>1, <1>2, <1>5, <1>7, Zenon DEF Ceil

LEMMA GoodWorks ==
  ASSUME LInv, OnlyFirst, Good, Fine, NEW t \in Tab, Work(t)
  PROVE  Good'
<1>1. /\ calls' = calls /\ tabs' = tabs /\ now' = now /\ cookie' = cookie /\ store' = Touched(BrowserHandle)
      /\ tabs[t].status = "authenticated"
  BY DEF Work
<1>2. BrowserHandle = 1 /\ cookie.handle = 1 /\ Ceil # 0
  BY <1>1, UserHasCookie
<1>3. store'[1].open /\ store'[1].seen = now /\ store'[1].ceiling = Ceil
  BY <1>1, <1>2, TouchGood
<1>4. Ceil' = Ceil
  BY <1>3 DEF Ceil
<1>5. ASSUME NEW u \in Tab PROVE Stage(u)'
  BY <1>1, <1>5, StageStays DEF Good
<1>6. ASSUME NEW u \in Tab, NEW k \in CallKind PROVE Fit(calls[u][k], k)'
  <2>1. PICK c : c = calls[u][k]
    OBVIOUS
  <2>2. Fit(c, k)
    BY <2>1 DEF Good
  <2>3. Fit(c, k)'
    BY <1>1, <1>3, <1>4, <2>2, FitStays
  <2> QED
    BY <1>1, <2>1, <2>3, Zenon DEF Fit, Busy
<1>7. /\ now \in Nat /\ IdleTtl \in Nat \ {0} /\ now < cookie.until /\ cookie.until <= now + IdleTtl
  BY <1>2, CallsAre, SessionNumbers DEF Good, JarGood
<1>8. JarGood'
  BY <1>1, <1>2, <1>3, <1>4, <1>7 DEF JarGood
<1>9. StoreGood'
  <2>1. store'[1].seen <= now' /\ now' < store'[1].seen + IdleTtl
    BY <1>1, <1>3, <1>7
  <2> QED
    BY <1>3, <2>1, Zenon DEF StoreGood
<1>10. \E u \in Tab : Keeps(u)'
  BY <1>1, <1>2, <1>4, KeepsStay DEF Good
<1> QED
  BY <1>5, <1>6, <1>8, <1>9, <1>10, Zenon DEF Good

LEMMA GoodTimer ==
  ASSUME LInv, OnlyFirst, Good, Fine, Knows, NEW t \in Tab, TimerFires(t)
  PROVE  Good'
<1>0. {"boot", "load", "refresh", "login", "logout"} = CallKind /\ tabs[t] \in TabState
  BY CallsAre DEF CallKind
<1>1. /\ now' = now /\ cookie' = cookie /\ store' = store /\ tabs[t].at <= now
  BY DEF TimerFires
<1>2. CASE tabs[t].timer = "refresh" /\ Free(t, "refresh") /\ tabs' = [tabs EXCEPT ![t].timer = "none"]
           /\ calls' = [calls EXCEPT ![t]["refresh"] = Sent] /\ tabs[t].status = "authenticated"
  <2>1. /\ \A u \in Tab : u # t => \A j \in CallKind : calls'[u][j] = calls[u][j]
        /\ calls'[t]["refresh"].phase = "sent" /\ calls'[t]["refresh"].live /\ calls'[t]["refresh"].handle = BrowserHandle
        /\ \A j \in CallKind \ {"refresh"} : calls'[t][j] = calls[t][j]
    BY <1>0, <1>2, SentOthers
  <2>2. tabs'[t].status = "authenticated" /\ \A u \in Tab : u # t => tabs'[u] = tabs[u]
    BY <1>0, <1>2, CallsAre DEF TabState
  <2>3. BrowserHandle = 1 /\ cookie.handle = 1 /\ Ceil # 0
    BY <1>2, UserHasCookie
  <2>4. OnlyBusy(t, {"refresh"}) /\ Busy(calls'[t]["refresh"])
    BY <1>2, <2>1, Zenon DEF Good, Stage, Busy
  <2>5. Stage(t)'
    BY <1>0, <1>1, <2>1, <2>2, <2>3, <2>4, Zenon DEF Stage, OnlyBusy
  <2>6. Fit(calls[t]["refresh"], "refresh")'
    <3>1. PICK c : c = calls'[t]["refresh"]
      OBVIOUS
    <3>2. Fit(c, "refresh")'
      BY <1>1, <2>1, <2>3, <3>1, SentFits
    <3> QED
      BY <3>1, <3>2, Zenon DEF Fit, Busy
  <2>7. \A k \in CallKind : calls'[t][k] = calls[t][k] \/ Fit(calls[t][k], k)'
    BY <1>0, <2>1, <2>6
  <2>8. Keeps(t)'
    BY <2>2, <2>4 DEF Keeps
  <2> QED
    BY <1>1, <2>1, <2>2, <2>5, <2>7, <2>8, OneGood
<1>3. tabs[t].status = "authenticated"
  <2>1. tabs[t].timer # "none" /\ Stage(t)
    BY DEF Good, TimerFires
  <2> QED
    BY <2>1, Zenon DEF Stage
<1>4. CASE tabs[t].timer = "ceiling"
  <2>1. tabs[t].at = Ceil /\ Ceil # 0
    BY <1>3, <1>4 DEF Knows
  <2>2. now \in Nat /\ tabs[t].at \in Nat
    BY <1>0, CallsAre DEF TabState
  <2> QED
    BY <1>1, <2>1, <2>2 DEF Fine
<1> QED
  BY <1>2, <1>3, <1>4 DEF TimerFires

LEMMA GoodTicks ==
  ASSUME LInv, OnlyFirst, Good, Fine', Knows, Tick
  PROVE  Good'
<1>0. {"boot", "load", "refresh", "login", "logout"} = CallKind /\ SessionCall \subseteq CallKind
  BY CallsAre DEF CallKind
<1>1. /\ calls' = calls /\ tabs' = tabs /\ now' = now + 1 /\ cookie' = cookie /\ store' = store
      /\ \A u \in Tab, k \in CallKind : ~Busy(calls[u][k]) /\ calls[u][k].phase # "answered"
      /\ \A u \in Tab : tabs[u].timer # "none" => tabs[u].at > now
  BY DEF Tick, Free, Busy
<1>2. Ceil' = Ceil
  BY <1>1 DEF Ceil
<1>3. ASSUME NEW u \in Tab PROVE Stage(u)'
  BY <1>1, <1>3, StageStays DEF Good
<1>4. ASSUME NEW u \in Tab, NEW k \in CallKind PROVE Fit(calls[u][k], k)'
  BY <1>1 DEF Fit, Busy
<1>5. now \in Nat /\ cookie.until \in Nat /\ Ceil \in Nat /\ store[1].seen \in Nat /\ IdleTtl \in Nat
  BY CallsAre, Times, FirstIs DEF Ceil
<1>6. ASSUME Ceil # 0, NEW u \in Tab, Keeps(u)
      PROVE  Keeps(u)' /\ cookie.handle = 1 /\ now + 1 < cookie.until
  <2>1. tabs[u] \in TabState /\ Stage(u)
    BY CallsAre DEF Good
  <2>2. tabs[u].status = "authenticated" /\ cookie.handle = 1
    BY <1>0, <1>1, <1>6, <2>1, Zenon DEF Keeps, Stage
  <2>3. \/ tabs[u].timer = "refresh" /\ tabs[u].at < cookie.until
        \/ tabs[u].timer = "ceiling" /\ Ceil <= cookie.until
    BY <1>0, <1>1, <1>6, Zenon DEF Keeps
  <2>4. Keeps(u)'
    BY <1>1, <1>2, <2>2, <2>3 DEF Keeps
  <2>5. tabs[u].at > now /\ tabs[u].at \in Nat
    BY <1>1, <2>1, <2>3 DEF TabState
  <2>6. now + 1 < Ceil
    BY <1>1, <1>2, <1>6 DEF Fine
  <2> QED
    BY <1>5, <2>2, <2>3, <2>4, <2>5, <2>6
<1>7. Ceil # 0 => cookie.handle = 1 /\ now + 1 < cookie.until /\ \E u \in Tab : Keeps(u)'
  BY <1>6 DEF Good
<1>8. JarGood'
  BY <1>1, <1>2, <1>5, <1>7 DEF Good, JarGood
<1>9. StoreGood'
  <2>1. SUFFICES ASSUME Ceil # 0 PROVE store[1].open /\ store[1].seen <= now + 1 /\ now + 1 < store[1].seen + IdleTtl
    BY <1>1, <1>2, Zenon DEF StoreGood
  <2>2. store[1].open
    BY <2>1, Zenon DEF Good, StoreGood
  <2>3. store[1].seen <= now /\ cookie.until <= store[1].seen + IdleTtl /\ now + 1 < cookie.until
    BY <1>7, <2>1 DEF Good, StoreGood, JarGood
  <2>4. store[1].seen <= now + 1 /\ now + 1 < store[1].seen + IdleTtl
    BY <1>5, <2>3
  <2> QED
    BY <2>2, <2>4
<1> QED
  BY <1>2, <1>3, <1>4, <1>7, <1>8, <1>9, Zenon DEF Good

(* A step that keeps each call of a tab busy, or idle, keeps its stage.    *)
LEMMA StageSame ==
  ASSUME NEW t \in Tab, Stage(t), tabs'[t] = tabs[t], cookie.handle = 1 => cookie'.handle = 1,
         \A k \in CallKind : (Busy(calls'[t][k]) <=> Busy(calls[t][k])) /\ calls'[t][k].live = calls[t][k].live
  PROVE  Stage(t)'
<1>1. {"boot", "load", "refresh", "login", "logout"} = CallKind
  BY DEF CallKind
<1>2. \A k \in CallKind : Busy(calls'[t][k]) => calls'[t][k].live
  <2>1. \A k \in CallKind : Busy(calls[t][k]) => calls[t][k].live
    BY Zenon DEF Stage
  <2> TAKE k \in CallKind
  <2>2. calls'[t][k].live <=> calls[t][k].live
    OBVIOUS
  <2> QED
    BY <2>1, <2>2, Zenon
<1> QED
  BY <1>1, <1>2, Zenon DEF Stage, OnlyBusy

LEMMA ServedFits ==
  ASSUME LInv, OnlyFirst, Good, Fine, NEW t \in Tab, NEW k \in CallKind, ServeSession(t, k)
  PROVE  /\ Fit(calls[t][k], k)'
         /\ \E ok, v, set : Answered(t, k, ok, v, set)
         /\ store' = store \/ /\ store'[1].open /\ store'[1].seen = now /\ store'[1].ceiling = Ceil /\ Ceil # 0
<1>1. PICK h : h = calls[t][k].handle
  OBVIOUS
<1>2. /\ now' = now /\ cookie' = cookie /\ store' = Touched(h) /\ calls[t][k].phase = "sent"
      /\ k \in {"boot", "load", "refresh"} /\ Busy(calls[t][k]) /\ Fit(calls[t][k], k) /\ h \in {0, 1}
  BY <1>1, OnlyHandles DEF ServeSession, Busy, Good
<1>3. CASE h = 1
  <2>1. cookie.handle = 1
    BY <1>1, <1>2, <1>3, Zenon DEF Fit
  <2>2. Touches(1) /\ store'[1].open /\ store'[1].seen = now /\ store'[1].ceiling = Ceil /\ Ceil # 0
    BY <1>2, <1>3, <2>1, TouchGood
  <2>3. Answered(t, k, TRUE, ViewOf(1), IF k = "refresh" THEN Issue(1) ELSE Keep)
    BY <1>1, <1>3, <2>2, Zenon DEF ServeSession
  <2>4. PICK ok, v, set : Answered(t, k, ok, v, set) /\ v = ViewOf(1) /\ ok /\ set = IF k = "refresh" THEN Issue(1) ELSE Keep
    BY <2>3, Zenon
  <2>5. /\ calls'[t][k].phase = "answered" /\ calls'[t][k].view = ViewOf(1) /\ calls'[t][k].set = set
        /\ calls'[t][k].handle = 1 /\ calls'[t][k].ok = ok
    <3>1. Answered(t, k, ok, v, set)
      BY <2>4, Zenon
    <3>2. /\ calls'[t][k].phase = "answered" /\ calls'[t][k].ok = ok
          /\ calls'[t][k].view = v /\ calls'[t][k].set = set
          /\ calls'[t][k].handle = calls[t][k].handle
      BY <3>1, AnsweredIs
    <3> QED
      BY <1>1, <1>3, <2>4, <3>2, Zenon
  <2>6. calls'[t][k].ok
    BY <2>4, <2>5, Zenon
  <2>7. /\ calls'[t][k].view.ceiling = Ceil /\ calls'[t][k].view.idle = Minimum(now + IdleTtl, Ceil)
        /\ Ceil' = Ceil
    BY <2>2, <2>5 DEF ViewOf, Ceil
  <2>8. /\ k \in {"boot", "load"} => calls'[t][k].set = Keep
        /\ k = "refresh" => calls'[t][k].set = Issue(1)
        /\ k # "login"
    BY <1>2, <2>4, <2>5
  <2>9. Fit(calls[t][k], k)'
    <3>1. cookie'.handle = 1 /\ Ceil' # 0 /\ store'[1].seen = now'
      BY <1>2, <2>1, <2>2, <2>7
    <3>2. calls'[t][k].view.ceiling = Ceil' /\ calls'[t][k].view.idle = Minimum(now' + IdleTtl, Ceil')
      BY <1>2, <2>7
    <3> QED
      BY <2>5, <2>6, <2>8, <3>1, <3>2, Zenon DEF Fit
  <2> QED
    BY <2>2, <2>4, <2>9, Zenon
<1>4. CASE h = 0
  <2>1. k = "boot"
    <3>1. h # 1
      BY <1>4
    <3> QED
      BY <1>1, <1>2, <3>1, Zenon DEF Fit
  <2>2. ~Touches(0) /\ store' = store
    BY <1>2, <1>4 DEF Touches, Touched
  <2>3. Answered(t, k, FALSE, NoView, IF k = "refresh" THEN Clear ELSE Keep)
    BY <1>1, <1>4, <2>2, Zenon DEF ServeSession
  <2>4. PICK ok, v, set : Answered(t, k, ok, v, set) /\ v = NoView /\ ~ok /\ set = IF k = "refresh" THEN Clear ELSE Keep
    BY <2>3, Zenon
  <2>5. /\ calls'[t][k].phase = "answered" /\ calls'[t][k].set = set
        /\ calls'[t][k].handle = 0 /\ calls'[t][k].ok = ok
    <3>1. Answered(t, k, ok, v, set)
      BY <2>4, Zenon
    <3>2. /\ calls'[t][k].phase = "answered" /\ calls'[t][k].ok = ok
          /\ calls'[t][k].view = v /\ calls'[t][k].set = set
          /\ calls'[t][k].handle = calls[t][k].handle
      BY <3>1, AnsweredIs
    <3> QED
      BY <1>1, <1>4, <2>4, <3>2, Zenon
  <2>6. ~calls'[t][k].ok
    BY <2>4, <2>5, Zenon
  <2>7. calls'[t][k].set = Keep /\ k \notin {"load", "refresh", "login"} /\ calls'[t][k].handle # 1
    BY <2>1, <2>4, <2>5
  <2>8. Fit(calls[t][k], k)'
    BY <2>5, <2>6, <2>7, Zenon DEF Fit
  <2> QED
    BY <2>2, <2>4, <2>8, Zenon
<1> QED
  BY <1>2, <1>3, <1>4

LEMMA GoodServed ==
  ASSUME LInv, OnlyFirst, Good, Fine, NEW t \in Tab, NEW k \in CallKind, ServeSession(t, k)
  PROVE  Good'
<1>1. /\ now' = now /\ cookie' = cookie /\ tabs' = tabs /\ calls[t][k].phase = "sent"
      /\ k \in {"boot", "load", "refresh"}
  BY DEF ServeSession
<1>2. Fit(calls[t][k], k)'
  BY ServedFits
<1>3. store' = store \/ /\ store'[1].open /\ store'[1].seen = now /\ store'[1].ceiling = Ceil /\ Ceil # 0
  BY ServedFits
<1>4. PICK ok, v, set : Answered(t, k, ok, v, set)
  BY ServedFits
<1>5. \A u \in Tab, j \in CallKind : u # t \/ j # k => calls'[u][j] = calls[u][j]
  BY <1>4, AnsweredIs
<1>6. \A j \in CallKind : (Busy(calls'[t][j]) <=> Busy(calls[t][j])) /\ calls'[t][j].live = calls[t][j].live
  BY <1>1, <1>4, AnsweredSlots
<1>7. Ceil' = Ceil /\ store'[1].seen \in {store[1].seen, now}
  BY <1>3 DEF Ceil
<1>8. ASSUME NEW u \in Tab PROVE Stage(u)'
  <2>1. CASE u = t
    BY <1>1, <1>6, <2>1, StageSame DEF Good
  <2>2. CASE u # t
    BY <1>1, <1>5, <2>2, StageStays DEF Good
  <2> QED
    BY <2>1, <2>2
<1>9. ASSUME NEW u \in Tab, NEW j \in CallKind PROVE Fit(calls[u][j], j)'
  <2>1. CASE u = t /\ j = k
    BY <1>2, <2>1
  <2>2. CASE u # t \/ j # k
    <3>1. PICK c : c = calls[u][j]
      OBVIOUS
    <3>2. Fit(c, j)
      BY <3>1 DEF Good
    <3>3. Fit(c, j)'
      BY <1>1, <1>7, <3>2, FitStays
    <3>4. calls'[u][j] = c
      BY <1>5, <2>2, <3>1
    <3> QED
      BY <3>3, <3>4, Zenon DEF Fit, Busy
  <2> QED
    BY <2>1, <2>2
<1>10. ASSUME NEW u \in Tab, Keeps(u) PROVE Keeps(u)'
  <2>1. {"load", "refresh", "login"} \subseteq CallKind /\ k # "login"
    BY <1>1 DEF CallKind
  <2>2. CASE u = t
    <3>1. calls'[t]["login"] = calls[t]["login"]
      BY <1>5, <2>1
    <3>2. (Busy(calls'[t]["load"]) <=> Busy(calls[t]["load"])) /\ (Busy(calls'[t]["refresh"]) <=> Busy(calls[t]["refresh"]))
      BY <1>6, <2>1
    <3> QED
      BY <1>1, <1>7, <1>10, <2>2, <3>1, <3>2, Zenon DEF Keeps
  <2>3. CASE u # t
    BY <1>1, <1>5, <1>7, <1>10, <2>1, <2>3, KeepsStay
  <2> QED
    BY <2>2, <2>3
<1>11. now \in Nat /\ IdleTtl \in Nat \ {0}
  BY CallsAre, SessionNumbers
<1>12. JarGood'
  BY <1>1, <1>3, <1>7, <1>11 DEF Good, JarGood
<1>13. StoreGood'
  <2>1. CASE store' = store
    BY <1>1, <1>7, <2>1, Zenon DEF Good, StoreGood
  <2>2. CASE store'[1].open /\ store'[1].seen = now
    <3>1. store'[1].seen <= now' /\ now' < store'[1].seen + IdleTtl
      BY <1>1, <1>11, <2>2
    <3> QED
      BY <2>2, <3>1, Zenon DEF StoreGood
  <2> QED
    BY <1>3, <2>1, <2>2
<1>14. Ceil' # 0 => \E u \in Tab : Keeps(u)'
  BY <1>7, <1>10 DEF Good
<1> QED
  BY <1>8, <1>9, <1>12, <1>13, <1>14, Zenon DEF Good

(* Before the first login there is nobody to sign out, or to refresh.      *)
LEMMA NobodyYet ==
  ASSUME LInv, Good, Ceil = 0
  PROVE  /\ cookie.handle # 1
         /\ \A u \in Tab : ~Keeps(u) /\ tabs[u].status # "authenticated"
<1>0. {"boot", "load", "refresh", "login", "logout"} = CallKind
  BY DEF CallKind
<1>1. cookie.handle # 1
  BY DEF Good, JarGood
<1>2. ASSUME NEW u \in Tab PROVE ~Keeps(u) /\ tabs[u].status # "authenticated"
  <2>1. tabs[u].status # "authenticated"
    BY <1>1, Zenon DEF Good, Stage
  <2>2. Fit(calls[u]["load"], "load") /\ Fit(calls[u]["login"], "login")
    BY <1>0 DEF Good
  <2>3. ~Busy(calls[u]["load"])
    BY <1>1, <2>2, Zenon DEF Fit
  <2>4. ~(calls[u]["login"].phase = "answered" /\ calls[u]["login"].ok)
    BY <2>2, Zenon DEF Fit
  <2> QED
    BY <2>1, <2>3, <2>4, Zenon DEF Keeps
<1> QED
  BY <1>1, <1>2

LEMMA LoginFits ==
  ASSUME LInv, Good, NEW t \in Tab, NEW ok, NEW v, NEW set, Answered(t, "login", ok, v, set),
         now' = now, cookie' = cookie, tabs' = tabs, calls[t]["login"].phase = "sent",
         ok => set = Issue(1) /\ Ceil' # 0 /\ store'[1].seen = now, ~ok => set = Keep,
         Ceil # 0 => Ceil' = Ceil /\ store'[1].seen = store[1].seen
  PROVE  /\ \A u \in Tab : Stage(u)' /\ \A j \in CallKind : Fit(calls[u][j], j)'
         /\ ok => calls'[t]["login"].phase = "answered" /\ calls'[t]["login"].ok
         /\ Ceil' = Ceil => \A u \in Tab : Keeps(u) => Keeps(u)'
<1>0. "login" \in CallKind /\ {"load", "refresh", "login"} \subseteq CallKind
  BY DEF CallKind
<1>1. \A u \in Tab, j \in CallKind : u # t \/ j # "login" => calls'[u][j] = calls[u][j]
  BY <1>0, AnsweredIs
<1>2. \A j \in CallKind : (Busy(calls'[t][j]) <=> Busy(calls[t][j])) /\ calls'[t][j].live = calls[t][j].live
  BY <1>0, AnsweredSlots
<1>3. /\ calls'[t]["login"].phase = "answered" /\ calls'[t]["login"].ok = ok
      /\ calls'[t]["login"].set = set /\ calls'[t]["login"].handle = calls[t]["login"].handle
  BY <1>0, AnsweredIs
<1>4. calls'[t]["login"].ok <=> ok
  BY <1>3, Zenon
<1>5. ASSUME NEW u \in Tab PROVE Stage(u)'
  <2>1. CASE u = t
    BY <1>2, <2>1, StageSame DEF Good
  <2>2. CASE u # t
    BY <1>1, <2>2, StageStays DEF Good
  <2> QED
    BY <2>1, <2>2
<1>6. ASSUME NEW u \in Tab, NEW j \in CallKind PROVE Fit(calls[u][j], j)'
  <2>0. PICK c : c = calls[u][j]
    OBVIOUS
  <2>1. CASE u = t /\ j = "login"
    <3>1. c.handle = 1 => cookie'.handle = 1
      <4>1. Fit(c, j) /\ Busy(c)
        BY <2>0, <2>1 DEF Good, Busy
      <4>2. c.handle = 1 => cookie.handle = 1
        BY <4>1, Zenon DEF Fit
      <4> QED
        BY <4>2
    <3>2. calls'[t]["login"].ok => calls'[t]["login"].set = Issue(1) /\ Ceil' # 0 /\ store'[1].seen = now'
      BY <1>3, <1>4, Zenon
    <3>3. ~calls'[t]["login"].ok => calls'[t]["login"].set = Keep
      BY <1>3, <1>4, Zenon
    <3>4. calls'[t]["login"].handle = 1 => cookie'.handle = 1
      BY <1>3, <2>0, <2>1, <3>1
    <3>5. "login" \notin SessionCall /\ "login" \notin {"load", "refresh"} /\ "login" \notin {"boot", "load"} /\ "login" # "refresh"
      BY DEF SessionCall
    <3>6. Fit(calls[t]["login"], "login")'
      BY <1>3, <3>2, <3>3, <3>4, <3>5, Zenon DEF Fit
    <3> QED
      BY <2>1, <3>6
  <2>2. CASE u # t \/ j # "login"
    <3>1. Fit(c, j)
      BY <2>0 DEF Good
    <3>2. Fit(c, j)'
      BY <3>1, FitStays
    <3>3. calls'[u][j] = c
      BY <1>1, <2>0, <2>2
    <3> QED
      BY <3>2, <3>3, Zenon DEF Fit, Busy
  <2> QED
    BY <2>1, <2>2
<1>7. ASSUME Ceil' = Ceil, NEW u \in Tab, Keeps(u) PROVE Keeps(u)'
  <2>1. CASE u = t
    <3>1. \/ Busy(calls[t]["load"]) /\ cookie.until = now + IdleTtl
          \/ /\ tabs[t].status = "authenticated"
             /\ \/ tabs[t].timer = "refresh" /\ tabs[t].at < cookie.until
                \/ tabs[t].timer = "ceiling" /\ Ceil <= cookie.until
                \/ Busy(calls[t]["refresh"])
      <4>1. calls[t]["login"].phase # "answered"
        OBVIOUS
      <4> QED
        BY <1>7, <2>1, <4>1, Zenon DEF Keeps
    <3>2. (Busy(calls'[t]["load"]) <=> Busy(calls[t]["load"])) /\ (Busy(calls'[t]["refresh"]) <=> Busy(calls[t]["refresh"]))
      BY <1>0, <1>2
    <3> QED
      BY <1>7, <2>1, <3>1, <3>2, Zenon DEF Keeps
  <2>2. CASE u # t
    BY <1>0, <1>1, <1>7, <2>2, KeepsStay
  <2> QED
    BY <2>1, <2>2
<1>8. ok => calls'[t]["login"].phase = "answered" /\ calls'[t]["login"].ok
  BY <1>3, <1>4, Zenon
<1> QED
  BY <1>5, <1>6, <1>7, <1>8, Zenon

LEMMA GoodLogsIn ==
  ASSUME LInv, OnlyFirst, OnlyFirst', Good, NEW t \in Tab, ServeLogin(t)
  PROVE  Good'
<1>1. now' = now /\ cookie' = cookie /\ tabs' = tabs /\ calls[t]["login"].phase = "sent"
  BY DEF ServeLogin
<1>2. ASSUME NEW h \in Handle, store[h].ceiling = 0,
             store' = [store EXCEPT ![h] = [open |-> TRUE, seen |-> now, ceiling |-> now + AbsoluteTtl]],
             Answered(t, "login", TRUE, NoView, Issue(h))
      PROVE  Good'
  <2>1. /\ store \in [Handle -> [open : BOOLEAN, seen : Time, ceiling : Time]] /\ now \in Nat
        /\ AbsoluteTtl \in Nat \ {0} /\ IdleTtl \in Nat \ {0}
    BY CallsAre, SessionNumbers
  <2>2. store'[h] = [open |-> TRUE, seen |-> now, ceiling |-> now + AbsoluteTtl]
    BY <1>2, <2>1
  <2>3. h = 1
    BY <2>1, <2>2 DEF OnlyFirst
  <2>4. Ceil = 0 /\ Ceil' = now + AbsoluteTtl /\ Ceil' # 0 /\ store'[1].seen = now /\ store'[1].open
    BY <1>2, <2>1, <2>2, <2>3 DEF Ceil
  <2>5. PICK ok, v, set : Answered(t, "login", ok, v, set) /\ ok /\ set = Issue(1)
    BY <1>2, <2>3, Zenon
  <2>6. Answered(t, "login", ok, v, set) /\ (ok => set = Issue(1) /\ Ceil' # 0 /\ store'[1].seen = now) /\ (~ok => set = Keep)
    BY <2>4, <2>5, Zenon
  <2>7. /\ \A u \in Tab : Stage(u)' /\ \A j \in CallKind : Fit(calls[u][j], j)'
        /\ ok => calls'[t]["login"].phase = "answered" /\ calls'[t]["login"].ok
    BY <1>1, <2>4, <2>6, LoginFits
  <2>8. Keeps(t)'
    BY <2>5, <2>7, Zenon DEF Keeps
  <2>9. JarGood'
    BY <1>1, <2>4, NobodyYet DEF JarGood
  <2>10. StoreGood'
    <3>1. store'[1].seen <= now' /\ now' < store'[1].seen + IdleTtl
      BY <1>1, <2>1, <2>4
    <3> QED
      BY <2>4, <3>1, Zenon DEF StoreGood
  <2> QED
    BY <2>7, <2>8, <2>9, <2>10, Zenon DEF Good
<1>3. ASSUME Answered(t, "login", FALSE, NoView, Keep), store' = store PROVE Good'
  <2>1. PICK ok, v, set : Answered(t, "login", ok, v, set) /\ ~ok /\ set = Keep
    BY <1>3, Zenon
  <2>2. Answered(t, "login", ok, v, set) /\ (ok => set = Issue(1) /\ Ceil' # 0 /\ store'[1].seen = now) /\ (~ok => set = Keep)
    BY <2>1, Zenon
  <2>3. Ceil' = Ceil /\ store'[1].seen = store[1].seen
    BY <1>3 DEF Ceil
  <2>4. /\ \A u \in Tab : Stage(u)' /\ \A j \in CallKind : Fit(calls[u][j], j)'
        /\ \A u \in Tab : Keeps(u) => Keeps(u)'
    BY <1>1, <2>2, <2>3, LoginFits
  <2>5. JarGood' /\ StoreGood'
    <3>1. JarGood'
      BY <1>1, <1>3, <2>3 DEF Good, JarGood
    <3>2. StoreGood'
      BY <1>1, <1>3, <2>3, Zenon DEF Good, StoreGood
    <3> QED
      BY <3>1, <3>2
  <2>6. Ceil' # 0 => \E u \in Tab : Keeps(u)'
    BY <2>3, <2>4 DEF Good
  <2> QED
    BY <2>4, <2>5, <2>6, Zenon DEF Good
<1> QED
  BY <1>2, <1>3 DEF ServeLogin

(* Nobody signs out of a session that goes on.                             *)
LEMMA NoSignOutYet ==
  ASSUME LInv, OnlyFirst, Good, Fine', SessionNext, NEW t \in Tab
  PROVE  ~SignOut(t) /\ ~Busy(calls[t]["logout"])
<1>0. {"boot", "load", "refresh", "login", "logout"} = CallKind
  BY DEF CallKind
<1>1. ~Busy(calls[t]["logout"])
  BY <1>0, Zenon DEF Good, Stage, OnlyBusy
<1>2. ASSUME SignOut(t) PROVE FALSE
  <2>1. BrowserHandle = 1
    BY <1>2, UserHasCookie DEF SignOut
  <2>2. calls' = [calls EXCEPT ![t]["logout"] = Sent]
    BY <1>2 DEF SignOut
  <2>3. calls'[t]["logout"].phase = "sent" /\ calls'[t]["logout"].handle = 1
    BY <1>0, <2>1, <2>2, SentOthers
  <2> QED
    BY <2>3 DEF Fine, Busy
<1> QED
  BY <1>1, <1>2

(* An answer that ends the only call a tab has in flight.                  *)
LEMMA HeardQuiet ==
  ASSUME LInv, NEW t \in Tab, NEW k \in CallKind, HearAnswer(t, k), calls[t][k].live, k # "login", OnlyBusy(t, {k})
  PROVE  \A j \in CallKind : ~Busy(calls'[t][j]) /\ Fit(calls[t][j], j)'
<1>0. "refresh" \in CallKind /\ Idle.phase = "idle"
  BY SentFields DEF CallKind
<1>1. /\ calls'[t][k] = Idle
      /\ k # "refresh" => Like(calls'[t]["refresh"], calls[t]["refresh"])
      /\ \A j \in CallKind \ {k, "refresh"} : calls'[t][j] = calls[t][j]
  BY HeardIs
<1>2. ASSUME NEW j \in CallKind PROVE calls'[t][j].phase = "idle"
  <2>1. CASE j = k
    BY <1>0, <1>1, <2>1
  <2>2. CASE j # k /\ j = "refresh"
    <3>1. calls[t]["refresh"].phase = "idle"
      BY <2>2 DEF OnlyBusy, Busy
    <3>2. calls'[t]["refresh"].phase = calls[t]["refresh"].phase
      BY <1>1, <2>2, Zenon DEF Like
    <3> QED
      BY <2>2, <3>1, <3>2
  <2>3. CASE j # k /\ j # "refresh"
    BY <1>1, <2>3 DEF OnlyBusy, Busy
  <2> QED
    BY <2>1, <2>2, <2>3
<1> QED
  BY <1>2 DEF Fit, Busy

(* The session a tab is shown is planned for: it is refreshed before the   *)
(* cookie of that answer runs out, or has no window left to refresh.       *)
LEMMA PlanKeeps ==
  ASSUME LInv, Warning <= IdleTtl, MinDelay < IdleTtl, Ceil # 0, now < Ceil,
         NEW t \in Tab, NEW k \in SessionCall, HearAnswer(t, k), calls[t][k].live, calls[t][k].ok,
         calls[t][k].view.ceiling = Ceil, calls[t][k].view.idle = Minimum(now + IdleTtl, Ceil)
  PROVE  /\ tabs'[t].status = "authenticated" /\ tabs'[t].timer # "none"
         /\ \/ tabs'[t].timer = "refresh" /\ tabs'[t].at < now + IdleTtl
            \/ tabs'[t].timer = "ceiling" /\ Ceil <= now + IdleTtl
<1>1. PICK v : v = calls[t][k].view
  OBVIOUS
<1>2. k \in CallKind /\ v \in View /\ now \in Nat /\ Ceil \in Nat /\ IdleTtl \in Nat \ {0} /\ Warning \in Nat
  <2>1. k \in CallKind
    BY CallsAre
  <2>2. v \in View
    BY <1>1, <2>1, CallsAre DEF AuthCall
  <2>3. Ceil \in Nat
    BY CallsAre, Times, FirstIs DEF Ceil
  <2> QED
    BY <2>1, <2>2, <2>3, CallsAre, SessionNumbers
<1>3. tabs'[t] = Plan(v)
  BY <1>1, <1>2, HeardTab, Zenon
<1>4. v.ceiling = Ceil /\ now < v.ceiling /\ now < v.idle /\ v.idle <= now + IdleTtl
  BY <1>1, <1>2 DEF Minimum
<1>5. PICK p : p = Plan(v)
  OBVIOUS
<1>6. /\ p.status = "authenticated"
      /\ p.timer = IF v.ceiling - now <= Warning THEN "ceiling" ELSE "refresh"
      /\ p.timer = "refresh" => p.at < now + IdleTtl
  BY <1>2, <1>4, <1>5, CallsAre, PlanGives
<1>7. p.timer = "ceiling" => Ceil <= now + IdleTtl
  BY <1>2, <1>4, <1>6
<1> QED
  BY <1>3, <1>5, <1>6, <1>7

(* A step of one tab that puts the session's cookie in the jar.            *)
LEMMA IssuedGood ==
  ASSUME LInv, Good, NEW t \in Tab, now' = now, store' = store, Ceil # 0, store[1].seen = now,
         cookie'.handle = 1, cookie'.until = now + IdleTtl,
         \A u \in Tab : u # t => tabs'[u] = tabs[u] /\ \A k \in CallKind : calls'[u][k] = calls[u][k],
         Stage(t)', \A k \in CallKind : calls'[t][k] = calls[t][k] \/ Fit(calls[t][k], k)', Keeps(t)'
  PROVE  Good'
<1>1. Ceil' = Ceil
  BY DEF Ceil
<1>2. ASSUME NEW u \in Tab PROVE Stage(u)'
  BY <1>2, StageStays DEF Good
<1>3. ASSUME NEW u \in Tab, NEW k \in CallKind PROVE Fit(calls[u][k], k)'
  <2>1. CASE calls'[u][k] = calls[u][k]
    <3>1. Fit(calls[u][k], k)
      BY DEF Good
    <3>2. PICK c : c = calls[u][k]
      OBVIOUS
    <3>3. Fit(c, k)'
      BY <1>1, <3>1, <3>2, FitStays
    <3> QED
      BY <2>1, <3>2, <3>3, Zenon DEF Fit, Busy
  <2>2. CASE calls'[u][k] # calls[u][k]
    BY <2>2
  <2> QED
    BY <2>1, <2>2
<1>4. JarGood'
  <2>1. now \in Nat /\ IdleTtl \in Nat \ {0}
    BY CallsAre, SessionNumbers
  <2> QED
    BY <1>1, <2>1 DEF JarGood
<1>5. StoreGood'
  BY <1>1, Zenon DEF Good, StoreGood
<1> QED
  BY <1>2, <1>3, <1>4, <1>5, Zenon DEF Good

(* What the answer to a tab in one of its stages is.                       *)
LEMMA HeardFits ==
  ASSUME LInv, Good, NEW t \in Tab, NEW k \in CallKind, HearAnswer(t, k)
  PROVE  /\ calls[t][k].live /\ Stage(t) /\ Fit(calls[t][k], k) /\ Busy(calls[t][k])
         /\ calls[t][k].phase = "answered" /\ store' = store /\ now' = now /\ Ceil' = Ceil
         /\ \A u \in Tab : u # t => tabs'[u] = tabs[u] /\ \A j \in CallKind : calls'[u][j] = calls[u][j]
         /\ k = "boot" => tabs[t].status = "checking" /\ OnlyBusy(t, {k})
         /\ k \in {"load", "login"} => tabs[t].status = "anonymous" /\ OnlyBusy(t, {k})
         /\ k = "refresh" => tabs[t].status = "authenticated" /\ OnlyBusy(t, {k})
         /\ k # "logout"
<1>0. {"boot", "load", "refresh", "login", "logout"} = CallKind
  BY DEF CallKind
<1>1. calls[t][k].phase = "answered" /\ store' = store /\ now' = now
  BY DEF HearAnswer
<1>2. Busy(calls[t][k]) /\ Stage(t) /\ Fit(calls[t][k], k)
  BY <1>1 DEF Good, Busy
<1>3. calls[t][k].live
  BY <1>2, Zenon DEF Stage
<1>4. /\ k = "boot" => tabs[t].status = "checking" /\ OnlyBusy(t, {k})
      /\ k \in {"load", "login"} => tabs[t].status = "anonymous" /\ OnlyBusy(t, {k})
      /\ k = "refresh" => tabs[t].status = "authenticated" /\ OnlyBusy(t, {k})
      /\ k # "logout"
  BY <1>0, <1>2, Zenon DEF Stage, OnlyBusy
<1>5. \A u \in Tab, j \in CallKind : u # t => calls'[u][j] = calls[u][j]
  BY HeardIs
<1>6. \A u \in Tab : u # t => tabs'[u] = tabs[u]
  BY HeardTab
<1>7. Ceil' = Ceil
  BY <1>1 DEF Ceil
<1> QED
  BY <1>1, <1>2, <1>3, <1>4, <1>5, <1>6, <1>7

(* A tab that was shown the session: every call of it has ended.           *)
LEMMA ShownStage ==
  ASSUME LInv, NEW t \in Tab, NEW k \in SessionCall, HearAnswer(t, k), calls[t][k].live,
         \A j \in CallKind : ~Busy(calls'[t][j]),
         \/ k # "refresh" /\ ~calls[t][k].ok
         \/ tabs'[t].status = "authenticated" /\ tabs'[t].timer # "none" /\ cookie'.handle = 1
  PROVE  Stage(t)'
<1>0. {"boot", "load", "refresh", "login", "logout"} = CallKind
  BY DEF CallKind
<1>1. CASE k # "refresh" /\ ~calls[t][k].ok
  <2>1. k \in CallKind /\ k \in {"boot", "load"}
    BY <1>1, CallsAre DEF SessionCall
  <2>2. tabs'[t] = Shows("anonymous")
    BY <1>1, <2>1, HeardTab, Zenon
  <2>3. tabs'[t].status = "anonymous" /\ tabs'[t].timer = "none"
    BY <2>2, ShowsIs
  <2> QED
    BY <1>0, <2>3, Zenon DEF Stage, OnlyBusy
<1>2. CASE tabs'[t].status = "authenticated" /\ tabs'[t].timer # "none" /\ cookie'.handle = 1
  BY <1>0, <1>2, Zenon DEF Stage, OnlyBusy
<1> QED
  BY <1>1, <1>2

LEMMA GoodShown ==
  ASSUME LInv, Good, Fine, Warning <= IdleTtl, MinDelay < IdleTtl, NEW t \in Tab, NEW k \in SessionCall, HearAnswer(t, k)
  PROVE  Good'
<1>0. /\ {"boot", "load", "refresh", "login", "logout"} = CallKind /\ k \in CallKind
      /\ k # "login" /\ k # "logout" /\ k \in {"boot", "load", "refresh"}
  BY CallsAre DEF CallKind, SessionCall
<1>1. /\ calls[t][k].live /\ Stage(t) /\ Fit(calls[t][k], k) /\ Busy(calls[t][k])
      /\ calls[t][k].phase = "answered" /\ store' = store /\ now' = now /\ Ceil' = Ceil
      /\ \A u \in Tab : u # t => tabs'[u] = tabs[u] /\ \A j \in CallKind : calls'[u][j] = calls[u][j]
      /\ OnlyBusy(t, {k})
  BY <1>0, HeardFits
<1>2. \A j \in CallKind : ~Busy(calls'[t][j]) /\ Fit(calls[t][j], j)'
  BY <1>0, <1>1, HeardQuiet
<1>3. ASSUME calls[t][k].ok
      PROVE  /\ Ceil # 0 /\ store[1].seen = now /\ cookie.handle = 1
             /\ tabs'[t].status = "authenticated" /\ tabs'[t].timer # "none"
             /\ \/ tabs'[t].timer = "refresh" /\ tabs'[t].at < now + IdleTtl
                \/ tabs'[t].timer = "ceiling" /\ Ceil <= now + IdleTtl
  <2>1. /\ Ceil # 0 /\ store[1].seen = now /\ cookie.handle = 1 /\ calls[t][k].view.ceiling = Ceil
        /\ calls[t][k].view.idle = Minimum(now + IdleTtl, Ceil)
    BY <1>1, <1>3, Zenon DEF Fit
  <2>2. now < Ceil
    BY <2>1 DEF Fine
  <2>3. /\ tabs'[t].status = "authenticated" /\ tabs'[t].timer # "none"
        /\ \/ tabs'[t].timer = "refresh" /\ tabs'[t].at < now + IdleTtl
           \/ tabs'[t].timer = "ceiling" /\ Ceil <= now + IdleTtl
    BY <1>1, <1>3, <2>1, <2>2, PlanKeeps
  <2> QED
    BY <2>1, <2>3
<1>4. ASSUME calls[t][k].ok, cookie'.until = now + IdleTtl PROVE Keeps(t)'
  BY <1>1, <1>3, <1>4, Zenon DEF Keeps
<1>5. CASE k = "refresh"
  <2>1. calls[t][k].ok /\ calls[t][k].set = Issue(1)
    BY <1>1, <1>5, Zenon DEF Fit
  <2>2. cookie'.handle = 1 /\ cookie'.until = now + IdleTtl
    BY <1>0, <2>1, HeardJar, FirstIs
  <2>3. Ceil # 0 /\ store[1].seen = now /\ tabs'[t].status = "authenticated" /\ tabs'[t].timer # "none"
    BY <1>3, <2>1
  <2>4. Stage(t)'
    BY <1>1, <1>2, <2>2, <2>3, ShownStage
  <2>5. Keeps(t)'
    BY <1>4, <2>1, <2>2
  <2> QED
    BY <1>1, <1>2, <2>2, <2>3, <2>4, <2>5, IssuedGood
<1>6. CASE k \in {"boot", "load"}
  <2>1. calls[t][k].set = Keep /\ k # "refresh"
    BY <1>1, <1>6, Zenon DEF Fit
  <2>2. cookie' = cookie
    BY <1>0, <2>1, HeardJar
  <2>3. Stage(t)'
    <3>1. CASE ~calls[t][k].ok
      BY <1>1, <1>2, <2>1, <3>1, ShownStage
    <3>2. CASE calls[t][k].ok
      <4>1. tabs'[t].status = "authenticated" /\ tabs'[t].timer # "none" /\ cookie'.handle = 1
        BY <1>3, <2>2, <3>2
      <4> QED
        BY <1>1, <1>2, <4>1, ShownStage
    <3> QED
      BY <3>1, <3>2
  <2>4. ASSUME Keeps(t) PROVE Keeps(t)'
    <3>1. tabs[t].status # "authenticated" /\ calls[t]["login"].phase # "answered" /\ (k = "boot" => ~Busy(calls[t]["load"]))
      <4>1. tabs[t].status \in {"checking", "anonymous"}
        BY <1>0, <1>6, HeardFits
      <4>2. \A j \in CallKind : j # k => ~Busy(calls[t][j])
        BY <1>1 DEF OnlyBusy
      <4>3. ~Busy(calls[t]["login"]) /\ (k = "boot" => ~Busy(calls[t]["load"]))
        BY <1>0, <4>2
      <4> QED
        BY <4>1, <4>3 DEF Busy
    <3>2. k = "load" /\ cookie.until = now + IdleTtl
      BY <1>6, <2>4, <3>1, Zenon DEF Keeps
    <3>3. calls[t][k].ok
      BY <1>1, <3>2, Zenon DEF Fit
    <3> QED
      BY <1>4, <2>2, <3>2, <3>3
  <2> QED
    BY <1>1, <1>2, <2>2, <2>3, <2>4, OneGood
<1> QED
  BY <1>0, <1>5, <1>6

LEMMA GoodLoggedIn ==
  ASSUME LInv, Good, NEW t \in Tab, HearAnswer(t, "login")
  PROVE  Good'
<1>0. {"boot", "load", "refresh", "login", "logout"} = CallKind /\ "login" \in CallKind /\ "load" \in CallKind
  BY DEF CallKind
<1>1. /\ calls[t]["login"].live /\ Stage(t) /\ Fit(calls[t]["login"], "login") /\ Busy(calls[t]["login"])
      /\ calls[t]["login"].phase = "answered" /\ store' = store /\ now' = now /\ Ceil' = Ceil
      /\ \A u \in Tab : u # t => tabs'[u] = tabs[u] /\ \A j \in CallKind : calls'[u][j] = calls[u][j]
      /\ OnlyBusy(t, {"login"}) /\ tabs[t].status = "anonymous"
  BY <1>0, HeardFits
<1>2. tabs' = tabs /\ calls'[t]["login"] = Idle
  BY <1>0, HeardTab, HeardIs
<1>3. tabs[t].timer = "none"
  <2>1. tabs[t].status # "authenticated"
    BY <1>1
  <2> QED
    BY <1>1, <2>1, Zenon DEF Stage
<1>4. \A j \in CallKind \ {"login"} : ~Busy(calls[t][j])
  BY <1>1 DEF OnlyBusy
<1>5. ~Busy(calls'[t]["login"])
  BY <1>2, SentFields DEF Busy
<1>6. CASE ~calls[t]["login"].ok
  <2>1. calls[t]["login"].set = Keep
    BY <1>1, <1>6, Zenon DEF Fit
  <2>2. cookie' = cookie
    BY <1>0, <2>1, HeardJar
  <2>3. \A j \in CallKind \ {"login"} : calls'[t][j] = calls[t][j]
    <3>1. ~(calls[t]["login"].live /\ ("login" # "login" \/ calls[t]["login"].ok))
      BY <1>6
    <3> QED
      BY <1>0, <3>1, HeardIs
  <2>4. \A j \in CallKind : ~Busy(calls'[t][j])
    BY <1>4, <1>5, <2>3
  <2>5. Stage(t)'
    BY <1>0, <1>1, <1>2, <1>3, <2>4, Zenon DEF Stage, OnlyBusy
  <2>6. \A j \in CallKind : Fit(calls[t][j], j)'
    BY <2>4 DEF Fit, Busy
  <2>7. ~Keeps(t)
    BY <1>0, <1>1, <1>4, <1>6 DEF Keeps
  <2> QED
    BY <1>1, <1>2, <2>2, <2>5, <2>6, <2>7, OneGood
<1>7. CASE calls[t]["login"].ok
  <2>1. calls[t]["login"].set = Issue(1) /\ Ceil # 0 /\ store[1].seen = now
    BY <1>1, <1>7, Zenon DEF Fit
  <2>2. cookie'.handle = 1 /\ cookie'.until = now + IdleTtl
    BY <1>0, <2>1, HeardJar, FirstIs
  <2>3. /\ calls'[t]["load"] = [Sent EXCEPT !.handle = cookie'.handle]
        /\ \A j \in CallKind \ {"login", "load"} : calls'[t][j] = calls[t][j]
    BY <1>0, <1>1, <1>7, HeardIs
  <2>4. calls'[t]["load"].phase = "sent" /\ calls'[t]["load"].handle = 1 /\ calls'[t]["load"].live
    BY <2>2, <2>3 DEF Sent, Idle
  <2>5. \A j \in CallKind \ {"load"} : ~Busy(calls'[t][j])
    BY <1>4, <1>5, <2>3
  <2>6. Stage(t)'
    BY <1>0, <1>1, <1>2, <1>3, <2>4, <2>5, Zenon DEF Stage, OnlyBusy
  <2>7. \A j \in CallKind : Fit(calls[t][j], j)'
    BY <2>2, <2>4, <2>5 DEF Fit, Busy
  <2>8. Keeps(t)'
    BY <1>1, <2>2, <2>4 DEF Keeps, Busy
  <2> QED
    BY <1>1, <1>2, <2>1, <2>2, <2>6, <2>7, <2>8, IssuedGood
<1> QED
  BY <1>6, <1>7

LEMMA GoodStep ==
  ASSUME LInv, SessionNext, Undisturbed', Fine', Knows, Good, BootIsFast, Warning <= IdleTtl, MinDelay < IdleTtl
  PROVE  Good'
<1>1. /\ OnlyFirst /\ OnlyFirst' /\ CallKind = SessionCall \cup {"login", "logout"}
      /\ \A t \in Tab : ~Close(t) /\ \A k \in CallKind : ~ServeError(t, k) /\ ~Throw(t, k)
  BY UndisturbedBefore, CallsAre DEF Undisturbed
<1>2. Fine
  BY FineBefore
<1>3. \A t \in Tab : ~SignOut(t) /\ calls[t]["logout"].phase = "idle"
  BY <1>1, NoSignOutYet DEF Busy
<1>4. \A t \in Tab : ~ServeLogout(t) /\ ~HearAnswer(t, "logout")
  BY <1>3 DEF ServeLogout, HearAnswer
<1>5. ASSUME NEW t \in Tab, Open(t) \/ SignIn(t) \/ Work(t) \/ TimerFires(t) \/ ServeLogin(t) PROVE Good'
  BY <1>1, <1>2, <1>5, GoodOpens, GoodSignsIn, GoodWorks, GoodTimer, GoodLogsIn
<1>6. CASE Tick
  BY <1>1, <1>6, GoodTicks
<1>7. ASSUME NEW t \in Tab, NEW k \in CallKind, ServeSession(t, k) PROVE Good'
  BY <1>1, <1>2, <1>7, GoodServed
<1>8. ASSUME NEW t \in Tab, NEW k \in CallKind, HearAnswer(t, k) PROVE Good'
  <2>1. CASE k \in SessionCall
    BY <1>2, <1>8, <2>1, GoodShown
  <2>2. CASE k = "login"
    BY <1>8, <2>2, GoodLoggedIn
  <2>3. CASE k = "logout"
    BY <1>4, <1>8, <2>3
  <2> QED
    BY <1>1, <2>1, <2>2, <2>3
<1> QED
  BY <1>1, <1>3, <1>4, <1>5, <1>6, <1>7, <1>8 DEF SessionNext, Serve, Answers

LEMMA GoodInit == ASSUME SessionInit PROVE Knows /\ Good
<1>1. /\ \A t \in Tab : /\ tabs[t].status = "closed" /\ tabs[t].timer = "none"
                        /\ \A k \in CallKind : calls[t][k].phase = "idle"
      /\ cookie.handle = 0 /\ Ceil = 0
  BY SentFields, FirstIs DEF SessionInit, Closed, Ceil
<1>2. {"boot", "load", "refresh", "login", "logout"} = CallKind /\ SessionCall \subseteq CallKind /\ cookie.handle # 1
  BY <1>1 DEF CallKind, SessionCall
<1>3. Knows
  BY <1>1, <1>2 DEF Knows
<1>4. \A t \in Tab, k \in CallKind : ~Busy(calls[t][k]) /\ calls[t][k].phase # "answered"
  BY <1>1 DEF Busy
<1>5. ASSUME NEW t \in Tab PROVE Stage(t) /\ \A k \in CallKind : Fit(calls[t][k], k)
  <2>1. \A k \in CallKind : Fit(calls[t][k], k)
    BY <1>4 DEF Fit
  <2>2. Stage(t)
    BY <1>1, <1>2, <1>4, Zenon DEF Stage, OnlyBusy
  <2> QED
    BY <2>1, <2>2
<1>6. JarGood
  BY <1>2 DEF JarGood
<1>7. StoreGood
  BY <1>1, Zenon DEF StoreGood
<1> QED
  BY <1>1, <1>3, <1>5, <1>6, <1>7, Zenon DEF Good

LEMMA KeptMeans ==
  ASSUME LInv, OnlyFirst, Knows, Fine => Good
  PROVE  ActiveUserKeepsSession
<1> SUFFICES ASSUME NoSignOut, NEW t \in Tab, tabs[t].status = "authenticated", now < tabs[t].view.ceiling
             PROVE  Live(BrowserHandle)
  BY DEF ActiveUserKeepsSession
<1>1. Ceil # 0 /\ now < Ceil
  BY DEF Knows
<1>2. Fine
  BY <1>1 DEF Fine, NoSignOut, Free, Busy
<1>3. BrowserHandle = 1
  BY <1>2, UserHasCookie
<1>4. store[1].open /\ now < store[1].seen + IdleTtl
  BY <1>1, <1>2, Zenon DEF Good, StoreGood
<1>5. BrowserHandle # 0 /\ store[BrowserHandle].open = store[1].open /\ now < store[BrowserHandle].ceiling
      /\ now < store[BrowserHandle].seen + IdleTtl
  BY <1>1, <1>3, <1>4 DEF Ceil
<1> QED
  BY <1>4, <1>5, Zenon DEF Live

(* While no tab is closed or reloaded, every call is answered, none by a   *)
(* 5xx, and the browser has signed in once, a signed-in tab keeps until    *)
(* the ceiling a session its next request can use: touch() and the cookie  *)
(* of session-store.ts and routes.ts, planRefresh and the loop of          *)
(* refresh.ts, AuthProvider of context.tsx.                                *)
THEOREM ActiveUsersStaySignedIn ==
  ASSUME BootIsFast, Warning <= IdleTtl, MinDelay < IdleTtl
  PROVE  SessionSpec => [](Undisturbed => ActiveUserKeepsSession)
<1> DEFINE Inv == LInv /\ (Undisturbed => Knows /\ (Fine => Good))
<1>1. SessionInit => Inv
  BY LInvInit, GoodInit
<1>2. Inv /\ [SessionNext]_sessionVars => Inv'
  <2> SUFFICES ASSUME Inv, [SessionNext]_sessionVars PROVE Inv'
    OBVIOUS
  <2>1. LInv'
    BY SessionStep
  <2>2. CASE UNCHANGED sessionVars
    <3>1. Undisturbed' => Undisturbed
      BY <2>2 DEF sessionVars, Undisturbed, OnlyFirst, EdgeAnswers, NothingLost
    <3>2. Knows => Knows'
      BY <2>2 DEF sessionVars, Knows, Ceil
    <3>3. Fine' => Fine
      BY <2>2 DEF sessionVars, Fine, Ceil, Busy
    <3>4. Good => Good'
      <4> SUFFICES ASSUME Good PROVE Good'
        OBVIOUS
      <4>1. /\ now' = now /\ store' = store /\ cookie' = cookie /\ tabs' = tabs /\ calls' = calls /\ Ceil' = Ceil
            /\ {"load", "refresh", "login"} \subseteq CallKind
        BY <2>2 DEF sessionVars, Ceil, CallKind
      <4>2. \A t \in Tab : Stage(t)'
        BY <4>1, StageStays DEF Good
      <4>3. ASSUME NEW t \in Tab, NEW k \in CallKind PROVE Fit(calls[t][k], k)'
        <5>1. PICK c : c = calls[t][k]
          OBVIOUS
        <5>2. Fit(c, k)'
          BY <4>1, <5>1, FitStays DEF Good
        <5> QED
          BY <4>1, <5>1, <5>2, Zenon DEF Fit, Busy
      <4>4. Ceil' # 0 => \E t \in Tab : Keeps(t)'
        BY <4>1, KeepsStay DEF Good
      <4>5. JarGood'
        BY <4>1 DEF Good, JarGood
      <4>6. StoreGood'
        BY <4>1, Zenon DEF Good, StoreGood
      <4> QED
        BY <4>2, <4>3, <4>4, <4>5, <4>6, Zenon DEF Good
    <3> QED
      BY <2>1, <3>1, <3>2, <3>3, <3>4
  <2>3. CASE SessionNext
    <3>1. ASSUME Undisturbed' PROVE Knows' /\ (Fine' => Good')
      <4>1. Undisturbed
        BY <2>3, <3>1, UndisturbedBefore
      <4>2. Knows'
        BY <2>3, <3>1, <4>1, KnowsStep
      <4>3. ASSUME Fine' PROVE Good'
        <5>1. Fine
          BY <2>3, <3>1, <4>3, FineBefore
        <5> QED
          BY <2>3, <3>1, <4>1, <4>3, <5>1, GoodStep
      <4> QED
        BY <4>2, <4>3
    <3> QED
      BY <2>1, <3>1
  <2> QED
    BY <2>2, <2>3
<1>3. Inv => (Undisturbed => ActiveUserKeepsSession)
  BY KeptMeans DEF Undisturbed
<1> HIDE DEF Inv
<1> QED
  BY <1>1, <1>2, <1>3, PTL DEF SessionSpec
===============================================================================
