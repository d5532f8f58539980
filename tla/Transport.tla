----------------------------- MODULE Transport -----------------------------
(***************************************************************************)
(* One press, three layers of retry: the screen's query (QueryClient), the *)
(* client's withRetry (packages/api-client) and the edge's callUpstream    *)
(* (tooling/edge-dev), down to the services and back, with every message   *)
(* between them open to loss and the session open to its end.              *)
(*                                                                         *)
(* A status stands for a response and its body. 503 is one that names a    *)
(* foreign system; a 503 that does not is told apart from no other server  *)
(* error and is the 500. A service that cannot be reached is the 502 the   *)
(* edge makes of it. An upstream success that is not JSON is still the 200 *)
(* it came with: the edge puts {error: UPSTREAM_MALFORMED_BODY} in it.     *)
(***************************************************************************)
EXTENDS Integers

CONSTANTS
  Call,           \* presses and screens, each used once
  Statuses,       \* what a service answers
  ClientRetries,  \* DEFAULT_RETRY_POLICY.maxRetries
  EdgeRetries,    \* RETRY_BACKOFF_MS.length
  ScreenRetries   \* QueryClient's retry for queries

Success == 200..299
G2G == 503
Unreachable == 502

ASSUME TransportStatuses == {200, G2G, Unreachable} \subseteq Statuses /\ Statuses \subseteq 200..599
ASSUME TransportRetries == {ClientRetries, EdgeRetries, ScreenRetries} \subseteq Nat

VARIABLES
  call,     \* the state of each call, through its three layers
  session,  \* the edge still knows the session
  reached,  \* history: requests of a call the services received
  applied   \* history: times a call changed the services' state

transportVars == <<call, session, reached, applied>>

(* The registry. "read" and "detail" are retried by their screens, "poll"  *)
(* is a query with retry: false, "ask" is requestOtp, "verify" the officer *)
(* lane of identity verification, "write" every other POST.                *)
Reads == {"read", "detail", "poll"}
Unsafe == {"ask", "verify", "write"}
Operation == Reads \cup Unsafe
Leg == {"primary", "history"}

EveryPostRetries(op) == TRUE              \* mutant
RetryOnG2G(op) == op \in Reads \cup {"ask"}
EdgeRetryable(op) == op \in Reads \cup {"verify"}
ScreenRetry(op) == IF op \in {"read", "detail"} THEN ScreenRetries ELSE 0
Legs(op) == IF op = "detail" THEN Leg ELSE {"primary"}

(* normaliseErrorBody; "network" and "malformed" have no status.           *)
ErrorKind(status) ==
  CASE status = G2G -> "g2gUnavailable"
    [] status = 401 -> "unauthenticated"
    [] status = 403 -> "forbidden"
    [] status = 404 -> "notFound"
    [] status = 409 -> "conflict"
    [] status = 422 -> "unprocessable"
    [] status \in {400, 413, 415} -> "badRequest"
    [] status = 501 -> "unsupportedAgency"
    [] OTHER -> "serverError"

Refusals == {"g2gUnavailable", "unauthenticated", "forbidden", "notFound", "conflict",
             "unprocessable", "badRequest", "unsupportedAgency"}
Kind == Refusals \cup {"none", "ok", "serverError", "network", "malformed"}

Waiting == [tries |-> 0, status |-> 0, done |-> FALSE]
Fresh == [l \in Leg |-> Waiting]
At == {"idle", "request", "edge", "response", "clientWait", "screenWait", "settled"}
CallState == [at : At, op : Operation, client : 0..ClientRetries, screen : 0..ScreenRetries,
              leg : [Leg -> [tries : 0..EdgeRetries + 1, status : {0} \cup Statuses, done : BOOLEAN]],
              answer : {0} \cup 200..599, kind : Kind]
Unused == [at |-> "idle", op |-> "read", client |-> 0, screen |-> 0,
           leg |-> Fresh, answer |-> 0, kind |-> "none"]

TransportInit ==
  /\ call = [c \in Call |-> Unused]
  /\ session = TRUE
  /\ reached = [c \in Call |-> 0] /\ applied = [c \in Call |-> 0]

-----------------------------------------------------------------------------
(* The browser                                                             *)

Press(c, op) ==
  /\ call[c].at = "idle"
  /\ call' = [call EXCEPT ![c].at = "request", ![c].op = op]
  /\ UNCHANGED <<session, reached, applied>>

RetriesLostToo(kind, op) == RetryOnG2G(op) /\ kind \in {"g2gUnavailable", "network"}   \* mutant
ShouldRetry(kind, op) == RetryOnG2G(op) /\ kind = "g2gUnavailable"

(* The end of one attempt of withRetry: another, the screen's, or no more. *)
AfterOneTooMany(c, kind) ==    \* mutant
  IF ShouldRetry(kind, call[c].op) /\ call[c].client < ClientRetries
  THEN [call[c] EXCEPT !.at = "clientWait", !.client = @ + 1, !.leg = Fresh, !.answer = 0]
  ELSE IF kind # "ok" /\ call[c].screen <= ScreenRetry(call[c].op)
       THEN [call[c] EXCEPT !.at = "screenWait", !.screen = @ + 1, !.client = 0,
                            !.leg = Fresh, !.answer = 0]
       ELSE [call[c] EXCEPT !.at = "settled", !.kind = kind]
After(c, kind) ==
  IF ShouldRetry(kind, call[c].op) /\ call[c].client < ClientRetries
  THEN [call[c] EXCEPT !.at = "clientWait", !.client = @ + 1, !.leg = Fresh, !.answer = 0]
  ELSE IF kind # "ok" /\ call[c].screen < ScreenRetry(call[c].op)
       THEN [call[c] EXCEPT !.at = "screenWait", !.screen = @ + 1, !.client = 0,
                            !.leg = Fresh, !.answer = 0]
       ELSE [call[c] EXCEPT !.at = "settled", !.kind = kind]

EndAttempt(c, kind) ==
  /\ call' = [call EXCEPT ![c] = After(c, kind)]
  /\ UNCHANGED <<session, reached, applied>>

(* The sleep of the backoff ends: the same operation goes out again.       *)
SendAgain(c) ==
  /\ call[c].at \in {"clientWait", "screenWait"}
  /\ call' = [call EXCEPT ![c].at = "request"]
  /\ UNCHANGED <<session, reached, applied>>

(* fetch rejects, whichever way the message was going.                     *)
LoseRequest(c) == call[c].at = "request" /\ EndAttempt(c, "network")
LoseResponse(c) == call[c].at = "response" /\ EndAttempt(c, "network")

(* A success whose body is not JSON, or that its decoder refuses.          *)
ReceiveMalformed(c) ==
  call[c].at = "response" /\ call[c].answer \in Success /\ EndAttempt(c, "malformed")

Receive(c) ==
  /\ call[c].at = "response"
  /\ EndAttempt(c, IF call[c].answer \in Success THEN "ok" ELSE ErrorKind(call[c].answer))

-----------------------------------------------------------------------------
(* The edge                                                                *)

(* What the edge says without asking a service: no session, a wrong origin *)
(* or pair of tokens on a POST, a query or body it cannot read.            *)
NeedsSession(op) == op # "ask"
EdgeRefusals(op) ==
  {400} \cup (IF NeedsSession(op) /\ ~session THEN {401} ELSE {})
        \cup (IF op \in Unsafe THEN {403} ELSE {})

Refuse(c) ==
  /\ call[c].at = "request"
  /\ \E s \in EdgeRefusals(call[c].op) :
       call' = [call EXCEPT ![c].at = "response", ![c].answer = s]
  /\ UNCHANGED <<session, reached, applied>>

Admit(c) ==
  /\ call[c].at = "request"
  /\ NeedsSession(call[c].op) => session
  /\ call' = [call EXCEPT ![c].at = "edge"]
  /\ UNCHANGED <<session, reached, applied>>

(* once, as often as callUpstream runs it.                                 *)
LegAfter(c, l, s) ==
  [tries |-> call[c].leg[l].tries + 1, status |-> s,
   done |-> ~(s = G2G /\ EdgeRetryable(call[c].op) /\ call[c].leg[l].tries < EdgeRetries)]

(* A success applied the write, a refusal did not, and nobody can say of a *)
(* server error: the service may have committed before it failed. The      *)
(* second verification of one identity answers ALREADY_EXISTS.             *)
Effects(c, s) ==
  IF call[c].op \in Reads THEN {0}
  ELSE LET once == IF call[c].op = "verify" /\ applied[c] > 0 THEN 0 ELSE 1
       IN IF s \in Success THEN {once}
          ELSE IF s > 499 /\ s \notin {501, G2G} THEN {0, once} ELSE {0}

AskService(c, l) ==
  /\ call[c].at = "edge" /\ l \in Legs(call[c].op) /\ ~call[c].leg[l].done
  /\ \E s \in Statuses : \E n \in Effects(c, s) :
       /\ call' = [call EXCEPT ![c].leg[l] = LegAfter(c, l, s)]
       /\ applied' = [applied EXCEPT ![c] = @ + n]
  /\ reached' = [reached EXCEPT ![c] = @ + 1]
  /\ UNCHANGED session

(* relay, and applicationDetail's rule: the primary read's failure is the  *)
(* answer's, the history's is a panel's.                                   *)
Composed(c) == call[c].leg["primary"].status

Answer(c) ==
  /\ call[c].at = "edge" /\ \A l \in Legs(call[c].op) : call[c].leg[l].done
  /\ call' = [call EXCEPT ![c].at = "response", ![c].answer = Composed(c)]
  /\ UNCHANGED <<session, reached, applied>>

(* The session ends, by its clock or by another tab.                       *)
EndSession ==
  /\ session /\ session' = FALSE
  /\ UNCHANGED <<call, reached, applied>>

Browser(c) == SendAgain(c) \/ LoseRequest(c) \/ LoseResponse(c) \/ ReceiveMalformed(c) \/ Receive(c)
Edge(c) == Refuse(c) \/ Admit(c) \/ (\E l \in Leg : AskService(c, l)) \/ Answer(c)

TransportNext ==
  \/ \E c \in Call : (\E op \in Operation : Press(c, op)) \/ Browser(c) \/ Edge(c)
  \/ EndSession

TransportSpec == TransportInit /\ [][TransportNext]_transportVars

-----------------------------------------------------------------------------
(* Properties                                                              *)

TransportTypeOK ==
  /\ call \in [Call -> CallState] /\ session \in BOOLEAN
  /\ reached \in [Call -> Nat] /\ applied \in [Call -> Nat]

(* What three layers of retry may cost a service, and no more: "2 means at *)
(* most 3 calls" at each, "NEVER retryable" for a write, which reaches its *)
(* service once whatever is lost.                                          *)
Budget(op) ==
  CASE op = "write" -> 1
    [] op = "verify" -> EdgeRetries + 1
    [] op = "ask" -> ClientRetries + 1
    [] op = "poll" -> (EdgeRetries + 1) * (ClientRetries + 1)
    [] op = "read" -> (EdgeRetries + 1) * (ClientRetries + 1) * (ScreenRetries + 1)
    [] op = "detail" -> 2 * (EdgeRetries + 1) * (ClientRetries + 1) * (ScreenRetries + 1)
WithinBudget == \A c \in Call : reached[c] <= Budget(call[c].op)

(* "A persistence fault may have COMMITTED before failing", "a refused     *)
(* connection is indistinguishable from one that half-completed": only the *)
(* kinds that admit it stand for a write that was applied. A press that    *)
(* ends in a refusal changed nothing, and none is applied twice.           *)
RefusalMeansNotApplied ==
  \A c \in Call :
    /\ applied[c] <= 1
    /\ call[c].kind \in Refusals => applied[c] = 0
=============================================================================
