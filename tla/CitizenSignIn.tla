--------------------------- MODULE CitizenSignIn ---------------------------
(***************************************************************************)
(* Citizen sign-in: National ID, phone, one-time code. The OTP reducer     *)
(* (packages/auth/src/otp-machine.ts), the hook that drives it             *)
(* (context.tsx, useApplicantAuth) and the page that decides which form is *)
(* shown (features/identity/src/routes/citizen-otp.tsx), over the edge     *)
(* (edge-dev/src/routes.ts), which turns malformed requests away itself,   *)
(* and an identity-service that answers one 401 for every code it refuses. *)
(*                                                                         *)
(* Calls are asynchronous and are not cancelled: the citizen can press     *)
(* Back or Cancel while one is in flight, and its answer is applied to     *)
(* whatever the page shows by then.                                        *)
(***************************************************************************)
EXTENDS Naturals, FiniteSets

CONSTANTS
  Phone,        \* the numbers a citizen may type
  WellFormed,   \* those of them that have the form the edge asks for
  NoPhone,      \* phoneRef after a reset
  Call,         \* bound: calls in flight at once
  MaxAttempts,  \* OTP_MAX_ATTEMPTS
  Ttl,          \* OTP_TTL_MS, in ticks of the model
  MaxTokens     \* bound: onboarding tokens issued

ASSUME SignInNumbers == {MaxAttempts, Ttl, MaxTokens} \subseteq Nat \ {0}
ASSUME SignInNames == WellFormed \subseteq Phone /\ NoPhone \notin Phone

Token == 1..MaxTokens        \* an onboarding token; 0 is the empty tokenRef

VARIABLES
  identity,   \* step 1: IdentityStage; the three that say why it failed are one
  otp,        \* steps 2 and 3: the OTP machine
  token,      \* tokenRef
  phone,      \* phoneRef
  calls,      \* [Call -> a call to the edge and the page's await on it]
  issued,     \* tokens issued so far by identity-service
  challenge,  \* [Token -> the challenge behind it: its phone and codes checked]
  sessions,   \* tokens identity-service accepted a code for
  grounds,    \* history: what the page's count of attempts rests on
  lost        \* history: a call was left without an answer

page == <<identity, otp, token, phone>>
service == <<issued, challenge, sessions>>
signInVars == <<page, calls, service, grounds, lost>>

OtpStatus == {"idle", "requesting", "challenged", "verifying", "rejected",
              "attemptsExhausted", "expired", "upstreamUnavailable", "verified"}
OtpState == [status : OtpStatus, subject : Phone \cup {NoPhone},
             attempts : 0..MaxAttempts, left : 0..Ttl]
Otp(s) == [status |-> s, subject |-> NoPhone, attempts |-> 0, left |-> 0]

\* A code typed into the form: nothing is left of one of blanks only.
Code == {"blank", "wrong", "right"}

\* "refused" is a 422 or a 401, "expired" the 401 to a request for a code,
\* "badPhone" and "invalid" the two 400s, INVALID_PHONE_NUMBER and INVALID_REQUEST.
Answer == {"none", "ok", "refused", "expired", "badPhone", "invalid", "unavailable", "error"}
CallState == [phase : {"idle", "sent", "answered"},
              kind : {"identity", "request", "verify"},
              token : Token \cup {0}, phone : Phone \cup {NoPhone},
              code : Code,
              live : BOOLEAN,        \* the form that submitted it is still mounted
              answer : Answer,
              issued : Token \cup {0}]
Idle == [phase |-> "idle", kind |-> "identity", token |-> 0, phone |-> NoPhone,
         code |-> "blank", live |-> FALSE, answer |-> "none", issued |-> 0]

\* "misread": since the last 202, a 400 INVALID_REQUEST or a fault of ours was taken
\* for a code that was sent or one that was wrong. "abandoned": a reset has left a
\* call in flight, once.
Grounds == {"sound", "misread", "abandoned"}

SignInTypeOK ==
  /\ identity \in {"idle", "confirming", "confirmed", "failed", "expired"}
  /\ otp \in OtpState
  /\ token \in Token \cup {0}
  /\ phone \in Phone \cup {NoPhone}
  /\ calls \in [Call -> CallState]
  /\ issued \in 0..MaxTokens
  /\ challenge \in [Token -> [phone : Phone \cup {NoPhone}, checks : 0..MaxAttempts]]
  /\ sessions \subseteq Token
  /\ grounds \in Grounds
  /\ lost \in BOOLEAN

SignInInit ==
  /\ identity = "idle"
  /\ otp = Otp("idle")
  /\ token = 0 /\ phone = NoPhone
  /\ calls = [c \in Call |-> Idle]
  /\ issued = 0
  /\ challenge = [t \in Token |-> [phone |-> NoPhone, checks |-> 0]]
  /\ sessions = {}
  /\ grounds = "sound" /\ lost = FALSE

----------------------------------------------------------------------------
(* The OTP reducer: the next state for each event *)

OnRequestAccepted(o) == [status |-> "challenged", subject |-> o.subject,
                         attempts |-> 0, left |-> Ttl]

CanSubmit(o) == o.status \in {"challenged", "rejected"}

OnSubmit(o) == IF CanSubmit(o) THEN [o EXCEPT !.status = "verifying"] ELSE o

\* Mutant: the count starts over with every rejection.
OnSubmitRejectedMutant(o) ==
  IF o.status # "verifying" THEN o ELSE [o EXCEPT !.status = "rejected", !.attempts = 0]

OnSubmitRejected(o) ==
  IF o.status # "verifying" THEN o
  ELSE IF o.attempts + 1 >= MaxAttempts
    THEN [Otp("attemptsExhausted") EXCEPT !.subject = o.subject]
    ELSE [o EXCEPT !.status = "rejected", !.attempts = @ + 1]

\* Mutant: the clock is not looked at between two submissions.
OnTickMutant(o) ==
  IF o.status = "challenged" /\ o.left = 0
    THEN [Otp("expired") EXCEPT !.subject = o.subject] ELSE o

OnTick(o) ==
  IF CanSubmit(o) /\ o.left = 0
    THEN [Otp("expired") EXCEPT !.subject = o.subject] ELSE o

----------------------------------------------------------------------------
(* The page: which form is shown, and what can be pressed *)

Awaiting(o) == o.status \in {"challenged", "rejected", "verifying"}

Shown(kind, i, o) ==
  CASE kind = "identity" -> i # "confirmed" /\ o.status # "verified"
    [] kind = "request"  -> i = "confirmed" /\ ~Awaiting(o) /\ o.status # "verified"
    [] kind = "verify"   -> Awaiting(o)

OfferWalkIn == \/ otp.status \in {"attemptsExhausted", "expired"}
               \/ otp.status = "rejected" /\ otp.attempts >= 2

\* A form submits once at a time; it forgets that when it is unmounted.
MayPress(kind) ==
  /\ Shown(kind, identity, otp)
  /\ \A c \in Call : ~(calls[c].phase # "idle" /\ calls[c].kind = kind /\ calls[c].live)

\* The calls after a step, with the forms that step has unmounted.
Render(cs) ==
  calls' = [c \in Call |-> [cs[c] EXCEPT !.live = @ /\ Shown(cs[c].kind, identity', otp')]]

Send(c, kind, t, p, code) ==
  /\ calls[c].phase = "idle"
  /\ c = CHOOSE d \in Call : calls[d].phase = "idle"   \* any, and always the same
  /\ Render([calls EXCEPT ![c] = [Idle EXCEPT !.phase = "sent", !.kind = kind, !.token = t,
                                  !.phone = p, !.code = code, !.live = TRUE]])

----------------------------------------------------------------------------
(* What the citizen presses *)

ConfirmIdentity(c) ==
  /\ MayPress("identity") /\ identity # "confirming"
  /\ identity' = "confirming"
  /\ UNCHANGED <<otp, token, phone, service, grounds, lost>>
  /\ Send(c, "identity", 0, NoPhone, "blank")

RequestCode(c, p) ==
  /\ MayPress("request") /\ otp.status # "requesting"
  /\ phone' = p
  /\ otp' = Otp("requesting")
  /\ UNCHANGED <<identity, token, service, grounds, lost>>
  /\ Send(c, "request", token, p, "blank")

SubmitCode(c, code) ==
  /\ MayPress("verify") /\ CanSubmit(otp)
  /\ otp' = OnSubmit(otp)
  /\ UNCHANGED <<identity, token, phone, service, grounds, lost>>
  /\ Send(c, "verify", token, phone, code)

\* Back and Cancel: everything is forgotten but the calls in flight.
Reset ==
  /\ Shown("request", identity, otp) \/ Awaiting(otp) \/ OfferWalkIn
  /\ token' = 0 /\ phone' = NoPhone
  /\ identity' = "idle" /\ otp' = Otp("idle")
  /\ grounds' = IF \E c \in Call : calls[c].phase # "idle" THEN "abandoned" ELSE grounds
  /\ Render(calls)
  /\ UNCHANGED <<service, lost>>

\* The citizen's clock, and the page's one-second tick.
Elapse ==
  /\ Awaiting(otp) /\ otp.left > 0
  /\ otp' = [otp EXCEPT !.left = @ - 1]
  /\ UNCHANGED <<identity, token, phone, calls, service, grounds, lost>>

TickClock ==
  /\ OnTick(otp) # otp
  /\ otp' = OnTick(otp)
  /\ UNCHANGED <<identity, token, phone, service, grounds, lost>>
  /\ Render(calls)

----------------------------------------------------------------------------
(* identity-service, behind the edge *)

\* The handlers know what they sent; all an answer adds is itself.
Answered(c, a) == calls' = [calls EXCEPT ![c].phase = "answered", ![c].answer = a,
                                         ![c].code = "blank", ![c].token = 0, ![c].phone = NoPhone]

\* Step 1: a token, the one refusal, or a registry that is down.
ServeIdentity(c) ==
  /\ calls[c].phase = "sent" /\ calls[c].kind = "identity"
  /\ \/ /\ issued < MaxTokens /\ issued' = issued + 1
        /\ calls' = [calls EXCEPT ![c].phase = "answered", ![c].answer = "ok",
                                  ![c].issued = issued + 1]
     \/ UNCHANGED issued /\ \E a \in {"refused", "unavailable"} : Answered(c, a)
  /\ UNCHANGED <<page, challenge, sessions, grounds, lost>>

\* What the edge lets pass to identity-service: it turns the rest away.
Formed(c) == calls[c].token # 0 /\ calls[c].phone \in WellFormed

\* Step 2: a fresh challenge with nothing checked yet, a token that lapsed, a number
\* no code can be delivered to, or a request the edge or the service calls malformed.
ServeRequest(c) ==
  /\ calls[c].phase = "sent" /\ calls[c].kind = "request"
  /\ \/ /\ Formed(c) /\ Answered(c, "ok")
        /\ challenge' = [challenge EXCEPT ![calls[c].token] =
                            [phone |-> calls[c].phone, checks |-> 0]]
     \/ /\ Formed(c) /\ UNCHANGED challenge
        /\ \E a \in {"expired", "badPhone", "unavailable"} : Answered(c, a)
     \/ Answered(c, "invalid") /\ UNCHANGED challenge
  /\ UNCHANGED <<page, issued, sessions, grounds, lost>>

\* Step 3: the code is checked against the challenge while it is not locked; a
\* request the edge or the service calls malformed is not checked at all.
ServeVerify(c) ==
  /\ calls[c].phase = "sent" /\ calls[c].kind = "verify"
  /\ LET t == calls[c].token
         formed == Formed(c) /\ calls[c].code # "blank"
         open == challenge[t].phone = calls[c].phone /\ challenge[t].checks < MaxAttempts
     IN \/ /\ formed /\ open /\ calls[c].code = "right" /\ Answered(c, "ok")
           /\ sessions' = sessions \cup {t}
           /\ UNCHANGED challenge
        \/ /\ formed /\ open /\ calls[c].code = "wrong" /\ Answered(c, "refused")
           /\ challenge' = [challenge EXCEPT ![t].checks = @ + 1]
           /\ UNCHANGED sessions
        \/ /\ formed /\ ~open /\ Answered(c, "refused")
           /\ UNCHANGED <<challenge, sessions>>
        \/ /\ formed /\ Answered(c, "unavailable")
           /\ UNCHANGED <<challenge, sessions>>
        \/ /\ Answered(c, "invalid")
           /\ UNCHANGED <<challenge, sessions>>
  /\ UNCHANGED <<page, issued, grounds, lost>>

\* identity-service cannot be reached, or the edge cannot read its answer.
ServeError(c) ==
  /\ calls[c].phase # "idle" /\ calls[c].answer # "error"
  /\ Answered(c, "error")
  /\ UNCHANGED <<page, service, grounds, lost>>

----------------------------------------------------------------------------
(* The answers reach the page *)

Done(c) == [calls EXCEPT ![c] = Idle]

Heard(g) == IF grounds = "abandoned" THEN grounds ELSE g

\* Mutant: an outage of the registry leaves the stage as it was.
ReceiveIdentityMutant(c) ==
  /\ calls[c].phase = "answered" /\ calls[c].kind = "identity"
  /\ LET a == calls[c].answer IN
     /\ token' = IF a = "ok" THEN calls[c].issued ELSE token
     /\ identity' = CASE a = "ok" -> "confirmed" [] a = "unavailable" -> identity
                      [] OTHER -> "failed"
  /\ UNCHANGED <<otp, phone, service, grounds, lost>>
  /\ Render(Done(c))

ReceiveIdentity(c) ==
  /\ calls[c].phase = "answered" /\ calls[c].kind = "identity"
  /\ LET a == calls[c].answer IN
     /\ token' = IF a = "ok" THEN calls[c].issued ELSE token
     /\ identity' = IF a = "ok" THEN "confirmed" ELSE "failed"
  /\ UNCHANGED <<otp, phone, service, grounds, lost>>
  /\ Render(Done(c))

\* Mutant: an onboarding token that lapsed is forgotten, and nothing is said.
ReceiveRequestMutant(c) ==
  /\ calls[c].phase = "answered" /\ calls[c].kind = "request"
  /\ token' = IF calls[c].answer = "expired" THEN 0 ELSE token
  /\ otp' = IF calls[c].answer = "expired" THEN Otp("idle") ELSE OnRequestAccepted(otp)
  /\ UNCHANGED <<identity, phone, service, grounds, lost>>
  /\ Render(Done(c))

\* Only an outage, a token that lapsed and a number no code can be delivered to
\* are told apart; a 400 INVALID_REQUEST or a 5xx counts as accepted, too.
ReceiveRequest(c) ==
  /\ calls[c].phase = "answered" /\ calls[c].kind = "request"
  /\ \/ /\ calls[c].answer = "unavailable"
        /\ otp' = Otp("upstreamUnavailable")
        /\ UNCHANGED <<identity, token, grounds>>
     \/ /\ calls[c].answer = "expired"
        /\ otp' = Otp("idle") /\ token' = 0 /\ identity' = "expired"
        /\ UNCHANGED grounds
     \/ /\ calls[c].answer = "badPhone"
        /\ otp' = Otp("idle")
        /\ UNCHANGED <<identity, token, grounds>>
     \/ /\ calls[c].answer \in {"ok", "invalid", "error"}
        /\ otp' = OnRequestAccepted(otp)
        /\ grounds' = IF calls[c].answer = "ok" THEN Heard("sound") ELSE Heard("misread")
        /\ UNCHANGED <<identity, token>>
  /\ UNCHANGED <<phone, service, lost>>
  /\ Render(Done(c))

AfterVerify(a) ==
  CASE a = "ok"          -> Otp("verified")
    [] a = "unavailable" -> Otp("upstreamUnavailable")
    [] OTHER             -> OnSubmitRejected(otp)

\* Whatever is neither a session nor an outage is a wrong code to the page.
ReceiveVerify(c) ==
  /\ calls[c].phase = "answered" /\ calls[c].kind = "verify"
  /\ otp' = AfterVerify(calls[c].answer)
  /\ grounds' = IF calls[c].answer \in {"invalid", "error"} THEN Heard("misread") ELSE grounds
  /\ UNCHANGED <<identity, token, phone, service, lost>>
  /\ Render(Done(c))

Receive(c) == ReceiveIdentity(c) \/ ReceiveRequest(c) \/ ReceiveVerify(c)

\* fetch rejects: the handler throws at its await, and dispatches nothing.
Throw(c) ==
  /\ calls[c].phase # "idle"
  /\ lost' = TRUE
  /\ UNCHANGED <<page, service, grounds>>
  /\ Render(Done(c))

Serve(c) == ServeIdentity(c) \/ ServeRequest(c) \/ ServeVerify(c)

SignInNext ==
  \/ \E c \in Call :
       \/ ConfirmIdentity(c)
       \/ \E p \in Phone : RequestCode(c, p)
       \/ \E code \in Code : SubmitCode(c, code)
       \/ Serve(c) \/ ServeError(c) \/ Receive(c) \/ Throw(c)
  \/ Reset \/ Elapse \/ TickClock

SignInSpec == SignInInit /\ [][SignInNext]_signInVars

\* Calls are answered, answers are applied, time passes and the page ticks;
\* the citizen owes nothing.
FairSignInSpec ==
  /\ SignInSpec
  /\ \A c \in Call : WF_signInVars(Serve(c) \/ Receive(c))
  /\ WF_signInVars(Elapse) /\ WF_signInVars(TickClock)

----------------------------------------------------------------------------
(* Properties *)

\* A page that says step 1 is confirmed holds the token that says so, whatever
\* late answers and resets did to either (tokenRef and setIdentity are written
\* side by side in four handlers of useApplicantAuth); and until a reset leaves
\* a call in flight, it holds a token only while it says so.
ConfirmedHasToken ==
  /\ identity = "confirmed" => token # 0
  /\ grounds # "abandoned" /\ token # 0 => identity = "confirmed"

\* A page that says verified has had a code accepted, whichever call said so.
VerifiedIsBacked == otp.status = "verified" => sessions # {}

\* No call has been left without an answer.
NothingLost == ~lost

\* Since the last 202 the page has been told of nothing but codes that were checked
\* and outages (a 503 of the registry, which it does not charge).
Told == grounds = "sound"

\* Then the page's own count never runs behind the service's: a citizen invited
\* to type a code is not typing it against a locked challenge (otp-machine.ts:
\* "the server's per-challenge counter reset too").
BudgetIsTheServers ==
  Told /\ CanSubmit(otp) => challenge[token].checks <= otp.attempts

\* A citizen told that no attempt is left has had that many codes checked
\* (otp-machine.ts: "The server reached its cap at the same count").
LockedOutMeansChecked ==
  grounds # "abandoned" /\ otp.status = "attemptsExhausted" => challenge[token].checks = MaxAttempts

\* ... which holds of a page that took no 400 INVALID_REQUEST and no fault of ours
\* for the rejection of a code, or for the acceptance of a request.
LockoutIsTheServers == Told => LockedOutMeansChecked

\* Both of them: outages, retries, a new challenge after a lockout and earlier
\* answers that were misread never part the page's count of attempts from the
\* service's at the field or at the lockout, once a request has been answered 202
\* and until a 400 INVALID_REQUEST or a fault of ours is misread after it. (It is
\* not so without that: context.tsx:258-260 and 278, MCCitizenSignInLocked.cfg.)
CountsAgree == BudgetIsTheServers /\ LockoutIsTheServers

\* A code that was asked for is used, refused or expires: the clock, not the
\* citizen, drives the expiry (context.tsx), while every call is answered.
ExpiryIsDriven == Awaiting(otp) /\ NothingLost ~> ~(Awaiting(otp) /\ NothingLost)

\* No answered call leaves the page spinning for ever.
Spinning == NothingLost /\ (identity = "confirming" \/ otp.status = "requesting")
SpinnerEnds == Spinning ~> ~Spinning

=============================================================================
