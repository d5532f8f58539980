------------------------ MODULE CitizenSignInProofs ------------------------
(***************************************************************************)
(* What citizen sign-in never does, for any set of telephone numbers, any  *)
(* number of calls in flight, of tokens, of attempts and of faults.        *)
(*                                                                         *)
(* GrantsAreBacked holds whatever the answers do. Until a reset leaves a   *)
(* call behind, the page has one call at a time, and waits for it          *)
(* (OneCallAtATime). Then every 202 finds a challenge with nothing checked *)
(* yet (Fresh), and from there page and service count together until an    *)
(* answer is misread (CountedTogether).                                    *)
(***************************************************************************)
EXTENDS CitizenSignIn, TLAPS

Pending(c) == calls[c].phase # "idle"
AnsweredAs(c, kind, a) ==
  calls[c].phase = "answered" /\ calls[c].kind = kind /\ calls[c].answer = a

GrantsAreBacked ==
  /\ identity = "confirmed" => token # 0
  /\ \A c \in Call : AnsweredAs(c, "identity", "ok") => calls[c].issued # 0
  /\ otp.status = "verified" => sessions # {}
  /\ \A c \in Call : AnsweredAs(c, "verify", "ok") => sessions # {}

\* The call is the one the page waits for.
Awaited(c) ==
  /\ calls[c].kind = "identity" => identity = "confirming"
  /\ calls[c].kind = "request" => otp.status = "requesting"
  /\ calls[c].kind = "verify" => otp.status = "verifying"
  /\ calls[c].phase = "sent" /\ calls[c].kind # "identity" =>
       calls[c].token = token /\ calls[c].phone = phone

Together == grounds # "abandoned"

OneCallAtATime ==
  Together =>
    /\ identity # "confirmed" => token = 0 /\ otp.status = "idle"
    /\ \A c, d \in Call : Pending(c) /\ Pending(d) => c = d
    /\ \A c \in Call : Pending(c) => Awaited(c)

\* The challenge of the page's token has counted what the page has.
Counted ==
  /\ Awaiting(otp) => challenge[token].phone = phone /\ otp.attempts < MaxAttempts
  /\ CanSubmit(otp) => challenge[token].checks = otp.attempts
  /\ otp.status = "attemptsExhausted" => challenge[token].checks = MaxAttempts

\* The challenge a 202 under way speaks of.
Fresh(c) ==
  /\ calls[c].phase = "answered" => calls[c].answer # "none"
  /\ calls[c].phase = "answered" /\ calls[c].kind = "verify" =>
       calls[c].answer \notin {"expired", "badPhone"}
  /\ AnsweredAs(c, "request", "ok") => challenge[token] = [phone |-> phone, checks |-> 0]

\* What a code under way will make of the count.
CountedNext(c) ==
  /\ calls[c].phase = "sent" /\ calls[c].kind = "verify" => challenge[token].checks = otp.attempts
  /\ AnsweredAs(c, "verify", "refused") => challenge[token].checks = otp.attempts + 1

CountedTogether ==
  /\ Together => \A c \in Call : Fresh(c)
  /\ Told => Counted /\ \A c \in Call : CountedNext(c)

SInv == SignInTypeOK /\ GrantsAreBacked /\ OneCallAtATime /\ CountedTogether

-----------------------------------------------------------------------------
(* The page starts where the invariant holds.                              *)
THEOREM InitSInv == SignInInit => SInv
<1> SUFFICES ASSUME SignInInit PROVE SInv
  OBVIOUS
<1> USE SignInNumbers, SignInNames DEF SignInInit, Token, Otp, Idle
<1>1. SignInTypeOK
  <2>1. calls \in [Call -> CallState]
    BY DEF CallState, Answer, Code
  <2>2. otp \in OtpState
    BY DEF OtpState, OtpStatus
  <2>3. lost \in BOOLEAN
    BY Zenon
  <2>4. challenge \in [Token -> [phone : Phone \cup {NoPhone}, checks : 0..MaxAttempts]]
    BY DEF Token
  <2>5. issued \in 0..MaxTokens /\ grounds \in Grounds
    BY DEF Grounds
  <2> QED
    BY <2>1, <2>2, <2>3, <2>4, <2>5 DEF SignInTypeOK
<1>2. GrantsAreBacked
  BY DEF GrantsAreBacked, AnsweredAs
<1>3. OneCallAtATime
  BY DEF OneCallAtATime, Pending
<1>4. CountedTogether
  BY DEF CountedTogether, Counted, CountedNext, Fresh, AnsweredAs, Awaiting, CanSubmit
<1> QED
  BY <1>1, <1>2, <1>3, <1>4 DEF SInv

-----------------------------------------------------------------------------
(* What a step does to the calls, but for the forms it unmounts.           *)
Same(x, y) ==
  /\ y.phase = x.phase /\ y.kind = x.kind /\ y.token = x.token /\ y.phone = x.phone
  /\ y.code = x.code /\ y.answer = x.answer /\ y.issued = x.issued

LEMMA RenderEffect ==
  ASSUME NEW cs \in [Call -> CallState], Render(cs)
  PROVE  /\ calls' \in [Call -> CallState]
         /\ \A c \in Call : Same(cs[c], calls'[c])
<1>1. calls' = [c \in Call |-> [cs[c] EXCEPT !.live = @ /\ Shown(cs[c].kind, identity', otp')]]
  BY DEF Render
<1>2. \A c \in Call : (cs[c].live /\ Shown(cs[c].kind, identity', otp')) \in BOOLEAN
  BY Zenon
<1> DEFINE shown(c) == cs[c].live /\ Shown(cs[c].kind, identity', otp')
<1>3. ASSUME NEW c \in Call
      PROVE  /\ [cs[c] EXCEPT !.live = shown(c)] \in CallState
             /\ Same(cs[c], [cs[c] EXCEPT !.live = shown(c)])
  <2>1. shown(c) \in BOOLEAN /\ cs[c] \in CallState
    BY <1>2
  <2> HIDE DEF shown
  <2>2. [cs[c] EXCEPT !.live = shown(c)] \in CallState
    BY <2>1 DEF CallState
  <2>3. Same(cs[c], [cs[c] EXCEPT !.live = shown(c)])
    BY <2>1 DEF CallState, Same
  <2> QED
    BY <2>2, <2>3
<1>4. calls' = [c \in Call |-> [cs[c] EXCEPT !.live = shown(c)]]
  BY <1>1
<1> HIDE DEF shown
<1> QED
  BY <1>3, <1>4

\* A call that was idle is under way, and nothing else has changed.
Sent(c, kind, t, p) ==
  /\ calls' \in [Call -> CallState]
  /\ ~Pending(c)
  /\ calls'[c].phase = "sent" /\ calls'[c].kind = kind /\ calls'[c].answer = "none"
  /\ calls'[c].token = t /\ calls'[c].phone = p
  /\ \A d \in Call : d # c => Same(calls[d], calls'[d])

LEMMA SendEffect ==
  ASSUME calls \in [Call -> CallState], NEW c \in Call,
         NEW kind \in {"identity", "request", "verify"}, NEW t \in Token \cup {0},
         NEW p \in Phone \cup {NoPhone}, NEW code \in Code, Send(c, kind, t, p, code)
  PROVE  Sent(c, kind, t, p)
<1> DEFINE sent == [Idle EXCEPT !.phase = "sent", !.kind = kind, !.token = t,
                                !.phone = p, !.code = code, !.live = TRUE]
           cs == [calls EXCEPT ![c] = sent]
<1>0. TRUE \in BOOLEAN
  BY Zenon
<1>1. sent \in CallState
  BY <1>0 DEF Idle, CallState, Answer, Code
<1>2. cs \in [Call -> CallState] /\ cs[c] = sent /\ \A d \in Call : d # c => cs[d] = calls[d]
  BY <1>1
<1>3. calls[c].phase = "idle" /\ Render(cs)
  BY DEF Send
<1> HIDE DEF cs
<1>4. calls' \in [Call -> CallState] /\ \A d \in Call : Same(cs[d], calls'[d])
  BY <1>2, <1>3, RenderEffect
<1>5. /\ sent.phase = "sent" /\ sent.kind = kind /\ sent.answer = "none"
      /\ sent.token = t /\ sent.phone = p
  BY DEF Idle
<1> HIDE DEF sent
<1>6. /\ calls'[c].phase = "sent" /\ calls'[c].kind = kind /\ calls'[c].answer = "none"
      /\ calls'[c].token = t /\ calls'[c].phone = p
  BY <1>2, <1>4, <1>5 DEF Same
<1> QED
  BY <1>2, <1>3, <1>4, <1>6 DEF Pending, Sent

LEMMA PressEffect ==
  ASSUME SignInTypeOK, NEW c \in Call
  PROVE  /\ ConfirmIdentity(c) => Sent(c, "identity", 0, NoPhone)
         /\ \A p \in Phone : RequestCode(c, p) => Sent(c, "request", token, p)
         /\ \A code \in Code : SubmitCode(c, code) => Sent(c, "verify", token, phone)
<1> USE DEF SignInTypeOK
<1>1. ASSUME ConfirmIdentity(c) PROVE Sent(c, "identity", 0, NoPhone)
  <2>1. Send(c, "identity", 0, NoPhone, "blank")
    BY <1>1, Zenon DEF ConfirmIdentity
  <2> QED
    BY <2>1, SendEffect DEF Code
<1>2. ASSUME NEW p \in Phone, RequestCode(c, p) PROVE Sent(c, "request", token, p)
  <2>1. Send(c, "request", token, p, "blank")
    BY <1>2, Zenon DEF RequestCode
  <2> QED
    BY <2>1, SendEffect DEF Code
<1>3. ASSUME NEW code \in Code, SubmitCode(c, code) PROVE Sent(c, "verify", token, phone)
  <2>1. Send(c, "verify", token, phone, code)
    BY <1>3, Zenon DEF SubmitCode
  <2> QED
    BY <2>1, SendEffect
<1> QED
  BY <1>1, <1>2, <1>3, Zenon

LEMMA DoneEffect ==
  ASSUME calls \in [Call -> CallState], NEW c \in Call, Render(Done(c))
  PROVE  /\ calls' \in [Call -> CallState]
         /\ calls'[c].phase = "idle" /\ calls'[c].answer = "none"
         /\ \A d \in Call : d # c => Same(calls[d], calls'[d])
<1>0. FALSE \in BOOLEAN
  BY Zenon
<1>1. Idle \in CallState
  BY <1>0 DEF Idle, CallState, Answer, Code
<1>2. /\ Done(c) \in [Call -> CallState] /\ Done(c)[c] = Idle
      /\ \A d \in Call : d # c => Done(c)[d] = calls[d]
  BY <1>1 DEF Done
<1>3. calls' \in [Call -> CallState] /\ \A d \in Call : Same(Done(c)[d], calls'[d])
  BY <1>2, RenderEffect
<1> QED
  BY <1>2, <1>3 DEF Same, Idle

\* An answer of the edge: one call changes, in what was answered.
LEMMA AnsweredEffect ==
  ASSUME calls \in [Call -> CallState], NEW c \in Call, NEW a \in Answer, Answered(c, a)
  PROVE  /\ calls' \in [Call -> CallState]
         /\ calls'[c].phase = "answered" /\ calls'[c].answer = a
         /\ calls'[c].kind = calls[c].kind /\ calls'[c].issued = calls[c].issued
         /\ \A d \in Call : d # c => calls'[d] = calls[d]
<1> DEFINE new == [calls[c] EXCEPT !.phase = "answered", !.answer = a,
                                   !.code = "blank", !.token = 0, !.phone = NoPhone]
<1>1. calls' = [calls EXCEPT ![c] = new]
  BY DEF Answered
<1>2. "blank" \in Code /\ "answered" \in {"idle", "sent", "answered"}
  BY DEF Code
<1>3. new \in CallState
  BY <1>2 DEF CallState
<1>4. /\ new.phase = "answered" /\ new.answer = a
      /\ new.kind = calls[c].kind /\ new.issued = calls[c].issued
  BY <1>2 DEF CallState
<1> HIDE DEF new
<1> QED
  BY <1>1, <1>3, <1>4

LEMMA OtpType ==
  /\ \A s \in OtpStatus : Otp(s) \in OtpState
  /\ \A o \in OtpState : /\ OnRequestAccepted(o) \in OtpState
                         /\ OnSubmit(o) \in OtpState
                         /\ OnSubmitRejected(o) \in OtpState
                         /\ OnTick(o) \in OtpState
<1> USE SignInNumbers DEF OtpState, OtpStatus
<1>1. \A s \in OtpStatus : Otp(s) \in OtpState
  BY DEF Otp
<1> SUFFICES ASSUME NEW o \in OtpState
             PROVE  /\ OnRequestAccepted(o) \in OtpState /\ OnSubmit(o) \in OtpState
                    /\ OnSubmitRejected(o) \in OtpState /\ OnTick(o) \in OtpState
  BY <1>1
<1>2. OnRequestAccepted(o) \in OtpState
  BY DEF OnRequestAccepted
<1>3. OnSubmit(o) \in OtpState
  BY DEF OnSubmit
<1>4. OnSubmitRejected(o) \in OtpState
  <2>1. [Otp("attemptsExhausted") EXCEPT !.subject = o.subject] \in OtpState
    BY DEF Otp
  <2>2. ASSUME ~(o.attempts + 1 >= MaxAttempts)
        PROVE  [o EXCEPT !.status = "rejected", !.attempts = @ + 1] \in OtpState
    <3>1. o.attempts + 1 \in 0..MaxAttempts
      BY <2>2
    <3> QED
      BY <3>1
  <2> QED
    BY <2>1, <2>2 DEF OnSubmitRejected
<1>5. OnTick(o) \in OtpState
  BY DEF OnTick, Otp
<1> QED
  BY <1>2, <1>3, <1>4, <1>5

LEMMA AfterVerifyType ==
  ASSUME otp \in OtpState, NEW a PROVE AfterVerify(a) \in OtpState
BY OtpType DEF AfterVerify, OtpStatus

(* A call answered with a token is still a call.                           *)
LEMMA GrantedType ==
  ASSUME NEW s \in CallState, NEW k \in Token
  PROVE  [s EXCEPT !.phase = "answered", !.answer = "ok", !.issued = k] \in CallState
<1>1. "ok" \in Answer /\ k \in Token \cup {0}
  BY DEF Answer
<1> HIDE DEF Answer
<1> QED
  BY <1>1 DEF CallState

-----------------------------------------------------------------------------
(* Every step keeps the types of the variables.                            *)
LEMMA TypeStep == SignInTypeOK /\ [SignInNext]_signInVars => SignInTypeOK'
<1> SUFFICES ASSUME SignInTypeOK, [SignInNext]_signInVars PROVE SignInTypeOK'
  OBVIOUS
<1> USE SignInNumbers, SignInNames DEF SignInTypeOK, page, service
<1>1. ASSUME NEW c \in Call, ConfirmIdentity(c) PROVE SignInTypeOK'
  BY <1>1, PressEffect DEF ConfirmIdentity, Sent
<1>2. ASSUME NEW c \in Call, NEW p \in Phone, RequestCode(c, p) PROVE SignInTypeOK'
  <2>1. Otp("requesting") \in OtpState
    BY OtpType DEF OtpStatus
  <2> QED
    BY <1>2, <2>1, PressEffect DEF RequestCode, Sent
<1>3. ASSUME NEW c \in Call, NEW code \in Code, SubmitCode(c, code) PROVE SignInTypeOK'
  <2>1. Sent(c, "verify", token, phone)
    BY <1>3, PressEffect, Zenon
  <2> QED
    BY <1>3, <2>1, OtpType DEF SubmitCode, Sent
<1>4. ASSUME NEW c \in Call, ServeIdentity(c) PROVE SignInTypeOK'
  <2>1. CASE issued < MaxTokens /\ issued' = issued + 1 /\
             calls' = [calls EXCEPT ![c].phase = "answered", ![c].answer = "ok",
                                    ![c].issued = issued + 1]
    <3>1. issued + 1 \in Token
      BY <2>1 DEF Token
    <3> DEFINE granted == [calls[c] EXCEPT !.phase = "answered", !.answer = "ok",
                                           !.issued = issued + 1]
    <3>2. granted \in CallState
      <4>1. \A s \in CallState, k \in Token :
               [s EXCEPT !.phase = "answered", !.answer = "ok", !.issued = k] \in CallState
        BY GrantedType
      <4>2. calls[c] \in CallState
        OBVIOUS
      <4> QED
        BY <3>1, <4>1, <4>2, Zenon
    <3>3. calls' = [calls EXCEPT ![c] = granted]
      BY <2>1
    <3>4. calls' \in [Call -> CallState]
      BY <3>2, <3>3
    <3> QED
      BY <1>4, <2>1, <3>4 DEF ServeIdentity
  <2>2. CASE UNCHANGED issued /\ \E a \in {"refused", "unavailable"} : Answered(c, a)
    <3>1. calls' \in [Call -> CallState]
      BY <2>2, AnsweredEffect DEF Answer
    <3> QED
      BY <1>4, <2>2, <3>1 DEF ServeIdentity
  <2> QED
    BY <1>4, <2>1, <2>2 DEF ServeIdentity
<1>5. ASSUME NEW c \in Call, ServeRequest(c) PROVE SignInTypeOK'
  <2>1. calls' \in [Call -> CallState]
    BY <1>5, AnsweredEffect DEF ServeRequest, Answer
  <2>2. challenge' \in [Token -> [phone : Phone \cup {NoPhone}, checks : 0..MaxAttempts]]
    BY <1>5 DEF ServeRequest, CallState
  <2> QED
    BY <1>5, <2>1, <2>2 DEF ServeRequest
<1>6. ASSUME NEW c \in Call, ServeVerify(c) PROVE SignInTypeOK'
  <2>1. calls' \in [Call -> CallState]
    BY <1>6, AnsweredEffect DEF ServeVerify, Answer
  <2>2. challenge' \in [Token -> [phone : Phone \cup {NoPhone}, checks : 0..MaxAttempts]]
    BY <1>6 DEF ServeVerify, CallState
  <2>3. sessions' \subseteq Token
    <3>1. calls[c].token \in Token \cup {0}
      BY DEF CallState
    <3>2. \/ sessions' = sessions
          \/ Formed(c) /\ sessions' = sessions \cup {calls[c].token}
      BY <1>6 DEF ServeVerify
    <3>3. Formed(c) => calls[c].token # 0
      BY Zenon DEF Formed
    <3> QED
      BY <3>1, <3>2, <3>3
  <2> QED
    BY <1>6, <2>1, <2>2, <2>3 DEF ServeVerify
<1>7. ASSUME NEW c \in Call, ServeError(c) PROVE SignInTypeOK'
  BY <1>7, AnsweredEffect DEF ServeError, Answer
<1>8. ASSUME NEW c \in Call, ReceiveIdentity(c) PROVE SignInTypeOK'
  BY <1>8, DoneEffect DEF ReceiveIdentity, CallState
<1>9. ASSUME NEW c \in Call, ReceiveRequest(c) PROVE SignInTypeOK'
  <2>1. otp' \in OtpState
    BY <1>9, OtpType DEF ReceiveRequest, OtpStatus
  <2>2. grounds' \in Grounds
    BY <1>9 DEF ReceiveRequest, Heard, Grounds
  <2> QED
    BY <1>9, <2>1, <2>2, DoneEffect DEF ReceiveRequest
<1>10. ASSUME NEW c \in Call, ReceiveVerify(c) PROVE SignInTypeOK'
  <2>1. grounds' \in Grounds
    BY <1>10 DEF ReceiveVerify, Heard, Grounds
  <2> QED
    BY <1>10, <2>1, AfterVerifyType, DoneEffect DEF ReceiveVerify
<1>11. ASSUME NEW c \in Call, Throw(c) PROVE SignInTypeOK'
  <2>1. lost' \in BOOLEAN
    BY <1>11, Zenon DEF Throw
  <2> QED
    BY <1>11, <2>1, DoneEffect DEF Throw
<1>12. CASE Reset
  <2>1. calls' \in [Call -> CallState]
    BY <1>12, RenderEffect DEF Reset
  <2>2. grounds' \in Grounds
    BY <1>12 DEF Reset, Grounds
  <2>3. otp' \in OtpState
    BY <1>12, OtpType DEF Reset, OtpStatus
  <2> QED
    BY <1>12, <2>1, <2>2, <2>3 DEF Reset
<1>13. CASE Elapse
  BY <1>13 DEF Elapse, OtpState
<1>14. CASE TickClock
  BY <1>14, RenderEffect, OtpType DEF TickClock
<1>15. CASE UNCHANGED signInVars
  BY <1>15 DEF signInVars
<1> QED
  BY <1>1, <1>2, <1>3, <1>4, <1>5, <1>6, <1>7, <1>8, <1>9, <1>10, <1>11, <1>12, <1>13, <1>14, <1>15
  DEF SignInNext, Serve, Receive

-----------------------------------------------------------------------------
(* A grant is backed: the call that brings it was granted by the service.  *)
LEMMA GrantsStep ==
  ASSUME SignInTypeOK, GrantsAreBacked, [SignInNext]_signInVars
  PROVE  GrantsAreBacked'
<1> USE DEF SignInTypeOK, GrantsAreBacked, AnsweredAs, page, service
<1>1. ASSUME NEW c \in Call, ConfirmIdentity(c) PROVE GrantsAreBacked'
  <2>1. Sent(c, "identity", 0, NoPhone)
    BY <1>1, PressEffect, Zenon
  <2> QED
    BY <1>1, <2>1 DEF ConfirmIdentity, Sent, Same
<1>2. ASSUME NEW c \in Call, NEW p \in Phone, RequestCode(c, p) PROVE GrantsAreBacked'
  <2>1. Sent(c, "request", token, p)
    BY <1>2, PressEffect, Zenon
  <2> QED
    BY <1>2, <2>1 DEF RequestCode, Sent, Same, Otp
<1>3. ASSUME NEW c \in Call, NEW code \in Code, SubmitCode(c, code) PROVE GrantsAreBacked'
  <2>1. Sent(c, "verify", token, phone)
    BY <1>3, PressEffect, Zenon
  <2>2. otp'.status = "verifying"
    BY <1>3 DEF SubmitCode, OnSubmit, OtpState
  <2> QED
    BY <1>3, <2>1, <2>2 DEF SubmitCode, Sent, Same
<1>4. ASSUME NEW c \in Call, ServeIdentity(c) PROVE GrantsAreBacked'
  <2>1. UNCHANGED <<identity, otp, token, sessions>> /\ calls[c].kind = "identity"
    BY <1>4 DEF ServeIdentity
  <2>2. /\ \A d \in Call : d # c => calls'[d] = calls[d]
        /\ calls'[c].kind = "identity"
        /\ calls'[c].answer = "ok" => calls'[c].issued = issued + 1
    BY <1>4 DEF ServeIdentity, Answered, CallState
  <2> QED
    BY <2>1, <2>2, SignInNumbers
<1>5. ASSUME NEW c \in Call, ServeRequest(c) PROVE GrantsAreBacked'
  <2>1. UNCHANGED <<identity, otp, token, sessions>> /\ calls[c].kind = "request"
    BY <1>5 DEF ServeRequest
  <2>2. calls'[c].kind = "request" /\ \A d \in Call : d # c => calls'[d] = calls[d]
    BY <1>5, AnsweredEffect DEF ServeRequest, Answer
  <2> QED
    BY <2>1, <2>2
<1>6. ASSUME NEW c \in Call, ServeVerify(c) PROVE GrantsAreBacked'
  <2>1. UNCHANGED <<identity, otp, token>> /\ calls[c].kind = "verify"
    BY <1>6 DEF ServeVerify
  <2>2. /\ calls'[c].kind = "verify" /\ \A d \in Call : d # c => calls'[d] = calls[d]
        /\ calls'[c].answer = "ok" => sessions' # {}
        /\ sessions \subseteq sessions'
    BY <1>6, AnsweredEffect DEF ServeVerify, Answer
  <2> QED
    BY <2>1, <2>2
<1>7. ASSUME NEW c \in Call, ServeError(c) PROVE GrantsAreBacked'
  <2>1. calls'[c].answer = "error" /\ \A d \in Call : d # c => calls'[d] = calls[d]
    BY <1>7, AnsweredEffect DEF ServeError, Answer
  <2> QED
    BY <1>7, <2>1 DEF ServeError
<1>8. ASSUME NEW c \in Call, ReceiveIdentity(c) PROVE GrantsAreBacked'
  BY <1>8, DoneEffect DEF ReceiveIdentity, Same
<1>9. ASSUME NEW c \in Call, ReceiveRequest(c) PROVE GrantsAreBacked'
  BY <1>9, DoneEffect DEF ReceiveRequest, Same, Otp, OnRequestAccepted
<1>10. ASSUME NEW c \in Call, ReceiveVerify(c) PROVE GrantsAreBacked'
  <2>1. otp'.status = "verified" => calls[c].answer = "ok" \/ otp.status = "verified"
    BY <1>10 DEF ReceiveVerify, AfterVerify, Otp, OnSubmitRejected, OtpState
  <2> QED
    BY <1>10, <2>1, DoneEffect DEF ReceiveVerify, Same
<1>11. ASSUME NEW c \in Call, Throw(c) PROVE GrantsAreBacked'
  BY <1>11, DoneEffect DEF Throw, Same
<1>12. CASE Reset
  BY <1>12, RenderEffect DEF Reset, Same, Otp
<1>13. CASE Elapse
  BY <1>13 DEF Elapse, OtpState
<1>14. CASE TickClock
  BY <1>14, RenderEffect DEF TickClock, OnTick, Same, Otp
<1>15. CASE UNCHANGED signInVars
  BY <1>15 DEF signInVars
<1> QED
  BY <1>1, <1>2, <1>3, <1>4, <1>5, <1>6, <1>7, <1>8, <1>9, <1>10, <1>11, <1>12, <1>13, <1>14, <1>15
  DEF SignInNext, Serve, Receive

-----------------------------------------------------------------------------
(* Until a reset leaves a call behind, the page has one call at a time.    *)

\* Nothing can be pressed while a call is awaited.
LEMMA NothingPending ==
  ASSUME SignInTypeOK, OneCallAtATime, Together,
         \/ identity \notin {"confirming", "confirmed"}
         \/ identity # "confirming" /\ otp.status \notin {"requesting", "verifying"},
         NEW c \in Call
  PROVE  ~Pending(c)
<1> SUFFICES ASSUME Pending(c) PROVE FALSE
  OBVIOUS
<1>1. Awaited(c)
  BY DEF OneCallAtATime
<1>2. calls[c].kind \in {"identity", "request", "verify"}
  BY DEF SignInTypeOK, CallState
<1>3. identity # "confirmed" => otp.status = "idle"
  BY DEF OneCallAtATime
<1> QED
  BY <1>1, <1>2, <1>3 DEF Awaited

\* A call pressed while nothing is pending is the only one.
LEMMA SentAlone ==
  ASSUME NEW c \in Call, NEW kind, NEW t, NEW p, Sent(c, kind, t, p),
         \A d \in Call : ~Pending(d)
  PROVE  \A d \in Call : Pending(d)' => d = c
BY DEF Sent, Same, Pending

\* A call that ends, while it is the only one, leaves none.
LEMMA DoneAlone ==
  ASSUME calls \in [Call -> CallState], OneCallAtATime, Together,
         NEW c \in Call, Pending(c), Render(Done(c))
  PROVE  \A d \in Call : ~Pending(d)'
<1>1. /\ calls'[c].phase = "idle"
      /\ \A d \in Call : d # c => Same(calls[d], calls'[d])
  BY DoneEffect
<1>2. \A d \in Call : d # c => ~Pending(d)
  BY DEF OneCallAtATime
<1> QED
  BY <1>1, <1>2 DEF Pending, Same

\* What a step that answers a call changes.
LEMMA ServeEffect ==
  ASSUME calls \in [Call -> CallState], NEW c \in Call, Serve(c) \/ ServeError(c)
  PROVE  /\ UNCHANGED <<identity, otp, token, phone, grounds, lost>>
         /\ Pending(c) /\ \A d \in Call : d # c => calls'[d] = calls[d]
         /\ calls'[c].kind = calls[c].kind /\ calls'[c].phase = "answered"
         /\ calls'[c].answer # "none"
<1>1. CASE ServeIdentity(c) /\ calls' = [calls EXCEPT ![c].phase = "answered", ![c].answer = "ok",
                                                     ![c].issued = issued + 1]
  <2>1. calls[c].kind = calls'[c].kind /\ calls'[c].phase = "answered" /\ calls'[c].answer # "none"
    BY <1>1 DEF CallState
  <2> QED
    BY <1>1, <2>1 DEF ServeIdentity, Pending, page
<1>2. ASSUME NEW a \in Answer \ {"none"}, Answered(c, a)
      PROVE  /\ \A d \in Call : d # c => calls'[d] = calls[d]
             /\ calls'[c].kind = calls[c].kind /\ calls'[c].phase = "answered"
             /\ calls'[c].answer # "none"
  BY <1>2, AnsweredEffect
<1>3. /\ UNCHANGED <<identity, otp, token, phone, grounds, lost>>
      /\ Pending(c)
  BY DEF Serve, ServeIdentity, ServeRequest, ServeVerify, ServeError, Pending, page
<1>4. {"ok", "refused", "expired", "badPhone", "invalid", "unavailable", "error"} = Answer \ {"none"}
  BY DEF Answer
<1>5. \/ ServeIdentity(c) /\ calls' = [calls EXCEPT ![c].phase = "answered", ![c].answer = "ok",
                                                    ![c].issued = issued + 1]
      \/ \E a \in {"ok", "refused", "expired", "badPhone", "invalid", "unavailable", "error"} :
            Answered(c, a)
  BY Zenon DEF Serve, ServeIdentity, ServeRequest, ServeVerify, ServeError
<1> QED
  BY <1>1, <1>2, <1>3, <1>4, <1>5

\* A call left behind is never forgotten.
LEMMA TogetherStays ==
  ASSUME [SignInNext]_signInVars, Together'
  PROVE  Together
<1> DEFINE Kept == \/ grounds' = grounds \/ grounds' = "abandoned"
                   \/ grounds' = Heard("sound") \/ grounds' = Heard("misread")
<1>2. ASSUME NEW c \in Call, Serve(c) \/ ServeError(c) \/ Receive(c) \/ Throw(c) PROVE Kept
  BY <1>2 DEF Serve, ServeIdentity, ServeRequest, ServeVerify, ServeError,
              Receive, ReceiveIdentity, ReceiveRequest, ReceiveVerify, Throw
<1>3. ASSUME NEW c \in Call,
             \/ ConfirmIdentity(c)
             \/ \E p \in Phone : RequestCode(c, p)
             \/ \E code \in Code : SubmitCode(c, code)
      PROVE  Kept
  BY <1>3 DEF ConfirmIdentity, RequestCode, SubmitCode
<1>4. ASSUME Reset \/ Elapse \/ TickClock PROVE Kept
  BY <1>4 DEF Reset, Elapse, TickClock
<1>1. Kept
  BY <1>2, <1>3, <1>4 DEF SignInNext, signInVars
<1> QED
  BY <1>1 DEF Together, Heard

LEMMA OneCallStep ==
  ASSUME SignInTypeOK, OneCallAtATime, [SignInNext]_signInVars
  PROVE  OneCallAtATime'
<1> SUFFICES ASSUME Together'
             PROVE  /\ identity' # "confirmed" => token' = 0 /\ otp'.status = "idle"
                    /\ \A c, d \in Call : Pending(c)' /\ Pending(d)' => c = d
                    /\ \A c \in Call : Pending(c)' => Awaited(c)'
  BY DEF OneCallAtATime
<1> DEFINE Goal == /\ identity' # "confirmed" => token' = 0 /\ otp'.status = "idle"
                   /\ \A c, d \in Call : Pending(c)' /\ Pending(d)' => c = d
                   /\ \A c \in Call : Pending(c)' => Awaited(c)'
<1>0. Together
  BY TogetherStays
<1>i. /\ identity # "confirmed" => token = 0 /\ otp.status = "idle"
      /\ \A c, d \in Call : Pending(c) /\ Pending(d) => c = d
      /\ \A c \in Call : Pending(c) => Awaited(c)
  BY <1>0 DEF OneCallAtATime
<1>t. /\ calls \in [Call -> CallState] /\ otp \in OtpState
      /\ \A c \in Call : calls[c].kind \in {"identity", "request", "verify"}
  BY DEF SignInTypeOK, CallState
<1>1. ASSUME NEW c \in Call, ConfirmIdentity(c) PROVE Goal
  <2>1. identity \notin {"confirming", "confirmed"}
    BY <1>1 DEF ConfirmIdentity, MayPress, Shown
  <2>2. Sent(c, "identity", 0, NoPhone)
    BY <1>1, PressEffect, Zenon
  <2>3. \A d \in Call : Pending(d)' => d = c
    BY <1>0, <2>1, <2>2, NothingPending, SentAlone
  <2>4. token' = 0 /\ otp'.status = "idle" /\ identity' = "confirming"
    BY <1>1, <1>i, <2>1 DEF ConfirmIdentity
  <2> QED
    BY <2>2, <2>3, <2>4 DEF Awaited, Sent
<1>2. ASSUME NEW c \in Call, NEW p \in Phone, RequestCode(c, p) PROVE Goal
  <2>1. identity = "confirmed" /\ otp.status \notin {"requesting", "verifying"}
    BY <1>2 DEF RequestCode, MayPress, Shown, Awaiting
  <2>2. Sent(c, "request", token, p)
    BY <1>2, PressEffect, Zenon
  <2>3. \A d \in Call : Pending(d)' => d = c
    BY <1>0, <2>1, <2>2, NothingPending, SentAlone
  <2>4. UNCHANGED <<identity, token>> /\ otp'.status = "requesting" /\ phone' = p
    BY <1>2 DEF RequestCode, Otp
  <2> QED
    BY <2>1, <2>2, <2>3, <2>4 DEF Awaited, Sent
<1>3. ASSUME NEW c \in Call, NEW code \in Code, SubmitCode(c, code) PROVE Goal
  <2>1. otp.status \in {"challenged", "rejected"}
    BY <1>3 DEF SubmitCode, CanSubmit
  <2>2. Sent(c, "verify", token, phone)
    BY <1>3, PressEffect, Zenon
  <2>3. identity = "confirmed"
    BY <1>i, <2>1
  <2>4. \A d \in Call : Pending(d)' => d = c
    BY <1>0, <2>1, <2>2, <2>3, NothingPending, SentAlone
  <2>5. UNCHANGED <<identity, token, phone>> /\ otp'.status = "verifying"
    BY <1>3, <1>t DEF SubmitCode, OnSubmit, OtpState
  <2> QED
    BY <2>2, <2>3, <2>4, <2>5 DEF Awaited, Sent
<1>4. ASSUME NEW c \in Call, Serve(c) \/ ServeError(c) PROVE Goal
  <2>1. /\ UNCHANGED <<identity, otp, token, phone>> /\ Pending(c)
        /\ \A d \in Call : d # c => calls'[d] = calls[d]
        /\ calls'[c].kind = calls[c].kind /\ calls'[c].phase = "answered"
    BY <1>4, <1>t, ServeEffect
  <2> QED
    BY <1>i, <2>1 DEF Awaited, Pending
<1>5. ASSUME NEW c \in Call, Receive(c) \/ Throw(c) PROVE Goal
  <2>1. Pending(c) /\ Render(Done(c))
    BY <1>5 DEF Receive, ReceiveIdentity, ReceiveRequest, ReceiveVerify, Throw, Pending
  <2>2. \A d \in Call : ~Pending(d)'
    BY <1>0, <1>t, <2>1, DoneAlone
  <2>3. Awaited(c)
    BY <1>i, <2>1
  <2>4. identity' # "confirmed" => token' = 0 /\ otp'.status = "idle"
    <3>1. CASE ReceiveIdentity(c)
      BY <1>i, <2>3, <3>1 DEF ReceiveIdentity, Awaited
    <3>2. CASE ReceiveRequest(c)
      <4>1. identity = "confirmed"
        BY <1>i, <2>3, <3>2 DEF ReceiveRequest, Awaited
      <4> QED
        BY <3>2, <4>1 DEF ReceiveRequest, Otp
    <3>3. CASE ReceiveVerify(c)
      BY <1>i, <2>3, <3>3 DEF ReceiveVerify, Awaited
    <3>4. CASE Throw(c)
      BY <1>i, <3>4 DEF Throw, page
    <3> QED
      BY <1>5, <3>1, <3>2, <3>3, <3>4 DEF Receive
  <2> QED
    BY <2>2, <2>4
<1>6. CASE Reset
  <2>1. \A c \in Call : ~Pending(c)
    BY <1>6 DEF Reset, Together, Pending
  <2>2. \A c \in Call : ~Pending(c)'
    BY <1>6, <1>t, <2>1, RenderEffect DEF Reset, Pending, Same
  <2> QED
    BY <1>6, <2>2 DEF Reset, Otp
<1>7. CASE Elapse
  BY <1>7, <1>i, <1>t DEF Elapse, Pending, Awaited, OtpState
<1>8. CASE TickClock
  <2>1. otp.status \in {"challenged", "rejected"}
    BY <1>8 DEF TickClock, OnTick, CanSubmit
  <2>2. identity = "confirmed"
    BY <1>i, <2>1
  <2>3. \A c \in Call : ~Pending(c)
    BY <1>0, <2>1, <2>2, NothingPending
  <2>4. \A c \in Call : ~Pending(c)'
    BY <1>8, <1>t, <2>3, RenderEffect DEF TickClock, Pending, Same
  <2> QED
    BY <1>8, <2>2, <2>4 DEF TickClock
<1>9. CASE UNCHANGED signInVars
  BY <1>9, <1>i DEF signInVars, page, Pending, Awaited
<1> QED
  BY <1>1, <1>2, <1>3, <1>4, <1>5, <1>6, <1>7, <1>8, <1>9 DEF SignInNext

-----------------------------------------------------------------------------
(* A 202 speaks of a challenge with nothing checked; from there page and   *)
(* service count together until an answer is misread.                      *)

\* A call that is not answered says nothing of a challenge, and one that is
\* no longer pending nothing of the count.
LEMMA QuietCounts ==
  ASSUME NEW c \in Call
  PROVE  /\ calls'[c].phase # "answered" => Fresh(c)'
         /\ ~Pending(c)' => Fresh(c)' /\ CountedNext(c)'
BY DEF Fresh, CountedNext, Pending, AnsweredAs

\* A press while nothing is pending leaves one call, not yet answered.
LEMMA PressAlone ==
  ASSUME SignInTypeOK, OneCallAtATime, Together, NEW c \in Call,
         \/ ConfirmIdentity(c)
         \/ \E p \in Phone : RequestCode(c, p)
         \/ \E code \in Code : SubmitCode(c, code)
  PROVE  /\ \A d \in Call : d # c => ~Pending(d)'
         /\ calls'[c].phase = "sent"
<1>1. \/ identity \notin {"confirming", "confirmed"}
      \/ identity # "confirming" /\ otp.status \notin {"requesting", "verifying"}
  BY DEF ConfirmIdentity, RequestCode, SubmitCode, MayPress, Shown, Awaiting, CanSubmit,
         OneCallAtATime
<1>2. \A d \in Call : ~Pending(d)
  BY <1>1, NothingPending
<1>3. \E kind, t, p : Sent(c, kind, t, p)
  BY PressEffect, Zenon
<1>4. calls'[c].phase = "sent"
  BY <1>3 DEF Sent
<1> QED
  BY <1>2, <1>3, <1>4, SentAlone

\* Nothing is pending after a call ends, a reset that leaves none, or a tick
\* that has the challenge expire.
LEMMA NonePendingAfter ==
  ASSUME SignInTypeOK, OneCallAtATime, Together, Together',
         (\E c \in Call : Receive(c) \/ Throw(c)) \/ Reset \/ TickClock
  PROVE  \A d \in Call : ~Pending(d)'
<1>t. calls \in [Call -> CallState]
  BY DEF SignInTypeOK
<1>1. ASSUME NEW c \in Call, Receive(c) \/ Throw(c) PROVE \A d \in Call : ~Pending(d)'
  <2>1. Pending(c) /\ Render(Done(c))
    BY <1>1 DEF Receive, ReceiveIdentity, ReceiveRequest, ReceiveVerify, Throw, Pending
  <2> QED
    BY <1>t, <2>1, DoneAlone
<1>2. CASE Reset
  <2>1. \A c \in Call : ~Pending(c)
    BY <1>2 DEF Reset, Together, Pending
  <2> QED
    BY <1>2, <1>t, <2>1, RenderEffect DEF Reset, Pending, Same
<1>3. CASE TickClock
  <2>1. otp.status \in {"challenged", "rejected"}
    BY <1>3 DEF TickClock, OnTick, CanSubmit
  <2>2. identity = "confirmed"
    BY <2>1 DEF OneCallAtATime
  <2>3. \A c \in Call : ~Pending(c)
    BY <2>1, <2>2, NothingPending
  <2> QED
    BY <1>3, <1>t, <2>3, RenderEffect DEF TickClock, Pending, Same
<1> QED
  BY <1>1, <1>2, <1>3

LEMMA FreshStep ==
  ASSUME SignInTypeOK, OneCallAtATime, CountedTogether, [SignInNext]_signInVars, Together'
  PROVE  \A c \in Call : Fresh(c)'
<1>0. Together
  BY TogetherStays
<1>t. /\ calls \in [Call -> CallState] /\ token \in Token \cup {0}
      /\ challenge \in [Token -> [phone : Phone \cup {NoPhone}, checks : 0..MaxAttempts]]
  BY DEF SignInTypeOK
<1>f. \A c \in Call : Fresh(c)
  BY <1>0 DEF CountedTogether
<1>1. ASSUME NEW c \in Call,
             \/ ConfirmIdentity(c)
             \/ \E p \in Phone : RequestCode(c, p)
             \/ \E code \in Code : SubmitCode(c, code)
      PROVE  \A d \in Call : Fresh(d)'
  <2>1. /\ \A d \in Call : d # c => ~Pending(d)'
        /\ calls'[c].phase = "sent"
    BY <1>0, <1>1, PressAlone
  <2> QED
    BY <2>1, QuietCounts
<1>2. ASSUME NEW c \in Call, Serve(c) \/ ServeError(c) PROVE \A d \in Call : Fresh(d)'
  <2>1. /\ UNCHANGED <<token, phone>>
        /\ Pending(c) /\ \A d \in Call : d # c => calls'[d] = calls[d]
        /\ calls'[c].kind = calls[c].kind /\ calls'[c].phase = "answered"
        /\ calls'[c].answer # "none"
    BY <1>2, <1>t, ServeEffect
  <2>2. \A d \in Call : d # c => Fresh(d)'
    <3>1. \A d \in Call : d # c => ~Pending(d)'
      BY <1>0, <2>1 DEF OneCallAtATime, Pending
    <3> QED
      BY <3>1, QuietCounts
  <2>3. Fresh(c)'
    <3>1. CASE ServeRequest(c)
      <4>1. calls[c].token = token /\ calls[c].phone = phone
        BY <1>0, <2>1, <3>1 DEF ServeRequest, OneCallAtATime, Awaited
      <4>2. calls'[c].answer = "ok" => challenge'[token] = [phone |-> phone, checks |-> 0]
        BY <1>t, <3>1, <4>1 DEF ServeRequest, Answered, CallState, Formed
      <4> QED
        BY <2>1, <3>1, <4>2 DEF ServeRequest, Fresh, AnsweredAs
    <3>2. CASE ServeIdentity(c)
      BY <2>1, <3>2 DEF ServeIdentity, Fresh, AnsweredAs
    <3>5. CASE ServeVerify(c)
      <4>1. \E a \in {"ok", "refused", "unavailable", "invalid"} : Answered(c, a)
        BY <3>5, Zenon DEF ServeVerify
      <4>2. calls'[c].answer \in {"ok", "refused", "unavailable", "invalid"}
        BY <1>t, <4>1, AnsweredEffect DEF Answer
      <4> QED
        BY <2>1, <3>5, <4>2 DEF ServeVerify, Fresh, AnsweredAs
    <3>3. CASE ServeError(c)
      <4>1. calls'[c].answer = "error"
        BY <1>t, <3>3, AnsweredEffect DEF ServeError, Answer
      <4> QED
        BY <2>1, <4>1 DEF Fresh, AnsweredAs
    <3> QED
      BY <1>2, <3>1, <3>2, <3>3, <3>5 DEF Serve
  <2> QED
    BY <2>2, <2>3
<1>3. ASSUME (\E c \in Call : Receive(c) \/ Throw(c)) \/ Reset \/ TickClock
      PROVE  \A d \in Call : Fresh(d)'
  BY <1>0, <1>3, NonePendingAfter, QuietCounts
<1>4. CASE Elapse
  BY <1>4, <1>f DEF Elapse, Fresh, AnsweredAs, service
<1>5. CASE UNCHANGED signInVars
  BY <1>5, <1>f DEF signInVars, page, service, Fresh, AnsweredAs
<1> QED
  BY <1>1, <1>2, <1>3, <1>4, <1>5 DEF SignInNext

LEMMA CountedStep ==
  ASSUME SignInTypeOK, GrantsAreBacked, OneCallAtATime, CountedTogether,
         [SignInNext]_signInVars, Told'
  PROVE  Counted' /\ \A c \in Call : CountedNext(c)'
<1> DEFINE Goal == Counted' /\ \A c \in Call : CountedNext(c)'
<1>t. /\ calls \in [Call -> CallState] /\ otp \in OtpState /\ token \in Token \cup {0}
      /\ \A c \in Call : calls[c].kind \in {"identity", "request", "verify"}
      /\ \A c \in Call : calls[c].answer \in Answer
      /\ challenge \in [Token -> [phone : Phone \cup {NoPhone}, checks : 0..MaxAttempts]]
  BY DEF SignInTypeOK, CallState
<1>0. Together /\ Together'
  <2>1. Together'
    BY DEF Told, Together
  <2> QED
    BY <2>1, TogetherStays
<1>i. /\ identity # "confirmed" => token = 0 /\ otp.status = "idle"
      /\ \A c, d \in Call : Pending(c) /\ Pending(d) => c = d
      /\ \A c \in Call : Pending(c) => Awaited(c)
  BY <1>0 DEF OneCallAtATime
<1>f. \A c \in Call : Fresh(c)
  BY <1>0 DEF CountedTogether
<1>c. ASSUME Told PROVE Counted /\ \A c \in Call : CountedNext(c)
  BY <1>c DEF CountedTogether
<1>1. ASSUME NEW c \in Call, ConfirmIdentity(c) PROVE Goal
  <2>1. Sent(c, "identity", 0, NoPhone) /\ \A d \in Call : d # c => ~Pending(d)'
    BY <1>0, <1>1, PressEffect, PressAlone, Zenon
  <2>2. otp'.status = "idle"
    BY <1>1, <1>i DEF ConfirmIdentity, MayPress, Shown
  <2>3. CountedNext(c)'
    BY <2>1 DEF CountedNext, Sent, AnsweredAs
  <2> QED
    BY <2>1, <2>2, <2>3, QuietCounts DEF Counted, Awaiting, CanSubmit
<1>2. ASSUME NEW c \in Call, NEW p \in Phone, RequestCode(c, p) PROVE Goal
  <2>1. Sent(c, "request", token, p) /\ \A d \in Call : d # c => ~Pending(d)'
    BY <1>0, <1>2, PressEffect, PressAlone, Zenon
  <2>2. otp'.status = "requesting"
    BY <1>2 DEF RequestCode, Otp
  <2>3. CountedNext(c)'
    BY <2>1 DEF CountedNext, Sent, AnsweredAs
  <2> QED
    BY <2>1, <2>2, <2>3, QuietCounts DEF Counted, Awaiting, CanSubmit
<1>3. ASSUME NEW c \in Call, NEW code \in Code, SubmitCode(c, code) PROVE Goal
  <2>1. Sent(c, "verify", token, phone) /\ \A d \in Call : d # c => ~Pending(d)'
    BY <1>0, <1>3, PressEffect, PressAlone, Zenon
  <2>2. UNCHANGED <<token, phone, challenge>> /\ otp'.status = "verifying" /\ otp'.attempts = otp.attempts
    BY <1>3, <1>t DEF SubmitCode, OnSubmit, OtpState, service
  <2>3. /\ challenge[token].phone = phone /\ otp.attempts < MaxAttempts
        /\ challenge[token].checks = otp.attempts
    <3>1. Told /\ otp.status \in {"challenged", "rejected"}
      BY <1>3 DEF SubmitCode, CanSubmit, Told
    <3> QED
      BY <1>c, <3>1 DEF Counted, Awaiting, CanSubmit
  <2>4. CountedNext(c)'
    BY <2>1, <2>2, <2>3 DEF CountedNext, Sent, AnsweredAs
  <2> QED
    BY <2>1, <2>2, <2>3, <2>4, QuietCounts DEF Counted, Awaiting, CanSubmit
<1>4. ASSUME NEW c \in Call, Serve(c) \/ ServeError(c) PROVE Goal
  <2>1. /\ UNCHANGED <<identity, otp, token, phone, grounds>>
        /\ Pending(c) /\ \A d \in Call : d # c => calls'[d] = calls[d]
        /\ calls'[c].kind = calls[c].kind /\ calls'[c].phase = "answered"
    BY <1>4, <1>t, ServeEffect
  <2>2. Counted /\ \A d \in Call : CountedNext(d)
    BY <1>c, <2>1 DEF Told
  <2>3. \A d \in Call : d # c => CountedNext(d)'
    <3>1. \A d \in Call : d # c => ~Pending(d)'
      BY <1>i, <2>1 DEF Pending
    <3> QED
      BY <3>1, QuietCounts
  <2>4. CASE ServeIdentity(c) \/ ServeError(c)
    <3>1. UNCHANGED challenge
      BY <2>4 DEF ServeIdentity, ServeError, service
    <3>2. CountedNext(c)'
      <4>1. CASE ServeIdentity(c)
        BY <2>1, <4>1 DEF ServeIdentity, CountedNext, AnsweredAs
      <4>2. CASE ServeError(c)
        <5>1. calls'[c].answer = "error"
          BY <1>t, <4>2, AnsweredEffect DEF ServeError, Answer
        <5> QED
          BY <2>1, <5>1 DEF CountedNext, AnsweredAs
      <4> QED
        BY <2>4, <4>1, <4>2
    <3> QED
      BY <2>1, <2>2, <2>3, <3>1, <3>2 DEF Counted, Awaiting, CanSubmit
  <2>5. CASE ServeRequest(c)
    <3>1. otp.status = "requesting" /\ calls'[c].kind = "request"
      BY <1>i, <2>1, <2>5 DEF ServeRequest, Awaited
    <3>2. CountedNext(c)'
      BY <2>1, <3>1 DEF CountedNext, AnsweredAs
    <3> QED
      BY <2>1, <2>3, <3>1, <3>2 DEF Counted, Awaiting, CanSubmit
  <2>6. CASE ServeVerify(c)
    <3>1. /\ calls[c].phase = "sent" /\ calls[c].kind = "verify"
          /\ otp.status = "verifying" /\ calls[c].token = token /\ calls[c].phone = phone
      BY <1>i, <2>1, <2>6 DEF ServeVerify, Awaited
    <3>2. token \in Token /\ token # 0
      BY <1>i, <1>t, <3>1 DEF GrantsAreBacked, Token
    <3>3. /\ challenge[token].phone = phone /\ challenge[token].checks = otp.attempts
          /\ otp.attempts \in Nat /\ MaxAttempts \in Nat /\ otp.attempts < MaxAttempts
      BY <1>t, <2>2, <3>1, SignInNumbers DEF Counted, CountedNext, Awaiting, OtpState
    <3>4. challenge'[token].phone = phone
      BY <1>t, <2>6, <3>1, <3>2, <3>3 DEF ServeVerify
    <3>5. calls'[c].answer = "refused" => challenge'[token].checks = otp.attempts + 1
      BY <1>t, <2>6, <3>1, <3>2, <3>3 DEF ServeVerify, Answered, CallState
    <3>6. CountedNext(c)'
      BY <2>1, <3>5 DEF CountedNext, AnsweredAs
    <3> QED
      BY <2>1, <2>3, <3>1, <3>3, <3>4, <3>6 DEF Counted, Awaiting, CanSubmit
  <2> QED
    BY <1>4, <2>4, <2>5, <2>6 DEF Serve
<1>5. ASSUME NEW c \in Call, Receive(c) \/ Throw(c) PROVE Goal
  <2>1. Pending(c) /\ UNCHANGED <<phone, challenge>>
    BY <1>5 DEF Receive, ReceiveIdentity, ReceiveRequest, ReceiveVerify, Throw, Pending, page, service
  <2>2. \A d \in Call : CountedNext(d)'
    BY <1>0, <1>5, NonePendingAfter, QuietCounts
  <2>3. Awaited(c) /\ Fresh(c)
    BY <1>f, <1>i, <2>1
  <2>4. Counted'
    <3>1. CASE ReceiveIdentity(c)
      <4>1. otp.status = "idle" /\ otp' = otp
        BY <1>i, <2>3, <3>1 DEF ReceiveIdentity, Awaited
      <4> QED
        BY <4>1 DEF Counted, Awaiting, CanSubmit
    <3>2. CASE ReceiveRequest(c)
      <4>1. CASE calls[c].answer = "ok"
        <5>1. /\ challenge[token] = [phone |-> phone, checks |-> 0]
              /\ token' = token /\ otp' = OnRequestAccepted(otp)
          BY <2>3, <3>2, <4>1 DEF Fresh, ReceiveRequest, AnsweredAs
        <5> QED
          BY <2>1, <5>1, SignInNumbers DEF Counted, OnRequestAccepted, Awaiting, CanSubmit
      <4>2. CASE calls[c].answer \in {"unavailable", "expired", "badPhone"}
        <5>1. otp'.status \in {"upstreamUnavailable", "idle"}
          BY <3>2, <4>2 DEF ReceiveRequest, Otp
        <5> QED
          BY <5>1 DEF Counted, Awaiting, CanSubmit
      <4>3. CASE calls[c].answer \in {"invalid", "error"}
        BY <1>0, <3>2, <4>3 DEF ReceiveRequest, Heard, Told, Together
      <4> QED
        BY <3>2, <4>1, <4>2, <4>3 DEF ReceiveRequest
    <3>3. CASE ReceiveVerify(c)
      <4>0. Told /\ calls[c].answer \notin {"invalid", "error", "none", "expired", "badPhone"}
        BY <1>0, <2>3, <3>3 DEF ReceiveVerify, Heard, Told, Together, Fresh
      <4>1. /\ otp.status = "verifying" /\ otp' = AfterVerify(calls[c].answer)
            /\ UNCHANGED token /\ challenge[token].phone = phone
            /\ otp.attempts \in Nat /\ otp.attempts < MaxAttempts
        BY <1>c, <1>t, <2>3, <3>3, <4>0 DEF ReceiveVerify, Awaited, Counted, Awaiting, OtpState
      <4>2. CASE calls[c].answer = "refused"
        <5>1. otp' = OnSubmitRejected(otp) /\ challenge[token].checks = otp.attempts + 1
          BY <1>c, <3>3, <4>0, <4>1, <4>2 DEF AfterVerify, CountedNext, ReceiveVerify, AnsweredAs
        <5>2. CASE otp.attempts + 1 >= MaxAttempts
          <6>1. otp'.status = "attemptsExhausted" /\ challenge[token].checks = MaxAttempts
            BY <4>1, <5>1, <5>2, SignInNumbers DEF OnSubmitRejected, Otp
          <6> QED
            BY <2>1, <4>1, <6>1 DEF Counted, Awaiting, CanSubmit
        <5>3. CASE ~(otp.attempts + 1 >= MaxAttempts)
          <6>1. otp'.status = "rejected" /\ otp'.attempts = otp.attempts + 1
            BY <1>t, <4>1, <5>1, <5>3 DEF OnSubmitRejected, OtpState
          <6> QED
            BY <2>1, <4>1, <5>1, <5>3, <6>1, SignInNumbers DEF Counted, Awaiting, CanSubmit
        <5> QED
          BY <5>2, <5>3
      <4>3. CASE calls[c].answer # "refused"
        <5>1. otp'.status \in {"verified", "upstreamUnavailable"}
          BY <1>t, <4>0, <4>1, <4>3 DEF AfterVerify, Otp, Answer
        <5> QED
          BY <5>1 DEF Counted, Awaiting, CanSubmit
      <4> QED
        BY <4>2, <4>3
    <3>4. CASE Throw(c)
      <4>1. Told
        BY <3>4 DEF Throw, Told
      <4> QED
        BY <1>c, <2>1, <3>4, <4>1 DEF Throw, page, Counted
    <3> QED
      BY <1>5, <3>1, <3>2, <3>3, <3>4 DEF Receive
  <2> QED
    BY <2>2, <2>4
<1>6. CASE Reset
  <2>1. otp'.status = "idle"
    BY <1>6 DEF Reset, Otp
  <2> QED
    BY <1>0, <1>6, <2>1, NonePendingAfter, QuietCounts DEF Counted, Awaiting, CanSubmit
<1>7. CASE Elapse
  <2>1. /\ UNCHANGED <<token, phone, calls, challenge, grounds>>
        /\ otp'.status = otp.status /\ otp'.attempts = otp.attempts
    BY <1>7, <1>t DEF Elapse, OtpState, service
  <2> QED
    BY <1>c, <2>1 DEF Counted, CountedNext, AnsweredAs, Awaiting, CanSubmit, Told
<1>8. CASE TickClock
  <2>1. otp'.status = "expired"
    BY <1>8 DEF TickClock, OnTick, Otp
  <2> QED
    BY <1>0, <1>8, <2>1, NonePendingAfter, QuietCounts DEF Counted, Awaiting, CanSubmit
<1>9. CASE UNCHANGED signInVars
  BY <1>9, <1>c DEF signInVars, page, service, Counted, CountedNext, AnsweredAs, Awaiting, CanSubmit, Told
<1> QED
  BY <1>1, <1>2, <1>3, <1>4, <1>5, <1>6, <1>7, <1>8, <1>9 DEF SignInNext

-----------------------------------------------------------------------------
LEMMA SignInInvariantIsKept == SInv /\ [SignInNext]_signInVars => SInv'
<1> SUFFICES ASSUME SInv, [SignInNext]_signInVars PROVE SInv'
  OBVIOUS
<1>1. SignInTypeOK'
  BY TypeStep DEF SInv
<1>2. GrantsAreBacked'
  BY GrantsStep DEF SInv
<1>3. OneCallAtATime'
  BY OneCallStep DEF SInv
<1>4. CountedTogether'
  BY FreshStep, CountedStep DEF SInv, CountedTogether
<1> QED
  BY <1>1, <1>2, <1>3, <1>4 DEF SInv

\* Every reachable state of the sign-in page (useApplicantAuth, citizen-otp.tsx)
\* and of the service behind it has the types of its variables.
THEOREM SignInTypeCorrect == SignInSpec => []SignInTypeOK
<1>1. SInv => SignInTypeOK
  BY DEF SInv
<1> QED
  BY <1>1, InitSInv, SignInInvariantIsKept, PTL DEF SignInSpec

\* A page that says step 1 is confirmed holds the token that says so, whatever
\* late answers arrive; and until a reset leaves a call in flight, it holds a
\* token only while it says so (tokenRef and setIdentity, context.tsx).
THEOREM TokenAndStageAgree == SignInSpec => []ConfirmedHasToken
<1>1. SInv => ConfirmedHasToken
  BY DEF SInv, GrantsAreBacked, OneCallAtATime, ConfirmedHasToken, Together
<1> QED
  BY <1>1, InitSInv, SignInInvariantIsKept, PTL DEF SignInSpec

\* A page that says verified has had a code accepted by identity-service,
\* whichever of its calls, of this attempt or an abandoned one, said so.
THEOREM VerifiedMeansAccepted == SignInSpec => []VerifiedIsBacked
<1>1. SInv => VerifiedIsBacked
  BY DEF SInv, GrantsAreBacked, VerifiedIsBacked
<1> QED
  BY <1>1, InitSInv, SignInInvariantIsKept, PTL DEF SignInSpec

\* Since a request was last answered 202, and while no 400 INVALID_REQUEST and no
\* fault of ours was taken for anything else (context.tsx:258-260, 278) and no reset
\* left a call behind, a citizen who may type a code is not typing it against a
\* locked challenge: the count of the page (otpReducer) does not run behind that of
\* the service, whatever outages, rejected fetches and earlier misreadings there were.
THEOREM BudgetsAgree == SignInSpec => []BudgetIsTheServers
<1>1. SInv => BudgetIsTheServers
  <2>1. SInv => (CanSubmit(otp) => otp.attempts \in Nat)
    BY DEF SInv, SignInTypeOK, OtpState
  <2>2. SInv /\ Told /\ CanSubmit(otp) => challenge[token].checks = otp.attempts
    BY DEF SInv, CountedTogether, Counted
  <2> QED
    BY <2>1, <2>2 DEF BudgetIsTheServers
<1> QED
  BY <1>1, InitSInv, SignInInvariantIsKept, PTL DEF SignInSpec

\* On the same grounds a page that says that no attempt is left has had that many
\* codes checked (SUBMIT_REJECTED against OTP_MAX_ATTEMPTS, otp-machine.ts).
THEOREM LockoutsAgree == SignInSpec => []LockoutIsTheServers
<1>1. SInv => LockoutIsTheServers
  BY DEF SInv, CountedTogether, Counted, LockoutIsTheServers, LockedOutMeansChecked
<1> QED
  BY <1>1, InitSInv, SignInInvariantIsKept, PTL DEF SignInSpec

\* So on those grounds the two counts agree wherever a citizen would notice
\* (otpReducer's attempts and the counter of identity-service's challenge).
THEOREM BothCountsAgree == SignInSpec => []CountsAgree
<1>1. BudgetIsTheServers /\ LockoutIsTheServers <=> CountsAgree
  BY DEF CountsAgree
<1> QED
  BY <1>1, BudgetsAgree, LockoutsAgree, PTL

=============================================================================
