---------------------------- MODULE FilingProofs ----------------------------
(***************************************************************************)
(* What the application wizard never does, for every set of campaigns,     *)
(* categories and credentials, every offer, any number of keys and of      *)
(* visits to the page.                                                     *)
(*                                                                         *)
(* The invariants say what the page sends and shows. They are not          *)
(* inductive: that an answer is about the form needs to know that only the *)
(* review page waits for one (Waiting), and that ALREADY_APPLIED is never  *)
(* the citizen's own retry needs to know that a campaign, once taken, is   *)
(* taken for every request of the refused key (Answers).                   *)
(***************************************************************************)
EXTENDS Filing, TLAPS

Mine(c) == page.open /\ c.page = page.count
Taken(k) ==
  /\ \A f \in filed : f.key # k
  /\ \A r \in sent : r.key = k => \E f \in filed : f.body.campaign = r.body.campaign

Keys ==
  /\ key <= keys
  /\ \A r \in sent : r.key \in 1..keys /\ (r.key = key => r.body = Body(data))
  /\ \A a \in attempt : a = key /\ a # Fresh

Flow ==
  /\ filed \subseteq sent
  /\ \A c \in calls : c.request \in sent /\ c.page <= page.count

Waiting ==
  /\ mutation.status # "idle" =>
       page.open /\ mutation.key = key /\ key # Fresh /\ mutation.body = Body(data)
  /\ mutation.status = "pending" => step = 4
  /\ mutation.status \in {"idle", "pending"} => mutation.answer = "none"
  /\ \A c \in calls : Mine(c) =>
       mutation.status = "pending" /\ c.request = [key |-> mutation.key, body |-> mutation.body]
  /\ \A c, d \in calls : Mine(c) /\ Mine(d) => c = d

Answers ==
  /\ \A c \in calls : /\ c.answer \in Success => c.request \in filed
                      /\ c.answer = "ALREADY_APPLIED" => Taken(c.request.key)
  /\ mutation.status = "done" => [key |-> mutation.key, body |-> mutation.body] \in filed
  /\ mutation.answer = "ALREADY_APPLIED" => Taken(mutation.key)

Steps ==
  /\ step > 0 => /\ data.campaign \in Campaign
                 /\ data.category = None \/ data.category \in Offered[data.campaign]
  /\ step > 2 => data.category # None /\ Body(data).credential # None

FInv == /\ FilingTypeOK /\ KeyNamesOneBody /\ OnlyTheOfferedIsSent
        /\ Keys /\ Flow /\ Waiting /\ Answers /\ Steps

-----------------------------------------------------------------------------
(* The wizard starts where the invariant holds.                            *)
THEOREM InitFInv == FilingInit => FInv
<1> SUFFICES ASSUME FilingInit PROVE FInv
  OBVIOUS
<1> USE FilingNames, FilingBounds DEF FilingInit, Fresh, Key, Path
<1>1. NoData \in WizardData
  BY DEF NoData, WizardData
<1>2. FilingTypeOK
  <2>1. Body(NoData) \in Bodies
    BY <1>1 DEF Body, Bodies, NoData
  <2>2. Idle \in MutationState
    BY <2>1 DEF Idle, MutationState, Answer
  <2>3. page \in [count : 1..MaxPages, open : BOOLEAN]
    OBVIOUS
  <2>4. data \in WizardData /\ draft \in WizardData /\ mutation \in MutationState
    BY <1>1, <2>2
  <2>5. key \in Key /\ keys \in Key /\ step \in 0..4
    OBVIOUS
  <2>6. offline \in BOOLEAN
    BY Zenon
  <2> QED
    BY <2>3, <2>4, <2>5, <2>6 DEF FilingTypeOK
<1>3. KeyNamesOneBody /\ OnlyTheOfferedIsSent /\ Keys /\ Flow
  BY DEF KeyNamesOneBody, OnlyTheOfferedIsSent, Keys, Flow
<1>4. Waiting /\ Answers /\ Steps
  BY DEF Waiting, Answers, Steps, Idle
<1> QED
  BY <1>2, <1>3, <1>4 DEF FInv

(* A form the citizen edits is a form; what is sent of it is a body.       *)
LEMMA BodyType ==
  ASSUME NEW d \in WizardData PROVE Body(d) \in Bodies
BY FilingNames DEF WizardData, Body, Bodies, Path

LEMMA WithoutForeignCategoryType ==
  ASSUME NEW d \in WizardData PROVE WithoutForeignCategory(d) \in WizardData
BY DEF WizardData, WithoutForeignCategory

LEMMA AdvanceType ==
  ASSUME FilingTypeOK, step < 4, NEW d \in WizardData, Advance(d)
  PROVE  data' \in WizardData /\ draft' \in WizardData /\ step' \in 0..4
<1>1. data' \in WizardData
  BY WithoutForeignCategoryType DEF Advance
<1>2. draft' \in {draft, data'} /\ step' = step + 1
  BY DEF Advance
<1> QED
  BY <1>1, <1>2 DEF FilingTypeOK

LEMMA NewAttemptType ==
  ASSUME NewAttempt
  PROVE  key' \in Key /\ mutation' \in MutationState /\ offline' \in BOOLEAN /\ attempt' = {}
<1>1. NoData \in WizardData
  BY DEF NoData, WizardData, Path
<1>2. Fresh \in Key
  BY FilingBounds DEF Fresh, Key
<1> QED
  BY <1>1, <1>2, BodyType DEF NewAttempt, Idle, MutationState, Answer

(* Every step keeps the types of the variables.                            *)
LEMMA TypeStep == FilingTypeOK /\ [FilingNext]_filingVars => FilingTypeOK'
<1> SUFFICES ASSUME FilingTypeOK, [FilingNext]_filingVars PROVE FilingTypeOK'
  OBVIOUS
<1> USE FilingNames, FilingBounds DEF FilingTypeOK, Fresh, Key
<1>0. Idle \in MutationState
  <2>1. NoData \in WizardData
    BY DEF NoData, WizardData, Path
  <2> QED
    BY <2>1, BodyType DEF Idle, MutationState, Answer
<1>1. ASSUME NEW c \in Campaign, ChooseCampaign(c) PROVE FilingTypeOK'
  <2>1. [data EXCEPT !.campaign = c] \in WizardData
    BY DEF WizardData
  <2> QED
    BY <1>1, <2>1, AdvanceType, NewAttemptType DEF ChooseCampaign
<1>2. ASSUME NEW k \in Category, ChooseCategory(k) PROVE FilingTypeOK'
  <2>1. [data EXCEPT !.category = k] \in WizardData
    BY DEF WizardData
  <2> QED
    BY <1>2, <2>1, AdvanceType, NewAttemptType DEF ChooseCategory
<1>3. ASSUME NEW v \in Credential, GiveCredential(v) PROVE FilingTypeOK'
  <2>1. [data EXCEPT !.credential[PathOf[data.category]] = v] \in WizardData
    BY <1>3 DEF GiveCredential, WizardData, Path
  <2> QED
    BY <1>3, <2>1, AdvanceType, NewAttemptType DEF GiveCredential
<1>4. CASE Agree
  <2>1. [data EXCEPT !.declared = TRUE] \in WizardData
    BY DEF WizardData
  <2> QED
    BY <1>4, <2>1, AdvanceType DEF Agree
<1>5. CASE Back
  BY <1>5 DEF Back
<1>6. CASE PressNewAttempt
  BY <1>6, NewAttemptType DEF PressNewAttempt
<1>7. CASE SubmitOffline
  BY <1>0, <1>7 DEF SubmitOffline
<1>8. CASE Submit
  <2>1. KeySent \in Key /\ Body(data) \in Bodies
    BY <1>8, BodyType DEF Submit
  <2>2. keys' \in Key
    BY <1>8, <2>1 DEF Submit
  <2>3. calls' \subseteq CallState
    BY <1>8, <2>1 DEF Submit, Request, CallState, Answer
  <2>4. mutation' \in MutationState
    BY <1>8, <2>1 DEF Submit, MutationState, Answer
  <2>5. sent' \subseteq Request /\ attempt' \subseteq Key /\ key' \in Key
    BY <1>8, <2>1 DEF Submit, Request
  <2> QED
    BY <1>8, <2>2, <2>3, <2>4, <2>5 DEF Submit
<1>9. ASSUME NEW c \in calls, Serve(c) PROVE FilingTypeOK'
  <2>1. PICK v \in Verdicts(c.request) :
          /\ calls' = (calls \ {c}) \cup IF c.page = 0 THEN {} ELSE {[c EXCEPT !.answer = v]}
          /\ filed' = IF v = "SUBMITTED" THEN filed \cup {c.request} ELSE filed
    BY <1>9 DEF Serve
  <2>2. v \in Success \cup Failure
    BY DEF Verdicts, Success, Failure
  <2>3. [c EXCEPT !.answer = v] \in CallState
    BY <2>2 DEF CallState, Answer
  <2> QED
    BY <1>9, <2>1, <2>3 DEF Serve, form, CallState
<1>10. ASSUME NEW c \in calls, NEW a \in Success \cup Failure, Settle(c, a),
              calls' \subseteq calls \cup {Stray(c)}
       PROVE FilingTypeOK'
  <2>1. Stray(c) \in CallState
    BY DEF Stray, CallState
  <2>2. NoData \in WizardData
    BY DEF NoData, WizardData, Path
  <2>3. draft' \in WizardData
    BY <1>10, <2>2 DEF Settle
  <2>4. mutation' \in MutationState
    BY <1>10 DEF Settle, MutationState, Answer
  <2>5. offline' \in BOOLEAN
    BY <1>10 DEF Settle
  <2> QED
    BY <1>10, <2>1, <2>3, <2>4, <2>5 DEF Settle
<1>11. ASSUME NEW c \in calls, Receive(c) PROVE FilingTypeOK'
  <2>1. c.answer \in Success \cup Failure
    BY <1>11 DEF Receive, CallState, Answer
  <2> QED
    BY <1>10, <1>11, <2>1 DEF Receive
<1>12. ASSUME NEW c \in calls, Lose(c) PROVE FilingTypeOK'
  BY <1>10, <1>12 DEF Lose, Failure
<1>13. CASE Leave
  <2>1. NoData \in WizardData
    BY DEF NoData, WizardData, Path
  <2>2. data' \in WizardData /\ step' \in 0..4
    BY <1>13, <2>1 DEF Leave
  <2>3. page' \in [count : 1..MaxPages, open : BOOLEAN]
    BY <1>13 DEF Leave
  <2> QED
    BY <1>13, <2>2, <2>3, NewAttemptType DEF Leave
<1>14. CASE Open
  BY <1>14, NewAttemptType DEF Open, Mount
<1>15. CASE Reload
  <2>1. calls' \subseteq CallState
    BY <1>15 DEF Reload, Stray, CallState
  <2> QED
    BY <1>15, <2>1, NewAttemptType DEF Reload, Mount
<1>16. CASE UNCHANGED filingVars
  BY <1>16 DEF filingVars, form
<1> QED
  BY <1>1, <1>2, <1>3, <1>4, <1>5, <1>6, <1>7, <1>8, <1>9, <1>11, <1>12, <1>13, <1>14, <1>15, <1>16
  DEF FilingNext

-----------------------------------------------------------------------------
(* The parts of the invariant that do not look at the steps of the wizard. *)
Filed == KeyNamesOneBody /\ Keys /\ Flow /\ Waiting /\ Answers

(* A new attempt, on a page that waits for nothing or that nobody sees:    *)
(* whatever becomes of the form, the invariant survives it.                *)
LEMMA NewAttemptKeepsFiled ==
  ASSUME FilingTypeOK, Filed, NewAttempt, UNCHANGED <<filed, keys, sent>>,
         page'.count \in Nat, page.count <= page'.count,
         \A c \in calls' :
           /\ ~Mine(c)'
           /\ c.page = 0 \/ c.page <= page'.count
           /\ \E d \in calls : d.request = c.request /\ d.answer = c.answer
  PROVE  Filed'
<1> USE DEF Filed
<1>1. KeyNamesOneBody'
  BY DEF KeyNamesOneBody
<1>2. Keys'
  BY FilingBounds DEF Keys, NewAttempt, Fresh, FilingTypeOK, Key
<1>3. Flow'
  <2> SUFFICES ASSUME NEW c \in calls' PROVE c.request \in sent' /\ c.page <= page'.count
    BY DEF Flow
  <2> QED
    BY DEF Flow
<1>4. Waiting'
  <2>1. mutation'.status = "idle" /\ mutation'.answer = "none"
    BY DEF NewAttempt, Idle
  <2>2. \A c \in calls' : ~Mine(c)'
    OBVIOUS
  <2> QED
    BY <2>1, <2>2 DEF Waiting
<1>5. \A k : Taken(k)' <=> Taken(k)
  BY DEF Taken
<1>6. Answers'
  BY <1>5 DEF Answers, NewAttempt, Idle
<1> QED
  BY <1>1, <1>2, <1>3, <1>4, <1>6

(* A page that waits for nothing has no call of its own under way.         *)
LEMMA NothingOfMine ==
  ASSUME Waiting, mutation.status # "pending", NEW c \in calls
  PROVE  ~Mine(c)
BY DEF Waiting

(* An edit that changes what would be sent starts a new attempt.           *)
LEMMA EditKeepsFiled ==
  ASSUME FilingTypeOK, Filed, NewAttempt, UNCHANGED <<page, calls, filed, keys, sent>>,
         mutation.status # "pending"
  PROVE  Filed'
<1>1. page.count \in Nat
  BY FilingBounds DEF FilingTypeOK
<1>2. \A c \in calls : ~Mine(c)' /\ c.page <= page.count
  BY NothingOfMine DEF Filed, Flow, Mine
<1> QED
  BY <1>1, <1>2, NewAttemptKeepsFiled

(* Agreeing, going back and a submission offline change nothing that is    *)
(* sent or filed.                                                          *)
LEMMA SameFormKeepsFiled ==
  ASSUME FilingTypeOK, Filed, UNCHANGED <<page, key, calls, filed, keys, sent, attempt>>,
         Body(data') = Body(data), mutation.status # "pending",
         mutation' \in {mutation, Idle}
  PROVE  Filed'
<1> USE DEF Filed
<1>1. KeyNamesOneBody' /\ Flow'
  BY DEF KeyNamesOneBody, Flow
<1>2. Keys'
  BY DEF Keys
<1>3. \A c \in calls : ~Mine(c)'
  BY NothingOfMine DEF Mine
<1>4. Waiting'
  BY <1>3 DEF Waiting, Idle
<1>5. \A k : Taken(k)' <=> Taken(k)
  BY DEF Taken
<1>6. Answers'
  BY <1>5 DEF Answers, Idle
<1> QED
  BY <1>1, <1>2, <1>4, <1>6

(* A submission sends the form under its key, which no other body has had. *)
LEMMA SubmitKeepsFiled ==
  ASSUME FilingTypeOK, Filed, Submit
  PROVE  Filed'
<1> USE DEF Filed
<1> DEFINE request == [key |-> KeySent, body |-> Body(data)]
<1>1. /\ key' = KeySent /\ keys' = IF KeySent > keys THEN KeySent ELSE keys
      /\ mutation' = [status |-> "pending", key |-> KeySent, body |-> Body(data), answer |-> "none"]
      /\ calls' = calls \cup {[request |-> request, page |-> page.count, answer |-> "none"]}
      /\ sent' = sent \cup {request} /\ attempt' = attempt \cup {KeySent}
      /\ UNCHANGED <<page, step, data, draft, filed>>
      /\ page.open /\ step = 4 /\ mutation.status # "pending"
  BY DEF Submit, MaySubmit
<1>2. /\ key \in Nat /\ keys \in Nat /\ key <= keys /\ page.count \in Nat /\ page.count # 0
      /\ \A r \in sent : r.key \in Nat
  BY FilingBounds DEF FilingTypeOK, Key, Keys, Request
<1>3. KeySent \in Nat /\ KeySent # 0 /\ (KeySent = key \/ (key = 0 /\ KeySent = keys + 1))
  BY <1>2 DEF KeySent, Fresh
<1>4. \A r \in sent : r.key = KeySent => r.body = Body(data)
  BY <1>2, <1>3 DEF Keys
<1>5. KeyNamesOneBody'
  BY <1>1, <1>4 DEF KeyNamesOneBody
<1>6. Keys'
  <2>1. \A a \in attempt' : a = key' /\ a # Fresh
    BY <1>1, <1>3 DEF Keys, Fresh
  <2>2. key' <= keys'
    BY <1>1, <1>2, <1>3
  <2>3. \A r \in sent' : r.key \in 1..keys' /\ (r.key = key' => r.body = Body(data'))
    BY <1>1, <1>2, <1>3, <1>4 DEF Keys
  <2> QED
    BY <2>1, <2>2, <2>3 DEF Keys
<1>7. Flow'
  BY <1>1, <1>2 DEF Flow
<1>8. \A c \in calls : ~Mine(c) /\ ~Mine(c)'
  BY <1>1, NothingOfMine DEF Mine
<1>9. Waiting'
  <2>1. \A c \in calls' : Mine(c)' => c = [request |-> request, page |-> page.count, answer |-> "none"]
    BY <1>1, <1>8
  <2>2. /\ mutation'.status = "pending" /\ mutation'.answer = "none"
        /\ mutation'.key = key' /\ mutation'.body = Body(data')
    BY <1>1
  <2>3. key' # Fresh
    BY <1>1, <1>3 DEF Fresh
  <2>4. [key |-> mutation'.key, body |-> mutation'.body] = request
    BY <1>1
  <2> QED
    BY <1>1, <2>1, <2>2, <2>3, <2>4 DEF Waiting
<1>10. ASSUME NEW r \in sent, Taken(r.key) PROVE Taken(r.key)'
  <2>1. PICK f \in filed : f.body.campaign = r.body.campaign
    BY <1>10 DEF Taken
  <2>2. \A q \in sent' : q.key = r.key => q.body = r.body
    BY <1>1, <1>4 DEF KeyNamesOneBody
  <2> QED
    BY <1>1, <1>10, <2>1, <2>2 DEF Taken
<1>11. Answers'
  <2>1. ASSUME NEW c \in calls, c.answer = "ALREADY_APPLIED" PROVE Taken(c.request.key)'
    BY <1>10, <2>1 DEF Answers, Flow
  <2>2. mutation'.status = "pending" /\ mutation'.answer = "none"
    BY <1>1
  <2>3. \A c \in calls' : c \in calls \/ c.answer = "none"
    BY <1>1
  <2> QED
    BY <1>1, <2>1, <2>2, <2>3 DEF Answers, Success
<1> QED
  BY <1>5, <1>6, <1>7, <1>9, <1>11

(* The edge's answer: a filing is of a request that was sent, and a key    *)
(* refused because its campaign is taken stays refused.                    *)
LEMMA ServeKeepsFiled ==
  ASSUME FilingTypeOK, Filed, NEW c \in calls, Serve(c)
  PROVE  Filed'
<1> USE DEF Filed
<1>1. PICK v \in Verdicts(c.request) :
        /\ calls' = (calls \ {c}) \cup IF c.page = 0 THEN {} ELSE {[c EXCEPT !.answer = v]}
        /\ filed' = IF v = "SUBMITTED" THEN filed \cup {c.request} ELSE filed
  BY DEF Serve
<1> DEFINE served == [c EXCEPT !.answer = v]
<1>2. UNCHANGED <<page, step, data, draft, key, offline, mutation, keys, sent, attempt>>
  BY DEF Serve, form
<1>3. c.request \in sent /\ c.page <= page.count /\ served.request = c.request
      /\ served.page = c.page /\ served.answer = v
  BY DEF Flow, FilingTypeOK, CallState
<1>4. KeyNamesOneBody' /\ Keys'
  BY <1>2 DEF KeyNamesOneBody, Keys
<1>5. Flow'
  BY <1>1, <1>2, <1>3 DEF Flow
<1>6. \A d \in calls' : d \in calls \/ d = served
  BY <1>1
<1>7. Waiting'
  <2>1. \A d : Mine(d)' <=> Mine(d)
    BY <1>2 DEF Mine
  <2>2. Mine(served) => Mine(c)
    BY <1>3 DEF Mine
  <2>3. \A d \in calls' : Mine(d)' =>
          mutation.status = "pending" /\ d.request = [key |-> mutation.key, body |-> mutation.body]
    BY <1>3, <1>6, <2>1, <2>2 DEF Waiting
  <2>4. ASSUME NEW d \in calls', NEW e \in calls', Mine(d)', Mine(e)' PROVE d = e
    <3>1. CASE Mine(c)
      BY <1>1, <1>6, <2>1, <2>4, <3>1 DEF Waiting
    <3>2. CASE ~Mine(c)
      BY <1>6, <2>1, <2>2, <2>4, <3>2 DEF Waiting
    <3> QED
      BY <3>1, <3>2
  <2> QED
    BY <1>2, <2>3, <2>4 DEF Waiting
<1>8. v = "SUBMITTED" => \A f \in filed : /\ f.key # c.request.key
                                         /\ f.body.campaign # c.request.body.campaign
  BY DEF Verdicts
<1>9. \A k : Taken(k) => Taken(k)'
  <2> SUFFICES ASSUME NEW k, Taken(k) PROVE Taken(k)'
    OBVIOUS
  <2>1. \A f \in filed' : f.key # k
    BY <1>1, <1>3, <1>8 DEF Taken
  <2> QED
    BY <1>1, <1>2, <2>1 DEF Taken
<1>10. v \in Success => c.request \in filed'
  BY <1>1 DEF Verdicts, Success
<1>11. ASSUME v = "ALREADY_APPLIED" PROVE Taken(c.request.key)
  <2>1. /\ \A f \in filed : f.key # c.request.key
        /\ \E f \in filed : f.body.campaign = c.request.body.campaign
    BY <1>11 DEF Verdicts
  <2>2. \A r \in sent : r.key = c.request.key => r.body = c.request.body
    BY <1>3 DEF KeyNamesOneBody
  <2> QED
    BY <2>1, <2>2 DEF Taken
<1>12. Answers'
  <2>1. ASSUME NEW d \in calls'
        PROVE  /\ d.answer \in Success => d.request \in filed'
               /\ d.answer = "ALREADY_APPLIED" => Taken(d.request.key)'
    <3>1. CASE d \in calls
      BY <1>1, <1>9, <3>1 DEF Answers
    <3>2. CASE d = served
      BY <1>3, <1>9, <1>10, <1>11, <3>2
    <3> QED
      BY <1>6, <3>1, <3>2
  <2>2. mutation'.status = "done" => [key |-> mutation'.key, body |-> mutation'.body] \in filed'
    BY <1>1, <1>2 DEF Answers
  <2> QED
    BY <1>2, <1>9, <2>1, <2>2 DEF Answers
<1> QED
  BY <1>4, <1>5, <1>7, <1>12

(* An answer, or the news that there is none, reaches the page that waits  *)
(* for it, if it is still there.                                           *)
LEMMA SettleKeepsFiled ==
  ASSUME FilingTypeOK, Filed, NEW c \in calls, NEW a \in {c.answer, "NETWORK"}, a # "none",
         Settle(c, a), \A d \in calls' : d \in calls \ {c} \/ (d = Stray(c) /\ c.answer = "none")
  PROVE  Filed'
<1> USE DEF Filed
<1>1. UNCHANGED <<page, step, data, key, filed, keys, sent, attempt>> /\ c.page # 0
  BY DEF Settle
<1>2. KeyNamesOneBody' /\ Keys'
  BY <1>1 DEF KeyNamesOneBody, Keys
<1>3. Stray(c).request = c.request /\ Stray(c).page = 0 /\ Stray(c).answer = c.answer
  BY DEF Stray, FilingTypeOK, CallState
<1>4. page.count \in Nat /\ page.count # 0
  BY FilingBounds DEF FilingTypeOK
<1>5. Flow'
  BY <1>1, <1>3, <1>4 DEF Flow
<1>6. \A d \in calls' : Mine(d)' => d \in calls \ {c} /\ Mine(d)
  BY <1>1, <1>3, <1>4 DEF Mine
<1>7. \A k : Taken(k)' <=> Taken(k)
  BY <1>1 DEF Taken
<1>8. \A d \in calls' : /\ d.answer \in Success => d.request \in filed'
                        /\ d.answer = "ALREADY_APPLIED" => Taken(d.request.key)'
  BY <1>1, <1>3, <1>7 DEF Answers, Success
<1>9. CASE Mine(c)
  <2>1. mutation' = [mutation EXCEPT !.status = IF a \in Success THEN "done" ELSE "failed", !.answer = a]
    BY <1>9 DEF Settle, Mine
  <2>2. /\ mutation'.key = mutation.key /\ mutation'.body = mutation.body /\ mutation'.answer = a
        /\ mutation'.status = IF a \in Success THEN "done" ELSE "failed"
    BY <2>1 DEF FilingTypeOK, MutationState
  <2>3. mutation.status = "pending" /\ c.request = [key |-> mutation.key, body |-> mutation.body]
    BY <1>9 DEF Waiting
  <2>4. \A d \in calls' : ~Mine(d)'
    BY <1>6, <1>9 DEF Waiting
  <2>5. Waiting'
    BY <1>1, <2>2, <2>3, <2>4 DEF Waiting
  <2>6. a = c.answer \/ a = "NETWORK"
    OBVIOUS
  <2>7. a \in Success => c.request \in filed
    BY <2>6 DEF Answers, Success
  <2>8. a = "ALREADY_APPLIED" => Taken(c.request.key)
    BY <2>6 DEF Answers
  <2>9. Answers'
    BY <1>1, <1>7, <1>8, <2>2, <2>3, <2>7, <2>8 DEF Answers
  <2> QED
    BY <1>2, <1>5, <2>5, <2>9
<1>10. CASE ~Mine(c)
  <2>1. mutation' = mutation
    BY <1>10 DEF Settle, Mine
  <2>2. Waiting'
    BY <1>1, <1>6, <2>1 DEF Waiting
  <2>3. Answers'
    BY <1>1, <1>7, <1>8, <2>1 DEF Answers
  <2> QED
    BY <1>2, <1>5, <2>2, <2>3
<1> QED
  BY <1>9, <1>10

-----------------------------------------------------------------------------
(* Past the first pages the form holds what the campaign offers.           *)
LEMMA StepsStep == FInv /\ [FilingNext]_filingVars => Steps'
<1> SUFFICES ASSUME FInv, [FilingNext]_filingVars PROVE Steps'
  OBVIOUS
<1> USE FilingNames DEF FInv
<1>1. ASSUME NEW c \in Campaign, ChooseCampaign(c) PROVE Steps'
  <2>1. data' = WithoutForeignCategory([data EXCEPT !.campaign = c]) /\ step' = 1
    BY <1>1 DEF ChooseCampaign, Advance
  <2>2. data'.campaign = c /\ (data'.category = None \/ data'.category \in Offered[c])
    BY <2>1 DEF FilingTypeOK, WizardData, WithoutForeignCategory
  <2> QED
    BY <2>1, <2>2 DEF Steps
<1>2. ASSUME NEW k \in Category, ChooseCategory(k) PROVE Steps'
  <2>1. data' = WithoutForeignCategory([data EXCEPT !.category = k]) /\ step = 1 /\ step' = 2
    BY <1>2 DEF ChooseCategory, Advance
  <2>2. data.campaign \in Campaign
    BY <2>1 DEF Steps
  <2>3. data'.campaign = data.campaign /\ (data'.category = None \/ data'.category \in Offered[data.campaign])
    BY <2>1 DEF FilingTypeOK, WizardData, WithoutForeignCategory
  <2> QED
    BY <2>1, <2>2, <2>3 DEF Steps
<1>3. ASSUME NEW v \in Credential, GiveCredential(v) PROVE Steps'
  <2>1. /\ data' = WithoutForeignCategory([data EXCEPT !.credential[PathOf[data.category]] = v])
        /\ step = 2 /\ step' = 3 /\ data.category # None
    BY <1>3 DEF GiveCredential, Advance
  <2>2. data.campaign \in Campaign /\ data.category \in Offered[data.campaign] /\ data.category \in Category
    BY <2>1 DEF Steps, FilingTypeOK, WizardData
  <2>3. data' = [data EXCEPT !.credential[PathOf[data.category]] = v]
    BY <2>1, <2>2 DEF WithoutForeignCategory, FilingTypeOK, WizardData
  <2>4. /\ data'.campaign = data.campaign /\ data'.category = data.category
        /\ data'.credential[PathOf[data.category]] = v
    BY <2>2, <2>3 DEF FilingTypeOK, WizardData, Path
  <2>5. Body(data').credential = v
    BY <2>1, <2>4 DEF Body
  <2> QED
    BY <2>1, <2>2, <2>4, <2>5 DEF Steps
<1>4. CASE Agree
  <2>1. /\ data' = WithoutForeignCategory([data EXCEPT !.declared = TRUE])
        /\ step = 3 /\ step' = 4
    BY <1>4 DEF Agree, Advance
  <2>2. data.campaign \in Campaign /\ data.category \in Offered[data.campaign] /\ data.category # None
    BY <2>1 DEF Steps
  <2>3. data' = [data EXCEPT !.declared = TRUE]
    BY <2>1, <2>2 DEF WithoutForeignCategory, FilingTypeOK, WizardData
  <2>4. Body(data') = Body(data) /\ data'.campaign = data.campaign /\ data'.category = data.category
    BY <2>3 DEF FilingTypeOK, WizardData, Body
  <2> QED
    BY <2>1, <2>2, <2>4 DEF Steps
<1>5. CASE Back
  BY <1>5 DEF Back, Steps, FilingTypeOK
<1>6. CASE PressNewAttempt \/ SubmitOffline \/ Submit
  <2>1. UNCHANGED <<step, data>>
    BY <1>6 DEF PressNewAttempt, SubmitOffline, Submit
  <2> QED
    BY <2>1 DEF Steps
<1>7. CASE (\E c \in calls : Serve(c) \/ Receive(c) \/ Lose(c)) \/ UNCHANGED filingVars
  <2>1. UNCHANGED <<step, data>>
    BY <1>7 DEF Serve, Receive, Lose, Settle, form, filingVars
  <2> QED
    BY <2>1 DEF Steps
<1>8. CASE Leave \/ Open \/ Reload
  BY <1>8 DEF Leave, Open, Reload, Mount, Steps
<1> QED
  BY <1>1, <1>2, <1>3, <1>4, <1>5, <1>6, <1>7, <1>8 DEF FilingNext

LEMMA OfferedStep == FInv /\ [FilingNext]_filingVars => OnlyTheOfferedIsSent'
<1> SUFFICES ASSUME FInv, [FilingNext]_filingVars PROVE OnlyTheOfferedIsSent'
  OBVIOUS
<1> USE DEF FInv
<1>1. CASE Submit
  <2>1. sent' = sent \cup {[key |-> KeySent, body |-> Body(data)]}
    BY <1>1 DEF Submit
  <2>2. step = 4 /\ data.category \in Offered[data.campaign] /\ Body(data).credential # None
    BY <1>1 DEF Submit, MaySubmit, Steps
  <2>3. Body(data).campaign = data.campaign /\ Body(data).category = data.category
    BY DEF Body
  <2> QED
    BY <2>1, <2>2, <2>3 DEF OnlyTheOfferedIsSent
<1>2. CASE UNCHANGED sent
  BY <1>2 DEF OnlyTheOfferedIsSent
<1> QED
  BY <1>1, <1>2 DEF FilingNext, ChooseCampaign, ChooseCategory, GiveCredential, Agree, Back,
     PressNewAttempt, SubmitOffline, Serve, Receive, Lose, Settle, Leave, Open, Reload, Mount, filingVars

(* Every step keeps what relates the page, its key, its calls and the edge. *)
LEMMA FiledStep == FInv /\ [FilingNext]_filingVars => Filed'
<1> SUFFICES ASSUME FInv, [FilingNext]_filingVars PROVE Filed'
  OBVIOUS
<1>0. FilingTypeOK /\ Filed /\ Waiting /\ page.count \in Nat /\ page.count # 0
  BY FilingBounds DEF FInv, Filed, FilingTypeOK
<1>1. ASSUME \/ \E c \in Campaign : ChooseCampaign(c)
             \/ \E k \in Category : ChooseCategory(k)
             \/ \E v \in Credential : GiveCredential(v)
             \/ PressNewAttempt
      PROVE  Filed'
  <2>1. NewAttempt /\ UNCHANGED <<page, calls, filed, keys, sent>>
    BY <1>1 DEF ChooseCampaign, ChooseCategory, GiveCredential, PressNewAttempt
  <2>2. step \in {0, 1, 2} \/ mutation.answer \in {"KEY_REUSED", "INVALID_KEY"}
    BY <1>1 DEF ChooseCampaign, ChooseCategory, GiveCredential, PressNewAttempt
  <2>3. mutation.status # "pending"
    BY <1>0, <2>2 DEF Waiting
  <2> QED
    BY <1>0, <2>1, <2>3, EditKeepsFiled
<1>2. CASE Agree
  <2>1. data' = WithoutForeignCategory([data EXCEPT !.declared = TRUE]) /\ step = 3
        /\ UNCHANGED <<page, key, mutation, calls, filed, keys, sent, attempt>>
    BY <1>2 DEF Agree, Advance
  <2>2. data.category \in Offered[data.campaign] /\ data.category # None
    BY <2>1 DEF FInv, Steps
  <2>3. Body(data') = Body(data)
    BY <1>0, <2>1, <2>2 DEF WithoutForeignCategory, FilingTypeOK, WizardData, Body
  <2>4. mutation.status # "pending"
    BY <1>0, <2>1 DEF Waiting
  <2> QED
    BY <1>0, <2>1, <2>3, <2>4, SameFormKeepsFiled
<1>3. CASE Back
  <2>1. UNCHANGED <<page, data, key, mutation, calls, filed, keys, sent, attempt>>
    BY <1>3 DEF Back
  <2>2. mutation.status # "pending"
    BY <1>0, <1>3 DEF Back, Waiting
  <2> QED
    BY <1>0, <2>1, <2>2, SameFormKeepsFiled
<1>4. CASE SubmitOffline
  BY <1>0, <1>4, SameFormKeepsFiled DEF SubmitOffline, MaySubmit
<1>5. CASE Submit
  BY <1>0, <1>5, SubmitKeepsFiled
<1>6. ASSUME NEW c \in calls, Serve(c) PROVE Filed'
  BY <1>0, <1>6, ServeKeepsFiled
<1>7. ASSUME NEW c \in calls, Receive(c) PROVE Filed'
  BY <1>0, <1>7, SettleKeepsFiled DEF Receive
<1>8. ASSUME NEW c \in calls, Lose(c) PROVE Filed'
  <2>1. \A d \in calls' : d \in calls \ {c} \/ (d = Stray(c) /\ c.answer = "none")
    BY <1>8 DEF Lose
  <2>2. Settle(c, "NETWORK")
    BY <1>8 DEF Lose
  <2> QED
    BY <1>0, <2>1, <2>2, SettleKeepsFiled
<1>9. CASE Leave
  <2>1. NewAttempt /\ UNCHANGED <<calls, filed, keys, sent>>
    BY <1>9 DEF Leave
  <2>2. page'.count = page.count /\ page'.open = FALSE
    BY <1>0, <1>9 DEF Leave, FilingTypeOK
  <2>3. \A c \in calls : ~Mine(c)' /\ c.page <= page.count
    BY <1>0, <2>2 DEF Mine, Filed, Flow
  <2> QED
    BY <1>0, <2>1, <2>2, <2>3, NewAttemptKeepsFiled
<1>10. CASE Open \/ Reload
  <2>1. /\ NewAttempt /\ UNCHANGED <<filed, keys, sent>> /\ page'.count = page.count + 1
        /\ page.count < page'.count /\ page'.count \in Nat
    BY <1>0, <1>10 DEF Open, Reload, Mount
  <2>2. \A c \in calls : c.page \in Nat /\ c.page <= page.count
    BY <1>0, FilingBounds DEF Filed, Flow, FilingTypeOK, CallState
  <2>3. \A c \in calls : Stray(c).request = c.request /\ Stray(c).answer = c.answer /\ Stray(c).page = 0
    BY <1>0 DEF Stray, FilingTypeOK, CallState
  <2>4. \A c \in calls' : \E d \in calls : c = d \/ c = Stray(d)
    BY <1>10 DEF Open, Reload
  <2>5. \A c \in calls' : c.page <= page.count /\ c.page \in Nat
                         /\ \E d \in calls : d.request = c.request /\ d.answer = c.answer
    BY <1>0, <2>2, <2>3, <2>4
  <2>6. \A c \in calls' : ~Mine(c)'
    BY <1>0, <2>1, <2>5 DEF Mine
  <2> QED
    BY <1>0, <2>1, <2>5, <2>6, NewAttemptKeepsFiled
<1>11. CASE UNCHANGED filingVars
  <2>1. UNCHANGED <<page, data, step, key, mutation, calls, filed, keys, sent, attempt>>
    BY <1>11 DEF filingVars, form
  <2> QED
    BY <1>0, <2>1 DEF Filed, KeyNamesOneBody, Keys, Flow, Waiting, Answers, Mine, Taken
<1> QED
  BY <1>1, <1>2, <1>3, <1>4, <1>5, <1>6, <1>7, <1>8, <1>9, <1>10, <1>11 DEF FilingNext

-----------------------------------------------------------------------------
LEMMA InvariantIsKept == FilingSpec => []FInv
<1>1. FInv /\ [FilingNext]_filingVars => FInv'
  BY TypeStep, StepsStep, OfferedStep, FiledStep DEF FInv, Filed
<1> QED
  BY InitFInv, <1>1, PTL DEF FilingSpec

(* The state of the wizard, its calls and the edge keep their types.       *)
THEOREM FilingTypeCorrect == FilingSpec => []FilingTypeOK
<1>1. FInv => FilingTypeOK
  BY DEF FInv
<1> QED
  BY InvariantIsKept, <1>1, PTL

(* However the citizen goes back and forth, leaves, reloads and retries,   *)
(* no idempotency key is ever sent with two bodies.                        *)
THEOREM OneBodyPerKey == FilingSpec => []KeyNamesOneBody
<1>1. FInv => KeyNamesOneBody
  BY DEF FInv
<1> QED
  BY InvariantIsKept, <1>1, PTL

(* What the review page shows is the answer to the form it shows, and a    *)
(* success is backed by a filing of that form under the page's key.        *)
THEOREM TheAnswerIsOfThisForm == FilingSpec => []AnswerIsOfThisForm
<1>1. FInv => AnswerIsOfThisForm
  BY DEF FInv, Waiting, Answers, AnswerIsOfThisForm
<1> QED
  BY InvariantIsKept, <1>1, PTL

(* A filing names a category its campaign offers and the credential of     *)
(* that category's path.                                                   *)
THEOREM OnlyOfferedFilings == FilingSpec => []OnlyTheOfferedIsSent
<1>1. FInv => OnlyTheOfferedIsSent
  BY DEF FInv
<1> QED
  BY InvariantIsKept, <1>1, PTL

(* A retry of an unedited form is never refused on account of a filing     *)
(* that an earlier try of it made.                                         *)
THEOREM RetriesAreReplayed == FilingSpec => []RetryIsReplayed
<1>1. FInv => RetryIsReplayed
  <2> SUFFICES ASSUME FInv, mutation.answer = "ALREADY_APPLIED", NEW f \in filed
               PROVE  f.key \notin attempt
    BY DEF RetryIsReplayed
  <2>1. mutation.key = key
    BY DEF FInv, Waiting, FilingTypeOK, MutationState
  <2> QED
    BY <2>1 DEF FInv, Answers, Taken, Keys
<1> QED
  BY InvariantIsKept, <1>1, PTL
=============================================================================
