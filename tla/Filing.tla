------------------------------- MODULE Filing -------------------------------
(***************************************************************************)
(* The application wizard (apps/applicant-portal/src/routes/apply/         *)
(* index.tsx): the form and its draft, the idempotency key of a filing     *)
(* attempt, the mutation that sends it, and an edge that files once for    *)
(* a key and once for a campaign.                                          *)
(*                                                                         *)
(* A key is a UUID; only the keys that were sent matter, so a minted key   *)
(* is Fresh until its first request gives it a number of its own.          *)
(***************************************************************************)
EXTENDS Integers

CONSTANTS
  Campaign, Category, Credential,
  None,        \* an absent field of the form
  Offered,     \* [Campaign -> SUBSET Category]: targetCategories
  PathOf,      \* [Category -> {"NESA", "HEC"}]: ACADEMIC_PATH_BY_CATEGORY
  MaxKeys,    \* bound: keys sent
  MaxPages     \* bound: times the page is opened

ASSUME FilingNames == /\ None \notin Campaign \cup Category \cup Credential
                      /\ Offered \in [Campaign -> SUBSET Category]
                      /\ PathOf \in [Category -> {"NESA", "HEC"}]
ASSUME FilingBounds == {MaxKeys, MaxPages} \subseteq Nat \ {0}

VARIABLES
  page,      \* the mounts of the page so far, and whether it is mounted
  step,      \* 0 campaign, 1 category, 2 education, 3 declaration, 4 review
  data,      \* WizardData
  draft,     \* the copy of it in sessionStorage
  key,       \* idempotencyKey
  offline,   \* offlineAttempt
  mutation,  \* useSubmitMyApplication's state
  calls,     \* requests whose promise is pending, of this mount or an earlier one
  filed,     \* the edge: the filings it made, by the key and the body they name
  keys,      \* the UUIDs sent so far, numbered from 1
  sent,      \* history: every key with every body it was sent with
  attempt    \* history: keys sent since the form was last edited

form == <<page, step, data, draft, key, offline, mutation>>
filingVars == <<form, calls, filed, keys, sent, attempt>>

Fresh == 0
Key == 0..MaxKeys
Path == {"NESA", "HEC"}
WizardData == [campaign : Campaign \cup {None}, category : Category \cup {None},
               credential : [Path -> Credential \cup {None}], declared : BOOLEAN]
NoData == [campaign |-> None, category |-> None,
           credential |-> [p \in Path |-> None], declared |-> FALSE]

(* What submit sends of the form: the credential of the category's path.   *)
Body(d) == [campaign |-> d.campaign, category |-> d.category,
            credential |-> IF d.category = None THEN None
                           ELSE d.credential[PathOf[d.category]]]

Bodies == [campaign : Campaign \cup {None}, category : Category \cup {None},
           credential : Credential \cup {None}]
Request == [key : Key, body : Bodies]
Success == {"SUBMITTED", "REPLAYED"}
Failure == {"KEY_REUSED", "INVALID_KEY", "ALREADY_APPLIED", "REFUSED", "NETWORK"}
Answer == {"none"} \cup Success \cup Failure
MutationState == [status : {"idle", "pending", "done", "failed"},
                  key : Key, body : Bodies, answer : Answer]
CallState == [request : Request, page : 0..MaxPages, answer : Answer]
Idle == [status |-> "idle", key |-> Fresh, body |-> Body(NoData), answer |-> "none"]

FilingInit ==
  /\ page = [count |-> 1, open |-> TRUE]
  /\ step = 0 /\ data = NoData /\ draft = NoData
  /\ key = Fresh /\ offline = FALSE /\ mutation = Idle
  /\ calls = {} /\ filed = {} /\ keys = 0 /\ sent = {} /\ attempt = {}

-----------------------------------------------------------------------------
(* The form                                                                *)

KeepForeignCategory(d) == d   \* mutant
WithoutForeignCategory(d) ==
  IF d.category # None /\ d.category \notin Offered[d.campaign]
  THEN [d EXCEPT !.category = None] ELSE d

(* A new key, and the mutation's state thrown away: what a changed body and *)
(* the button for a new attempt do.                                        *)
NewAttemptKeepsKey ==       \* mutant
  key' = key /\ offline' = FALSE /\ mutation' = Idle /\ attempt' = {}
NewAttemptKeepsAnswer ==    \* mutant
  key' = Fresh /\ offline' = FALSE /\ mutation' = mutation /\ attempt' = {}
NewAttempt ==
  key' = Fresh /\ offline' = FALSE /\ mutation' = Idle /\ attempt' = {}

(* advance: data and draft take the patch; sessionStorage may refuse.      *)
Advance(d) ==
  /\ data' = WithoutForeignCategory(d)
  /\ draft' \in {draft, data'}
  /\ step' = step + 1

ChooseCampaign(c) ==
  /\ page.open /\ step = 0
  /\ Advance([data EXCEPT !.campaign = c])
  /\ NewAttempt
  /\ UNCHANGED <<page, calls, filed, keys, sent>>

(* The field starts from the category in the form, offered or not.         *)
ChooseCategory(k) ==
  /\ page.open /\ step = 1
  /\ k \in Offered[data.campaign] \cup ({data.category} \ {None})
  /\ Advance([data EXCEPT !.category = k])
  /\ NewAttempt
  /\ UNCHANGED <<page, calls, filed, keys, sent>>

GiveCredential(v) ==
  /\ page.open /\ step = 2 /\ data.category # None
  /\ Advance([data EXCEPT !.credential[PathOf[data.category]] = v])
  /\ NewAttempt
  /\ UNCHANGED <<page, calls, filed, keys, sent>>

Agree ==
  /\ page.open /\ step = 3
  /\ Advance([data EXCEPT !.declared = TRUE])
  /\ UNCHANGED <<page, key, offline, mutation, calls, filed, keys, sent, attempt>>

Back ==
  /\ page.open /\ step > 0
  /\ step = 4 => mutation.status # "pending"
  /\ step' = step - 1
  /\ UNCHANGED <<page, data, draft, key, offline, mutation, calls, filed, keys, sent, attempt>>

PressNewAttempt ==
  /\ page.open /\ step = 4 /\ ~offline
  /\ mutation.answer \in {"KEY_REUSED", "INVALID_KEY"}
  /\ NewAttempt
  /\ UNCHANGED <<page, step, data, draft, calls, filed, keys, sent>>

-----------------------------------------------------------------------------
(* Submitting                                                              *)

MaySubmit ==
  /\ page.open /\ step = 4 /\ data.declared
  /\ mutation.status # "pending"
  /\ data.category # None /\ data.campaign # None

SubmitOffline ==
  /\ MaySubmit
  /\ offline' = TRUE /\ mutation' = Idle
  /\ UNCHANGED <<page, step, data, draft, key, calls, filed, keys, sent, attempt>>

(* The number a key gets when it is first sent.                            *)
KeySentAnew == keys + 1      \* mutant
KeySent == IF key = Fresh THEN keys + 1 ELSE key

Submit ==
  /\ MaySubmit
  /\ KeySent \in Key
  /\ LET request == [key |-> KeySent, body |-> Body(data)]
     IN /\ key' = KeySent
        /\ keys' = IF KeySent > keys THEN KeySent ELSE keys
        /\ offline' = FALSE
        /\ mutation' = [status |-> "pending", key |-> KeySent, body |-> Body(data), answer |-> "none"]
        /\ calls' = calls \cup {[request |-> request, page |-> page.count, answer |-> "none"]}
        /\ sent' = sent \cup {request}
        /\ attempt' = attempt \cup {KeySent}
  /\ UNCHANGED <<page, step, data, draft, filed>>

(* The edge, once for a request, also for one whose caller gave up: it     *)
(* replays a key's filing, refuses the key with another body, and files    *)
(* one application for a campaign.                                         *)
Verdicts(r) ==
  IF \E f \in filed : f.key = r.key
  THEN {IF r \in filed THEN "REPLAYED" ELSE "KEY_REUSED"}
  ELSE IF \E f \in filed : f.body.campaign = r.body.campaign
       THEN {"ALREADY_APPLIED"}
       ELSE {"SUBMITTED", "REFUSED", "INVALID_KEY"}

Stray(c) == [c EXCEPT !.page = 0]      \* nobody awaits it any more

Serve(c) ==
  /\ c.answer = "none"
  /\ \E v \in Verdicts(c.request) :
       /\ calls' = (calls \ {c}) \cup IF c.page = 0 THEN {} ELSE {[c EXCEPT !.answer = v]}
       /\ filed' = IF v = "SUBMITTED" THEN filed \cup {c.request} ELSE filed
  /\ UNCHANGED <<form, keys, sent, attempt>>

(* submit, after its await: the page shows the answer if the call is of    *)
(* this mount; the draft goes with a success, whatever mount it is of.     *)
Settle(c, answer) ==
  /\ c.page # 0
  /\ mutation' = IF page.open /\ c.page = page.count
                 THEN [mutation EXCEPT !.status = IF answer \in Success THEN "done" ELSE "failed",
                                       !.answer = answer]
                 ELSE mutation
  /\ draft' \in IF answer \in Success THEN {NoData, draft} ELSE {draft}
  /\ offline' = IF answer \in Success /\ page.open /\ c.page = page.count THEN FALSE ELSE offline
  /\ UNCHANGED <<page, step, data, key, filed, keys, sent, attempt>>

Receive(c) == c.answer # "none" /\ calls' = calls \ {c} /\ Settle(c, c.answer)

Lose(c) ==
  /\ calls' = (calls \ {c}) \cup IF c.answer = "none" THEN {Stray(c)} ELSE {}
  /\ Settle(c, "NETWORK")

-----------------------------------------------------------------------------
(* The page comes and goes                                                 *)

(* Leaving by a link: the state of the page is gone, its await is not.     *)
Leave ==
  /\ page.open
  /\ page' = [page EXCEPT !.open = FALSE]
  /\ step' = 0 /\ data' = NoData /\ NewAttempt
  /\ UNCHANGED <<draft, calls, filed, keys, sent>>

Mount ==
  /\ page.count < MaxPages
  /\ page' = [count |-> page.count + 1, open |-> TRUE]
  /\ step' = 0 /\ data' = draft
  /\ NewAttempt
  /\ UNCHANGED <<draft, filed, keys, sent>>

Open == ~page.open /\ Mount /\ UNCHANGED calls

(* A reload ends every await of the tab, not the requests under way.       *)
Reload == Mount /\ calls' = {Stray(c) : c \in {d \in calls : d.answer = "none"}}

FilingNext ==
  \/ \E c \in Campaign : ChooseCampaign(c)
  \/ \E k \in Category : ChooseCategory(k)
  \/ \E v \in Credential : GiveCredential(v)
  \/ Agree \/ Back \/ PressNewAttempt
  \/ SubmitOffline \/ Submit
  \/ \E c \in calls : Serve(c) \/ Receive(c) \/ Lose(c)
  \/ Leave \/ Open \/ Reload

FilingSpec == FilingInit /\ [][FilingNext]_filingVars

-----------------------------------------------------------------------------
(* Properties                                                              *)

FilingTypeOK ==
  /\ page \in [count : 1..MaxPages, open : BOOLEAN] /\ step \in 0..4
  /\ data \in WizardData /\ draft \in WizardData
  /\ key \in Key /\ keys \in Key /\ offline \in BOOLEAN
  /\ mutation \in MutationState /\ calls \subseteq CallState
  /\ filed \subseteq Request /\ sent \subseteq Request /\ attempt \subseteq Key

(* "A changed request body is a new filing attempt": no key ever names two *)
(* bodies, however the citizen goes back and forth through the wizard.     *)
KeyNamesOneBody ==
  \A r, s \in sent : r.key = s.key => r.body = s.body

(* The answer on the review page, and the wait for one, are about the form *)
(* under it, and a success stands for a filing of exactly that form.       *)
AnswerIsOfThisForm ==
  mutation.status # "idle" =>
    /\ mutation.body = Body(data)
    /\ mutation.status = "done" => [key |-> mutation.key, body |-> Body(data)] \in filed

(* Nothing is sent that the campaign does not offer or that lacks the      *)
(* credential of its category's path, drafts of other campaigns included.  *)
OnlyTheOfferedIsSent ==
  \A r \in sent :
    /\ r.body.category \in Offered[r.body.campaign]
    /\ r.body.credential # None

(* "A retry without edits keeps the existing UUID so the edge can replay   *)
(* safely": after an answer that was lost, the retry is never told that    *)
(* the citizen has already applied by the very filing it repeats.          *)
RetryIsReplayed ==
  mutation.answer = "ALREADY_APPLIED" => \A f \in filed : f.key \notin attempt

(* "no submission was sent" (apply.offline_body), the text for a network   *)
(* failure: nothing was filed under the key it is shown for.               *)
OfflineMeansNotSent ==
  mutation.answer = "NETWORK" => \A f \in filed : f.key # mutation.key
=============================================================================
