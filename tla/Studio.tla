------------------------------- MODULE Studio -------------------------------
(***************************************************************************)
(* The Campaign Studio (packages/features/campaigns): one officer's forms  *)
(* over one campaign of one district and one category, the Idempotency-Key *)
(* each form keeps for the intent it last pressed (useIntentKey), and the  *)
(* control plane, which other officers command too.                        *)
(*                                                                         *)
(* Text is what the fields of a form say when they are valid; a text of    *)
(* Active configures an active session. An answer lost, a server error, a  *)
(* session gone and a body the client cannot read are all the "fault" of   *)
(* an outcome the officer does not know.                                   *)
(***************************************************************************)
EXTENDS Naturals

CONSTANTS
  Text, Active,
  Posts,         \* the steps an officer's permissions open, officer by officer
  MaxPresses     \* bound: writes of this officer

ASSUME StudioTexts == Active \subseteq Text /\ Text # {}
ASSUME StudioPosts == Posts \subseteq SUBSET {"create", "policy", "session", "publish", "lifecycle"}
ASSUME StudioBound == MaxPresses \in Nat

VARIABLES
  campaign,      \* the server's campaign
  studio,        \* the officer's post, the page, the read it shows, the open dialog
  step,          \* the form of each step: its text, its key, its mutation
  writes,        \* requests on their way
  presses,       \* keys and requests made so far
  replays,       \* the answer the edge stored under each key
  intent,        \* history: what each form last asked, until its answer is heard
  shown,         \* history: times the answer of a key was shown
  studioHurried  \* history: a session's form was edited while its save was pending

studioVars == <<campaign, studio, step, writes, presses, replays, intent, shown, studioHurried>>

Typed == {"create", "policy", "session"}
Step == Typed \cup {"publish", "lifecycle"}
Closing == {"close", "complete", "cancel"}
Command == Typed \cup {"publish"} \cup Closing
Campaign == [status : {"NONE", "DRAFT", "REGISTRATION_OPEN", "REGISTRATION_CLOSED", "COMPLETED", "CANCELLED"},
             policy : BOOLEAN, covered : BOOLEAN]
Key == 0..MaxPresses                       \* 0 is no key, no request
Asked == [command : Command \cup {"none"}, text : Text]
NoText == CHOOSE t \in Text : TRUE         \* of the commands that carry the public code alone
Nothing == [command |-> "none", text |-> NoText]

NoForm == [text |-> NoText, key |-> 0, asked |-> Nothing, at |-> "idle", observes |-> 0]
NoIntent == [since |-> 0, asked |-> Nothing, made |-> 0]

StudioInit ==
  /\ campaign = [status |-> "NONE", policy |-> FALSE, covered |-> FALSE]
  /\ \E may \in Posts : studio = [page |-> "away", detail |-> campaign, dialog |-> "none", may |-> may]
  /\ step = [s \in Step |-> NoForm]
  /\ writes = {} /\ presses = 0
  /\ replays = [k \in 1..MaxPresses |-> [asked |-> Nothing, answer |-> "none"]]
  /\ intent = [s \in Step |-> NoIntent]
  /\ shown = [k \in 1..MaxPresses |-> 0] /\ studioHurried = FALSE

-----------------------------------------------------------------------------
(* The campaign: TRANSITIONS and the server's own rules.                   *)

Transitions ==
  {<<"publish", "DRAFT", "REGISTRATION_OPEN">>,
   <<"close", "REGISTRATION_OPEN", "REGISTRATION_CLOSED">>,
   <<"complete", "REGISTRATION_CLOSED", "COMPLETED">>,
   <<"cancel", "DRAFT", "CANCELLED">>, <<"cancel", "REGISTRATION_OPEN", "CANCELLED">>}

AvailableCommands(status) == {t[1] : t \in {u \in Transitions : u[2] = status}}
NextCampaignState(status, c) == (CHOOSE t \in Transitions : t[1] = c /\ t[2] = status)[3]

(* canPublish: the preflight, over what another officer can change.        *)
CanPublish(c) == c.status = "DRAFT" /\ c.policy /\ c.covered

Accepts(c, asked) ==
  CASE asked.command = "create" -> c.status = "NONE"
    [] asked.command \in {"policy", "session"} -> c.status = "DRAFT"
    [] asked.command = "publish" -> CanPublish(c)
    [] OTHER -> asked.command \in AvailableCommands(c.status)

Commanded(c, asked) ==
  CASE asked.command = "create" -> [c EXCEPT !.status = "DRAFT"]
    [] asked.command = "policy" -> [c EXCEPT !.policy = TRUE]
    [] asked.command = "session" -> [c EXCEPT !.covered = asked.text \in Active]
    [] OTHER -> [c EXCEPT !.status = NextCampaignState(c.status, asked.command)]

AnotherOfficer(asked) ==
  /\ asked.command # "none" /\ Accepts(campaign, asked)
  /\ campaign' = Commanded(campaign, asked)
  /\ UNCHANGED <<studio, step, writes, presses, replays, intent, shown, studioHurried>>

-----------------------------------------------------------------------------
(* One Idempotency-Key per intent                                          *)

(* keyForIntent: the key of the last intent while it is the same intent.   *)
KeyForIntent(f, asked) == IF f.key # 0 /\ f.asked = asked THEN f.key ELSE presses + 1

(* settle: an answer ends the intent, an unknown outcome does not.         *)
NoKey(f) == [f EXCEPT !.key = 0, !.asked = Nothing]
RefusalKeepsTheKey(f, a) == IF a = "done" THEN NoKey(f) ELSE f       \* mutant
EveryErrorEndsIt(f, a) == NoKey(f)                                   \* mutant
Settle(f, a) == IF a = "fault" THEN f ELSE NoKey(f)

-----------------------------------------------------------------------------
(* The officer                                                             *)

OpenNew ==
  /\ studio.page = "away" /\ "create" \in studio.may
  /\ studio' = [studio EXCEPT !.page = "new"]
  /\ UNCHANGED <<campaign, step, writes, presses, replays, intent, shown, studioHurried>>

OpenStudio ==
  /\ studio.page = "away" /\ campaign.status # "NONE"
  /\ studio' = [studio EXCEPT !.page = "studio", !.detail = campaign]
  /\ UNCHANGED <<campaign, step, writes, presses, replays, intent, shown, studioHurried>>

(* The admin read again: after a write, on its interval, or on focus.      *)
Reread ==
  /\ studio.page = "studio" /\ studio.detail # campaign
  /\ studio' = [studio EXCEPT !.detail = campaign]
  /\ UNCHANGED <<campaign, step, writes, presses, replays, intent, shown, studioHurried>>

(* The forms go with the page; what they asked goes on.                    *)
Left ==
  /\ step' = [s \in Step |-> NoForm] /\ intent' = [s \in Step |-> NoIntent]
  /\ studioHurried' = FALSE
  /\ UNCHANGED <<campaign, presses, replays, shown>>

LeaveStudio ==
  /\ studio.page # "away"
  /\ studio' = [studio EXCEPT !.page = "away", !.dialog = "none"]
  /\ writes' = {[w EXCEPT !.heard = FALSE] : w \in {v \in writes : v.answer = "none"}}
  /\ Left

OnThePage(s) == s \in studio.may /\
  \/ s = "create" /\ studio.page = "new"
  \/ s \in {"policy", "session"} /\ studio.page = "studio" /\ studio.detail.status = "DRAFT"

(* An edit: a session's forgets its save, a draft's only its error.        *)
Edit(s, t) ==
  /\ OnThePage(s) /\ studio.dialog = "none" /\ step[s].text # t
  /\ step' = [step EXCEPT ![s].text = t,
       ![s].at = IF s = "session" \/ (s = "create" /\ @ \in {"refused", "fault"}) THEN "idle" ELSE @,
       ![s].observes = IF s = "session" \/ (s = "create" /\ step[s].at \in {"refused", "fault"}) THEN 0 ELSE @]
  /\ studioHurried' = (studioHurried \/ (s = "session" /\ step[s].at = "pending"))
  /\ UNCHANGED <<campaign, studio, writes, presses, replays, intent, shown>>

StepOf(c) == IF c \in Closing THEN "lifecycle" ELSE c

OpenDialog(c) ==
  LET s == StepOf(c) IN
  /\ studio.page = "studio" /\ studio.dialog = "none" /\ s \in studio.may
  /\ IF c = "publish" THEN CanPublish(studio.detail)
     ELSE c \in AvailableCommands(studio.detail.status)
  /\ studio' = [studio EXCEPT !.dialog = c]
  /\ step' = [step EXCEPT ![s].at = "idle", ![s].observes = 0]
  /\ UNCHANGED <<campaign, writes, presses, replays, intent, shown, studioHurried>>

(* ConfirmAction: not while its write is pending.                          *)
CancelDialog ==
  /\ studio.dialog # "none" /\ step[StepOf(studio.dialog)].at # "pending"
  /\ studio' = [studio EXCEPT !.dialog = "none"]
  /\ UNCHANGED <<campaign, step, writes, presses, replays, intent, shown, studioHurried>>

(* submit, confirm and run: the key is chosen, the request goes out.       *)
PressCommand(c) ==
  LET s == StepOf(c)
      f == step[s]
      asked == [command |-> c, text |-> IF c \in Typed THEN f.text ELSE NoText]
      key == KeyForIntent(f, asked)
      since == IF intent[s].since # 0 /\ intent[s].asked = asked THEN intent[s].since ELSE presses + 1
  IN /\ IF c \in Typed THEN OnThePage(c) /\ studio.dialog = "none" ELSE studio.dialog = c
     /\ f.at # "pending" /\ presses < MaxPresses
     /\ presses' = presses + 1
     /\ step' = [step EXCEPT ![s].key = key, ![s].asked = asked, ![s].at = "pending",
                             ![s].observes = presses + 1]
     /\ writes' = writes \cup
          {[id |-> presses + 1, step |-> s, asked |-> asked, key |-> key, since |-> since,
            answer |-> "none", heard |-> TRUE]}
     /\ intent' = IF since = intent[s].since THEN intent
                  ELSE [intent EXCEPT ![s] = [since |-> since, asked |-> asked, made |-> 0]]
     /\ UNCHANGED <<campaign, studio, replays, shown, studioHurried>>

-----------------------------------------------------------------------------
(* The edge and the service: an answer is stored under its key and given   *)
(* again to the same request; the key of another request is a conflict.    *)

Answers(w) ==
  LET old == replays[w.key] IN
  IF old.answer # "none" THEN (IF old.asked = w.asked THEN {old.answer} ELSE {"refused"})
  ELSE {a \in {"done", "refused"} :
          IF a = "done" THEN Accepts(campaign, w.asked)
          ELSE ~Accepts(campaign, w.asked) \/ w.asked.command \in {"create", "cancel"}}

DecideWrite(w) ==
  LET fresh == replays[w.key].answer = "none" IN
  /\ w.answer = "none"
  /\ \E a \in Answers(w) :
       /\ writes' = (writes \ {w}) \cup IF w.heard THEN {[w EXCEPT !.answer = a]} ELSE {}
       /\ IF fresh
          THEN /\ replays' = [replays EXCEPT ![w.key] = [asked |-> w.asked, answer |-> a]]
               /\ campaign' = IF a = "done" THEN Commanded(campaign, w.asked) ELSE campaign
               /\ intent' = IF a = "done" /\ intent[w.step].since = w.since
                            THEN [intent EXCEPT ![w.step].made = @ + 1] ELSE intent
          ELSE UNCHANGED <<replays, campaign, intent>>
  /\ UNCHANGED <<studio, step, presses, shown, studioHurried>>

(* The answer is lost, before the request has arrived or after.            *)
LoseWrite(w) ==
  /\ w.heard /\ w.answer # "fault"
  /\ writes' = (writes \ {w}) \cup {[w EXCEPT !.answer = "fault"]}
               \cup IF w.answer = "none" THEN {[w EXCEPT !.heard = FALSE]} ELSE {}
  /\ UNCHANGED <<campaign, studio, step, presses, replays, intent, shown, studioHurried>>

(* After the await: settle, what the mutation observes, and where a        *)
(* success leads: the dialog closes, a new campaign's page opens.          *)
HearWrite(w) ==
  LET f == Settle(step[w.step], w.answer)
      seen == step[w.step].observes = w.id
  IN /\ w.heard /\ w.answer # "none"
     /\ writes' = writes \ {w}
     /\ IF w.answer = "done" /\ w.step = "create"
        THEN studio' = [studio EXCEPT !.page = "away"] /\ Left
        ELSE /\ studio' = IF w.answer = "done" /\ w.step \in {"publish", "lifecycle"}
                          THEN [studio EXCEPT !.dialog = "none"] ELSE studio
             /\ step' = [step EXCEPT ![w.step] = IF seen THEN [f EXCEPT !.at = w.answer] ELSE f]
             /\ shown' = IF seen /\ w.answer # "fault" THEN [shown EXCEPT ![w.key] = @ + 1] ELSE shown
             /\ intent' = IF w.answer # "fault" /\ intent[w.step].since = w.since
                          THEN [intent EXCEPT ![w.step].since = 0, ![w.step].asked = Nothing] ELSE intent
             /\ UNCHANGED <<campaign, presses, replays, studioHurried>>

StudioOfficer ==
  \/ OpenNew \/ OpenStudio \/ Reread \/ LeaveStudio \/ CancelDialog
  \/ \E s \in Typed, t \in Text : Edit(s, t)
  \/ \E c \in Closing \cup {"publish"} : OpenDialog(c)
  \/ \E c \in Command : PressCommand(c)
  \/ \E w \in writes : HearWrite(w)
StudioService ==
  \/ \E w \in writes : DecideWrite(w) \/ LoseWrite(w)
  \/ \E a \in Asked : AnotherOfficer(a)

StudioSpec == StudioInit /\ [][StudioOfficer \/ StudioService]_studioVars

-----------------------------------------------------------------------------
(* Properties                                                              *)

StudioTypeOK ==
  /\ campaign \in Campaign
  /\ studio \in [page : {"away", "new", "studio"}, detail : Campaign, dialog : Command \cup {"none"}, may : Posts]
  /\ step \in [Step -> [text : Text, key : Key, asked : Asked, observes : Key,
                        at : {"idle", "pending", "done", "refused", "fault"}]]
  /\ writes \subseteq [id : Key, step : Step, asked : Asked, key : Key, since : Key,
                       answer : {"none", "done", "refused", "fault"}, heard : BOOLEAN]
  /\ presses \in Key /\ studioHurried \in BOOLEAN
  /\ replays \in [1..MaxPresses -> [asked : Asked, answer : {"none", "done", "refused"}]]
  /\ intent \in [Step -> [since : Key, asked : Asked, made : Nat]]
  /\ shown \in [1..MaxPresses -> Nat]

(* "Replay it, which would hide a later fix": no stored answer is put to   *)
(* the officer twice. Once he has read it, a press is judged afresh.       *)
AnswerShownOnce == \A k \in DOMAIN shown : shown[k] <= 1

(* "A lost response replays instead of duplicating": whatever is lost and  *)
(* pressed again, an intent is carried out at most once, and its officer   *)
(* is never told that what he did was refused.                             *)
WrittenOnce ==
  ~studioHurried => \A s \in Step :
    intent[s].made <= 1 /\ (step[s].at = "refused" => intent[s].made = 0)
=============================================================================
