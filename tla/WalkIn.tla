------------------------------- MODULE WalkIn -------------------------------
(***************************************************************************)
(* The walk-in desk (field-ops routes/walk-in.tsx, ADR-012): one press     *)
(* verifies the identity and then registers the application; a second one  *)
(* records the vetting, which is refused AGE_PENDING until the age check   *)
(* has landed. "Next candidate" is there all the time.                     *)
(*                                                                         *)
(* An applicant stands for the whole form; the category and the academic   *)
(* reference go with it. There is one application of an applicant.         *)
(***************************************************************************)
EXTENDS Naturals

CONSTANTS
  Applicant,
  Nobody,      \* no application on the screen
  MaxVettings  \* bound: presses of "Record on-site vetting"

ASSUME WalkInNames == Nobody \notin Applicant
ASSUME WalkInBound == MaxVettings \in Nat

VARIABLES
  desk,         \* the page: what is registered, its banners, the mutations' states
  chains,       \* submissions under way: verify, then register
  vetCalls,     \* vettings whose answer is due
  vettings,     \* vettings pressed so far
  application,  \* the service: the state of each applicant's application
  deskHurried   \* history: "Next candidate" was pressed while a vetting was due

walkInVars == <<desk, chains, vetCalls, vettings, application, deskHurried>>

Status == {"idle", "pending", "done", "failed"}
DeskPage == [registered : Applicant \cup {Nobody}, agePending : BOOLEAN, vetted : BOOLEAN,
             verify : Status, register : Status, refused : BOOLEAN, vet : Status, latest : 0..MaxVettings]
Chain == [at : {"verify", "register", "registered", "refused", "failed"},
          applicant : Applicant, heard : BOOLEAN]
Vetting == [id : 1..MaxVettings, applicant : Applicant,
            answer : {"none", "VETTED", "AGE_PENDING", "FAULT"}, heard : BOOLEAN]

OpenDesk == [registered |-> Nobody, agePending |-> FALSE, vetted |-> FALSE, verify |-> "idle",
             register |-> "idle", refused |-> FALSE, vet |-> "idle", latest |-> 0]

WalkInInit ==
  /\ desk = OpenDesk /\ chains = {} /\ vetCalls = {} /\ vettings = 0
  /\ application = [a \in Applicant |-> "none"] /\ deskHurried = FALSE

-----------------------------------------------------------------------------
(* Registering                                                             *)

Moved(c, at) == chains' = (chains \ {c}) \cup {[c EXCEPT !.at = at]}

(* handleSubmit, up to its first await. The form submits once at a time.   *)
SubmitWalkIn(a) ==
  /\ desk.registered = Nobody /\ ~\E c \in chains : c.heard
  /\ desk' = [desk EXCEPT !.verify = "pending", !.register = "idle", !.refused = FALSE]
  /\ chains' = chains \cup {[at |-> "verify", applicant |-> a, heard |-> TRUE]}
  /\ UNCHANGED <<vetCalls, vettings, application, deskHurried>>

(* The identity service's answer, and the request that follows a good one, *)
(* also if the page has been left meanwhile.                               *)
VerifyIdentity(c) ==
  /\ c.at = "verify"
  /\ \/ /\ Moved(c, "register")
        /\ desk' = IF c.heard THEN [desk EXCEPT !.verify = "done", !.register = "pending"] ELSE desk
     \/ /\ chains' = chains \ {c}
        /\ desk' = IF c.heard THEN [desk EXCEPT !.verify = "failed"] ELSE desk
  /\ UNCHANGED <<vetCalls, vettings, application, deskHurried>>

RegisterWalkIn(c) ==
  /\ c.at = "register"
  /\ \/ /\ application[c.applicant] = "none"
        /\ application' = [application EXCEPT ![c.applicant] = "registered"]
        /\ Moved(c, "registered")
     \/ Moved(c, "refused") /\ UNCHANGED application
  /\ UNCHANGED <<desk, vetCalls, vettings, deskHurried>>

(* The answer is lost, before the service has decided or after.            *)
RegistrationFails(c) ==
  /\ c.heard /\ c.at \in {"register", "registered"}
  /\ chains' = (chains \ {c}) \cup {[c EXCEPT !.at = "failed"]}
               \cup IF c.at = "register" THEN {[c EXCEPT !.heard = FALSE]} ELSE {}
  /\ UNCHANGED <<desk, vetCalls, vettings, application, deskHurried>>

(* handleSubmit, after its second await: the panel of the application, a   *)
(* refusal by its name, or the generic message.                            *)
HearRegistration(c) ==
  /\ c.at \in {"registered", "refused", "failed"}
  /\ desk' = IF ~c.heard THEN desk
             ELSE LET shown == desk.register = "pending"
                  IN IF c.at = "registered"
                     THEN [desk EXCEPT !.registered = c.applicant, !.register = IF shown THEN "done" ELSE @]
                     ELSE [desk EXCEPT !.register = IF shown THEN "failed" ELSE @,
                                       !.refused = shown /\ c.at = "refused"]
  /\ chains' = chains \ {c}
  /\ UNCHANGED <<vetCalls, vettings, application, deskHurried>>

(* Another category: the mutation is reset, and whatever it still hears    *)
(* shows no message.                                                       *)
ChooseCategory ==
  /\ desk.registered = Nobody /\ desk.register # "idle"
  /\ desk' = [desk EXCEPT !.register = "idle", !.refused = FALSE]
  /\ UNCHANGED <<chains, vetCalls, vettings, application, deskHurried>>

-----------------------------------------------------------------------------
(* Vetting                                                                 *)

PressVet ==
  /\ desk.registered # Nobody /\ ~desk.vetted /\ desk.vet # "pending"
  /\ vettings < MaxVettings
  /\ vettings' = vettings + 1
  /\ desk' = [desk EXCEPT !.agePending = FALSE, !.vet = "pending", !.latest = vettings + 1]
  /\ vetCalls' = vetCalls \cup {[id |-> vettings + 1, applicant |-> desk.registered,
                                 answer |-> "none", heard |-> TRUE]}
  /\ UNCHANGED <<chains, application, deskHurried>>

DecideVetting(c) ==
  /\ c.answer = "none"
  /\ \E a \in {"VETTED", "AGE_PENDING", "FAULT"} :
       /\ a = "VETTED" => application[c.applicant] = "registered"
       /\ a = "AGE_PENDING" => application[c.applicant] = "registered"
       /\ application' = IF a = "VETTED" THEN [application EXCEPT ![c.applicant] = "vetted"]
                         ELSE application
       /\ vetCalls' = (vetCalls \ {c}) \cup IF c.heard THEN {[c EXCEPT !.answer = a]} ELSE {}
  /\ UNCHANGED <<desk, chains, vettings, deskHurried>>

(* The answer is lost, before the service has decided or after.            *)
VettingFails(c) ==
  /\ c.heard /\ c.answer # "FAULT"
  /\ vetCalls' = (vetCalls \ {c}) \cup {[c EXCEPT !.answer = "FAULT"]}
                 \cup IF c.answer = "none" THEN {[c EXCEPT !.heard = FALSE]} ELSE {}
  /\ UNCHANGED <<desk, chains, vettings, application, deskHurried>>

(* handleVet, after its await. An error that is not AGE_PENDING is shown   *)
(* from the mutation's state.                                              *)
AnyRefusalIsVetted(c) ==      \* mutant
  [desk EXCEPT !.vetted = (c.answer # "FAULT"),
               !.vet = IF c.id # desk.latest THEN @ ELSE IF c.answer = "FAULT" THEN "failed" ELSE "done"]
AfterVetting(c) ==
  [desk EXCEPT !.vetted = @ \/ c.answer = "VETTED",
               !.agePending = @ \/ c.answer = "AGE_PENDING",
               !.vet = IF c.id # desk.latest THEN @ ELSE IF c.answer = "VETTED" THEN "done" ELSE "failed"]

HearVetting(c) ==
  /\ c.heard /\ c.answer # "none"
  /\ desk' = AfterVetting(c)
  /\ vetCalls' = vetCalls \ {c}
  /\ UNCHANGED <<chains, vettings, application, deskHurried>>

ResetForgetsTheBanner == [OpenDesk EXCEPT !.vetted = desk.vetted]      \* mutant
Reset == OpenDesk
PressNextCandidate ==
  /\ desk.registered # Nobody
  /\ desk' = Reset
  /\ deskHurried' = (\E c \in vetCalls : c.heard)
  /\ UNCHANGED <<chains, vetCalls, vettings, application>>

(* The page is left, by its cancel link too: the chain goes on unheard.    *)
LeaveDesk ==
  /\ desk' = OpenDesk
  /\ chains' = {[c EXCEPT !.heard = FALSE] : c \in {d \in chains : d.at \in {"verify", "register"}}}
  /\ vetCalls' = {[c EXCEPT !.heard = FALSE] : c \in {d \in vetCalls : d.answer = "none"}}
  /\ deskHurried' = FALSE
  /\ UNCHANGED <<vettings, application>>

DeskOfficer ==
  \/ \E a \in Applicant : SubmitWalkIn(a)
  \/ ChooseCategory \/ PressVet \/ PressNextCandidate \/ (\E c \in vetCalls : HearVetting(c))
DeskService ==
  \/ \E c \in chains :
       VerifyIdentity(c) \/ RegisterWalkIn(c) \/ RegistrationFails(c) \/ HearRegistration(c)
  \/ \E c \in vetCalls : DecideVetting(c) \/ VettingFails(c)

WalkInSpec == WalkInInit /\ [][DeskOfficer \/ DeskService \/ LeaveDesk]_walkInVars

-----------------------------------------------------------------------------
(* Properties                                                              *)

WalkInTypeOK ==
  /\ desk \in DeskPage /\ chains \subseteq Chain /\ vetCalls \subseteq Vetting
  /\ vettings \in 0..MaxVettings /\ deskHurried \in BOOLEAN
  /\ application \in [Applicant -> {"none", "registered", "vetted"}]

(* "The application has moved into on-site vetting": the banners under a   *)
(* candidate's code are about that candidate, if the officer does not call *)
(* the next one while an answer is due.                                    *)
BannerIsThisCandidates ==
  ~deskHurried =>
    /\ desk.vetted => desk.registered # Nobody /\ application[desk.registered] = "vetted"
    /\ desk.agePending => desk.registered # Nobody
    /\ desk.registered # Nobody => application[desk.registered] # "none"
=============================================================================
