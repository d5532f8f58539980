-------------------------------- MODULE Gate --------------------------------
(***************************************************************************)
(* The gate station (field-ops routes/gate.tsx): a pass is captured, the   *)
(* national ID is typed, and admitAtGate spends the pass once for all      *)
(* gates. The screen shows the answer it last got: green lets a candidate  *)
(* in.                                                                     *)
(*                                                                         *)
(* A pass stands for the captured text, a person for a well-formed number. *)
(***************************************************************************)
EXTENDS Naturals

CONSTANTS
  Pass, Person, Venue,
  None,          \* an empty field
  HolderOf,      \* [Pass -> Person]: whose pass it is
  VenueOf,       \* [Pass -> Venue]: where it admits
  MaxAdmissions  \* bound: requests of this gate

ASSUME GatePasses == /\ HolderOf \in [Pass -> Person] /\ VenueOf \in [Pass -> Venue]
                     /\ None \notin Pass \cup Person \cup Venue
ASSUME GateBound == MaxAdmissions \in Nat

VARIABLES
  gate,         \* the page: its fields, the answer shown, useAdmitAtGate's state
  gateVenue,    \* the venue remembered on the device
  gateCalls,    \* requests whose answer is due
  admissions,   \* requests made so far
  admitted,     \* the service: where each pass was spent
  greens,       \* history: times a pass turned this screen green
  gateHurried   \* history: the officer touched the form while an answer was due

gateVars == <<gate, gateVenue, gateCalls, admissions, admitted, greens, gateHurried>>

Refused == {"ALREADY_ADMITTED", "IDENTITY_MISMATCH", "WRONG_VENUE", "OTHER_REFUSAL"}
Outcome == Refused \cup {"ADMITTED"}
Admission == [id : 1..MaxAdmissions, pass : Pass, person : Person, venue : Venue,
              answer : Outcome \cup {"none", "FAULT"}, heard : BOOLEAN]
GatePage == [editing : BOOLEAN, qr : Pass \cup {None}, nid : Person \cup {None},
             result : [outcome : Outcome \cup {"none"}, pass : Pass \cup {None}],
             status : {"idle", "pending", "done", "failed"}, latest : 0..MaxAdmissions]

NoResult == [outcome |-> "none", pass |-> None]
OpenGate == [editing |-> gateVenue = None, qr |-> None, nid |-> None, result |-> NoResult,
             status |-> "idle", latest |-> 0]

GateInit ==
  /\ gateVenue = None /\ gate = OpenGate
  /\ gateCalls = {} /\ admissions = 0 /\ admitted = [p \in Pass |-> "nowhere"]
  /\ greens = [p \in Pass |-> 0] /\ gateHurried = FALSE

AnswerIsDue == \E c \in gateCalls : c.heard
FormShows == ~gate.editing /\ gate.result = NoResult
Touch == gateHurried' = (gateHurried \/ AnswerIsDue)

-----------------------------------------------------------------------------
(* The officer                                                             *)

ConfirmVenue(v) ==
  /\ gate.editing
  /\ gateVenue' = v /\ gate' = [gate EXCEPT !.editing = FALSE]
  /\ Touch
  /\ UNCHANGED <<gateCalls, admissions, admitted, greens>>

ChangeVenue ==
  /\ ~gate.editing
  /\ gate' = [gate EXCEPT !.editing = TRUE]
  /\ UNCHANGED <<gateVenue, gateCalls, admissions, admitted, greens, gateHurried>>

(* captured: from the camera, a hand-held scanner or the field.            *)
Captured(p) ==
  /\ FormShows /\ gate.qr = None
  /\ gate' = [gate EXCEPT !.qr = p, !.result = NoResult]
  /\ Touch
  /\ UNCHANGED <<gateVenue, gateCalls, admissions, admitted, greens>>

Rescan ==
  /\ FormShows /\ gate.qr # None
  /\ gate' = [gate EXCEPT !.qr = None]
  /\ Touch
  /\ UNCHANGED <<gateVenue, gateCalls, admissions, admitted, greens>>

TypeNid(n) ==
  /\ FormShows /\ gate.nid # n
  /\ gate' = [gate EXCEPT !.nid = n]
  /\ Touch
  /\ UNCHANGED <<gateVenue, gateCalls, admissions, admitted, greens>>

(* submit. The button waits for the answer; Enter in the ID field does not.*)
SubmitAdmission ==
  /\ FormShows /\ gate.qr # None /\ gate.nid # None /\ gateVenue # None
  /\ admissions < MaxAdmissions
  /\ admissions' = admissions + 1
  /\ gate' = [gate EXCEPT !.status = "pending", !.latest = admissions + 1]
  /\ gateCalls' = gateCalls \cup
       {[id |-> admissions + 1, pass |-> gate.qr, person |-> gate.nid, venue |-> gateVenue,
         answer |-> "none", heard |-> TRUE]}
  /\ Touch
  /\ UNCHANGED <<gateVenue, admitted, greens>>

NextKeepsTheAnswer == [OpenGate EXCEPT !.editing = FALSE, !.result = gate.result]   \* mutant
NextCandidate == [OpenGate EXCEPT !.editing = FALSE]
PressNext ==
  /\ ~gate.editing /\ gate.result # NoResult
  /\ gate' = NextCandidate
  /\ gateHurried' = AnswerIsDue
  /\ UNCHANGED <<gateVenue, gateCalls, admissions, admitted, greens>>

-----------------------------------------------------------------------------
(* The admission service: one admission of a pass, whichever gate asks.    *)

Grounds(c) ==
  (IF admitted[c.pass] # "nowhere" THEN {"ALREADY_ADMITTED"} ELSE {})
  \cup (IF HolderOf[c.pass] # c.person THEN {"IDENTITY_MISMATCH"} ELSE {})
  \cup (IF VenueOf[c.pass] # c.venue THEN {"WRONG_VENUE"} ELSE {})

DecideAdmission(c) ==
  /\ c.answer = "none"
  /\ \E a \in (IF Grounds(c) = {} THEN {"ADMITTED", "OTHER_REFUSAL"} ELSE Grounds(c)) :
       /\ admitted' = IF a = "ADMITTED" THEN [admitted EXCEPT ![c.pass] = "here"] ELSE admitted
       /\ gateCalls' = (gateCalls \ {c}) \cup IF c.heard THEN {[c EXCEPT !.answer = a]} ELSE {}
  /\ UNCHANGED <<gate, gateVenue, admissions, greens, gateHurried>>

AdmittedElsewhere(p) ==
  /\ admitted[p] = "nowhere"
  /\ admitted' = [admitted EXCEPT ![p] = "elsewhere"]
  /\ UNCHANGED <<gate, gateVenue, gateCalls, admissions, greens, gateHurried>>

(* The network, a server error or a session gone: before the service has   *)
(* decided, or after.                                                      *)
AdmissionFails(c) ==
  /\ c.heard /\ c.answer # "FAULT"
  /\ gateCalls' = (gateCalls \ {c}) \cup {[c EXCEPT !.answer = "FAULT"]}
                  \cup IF c.answer = "none" THEN {[c EXCEPT !.heard = FALSE]} ELSE {}
  /\ UNCHANGED <<gate, gateVenue, admissions, admitted, greens, gateHurried>>

(* admitAtGate: a documented refusal is an answer like another.            *)
AlreadyReadsAdmitted(a) == IF a = "ALREADY_ADMITTED" THEN "ADMITTED" ELSE a    \* mutant
AdmitAtGate(a) == a

(* submit, after its await: whatever the form says by now.                 *)
HearAdmission(c) ==
  LET a == AdmitAtGate(c.answer)
      settled == IF c.id = gate.latest
                 THEN [gate EXCEPT !.status = IF a = "FAULT" THEN "failed" ELSE "done"]
                 ELSE gate
  IN /\ c.heard /\ c.answer # "none"
     /\ gateCalls' = gateCalls \ {c}
     /\ gate' = IF a = "FAULT" THEN settled
                ELSE [settled EXCEPT !.result = [outcome |-> a, pass |-> c.pass]]
     /\ greens' = IF a = "ADMITTED" THEN [greens EXCEPT ![c.pass] = @ + 1] ELSE greens
     /\ UNCHANGED <<gateVenue, admissions, admitted, gateHurried>>

(* The page is left: its awaits set the state of nothing.                  *)
LeaveGate ==
  /\ gate' = OpenGate
  /\ gateCalls' = {[c EXCEPT !.heard = FALSE] : c \in {d \in gateCalls : d.answer = "none"}}
  /\ gateHurried' = FALSE
  /\ UNCHANGED <<gateVenue, admissions, admitted, greens>>

GateOfficer ==
  \/ \E v \in Venue : ConfirmVenue(v)
  \/ \E p \in Pass : Captured(p)
  \/ \E n \in Person \cup {None} : TypeNid(n)
  \/ ChangeVenue \/ Rescan \/ SubmitAdmission \/ PressNext
  \/ \E c \in gateCalls : HearAdmission(c)
GateService ==
  \/ \E c \in gateCalls : DecideAdmission(c) \/ AdmissionFails(c)
  \/ \E p \in Pass : AdmittedElsewhere(p)

GateSpec == GateInit /\ [][GateOfficer \/ GateService \/ LeaveGate]_gateVars

-----------------------------------------------------------------------------
(* Properties                                                              *)

GateTypeOK ==
  /\ gate \in GatePage /\ gateVenue \in Venue \cup {None}
  /\ gateCalls \subseteq Admission /\ admissions \in 0..MaxAdmissions
  /\ admitted \in [Pass -> {"nowhere", "here", "elsewhere"}]
  /\ greens \in [Pass -> Nat] /\ gateHurried \in BOOLEAN

(* "Single-use admission": no pass turns this screen green twice, or after *)
(* another gate has spent it, whatever answers are lost and asked again.   *)
OneGreenPerPass ==
  \A p \in Pass : greens[p] <= IF admitted[p] = "here" THEN 1 ELSE 0

(* "green = let them in": an officer who waits for each answer lets in the *)
(* holder of the pass on the screen, whose pass was spent here.            *)
GreenIsThisCandidate ==
  ~gateHurried /\ gate.result.outcome = "ADMITTED" =>
    /\ gate.result.pass = gate.qr
    /\ HolderOf[gate.qr] = gate.nid /\ admitted[gate.qr] = "here"

(* The same of an officer who does not wait, which the page lets him.      *)
GreenIsWhoeverIsHere ==
  gate.result.outcome = "ADMITTED" => gate.result.pass = gate.qr
=============================================================================
