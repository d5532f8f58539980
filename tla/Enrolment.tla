------------------------------ MODULE Enrolment ------------------------------
(***************************************************************************)
(* Setting up a tablet (field-ops routes/setup.tsx, runtime/device.ts and  *)
(* context.tsx, field-ledger device-identity.ts): each tab opens a runtime *)
(* over the identity they all store, the setup page confirms a venue day,  *)
(* enrols the identity and says whether the tablet is ready.               *)
(***************************************************************************)
EXTENDS Integers

CONSTANTS
  Tab,
  Agency,
  officer,       \* the agency of the officer who signed in
  NoAgency,
  MaxIdentities, \* bound: key pairs made
  MaxAsks        \* bound: enrolments sent

ASSUME TabletNames == officer \in Agency /\ Agency \cap {NoAgency, "none", "refused", "lost"} = {}
ASSUME TabletBounds == MaxIdentities \in Nat \ {0} /\ MaxAsks \in Nat

VARIABLES
  kept,       \* the identity in IndexedDB
  day,        \* whether a venue day is in localStorage
  runtime,    \* of each tab: closed, making a key, or its identity
  setup,      \* of each tab: the setup page
  made,       \* key pairs made
  rosters,    \* tabs waiting for the roster that confirms the day
  enrolments, \* enrolment requests under way
  asked,      \* enrolments sent
  vouched,    \* the service: every enrolment it made, by key and agency
  revoked,    \* the service: keys a supervisor revoked
  raced       \* history: two tabs found no identity before one was stored

tabletVars == <<kept, day, runtime, setup, made>>
officeVars == <<vouched, revoked>>
enrolmentVars == <<tabletVars, rosters, enrolments, asked, officeVars, raced>>

NoIdentity == [key |-> 0, agency |-> NoAgency]
Closed == [status |-> "closed", identity |-> NoIdentity]
NoSetup == [open |-> FALSE, busy |-> "none", readiness |-> "unknown"]

(* A tablet nobody set up, or one that was used before, also by others.    *)
EnrolmentInit ==
  /\ \E agency \in Agency \cup {NoAgency} :
       \/ kept = NoIdentity /\ agency = NoAgency
       \/ kept = [key |-> 1, agency |-> agency]
  /\ made = kept.key
  /\ vouched = IF kept.agency = NoAgency THEN {} ELSE {kept}
  /\ revoked = {}
  /\ day \in BOOLEAN
  /\ runtime = [t \in Tab |-> Closed] /\ setup = [t \in Tab |-> NoSetup]
  /\ rosters = {} /\ enrolments = {} /\ asked = 0 /\ raced = FALSE

Ready(t) == runtime[t].status = "ready"
Mine(t) == runtime[t].identity
Enrolled(identity) == identity.agency = officer
OnPage(t) == setup[t].open

-----------------------------------------------------------------------------
(* The runtime of a tab                                                    *)

(* loadOrCreateIdentity, up to what its load finds.                        *)
OnlyTheEnrolledIsKept(t) ==   \* mutant
  /\ runtime[t].status = "closed"
  /\ runtime' = [runtime EXCEPT ![t] =
       IF kept.agency # NoAgency THEN [status |-> "ready", identity |-> kept]
       ELSE [status |-> "making", identity |-> NoIdentity]]
  /\ raced' = (raced \/ (kept = NoIdentity /\ \E u \in Tab : runtime[u].status = "making"))
  /\ UNCHANGED <<kept, day, setup, made, rosters, enrolments, asked, officeVars>>
OpenRuntime(t) ==
  /\ runtime[t].status = "closed"
  /\ runtime' = [runtime EXCEPT ![t] =
       IF kept # NoIdentity THEN [status |-> "ready", identity |-> kept]
       ELSE [status |-> "making", identity |-> NoIdentity]]
  /\ raced' = (raced \/ (kept = NoIdentity /\ \E u \in Tab : runtime[u].status = "making"))
  /\ UNCHANGED <<kept, day, setup, made, rosters, enrolments, asked, officeVars>>

(* The rest of it: a key pair is made and stored over whatever is there.   *)
StoreIdentity(t) ==
  /\ runtime[t].status = "making" /\ made < MaxIdentities
  /\ made' = made + 1
  /\ kept' = [key |-> made', agency |-> NoAgency]
  /\ runtime' = [runtime EXCEPT ![t] = [status |-> "ready", identity |-> kept']]
  /\ UNCHANGED <<day, setup, rosters, enrolments, asked, officeVars, raced>>

FailToOpen(t) ==
  /\ runtime[t].status = "making" /\ runtime' = [runtime EXCEPT ![t] = Closed]
  /\ UNCHANGED <<kept, day, setup, made, rosters, enrolments, asked, officeVars, raced>>

(* A reload or a closed tab: what it awaited is heard by nobody.           *)
CloseTab(t) ==
  /\ runtime[t].status # "closed"
  /\ runtime' = [runtime EXCEPT ![t] = Closed]
  /\ setup' = [setup EXCEPT ![t] = NoSetup]
  /\ rosters' = rosters \ {t}
  /\ enrolments' = {IF e.tab = t THEN [e EXCEPT !.heard = FALSE] ELSE e : e \in enrolments}
  /\ UNCHANGED <<kept, day, made, asked, officeVars, raced>>

-----------------------------------------------------------------------------
(* The setup page                                                          *)

OpenSetup(t) ==
  /\ Ready(t) /\ ~OnPage(t)
  /\ setup' = [setup EXCEPT ![t] = [NoSetup EXCEPT !.open = TRUE]]
  /\ UNCHANGED <<kept, day, runtime, made, rosters, enrolments, asked, officeVars, raced>>

LeaveSetup(t) ==
  /\ OnPage(t) /\ setup' = [setup EXCEPT ![t] = NoSetup]
  /\ UNCHANGED <<kept, day, runtime, made, rosters, enrolments, asked, officeVars, raced>>

(* refresh, when the page opens, at its button and after every call: what  *)
(* it probes is shown later, and what it found is only more by then. Any   *)
(* of the other checks may fail on this tablet.                            *)
Refresh(t) ==
  /\ OnPage(t)
  /\ \E ready \in {FALSE, Enrolled(Mine(t)) /\ day} :
       setup' = [setup EXCEPT ![t].readiness = IF ready THEN "ready" ELSE "blocked"]
  /\ UNCHANGED <<kept, day, runtime, made, rosters, enrolments, asked, officeVars, raced>>

ConfirmVenueDay(t) ==
  /\ OnPage(t) /\ setup[t].busy # "venue"
  /\ setup' = [setup EXCEPT ![t].busy = "venue"]
  /\ rosters' = rosters \cup {t}
  /\ UNCHANGED <<kept, day, runtime, made, enrolments, asked, officeVars, raced>>

(* The roster confirms the day, which private mode does not store, or the  *)
(* call fails; the page has gone or not.                                   *)
HearRoster(t) ==
  /\ t \in rosters /\ rosters' = rosters \ {t}
  /\ day' \in {day, TRUE}
  /\ setup' = IF OnPage(t) THEN [setup EXCEPT ![t].busy = "none"] ELSE setup
  /\ UNCHANGED <<kept, runtime, made, enrolments, asked, officeVars, raced>>

PressEnrol(t) ==
  /\ OnPage(t) /\ ~Enrolled(Mine(t)) /\ setup[t].busy # "enrol"
  /\ asked < MaxAsks
  /\ asked' = asked + 1
  /\ setup' = [setup EXCEPT ![t].busy = "enrol"]
  /\ enrolments' = enrolments \cup
       {[ask |-> asked', tab |-> t, key |-> Mine(t).key, heard |-> TRUE, answer |-> "none"]}
  /\ UNCHANGED <<kept, day, runtime, made, rosters, officeVars, raced>>

(* acknowledgeEnrolment: the tab's identity, marked, over the stored one.  *)
Acknowledge(t, agency) ==
  /\ runtime' = [runtime EXCEPT ![t].identity.agency = agency]
  /\ kept' = [Mine(t) EXCEPT !.agency = agency]

AcknowledgedWhateverCame(e, answer) ==   \* mutant
  /\ Acknowledge(e.tab, officer)
  /\ setup' = IF OnPage(e.tab) THEN [setup EXCEPT ![e.tab].busy = "none"] ELSE setup
AfterEnrolment(e, answer) ==
  /\ IF answer \in Agency THEN Acknowledge(e.tab, answer) ELSE UNCHANGED <<runtime, kept>>
  /\ setup' = IF OnPage(e.tab) THEN [setup EXCEPT ![e.tab].busy = "none"] ELSE setup

HearEnrolment(e) ==
  /\ e.heard /\ e.answer # "none"
  /\ enrolments' = enrolments \ {e}
  /\ AfterEnrolment(e, e.answer)
  /\ UNCHANGED <<day, made, rosters, asked, officeVars, raced>>

LoseEnrolment(e) ==
  /\ e.heard
  /\ enrolments' = (enrolments \ {e}) \cup
       IF e.answer = "none" THEN {[e EXCEPT !.heard = FALSE]} ELSE {}
  /\ AfterEnrolment(e, "lost")
  /\ UNCHANGED <<day, made, rosters, asked, officeVars, raced>>

-----------------------------------------------------------------------------
(* field-sync-service: a device is enrolled for the officer's agency, a    *)
(* revoked one never again; a supervisor revokes.                          *)

Answered(e, answer) ==
  (enrolments \ {e}) \cup IF e.heard THEN {[e EXCEPT !.answer = answer]} ELSE {}

EnrolDevice(e) ==
  /\ e.answer = "none"
  /\ \/ /\ e.key \notin revoked
        /\ vouched' = vouched \cup {[key |-> e.key, agency |-> officer]}
        /\ enrolments' = Answered(e, officer)
     \/ enrolments' = Answered(e, "refused") /\ UNCHANGED vouched
  /\ UNCHANGED <<tabletVars, rosters, asked, revoked, raced>>

RevokeDevice(d) ==
  /\ d \in vouched /\ revoked' = revoked \cup {d.key}
  /\ UNCHANGED <<tabletVars, rosters, enrolments, asked, vouched, raced>>

EnrolmentNext ==
  \/ \E t \in Tab : \/ OpenRuntime(t) \/ StoreIdentity(t) \/ FailToOpen(t) \/ CloseTab(t)
                    \/ OpenSetup(t) \/ Refresh(t) \/ LeaveSetup(t)
                    \/ ConfirmVenueDay(t) \/ HearRoster(t) \/ PressEnrol(t)
  \/ \E e \in enrolments : HearEnrolment(e) \/ LoseEnrolment(e) \/ EnrolDevice(e)
  \/ \E d \in vouched : RevokeDevice(d)

EnrolmentSpec == EnrolmentInit /\ [][EnrolmentNext]_enrolmentVars

-----------------------------------------------------------------------------
(* Properties                                                              *)

EnrolmentTypeOK ==
  LET Identity == [key : 0..MaxIdentities, agency : Agency \cup {NoAgency}] IN
  /\ kept \in Identity /\ made \in 0..MaxIdentities
  /\ runtime \in [Tab -> [status : {"closed", "making", "ready"}, identity : Identity]]
  /\ setup \in [Tab -> [open : BOOLEAN, busy : {"none", "venue", "enrol"},
                        readiness : {"unknown", "ready", "blocked"}]]
  /\ rosters \subseteq Tab /\ asked \in 0..MaxAsks
  /\ enrolments \subseteq [ask : 1..MaxAsks, tab : Tab, key : 0..MaxIdentities, heard : BOOLEAN,
                          answer : Agency \cup {"none", "refused"}]
  /\ vouched \subseteq Identity /\ revoked \subseteq 0..MaxIdentities
  /\ day \in BOOLEAN /\ raced \in BOOLEAN

(* "enrolledAt is set only after the server answered the enrolment": where *)
(* the page says the tablet is ready, and in the store every tab opens,    *)
(* the key is one the service enrolled, though it may be revoked since.    *)
ReadyIsBacked ==
  /\ \A t \in Tab : setup[t].readiness = "ready" =>
       /\ Mine(t).agency = officer /\ Mine(t) \in vouched /\ day
  /\ kept.agency # NoAgency => kept \in vouched

(* "One key pair, its device id and key id, kept across reloads": unless   *)
(* two tabs were opened at once on a tablet without one, every tab signs   *)
(* with the key that is stored, whatever they enrol and however often they *)
(* are reloaded.                                                           *)
IdentityIsShared ==
  ~raced => \A t \in Tab : Ready(t) => Mine(t).key = kept.key
=============================================================================
