---------------------------- MODULE PortalProofs ----------------------------
(***************************************************************************)
(* Theorems about the citizen's other pages, for any catalogue, files,     *)
(* numbers and length of the wait, and whatever page a visit works: a      *)
(* receipt and a failure are true, the field for the certificate number    *)
(* comes back, and a pass that is spent is taken down.                     *)
(***************************************************************************)
EXTENDS Portal, TLAPS

-----------------------------------------------------------------------------
(* The pass: once a period has passed over a pass no longer good, a read   *)
(* is under way, and no second period passes before it ends.               *)

PInv == ExamPassTypeOK /\ overdue \in {0, 1} /\ (overdue = 1 => ticket.read # "none")

LEMMA PassStates == {"PENDING", "READY", "ADMITTED", "ON_HOLD", "CLOSED"} = PassState /\ "none" \notin PassState
BY DEF PassState

LEMMA PInvInit == ExamPassInit => PInv
BY DEF ExamPassInit, PInv, ExamPassTypeOK, PassState, Reading

LEMMA ExamPassStep == ASSUME PInv, [ExamPassNext]_examPassVars PROVE PInv'
<1> USE DEF PInv, ExamPassTypeOK
<1>1. CASE PassChanges
  <2>1. \A s \in PassState : Becomes[s] \subseteq PassState
    BY Zenon DEF Becomes, PassState
  <2> QED
    BY <1>1, <2>1 DEF PassChanges
<1>2. CASE OpenPass
  BY <1>2 DEF OpenPass, Reading
<1>3. CASE LeavePass
  BY <1>3 DEF LeavePass
<1>4. CASE GrowsStale
  <2>1. ticket' \in [at : {"away", "page"}, data : PassState \cup {"none"}, fresh : BOOLEAN,
                     failed : BOOLEAN, read : Reading]
    BY <1>4 DEF GrowsStale
  <2>2. ticket'.read = ticket.read
    BY <1>4 DEF GrowsStale
  <2> QED
    BY <1>4, <2>1, <2>2 DEF GrowsStale
<1>5. CASE PeriodPasses
  <2>1. overdue = 0
    BY <1>5 DEF PeriodPasses
  <2>2. overdue' = 1 => ticket'.read = "asked"
    <3> SUFFICES ASSUME overdue' = 1 PROVE ticket'.read = "asked"
      OBVIOUS
    <3>1. ticket.data \in Polled
      BY <1>5, <2>1 DEF PeriodPasses, ShowsPass, Polled
    <3> QED
      BY <1>5, <3>1 DEF PeriodPasses
  <2>3. ticket' \in [at : {"away", "page"}, data : PassState \cup {"none"}, fresh : BOOLEAN,
                     failed : BOOLEAN, read : Reading]
    BY <1>5 DEF PeriodPasses, Reading
  <2>4. overdue' \in {0, 1}
    BY <1>5, <2>1 DEF PeriodPasses
  <2> QED
    BY <1>5, <2>2, <2>3, <2>4 DEF PeriodPasses
<1>6. CASE Reconnects
  BY <1>6 DEF Reconnects, Reading
<1>7. CASE AnswerInvitation
  BY <1>7, PassStates DEF AnswerInvitation, Reading
<1>8. CASE HearInvitation
  <2>1. ticket' \in [at : {"away", "page"}, data : PassState \cup {"none"}, fresh : BOOLEAN,
                     failed : BOOLEAN, read : Reading]
    BY <1>8 DEF HearInvitation, Reading
  <2>2. overdue' = 0 /\ pass' = pass
    BY <1>8 DEF HearInvitation
  <2> QED
    BY <2>1, <2>2
<1>9. CASE InvitationFails
  <2>1. ticket' \in [at : {"away", "page"}, data : PassState \cup {"none"}, fresh : BOOLEAN,
                     failed : BOOLEAN, read : Reading]
    BY <1>9 DEF InvitationFails, Reading
  <2>2. overdue' = 0 /\ pass' = pass
    BY <1>9 DEF InvitationFails
  <2> QED
    BY <2>1, <2>2
<1>10. CASE UNCHANGED examPassVars
  BY <1>10 DEF examPassVars
<1> QED
  BY <1>1, <1>2, <1>3, <1>4, <1>5, <1>6, <1>7, <1>8, <1>9, <1>10 DEF ExamPassNext

-----------------------------------------------------------------------------
(* The number: while "sent" stands over a wanted field, what the timer has *)
(* left and what has passed make up the whole wait.                        *)

Counting ==
  /\ AwaitingRecord => sentFor + giveUp = SentWait
  /\ ~AwaitingRecord => sentFor = 0

CInv == ClearanceTypeOK /\ Counting

LEMMA CInvInit == ClearanceInit => CInv
<1> SUFFICES ASSUME ClearanceInit PROVE CInv
  OBVIOUS
<1>1. ClearanceTypeOK
  BY ClearanceBounds DEF ClearanceInit, ClearanceTypeOK, States, NoAttempt
<1>2. Counting
  BY DEF ClearanceInit, Counting, AwaitingRecord, NoAttempt
<1> QED
  BY <1>1, <1>2 DEF CInv

(* Whatever a render changes, the effect keeps the count.                  *)
LEMMA RearmCounts ==
  ASSUME CInv, Rearm
  PROVE  Counting' /\ giveUp' \in 0..SentWait /\ sentFor' \in Nat
<1>1. giveUp \in 0..SentWait /\ sentFor \in Nat /\ SentWait \in Nat
  BY ClearanceBounds DEF CInv, ClearanceTypeOK
<1>2. CASE ~AwaitingRecord'
  BY <1>1, <1>2 DEF Rearm, Counting
<1>3. CASE AwaitingRecord' /\ AwaitingRecord
  BY <1>1, <1>3 DEF CInv, Rearm, Counting
<1>4. CASE AwaitingRecord' /\ ~AwaitingRecord
  BY <1>1, <1>4 DEF CInv, Rearm, Counting
<1> QED
  BY <1>2, <1>3, <1>4

LEMMA ClearanceStep == ASSUME CInv, [ClearanceNext]_clearanceVars PROVE CInv'
<1>0. ClearanceTypeOK /\ Counting
  BY DEF CInv
<1>a. ASSUME Rearm, shown' \in States, reading' \in States \cup {"no", "asked"}, clearance' \in States,
             numbers' \in 0..MaxNumbers, accepted' \in Nat,
             attach' \in [status : {"idle", "pending", "sent", "failed", "closed"}, number : 0..MaxNumbers],
             asks' \subseteq [number : 1..MaxNumbers, answer : {"none", "sent", "failed", "closed"}]
      PROVE  CInv'
  <2>1. Counting' /\ giveUp' \in 0..SentWait /\ sentFor' \in Nat
    BY <1>a, RearmCounts
  <2> QED
    BY <1>a, <2>1 DEF CInv, ClearanceTypeOK
<1>b. ASSUME UNCHANGED <<shown, attach, numbers, giveUp, sentFor>>,
             reading' \in States \cup {"no", "asked"}, clearance' \in States, accepted' \in Nat,
             asks' \subseteq [number : 1..MaxNumbers, answer : {"none", "sent", "failed", "closed"}]
      PROVE  CInv'
  <2>1. AwaitingRecord' = AwaitingRecord
    BY <1>b DEF AwaitingRecord
  <2>2. Counting'
    BY <1>0, <1>b, <2>1 DEF Counting
  <2> QED
    BY <1>0, <1>b, <2>2 DEF CInv, ClearanceTypeOK
<1>c. NoAttempt \in [status : {"idle", "pending", "sent", "failed", "closed"}, number : 0..MaxNumbers]
  BY ClearanceBounds DEF NoAttempt
<1>1. CASE SendNumber
  <2>1. numbers' \in 1..MaxNumbers
    BY <1>0, <1>1, ClearanceBounds DEF SendNumber, ClearanceTypeOK
  <2> QED
    BY <1>0, <1>1, <1>a, <2>1 DEF SendNumber, ClearanceTypeOK
<1>2. CASE Poll
  <2>1. AwaitingRecord' = AwaitingRecord
    BY <1>2 DEF Poll, AwaitingRecord
  <2>2. giveUp' \in 0..SentWait /\ sentFor' \in Nat /\ Counting'
    <3>1. CASE AwaitingRecord
      BY <1>0, <1>2, <2>1, <3>1, ClearanceBounds DEF Poll, ClearanceTypeOK, Counting
    <3>2. CASE ~AwaitingRecord
      BY <1>0, <1>2, <2>1, <3>2 DEF Poll, ClearanceTypeOK, Counting
    <3> QED
      BY <3>1, <3>2
  <2>3. reading' \in States \cup {"no", "asked"}
    BY <1>0, <1>2 DEF Poll, ClearanceTypeOK
  <2> QED
    BY <1>0, <1>2, <2>2, <2>3 DEF Poll, CInv, ClearanceTypeOK
<1>3. CASE GiveUp
  BY <1>0, <1>3, <1>a, <1>c DEF GiveUp, ClearanceTypeOK
<1>4. CASE HearChecklist
  BY <1>0, <1>4, <1>a, <1>c DEF HearChecklist, ClearanceTypeOK
<1>5. CASE LoseChecklist
  BY <1>0, <1>5, <1>b DEF LoseChecklist, ClearanceTypeOK
<1>6. CASE LeaveClearance
  BY <1>0, <1>6, <1>a, <1>c DEF LeaveClearance, ClearanceTypeOK
<1>7. ASSUME NEW a \in asks, HearAttach(a) PROVE CInv'
  <2>1. a.answer \in {"sent", "failed", "closed"} /\ asks' \subseteq asks
    BY <1>0, <1>7 DEF HearAttach, ClearanceTypeOK
  <2>2. /\ attach' \in [status : {"idle", "pending", "sent", "failed", "closed"}, number : 0..MaxNumbers]
        /\ reading' \in States \cup {"no", "asked"}
    BY <1>0, <1>7, <2>1 DEF HearAttach, ClearanceTypeOK
  <2> QED
    BY <1>0, <1>7, <1>a, <2>1, <2>2 DEF HearAttach, ClearanceTypeOK
<1>8. ASSUME NEW a \in asks, LoseAttach(a) PROVE CInv'
  BY <1>0, <1>8, <1>a DEF LoseAttach, ClearanceTypeOK
<1>9. ASSUME NEW a \in asks, Attach(a) PROVE CInv'
  <2>1. PICK answer \in {"failed", "sent", "closed"} :
          /\ asks' = (asks \ {a}) \cup {[a EXCEPT !.answer = answer]}
          /\ accepted' \in {accepted, accepted + 1}
    BY <1>9 DEF Attach
  <2>2. [a EXCEPT !.answer = answer] \in [number : 1..MaxNumbers, answer : {"none", "sent", "failed", "closed"}]
    BY <1>0 DEF ClearanceTypeOK
  <2> QED
    BY <1>0, <1>9, <1>b, <2>1, <2>2 DEF Attach, ClearanceTypeOK
<1>10. CASE AnswerChecklist
  BY <1>0, <1>10, <1>b DEF AnswerChecklist, ClearanceTypeOK
<1>11. CASE RecordNumber
  <2>1. accepted' \in Nat /\ clearance' \in States
    BY <1>0, <1>11 DEF RecordNumber, ClearanceTypeOK, States
  <2> QED
    BY <1>0, <1>11, <1>b, <2>1 DEF RecordNumber, ClearanceTypeOK
<1>12. CASE AnswerRegistry
  <2>1. clearance' \in States
    BY <1>12 DEF AnswerRegistry, States
  <2> QED
    BY <1>0, <1>12, <1>b, <2>1 DEF AnswerRegistry, ClearanceTypeOK
<1>13. CASE UNCHANGED clearanceVars
  BY <1>0, <1>13, <1>b DEF clearanceVars, ClearanceTypeOK
<1> QED
  BY <1>1, <1>2, <1>3, <1>4, <1>5, <1>6, <1>7, <1>8, <1>9, <1>10, <1>11, <1>12, <1>13 DEF ClearanceNext

-----------------------------------------------------------------------------
(* The panel: what the service has taken, what is on its way back and what *)
(* the panel says of it.                                                   *)

Revisions == \A u \in uploads : u.revision <= Len(shelf[u.type])
OnePress ==
  /\ \A u, w \in uploads : u.press = w.press => u = w
  /\ \A u \in uploads : u.press <= pressed
  /\ stored \subseteq 1..pressed
NotStored == \A u \in uploads : u.answer \in {"none", "REFUSED"} => u.press \notin stored
Refused == upload.status = "failed" /\ upload.answer = "REFUSED" =>
  upload.press \notin stored /\ \A u \in uploads : u.press # upload.press
Unsettled == upload.status = "failed" /\ upload.answer = "MALFORMED" => lookups # {} \/ unconfirmed # NoNotice

DInv == DocumentsTypeOK /\ ReceiptIsTrue /\ Revisions /\ OnePress /\ NotStored /\ Refused /\ Unsettled

Uploads == [press : 1..MaxUploads, type : DocType, file : File,
            answer : {"none", "UPLOADED", "MALFORMED", "REFUSED", "FAULT"}, revision : Nat]
Outcomes == [status : {"idle", "pending", "done", "failed"}, press : 0..MaxUploads,
             answer : {"none", "UPLOADED", "MALFORMED", "REFUSED", "FAULT", "NETWORK"}]
Notices == [type : DocType \cup {NoType}, onFile : BOOLEAN]

PanelTyped ==
  /\ checklist \in [kind : {"LOADING", "POLICY", "FALLBACK"}, done : SUBSET DocType]
  /\ picked \in DocType \cup {NoType} /\ file \in File \cup {NoFile}
  /\ upload \in Outcomes /\ received \in [DocType -> Nat] /\ lookups \subseteq DocType
  /\ unconfirmed \in Notices
ServiceTyped ==
  /\ uploads \subseteq Uploads /\ pressed \in 0..MaxUploads /\ stored \subseteq 1..MaxUploads
  /\ shelf \in [DocType -> Seq(File)] /\ done \subseteq DocType /\ closed \subseteq DocType

LEMMA DocumentsTyped == DocumentsTypeOK <=> PanelTyped /\ ServiceTyped
BY Zenon DEF DocumentsTypeOK, PanelTyped, ServiceTyped, Uploads, Outcomes, Notices

LEMMA EmptyPanel ==
  /\ NoUpload \in Outcomes /\ NoUpload.status = "idle"
  /\ NoNotice \in Notices /\ NoNotice.type = NoType
  /\ Loading \in [kind : {"LOADING", "POLICY", "FALLBACK"}, done : SUBSET DocType]
<1>1. NoUpload \in Outcomes /\ NoUpload.status = "idle"
  BY UploadBound DEF NoUpload, Outcomes
<1>2. NoNotice \in Notices /\ NoNotice.type = NoType
  <2>1. FALSE \in BOOLEAN
    OBVIOUS
  <2> QED
    BY <2>1 DEF NoNotice, Notices
<1>3. Loading \in [kind : {"LOADING", "POLICY", "FALLBACK"}, done : SUBSET DocType]
  BY DEF Loading
<1> QED
  BY <1>1, <1>2, <1>3

LEMMA DInvInit == DocumentsInit => DInv
<1> SUFFICES ASSUME DocumentsInit PROVE DInv
  OBVIOUS
<1>1. PanelTyped
  BY EmptyPanel DEF DocumentsInit, PanelInit, PanelTyped
<1>2. ServiceTyped
  BY UploadBound DEF DocumentsInit, ServiceTyped
<1>3. ReceiptIsTrue
  BY DEF DocumentsInit, PanelInit, ReceiptIsTrue
<1>4. Revisions /\ OnePress /\ NotStored
  BY DEF DocumentsInit, Revisions, OnePress, NotStored
<1>5. Refused /\ Unsettled
  BY EmptyPanel DEF DocumentsInit, PanelInit, Refused, Unsettled
<1> QED
  BY <1>1, <1>2, <1>3, <1>4, <1>5, DocumentsTyped DEF DInv

(* A type that is offered, and so the one selected, is the agency's.       *)
LEMMA OfferedTypes == Offers \subseteq DocType
<1>1. CASE checklist.kind = "LOADING"
  BY <1>1, Zenon DEF Offers
<1>2. CASE checklist.kind = "FALLBACK" /\ checklist.kind # "LOADING"
  BY <1>2, Zenon DEF Offers
<1>3. CASE checklist.kind # "FALLBACK" /\ checklist.kind # "LOADING"
  <2>1. Offers = DocType \ checklist.done
    BY <1>3, Zenon DEF Offers
  <2> QED
    BY <2>1
<1> QED
  BY <1>1, <1>2, <1>3

LEMMA DocumentsStep == ASSUME DInv, [DocumentsNext]_documentsVars PROVE DInv'
<1>0. PanelTyped /\ ServiceTyped /\ ReceiptIsTrue /\ Revisions /\ OnePress /\ NotStored /\ Refused /\ Unsettled
  BY DocumentsTyped DEF DInv
<1>t. \A u \in uploads : u \in Uploads
  BY <1>0 DEF ServiceTyped
<1>b. PanelTyped' /\ ServiceTyped' => DocumentsTypeOK'
  BY Zenon DEF DocumentsTypeOK, PanelTyped, ServiceTyped, Uploads, Outcomes, Notices
(* The panel alone changes; its upload is the one it was, or none.         *)
<1>a. ASSUME PanelTyped', UNCHANGED <<uploads, pressed, serviceVars, received>>,
             upload' = upload \/ upload'.status # "failed", Unsettled'
      PROVE  DInv'
  <2>1. ServiceTyped'
    BY <1>0, <1>a DEF ServiceTyped, serviceVars
  <2>2. ReceiptIsTrue' /\ Revisions' /\ OnePress' /\ NotStored'
    BY <1>0, <1>a DEF serviceVars, ReceiptIsTrue, Revisions, OnePress, NotStored
  <2>3. Refused'
    BY <1>0, <1>a DEF serviceVars, Refused
  <2> QED
    BY <1>a, <2>1, <2>2, <2>3, <1>b DEF DInv
<1>1. CASE ReadChecklist \/ FailToRead
  <2>1. checklist' \in [kind : {"LOADING", "POLICY", "FALLBACK"}, done : SUBSET DocType]
    BY <1>0, <1>1, EmptyPanel DEF ReadChecklist, FailToRead, ServiceTyped
  <2>2. UNCHANGED <<picked, file, upload, received, unconfirmed, lookups, uploads, pressed, serviceVars>>
    BY <1>1 DEF ReadChecklist, FailToRead
  <2>3. PanelTyped'
    BY <1>0, <2>1, <2>2 DEF PanelTyped
  <2>4. Unsettled'
    BY <1>0, <2>2 DEF Unsettled
  <2> QED
    BY <1>a, <2>2, <2>3, <2>4
<1>2. ASSUME NEW t \in DocType, PickType(t) PROVE DInv'
  <2>1. PanelTyped'
    BY <1>0, <1>2 DEF PickType, PanelTyped
  <2>2. Unsettled'
    BY <1>0, <1>2 DEF PickType, Unsettled
  <2> QED
    BY <1>2, <1>a, <2>1, <2>2 DEF PickType
<1>3. ASSUME NEW f \in File \cup {NoFile}, PickFile(f) PROVE DInv'
  <2>1. PanelTyped'
    BY <1>0, <1>3, EmptyPanel DEF PickFile, PanelTyped
  <2>2. upload'.status = "idle" /\ UNCHANGED <<uploads, pressed, serviceVars, received>>
    BY <1>3, EmptyPanel DEF PickFile
  <2> QED
    BY <1>a, <2>1, <2>2 DEF Unsettled
<1>4. CASE LeaveDocuments
  <2>1. PanelTyped' /\ upload'.status = "idle"
    BY <1>4, EmptyPanel DEF LeaveDocuments, PanelTyped
  <2>2. UNCHANGED <<uploads, pressed, serviceVars>>
    BY <1>4 DEF LeaveDocuments
  <2>3. ServiceTyped'
    BY <1>0, <2>2 DEF ServiceTyped, serviceVars
  <2>4. ReceiptIsTrue'
    <3>1. \A t \in DocType : received'[t] = 0 /\ shelf'[t] \in Seq(File)
      BY <1>0, <1>4 DEF LeaveDocuments, ServiceTyped, serviceVars
    <3> QED
      BY <3>1 DEF ReceiptIsTrue
  <2>5. Revisions' /\ OnePress' /\ NotStored'
    BY <1>0, <2>2 DEF serviceVars, Revisions, OnePress, NotStored
  <2>6. Refused' /\ Unsettled'
    BY <2>1 DEF Refused, Unsettled
  <2> QED
    BY <2>1, <2>3, <2>4, <2>5, <2>6, <1>b DEF DInv
<1>5. CASE PressUpload
  <2> DEFINE u == [press |-> pressed', type |-> Selected, file |-> file, answer |-> "none", revision |-> 0]
  <2>1. pressed' = pressed + 1 /\ pressed' \in 1..MaxUploads /\ pressed \in Nat
    BY <1>0, <1>5, UploadBound DEF PressUpload, ServiceTyped
  <2>2. Selected \in DocType /\ file \in File
    BY <1>0, <1>5, OfferedTypes DEF PressUpload, PanelTyped
  <2>3. u \in Uploads
    BY <2>1, <2>2 DEF Uploads
  <2>4. /\ uploads' = uploads \cup {u} /\ u.press = pressed' /\ u.type \in DocType /\ u.revision = 0
        /\ UNCHANGED <<checklist, picked, file, received, unconfirmed, lookups, serviceVars>>
        /\ upload' = [status |-> "pending", press |-> pressed', answer |-> "none"]
    BY <1>5, <2>2 DEF PressUpload
  <2> HIDE DEF u
  <2>5. PanelTyped'
    <3>1. upload' \in Outcomes
      BY <2>1, <2>4 DEF Outcomes
    <3> QED
      BY <1>0, <2>4, <3>1 DEF PanelTyped
  <2>6. ServiceTyped'
    BY <1>0, <2>1, <2>3, <2>4 DEF ServiceTyped, serviceVars
  <2>7. ReceiptIsTrue' /\ Revisions'
    <3>1. Len(shelf[u.type]) \in Nat
      BY <1>0, <2>4 DEF ServiceTyped
    <3> QED
      BY <1>0, <2>4, <3>1 DEF serviceVars, ReceiptIsTrue, Revisions
  <2>8. OnePress' /\ NotStored'
    <3>1. \A w \in uploads : w.press \in Nat /\ w.press <= pressed
      BY <1>0, <1>t DEF OnePress, Uploads
    <3>2. pressed' \notin stored /\ stored \subseteq 1..pressed'
      BY <1>0, <2>1 DEF OnePress
    <3>3. OnePress'
      BY <1>0, <2>1, <2>4, <3>1, <3>2 DEF serviceVars, OnePress
    <3>4. NotStored'
      BY <1>0, <2>4, <3>2 DEF serviceVars, NotStored
    <3> QED
      BY <3>3, <3>4
  <2>9. Refused' /\ Unsettled'
    BY <2>4 DEF Refused, Unsettled
  <2> QED
    BY <2>5, <2>6, <2>7, <2>8, <2>9, <1>b DEF DInv
(* One request changes its answer; what is stored may grow by its file.    *)
<1>c. ASSUME NEW u \in uploads, NEW w \in Uploads, w.press = u.press, w.type = u.type,
             uploads' = (uploads \ {u}) \cup {w}, UNCHANGED <<panelVars, pressed, done, closed>>,
             stored' \in {stored, stored \cup {u.press}}, u.answer = "none",
             shelf' \in [DocType -> Seq(File)],
             \A t \in DocType : Len(shelf[t]) <= Len(shelf'[t]),
             w.revision <= Len(shelf'[w.type]),
             w.answer \in {"none", "REFUSED"} => stored' = stored
      PROVE  DInv'
  <2>1. u.press \in 1..MaxUploads /\ u.press <= pressed /\ u.press \in Nat
    BY <1>0, <1>t DEF Uploads, OnePress
  <2>2. PanelTyped'
    BY <1>0, <1>c DEF panelVars, PanelTyped
  <2>3. ServiceTyped'
    BY <1>0, <1>c, <2>1 DEF ServiceTyped
  <2>4. \A t \in DocType : Len(shelf[t]) \in Nat /\ Len(shelf'[t]) \in Nat
    BY <1>0, <1>c DEF ServiceTyped
  <2>5. ReceiptIsTrue'
    <3> SUFFICES ASSUME NEW t \in DocType PROVE received[t] <= Len(shelf'[t])
      BY <1>c DEF panelVars, ReceiptIsTrue
    <3>1. received[t] \in Nat /\ received[t] <= Len(shelf[t])
      BY <1>0 DEF PanelTyped, ReceiptIsTrue
    <3> QED
      BY <1>c, <2>4, <3>1
  <2>6. Revisions'
    <3> SUFFICES ASSUME NEW v \in uploads, v # u PROVE v.revision <= Len(shelf'[v.type])
      BY <1>c DEF Revisions
    <3>1. v.revision \in Nat /\ v.type \in DocType /\ v.revision <= Len(shelf[v.type])
      BY <1>0, <1>t DEF Uploads, Revisions
    <3> QED
      BY <1>c, <2>4, <3>1
  <2>7. OnePress'
    <3>1. stored' \subseteq 1..pressed
      BY <1>0, <1>c, <2>1 DEF OnePress
    <3> QED
      BY <1>0, <1>c, <2>1, <3>1 DEF OnePress
  <2>8. NotStored'
    <3>1. u.press \notin stored
      BY <1>0, <1>c DEF NotStored
    <3> QED
      BY <1>0, <1>c, <3>1 DEF OnePress, NotStored
  <2>9. Refused'
    BY <1>0, <1>c DEF panelVars, Refused
  <2>10. Unsettled'
    BY <1>0, <1>c DEF panelVars, Unsettled
  <2> QED
    BY <2>2, <2>3, <2>5, <2>6, <2>7, <2>8, <2>9, <2>10, <1>b DEF DInv
<1>6. ASSUME NEW u \in uploads, StoreUpload(u) PROVE DInv'
  <2>1. u \in Uploads /\ u.type \in DocType /\ u.file \in File /\ shelf[u.type] \in Seq(File)
    BY <1>0, <1>t DEF Uploads, ServiceTyped
  <2>2. Shelved(u) \in Seq(File) /\ Len(shelf[u.type]) <= Len(Shelved(u)) /\ Len(Shelved(u)) \in Nat
    BY <2>1 DEF Shelved
  <2>3. PICK a \in {"UPLOADED", "MALFORMED", "FAULT"} :
          uploads' = (uploads \ {u}) \cup {[u EXCEPT !.answer = a, !.revision = Len(Shelved(u))]}
    BY <1>6 DEF StoreUpload
  <2> DEFINE w == [u EXCEPT !.answer = a, !.revision = Len(Shelved(u))]
  <2>4. /\ w \in Uploads /\ w.press = u.press /\ w.type = u.type /\ w.answer = a
        /\ w.revision = Len(Shelved(u))
    BY <2>1, <2>2 DEF Uploads
  <2>5. /\ shelf' = [shelf EXCEPT ![u.type] = Shelved(u)] /\ stored' = stored \cup {u.press}
        /\ u.answer = "none" /\ UNCHANGED <<panelVars, pressed, done, closed>>
        /\ uploads' = (uploads \ {u}) \cup {w}
    BY <1>6, <2>3 DEF StoreUpload
  <2> HIDE DEF w
  <2>6. /\ shelf' \in [DocType -> Seq(File)] /\ shelf'[u.type] = Shelved(u)
        /\ \A t \in DocType : Len(shelf[t]) <= Len(shelf'[t])
    <3>1. \A t \in DocType : Len(shelf[t]) \in Nat
      BY <1>0 DEF ServiceTyped
    <3> QED
      BY <1>0, <2>1, <2>2, <2>5, <3>1 DEF ServiceTyped
  <2>7. w.revision <= Len(shelf'[w.type])
    BY <2>2, <2>4, <2>6
  <2> QED
    BY <1>c, <2>3, <2>4, <2>5, <2>6, <2>7
<1>7. ASSUME NEW u \in uploads, RefuseUpload(u) PROVE DInv'
  <2>1. u \in Uploads /\ u.type \in DocType /\ u.revision <= Len(shelf[u.type])
    BY <1>0, <1>t DEF Uploads, Revisions
  <2>2. PICK a \in {"REFUSED", "FAULT", "MALFORMED"} : uploads' = (uploads \ {u}) \cup {[u EXCEPT !.answer = a]}
    BY <1>7 DEF RefuseUpload
  <2> DEFINE w == [u EXCEPT !.answer = a]
  <2>3. w \in Uploads /\ w.press = u.press /\ w.type = u.type /\ w.revision = u.revision
    BY <2>1 DEF Uploads
  <2>4. /\ UNCHANGED <<panelVars, pressed, serviceVars>> /\ u.answer = "none"
        /\ uploads' = (uploads \ {u}) \cup {w}
    BY <1>7, <2>2 DEF RefuseUpload
  <2> HIDE DEF w
  <2>5. shelf' = shelf /\ stored' = stored /\ UNCHANGED <<done, closed>>
    BY <2>4 DEF serviceVars
  <2>6. shelf' \in [DocType -> Seq(File)] /\ \A t \in DocType : Len(shelf[t]) <= Len(shelf'[t])
    BY <1>0, <2>5 DEF ServiceTyped
  <2> QED
    BY <1>c, <2>1, <2>3, <2>4, <2>5, <2>6
(* A request is heard of: it is gone, or nobody knows and it goes on.      *)
<1>d. ASSUME NEW u \in uploads, uploads' \in {uploads, uploads \ {u}}, UNCHANGED <<pressed, serviceVars>>,
             PanelTyped', ReceiptIsTrue', Refused', Unsettled'
      PROVE  DInv'
  <2>1. uploads' \subseteq uploads
    BY <1>d
  <2>2. ServiceTyped'
    BY <1>0, <1>d, <2>1 DEF ServiceTyped, serviceVars
  <2>3. Revisions' /\ OnePress' /\ NotStored'
    BY <1>0, <1>d, <2>1 DEF serviceVars, Revisions, OnePress, NotStored
  <2> QED
    BY <1>d, <2>2, <2>3, <1>b DEF DInv
<1>f. ASSUME NEW u \in uploads, NEW answer \in {"MALFORMED", "REFUSED", "FAULT", "NETWORK"}, FailedUpload(u, answer),
             UNCHANGED <<pressed, serviceVars>>
      PROVE  /\ PanelTyped' /\ ReceiptIsTrue' /\ Unsettled'
             /\ upload'.status = "failed" /\ upload'.answer = answer /\ upload'.press = u.press
  <2>1. u.type \in DocType
    BY <1>t DEF Uploads
  <2>2. upload' \in Outcomes /\ upload'.status = "failed" /\ upload'.answer = answer /\ upload'.press = u.press
    BY <1>0, <1>f DEF FailedUpload, Observed, PanelTyped, Outcomes
  <2>3. PanelTyped'
    BY <1>0, <1>f, <2>1, <2>2 DEF FailedUpload, PanelTyped
  <2>4. ReceiptIsTrue'
    BY <1>0, <1>f DEF FailedUpload, ReceiptIsTrue, serviceVars
  <2>5. Unsettled'
    BY <1>f, <2>2 DEF FailedUpload, Unsettled
  <2> QED
    BY <2>2, <2>3, <2>4, <2>5
<1>11. ASSUME NEW u \in uploads, HearUpload(u) PROVE DInv'
  <2>1. uploads' = uploads \ {u} /\ UNCHANGED <<pressed, serviceVars>> /\ u.answer # "none"
    BY <1>11 DEF HearUpload
  <2>2. u \in Uploads /\ u.type \in DocType /\ u.revision \in Nat /\ u.revision <= Len(shelf[u.type])
    BY <1>0, <1>t DEF Uploads, Revisions
  <2>3. CASE ReceivedUpload(u)
    <3>1. upload' \in Outcomes /\ upload'.status = "done"
      BY <1>0, <2>3 DEF ReceivedUpload, PanelTyped, Outcomes
    <3>2. received' \in [DocType -> Nat]
      BY <1>0, <2>2, <2>3 DEF ReceivedUpload, PanelTyped
    <3>3. PanelTyped'
      BY <1>0, <2>3, <3>1, <3>2, EmptyPanel DEF ReceivedUpload, PanelTyped
    <3>4. ReceiptIsTrue'
      <4> SUFFICES ASSUME NEW t \in DocType PROVE received'[t] <= Len(shelf[t])
        BY <2>1 DEF ReceiptIsTrue, serviceVars
      <4>1. CASE t = u.type
        BY <1>0, <2>2, <2>3, <4>1 DEF ReceivedUpload, PanelTyped
      <4>2. CASE t # u.type
        BY <1>0, <2>3, <4>2 DEF ReceivedUpload, PanelTyped, ReceiptIsTrue
      <4> QED
        BY <4>1, <4>2
    <3>5. Refused' /\ Unsettled'
      BY <3>1 DEF Refused, Unsettled
    <3> QED
      BY <1>d, <2>1, <3>3, <3>4, <3>5
  <2>4. CASE FailedUpload(u, u.answer)
    <3>1. u.answer \in {"MALFORMED", "REFUSED", "FAULT", "NETWORK"}
      BY <2>1, <2>2, <2>4 DEF FailedUpload, Uploads
    <3>2. /\ PanelTyped' /\ ReceiptIsTrue' /\ Unsettled'
          /\ upload'.status = "failed" /\ upload'.answer = u.answer /\ upload'.press = u.press
      BY <1>f, <2>1, <2>4, <3>1
    <3>3. Refused'
      BY <1>0, <2>1, <3>2 DEF Refused, NotStored, OnePress, serviceVars
    <3> QED
      BY <1>d, <2>1, <3>2, <3>3
  <2>5. CASE UnheededUpload(u)
    <3>1. UNCHANGED panelVars
      BY <2>5 DEF UnheededUpload
    <3>2. PanelTyped' /\ ReceiptIsTrue' /\ Unsettled'
      BY <1>0, <2>1, <3>1 DEF panelVars, serviceVars, PanelTyped, ReceiptIsTrue, Unsettled
    <3>3. Refused'
      BY <1>0, <2>1, <3>1 DEF panelVars, serviceVars, Refused
    <3> QED
      BY <1>d, <2>1, <3>2, <3>3
  <2> QED
    BY <1>11, <2>3, <2>4, <2>5 DEF HearUpload
<1>12. ASSUME NEW u \in uploads, LoseUpload(u) PROVE DInv'
  <2>1. FailedUpload(u, "NETWORK") /\ uploads' \in {uploads, uploads \ {u}} /\ UNCHANGED <<pressed, serviceVars>>
    BY <1>12 DEF LoseUpload
  <2>2. PanelTyped' /\ ReceiptIsTrue' /\ Unsettled' /\ upload'.answer = "NETWORK"
    BY <1>f, <2>1
  <2> QED
    BY <1>d, <2>1, <2>2 DEF Refused
<1>8. ASSUME NEW t \in lookups, HearLookup(t) PROVE DInv'
  <2>1. t \in DocType /\ t # NoType
    BY <1>0, DocumentNames DEF PanelTyped
  <2>2. PICK onFile \in {FALSE, shelf[t] # <<>>} : unconfirmed' = [type |-> t, onFile |-> onFile]
    BY <1>8 DEF HearLookup
  <2>3. onFile \in BOOLEAN
    BY <2>2, Zenon
  <2>4. unconfirmed' \in Notices /\ unconfirmed'.type = t
    BY <2>1, <2>2, <2>3 DEF Notices
  <2>5. UNCHANGED <<checklist, picked, file, upload, received, uploads, pressed, serviceVars>> /\ lookups' \subseteq lookups
    BY <1>8 DEF HearLookup
  <2>6. PanelTyped'
    BY <1>0, <2>4, <2>5 DEF PanelTyped
  <2>7. Unsettled'
    BY <2>1, <2>4, EmptyPanel DEF Unsettled
  <2> QED
    BY <1>a, <2>5, <2>6, <2>7
<1>9. ASSUME NEW t \in DocType, ReviewDocument(t) PROVE DInv'
  <2>1. /\ closed' = closed \cup {t} /\ done' \subseteq done \cup {t}
        /\ UNCHANGED <<panelVars, uploads, pressed, shelf, stored>>
    BY <1>9 DEF ReviewDocument
  <2>2. PanelTyped'
    BY <1>0, <2>1 DEF PanelTyped, panelVars
  <2>3. ServiceTyped'
    BY <1>0, <2>1 DEF ServiceTyped
  <2>4. ReceiptIsTrue' /\ Revisions' /\ OnePress' /\ NotStored'
    BY <1>0, <2>1 DEF panelVars, ReceiptIsTrue, Revisions, OnePress, NotStored
  <2>5. Refused' /\ Unsettled'
    BY <1>0, <2>1 DEF panelVars, Refused, Unsettled
  <2> QED
    BY <2>2, <2>3, <2>4, <2>5, <1>b DEF DInv
<1>10. CASE UNCHANGED documentsVars
  <2>1. UNCHANGED panelVars /\ UNCHANGED serviceVars /\ UNCHANGED <<uploads, pressed>>
    BY <1>10 DEF documentsVars
  <2>2. PanelTyped'
    BY <1>0, <2>1 DEF PanelTyped, panelVars
  <2> QED
    BY <1>0, <1>a, <2>1, <2>2 DEF panelVars, Unsettled
<1> QED
  BY <1>1, <1>2, <1>3, <1>4, <1>5, <1>6, <1>7, <1>8, <1>9, <1>10, <1>11, <1>12 DEF DocumentsNext

-----------------------------------------------------------------------------
(* The portal: a visit moves one page and leaves the others as they are.   *)

LEMMA PortalStep ==
  PInv /\ CInv /\ DInv /\ [PortalNext]_portalVars => PInv' /\ CInv' /\ DInv'
<1> SUFFICES ASSUME PInv, CInv, DInv, [PortalNext]_portalVars PROVE PInv' /\ CInv' /\ DInv'
  OBVIOUS
<1>1. [ExamPassNext]_examPassVars /\ [ClearanceNext]_clearanceVars /\ [DocumentsNext]_documentsVars
  BY DEF PortalNext, AtTheWizard, AtTheDocuments, AtTheCertificate, AtThePass, portalVars
<1> QED
  BY <1>1, ExamPassStep, ClearanceStep, DocumentsStep

LEMMA PortalHolds == PortalSpec => [](PInv /\ CInv /\ DInv)
<1>1. PortalInit => PInv /\ CInv /\ DInv
  BY PInvInit, CInvInit, DInvInit DEF PortalInit
<1> QED
  BY <1>1, PortalStep, PTL DEF PortalSpec

(* A QR that is spent or held is on the screen for no second poll period   *)
(* (exam-qr.tsx; useMyExamInvitation polls while the pass is good).        *)
THEOREM PassIsTakenDown == PortalSpec => []SpentPassIsTakenDown
<1>1. PInv => SpentPassIsTakenDown
  BY DEF PInv, SpentPassIsTakenDown
<1> QED
  BY <1>1, PortalHolds, PTL

(* "Sent" hides a field that is still wanted for no longer than the wait,  *)
(* however often the block renders meanwhile (ClearanceBlock.tsx).         *)
THEOREM TheFieldComesBack == PortalSpec => []FieldComesBack
<1>1. CInv => FieldComesBack
  BY ClearanceBounds DEF CInv, Counting, ClearanceTypeOK, FieldComesBack
<1> QED
  BY <1>1, PortalHolds, PTL

(* A revision listed as received is one the service gave to a file of that *)
(* type (DocumentsPanel.tsx, onSuccess).                                   *)
THEOREM ReceiptsAreTrue == PortalSpec => []ReceiptIsTrue
<1>1. DInv => ReceiptIsTrue
  BY DEF DInv
<1> QED
  BY <1>1, PortalHolds, PTL

(* An upload the panel says could not be made, on an answer and once it    *)
(* has looked, was not stored (DocumentsPanel.tsx, onError).               *)
THEOREM FailuresAreTrue == PortalSpec => []FailureIsTrue
<1>1. DInv => FailureIsTrue
  BY DEF DInv, Refused, Unsettled, FailureIsTrue
<1> QED
  BY <1>1, PortalHolds, PTL
=============================================================================
