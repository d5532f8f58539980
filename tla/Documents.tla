------------------------------ MODULE Documents ------------------------------
(***************************************************************************)
(* The citizen's upload panel (apps/applicant-portal/src/routes/documents/ *)
(* DocumentsPanel.tsx), the part of the checklist it offers types from,    *)
(* the decoding of an upload's answer and a service that numbers its       *)
(* revisions. An answer that cannot be decoded settles nothing: the panel  *)
(* looks at the checklist once and says what it could not establish.       *)
(***************************************************************************)
EXTENDS Integers, Sequences

CONSTANTS
  Catalogue,    \* AGENCY_DOCUMENT_TYPES of the agency, in order
  File,
  NoType, NoFile,
  MaxUploads    \* bound: presses of "upload"

DocType == {Catalogue[i] : i \in 1..Len(Catalogue)}
ASSUME DocumentNames == Catalogue \in Seq(DocType) /\ NoType \notin DocType /\ NoFile \notin File
ASSUME UploadBound == MaxUploads \in Nat

VARIABLES
  checklist,    \* the panel's view: loading, unreadable, or what is done
  picked,       \* the type chosen in the picker, if any was
  file,         \* the file in the input
  upload,       \* useUploadMyDocument, as this mount observes it
  received,     \* the revision listed for each type, 0 for none
  unconfirmed,  \* the notice that an upload's outcome is not known
  lookups,      \* documentIsOnFile calls under way
  uploads,      \* requests under way, answered or not
  pressed,      \* presses so far; a request is named by its press
  shelf,        \* the service: the files of each type by revision
  done,         \* the service: types satisfied
  closed,       \* the service: types whose review a person closed
  stored        \* history: the presses whose file the service took

panelVars == <<checklist, picked, file, upload, received, unconfirmed, lookups>>
serviceVars == <<shelf, done, closed, stored>>
documentsVars == <<panelVars, uploads, pressed, serviceVars>>

NoUpload == [status |-> "idle", press |-> 0, answer |-> "none"]
NoNotice == [type |-> NoType, onFile |-> FALSE]
Loading == [kind |-> "LOADING", done |-> {}]

PanelInit ==
  /\ checklist = Loading /\ picked = NoType /\ file = NoFile
  /\ upload = NoUpload /\ received = [t \in DocType |-> 0]
  /\ unconfirmed = NoNotice /\ lookups = {}

DocumentsInit ==
  /\ PanelInit /\ uploads = {} /\ pressed = 0
  /\ shelf = [t \in DocType |-> <<>>] /\ done = {} /\ closed = {} /\ stored = {}

-----------------------------------------------------------------------------
(* What the panel offers                                                   *)

(* uploadChoices: the campaign's types that are not satisfied, or, when    *)
(* the checklist cannot be read, all that the agency can store.            *)
Offers ==
  CASE checklist.kind = "LOADING"  -> {}
    [] checklist.kind = "FALLBACK" -> DocType
    [] OTHER -> DocType \ checklist.done

(* selectedType: the type picked while it is offered, then the first (of   *)
(* the campaign's list; the model lists every campaign's in one order).    *)
Places(types) == {i \in 1..Len(Catalogue) : Catalogue[i] \in types}
First(types) == Catalogue[CHOOSE i \in Places(types) : \A j \in Places(types) : i <= j]
Selected == IF picked \in Offers THEN picked
            ELSE IF Offers = {} THEN NoType ELSE First(Offers)

(* A read of the checklist. One that fails leaves what was read before, if *)
(* anything was; an answer without an item list is unreadable.             *)
ReadChecklist ==
  /\ checklist' = [kind |-> "POLICY", done |-> done]
  /\ UNCHANGED <<picked, file, upload, received, unconfirmed, lookups, uploads, pressed, serviceVars>>

FailToRead ==
  /\ checklist' = [Loading EXCEPT !.kind = "FALLBACK"]
  /\ UNCHANGED <<picked, file, upload, received, unconfirmed, lookups, uploads, pressed, serviceVars>>

PickType(t) ==
  /\ t \in Offers /\ picked' = t
  /\ UNCHANGED <<checklist, file, upload, received, unconfirmed, lookups, uploads, pressed, serviceVars>>

(* Another file, or none: the outcome of the last upload is put away, also *)
(* of one still under way, whose answer then reaches nobody.               *)
PickFile(f) ==
  /\ Selected \in Offers
  /\ file' = f /\ upload' = NoUpload /\ unconfirmed' = NoNotice
  /\ UNCHANGED <<checklist, picked, received, lookups, uploads, pressed, serviceVars>>

-----------------------------------------------------------------------------
(* An upload                                                               *)

PressUpload ==
  /\ Selected \in Offers /\ file # NoFile /\ upload.status # "pending"
  /\ pressed < MaxUploads
  /\ pressed' = pressed + 1
  /\ upload' = [status |-> "pending", press |-> pressed', answer |-> "none"]
  /\ uploads' = uploads \cup
       {[press |-> pressed', type |-> Selected, file |-> file, answer |-> "none", revision |-> 0]}
  /\ UNCHANGED <<checklist, picked, file, received, unconfirmed, lookups, serviceVars>>

(* The service: an identical file again is the revision it already is, and *)
(* a closed review refuses. Its answer may come apart on the way back.     *)
Shelved(u) ==
  IF shelf[u.type] # <<>> /\ shelf[u.type][Len(shelf[u.type])] = u.file
  THEN shelf[u.type] ELSE Append(shelf[u.type], u.file)

StoreUpload(u) ==
  /\ u.answer = "none" /\ u.type \notin closed
  /\ shelf' = [shelf EXCEPT ![u.type] = Shelved(u)]
  /\ stored' = stored \cup {u.press}
  /\ \E a \in {"UPLOADED", "MALFORMED", "FAULT"} :
       uploads' = (uploads \ {u}) \cup {[u EXCEPT !.answer = a, !.revision = Len(Shelved(u))]}
  /\ UNCHANGED <<panelVars, pressed, done, closed>>

RefuseUpload(u) ==
  /\ u.answer = "none"
  /\ \E a \in {"REFUSED", "FAULT", "MALFORMED"} :
       uploads' = (uploads \ {u}) \cup {[u EXCEPT !.answer = a]}
  /\ UNCHANGED <<panelVars, pressed, serviceVars>>

Observed(u) == upload.status = "pending" /\ upload.press = u.press

UnheededUpload(u) == ~Observed(u) /\ UNCHANGED panelVars

(* onSuccess: decodeUploadAnswer has let only a whole revision through.    *)
ReceivedUnderTheSelection(u) ==   \* mutant
  /\ u.answer = "UPLOADED" /\ Observed(u)
  /\ upload' = [upload EXCEPT !.status = "done", !.answer = u.answer]
  /\ received' = IF Selected = NoType THEN received ELSE [received EXCEPT ![Selected] = u.revision]
  /\ unconfirmed' = NoNotice /\ file' = NoFile
  /\ UNCHANGED <<checklist, picked, lookups>>
ReceivedUpload(u) ==
  /\ u.answer = "UPLOADED" /\ Observed(u)
  /\ upload' = [upload EXCEPT !.status = "done", !.answer = u.answer]
  /\ received' = [received EXCEPT ![u.type] = u.revision]
  /\ unconfirmed' = NoNotice /\ file' = NoFile
  /\ UNCHANGED <<checklist, picked, lookups>>

(* onError: a malformed answer is reconciled, any other error is shown.    *)
MalformedIsAFailure(u, answer) ==   \* mutant
  /\ answer # "UPLOADED" /\ Observed(u)
  /\ upload' = [upload EXCEPT !.status = "failed", !.answer = answer]
  /\ UNCHANGED <<checklist, picked, file, received, unconfirmed, lookups>>
FailedUpload(u, answer) ==
  /\ answer # "UPLOADED" /\ Observed(u)
  /\ upload' = [upload EXCEPT !.status = "failed", !.answer = answer]
  /\ lookups' = IF answer = "MALFORMED" THEN lookups \cup {u.type} ELSE lookups
  /\ UNCHANGED <<checklist, picked, file, received, unconfirmed>>

HearUpload(u) ==
  /\ u.answer # "none" /\ uploads' = uploads \ {u}
  /\ ReceivedUpload(u) \/ FailedUpload(u, u.answer) \/ UnheededUpload(u)
  /\ UNCHANGED <<pressed, serviceVars>>

(* The network gives up on a request: the service may have it, or get it.  *)
LoseUpload(u) ==
  /\ Observed(u) /\ FailedUpload(u, "NETWORK")
  /\ uploads' = IF u.answer = "none" THEN uploads ELSE uploads \ {u}
  /\ UNCHANGED <<pressed, serviceVars>>

(* documentIsOnFile: best effort, and never evidence that this was stored. *)
HearLookup(t) ==
  /\ lookups' = lookups \ {t}
  /\ \E onFile \in {FALSE, shelf[t] # <<>>} : unconfirmed' = [type |-> t, onFile |-> onFile]
  /\ UNCHANGED <<checklist, picked, file, upload, received, uploads, pressed, serviceVars>>

-----------------------------------------------------------------------------
(* The review of what was sent, and the page that comes and goes           *)

ReviewDocument(t) ==
  /\ shelf[t] # <<>> /\ t \notin closed
  /\ closed' = closed \cup {t}
  /\ done' \in {done, done \cup {t}}
  /\ UNCHANGED <<panelVars, uploads, pressed, shelf, stored>>

LeaveDocuments ==
  /\ checklist' = Loading /\ picked' = NoType /\ file' = NoFile /\ upload' = NoUpload
  /\ received' = [t \in DocType |-> 0] /\ unconfirmed' = NoNotice /\ lookups' = {}
  /\ UNCHANGED <<uploads, pressed, serviceVars>>

DocumentsNext ==
  \/ ReadChecklist \/ FailToRead
  \/ \E t \in DocType : PickType(t) \/ ReviewDocument(t)
  \/ \E f \in File \cup {NoFile} : PickFile(f)
  \/ PressUpload
  \/ \E u \in uploads : StoreUpload(u) \/ RefuseUpload(u) \/ HearUpload(u) \/ LoseUpload(u)
  \/ \E t \in lookups : HearLookup(t)
  \/ LeaveDocuments

-----------------------------------------------------------------------------
(* Properties                                                              *)

DocumentsTypeOK ==
  /\ checklist \in [kind : {"LOADING", "POLICY", "FALLBACK"}, done : SUBSET DocType]
  /\ picked \in DocType \cup {NoType} /\ file \in File \cup {NoFile}
  /\ upload \in [status : {"idle", "pending", "done", "failed"}, press : 0..MaxUploads,
                 answer : {"none", "UPLOADED", "MALFORMED", "REFUSED", "FAULT", "NETWORK"}]
  /\ received \in [DocType -> Nat] /\ lookups \subseteq DocType
  /\ unconfirmed \in [type : DocType \cup {NoType}, onFile : BOOLEAN]
  /\ uploads \subseteq [press : 1..MaxUploads, type : DocType, file : File,
                        answer : {"none", "UPLOADED", "MALFORMED", "REFUSED", "FAULT"}, revision : Nat]
  /\ pressed \in 0..MaxUploads /\ stored \subseteq 1..MaxUploads
  /\ shelf \in [DocType -> Seq(File)] /\ done \subseteq DocType /\ closed \subseteq DocType

(* "A receipt the server never issued is worse than an honest 'we could    *)
(* not confirm'" (decode.ts): a revision listed as received is one the     *)
(* service gave to a file of that type, whatever type or file was picked   *)
(* while the upload was under way.                                         *)
ReceiptIsTrue == \A t \in DocType : received[t] <= Len(shelf[t])

(* "An unconfirmed outcome is NOT a refusal": once the panel has looked,   *)
(* "could not be uploaded" under an answer is never said of a file that    *)
(* was stored. A lost call and a server fault say it all the same.         *)
FailureIsTrue ==
  /\ upload.status = "failed" /\ unconfirmed = NoNotice /\ lookups = {}
  /\ upload.answer \in {"REFUSED", "MALFORMED"}
  => upload.press \notin stored
=============================================================================
