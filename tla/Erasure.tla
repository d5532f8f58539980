------------------------------ MODULE Erasure -------------------------------
(***************************************************************************)
(* The data protection officer's queue (packages/features/compliance/src/  *)
(* ui/DpoQueuePage.tsx): the erasure requests as last read, a dialog that  *)
(* declines one and a dialog that carries one out, and the one mutation    *)
(* they share. A decline can be cancelled, and confirmed a second time,    *)
(* while it is under way; an erasure cannot.                               *)
(*                                                                         *)
(* The officer may read and decide. The note of a decline is well formed:  *)
(* the form submits no other.                                              *)
(***************************************************************************)
EXTENDS Naturals

CONSTANTS
  Erasable,      \* erasure requests
  NoRequest,     \* a dialog that is shut
  MaxVerdicts,   \* bound: decisions of this officer
  MaxElsewhere   \* bound: requests that others decide

ASSUME ErasureBounds == NoRequest \notin Erasable /\ {MaxVerdicts, MaxElsewhere} \subseteq Nat

VARIABLES
  open,       \* the server: requests that are still to be decided
  dpo,        \* the page: requests as read, dialogs, the note of success, the mutation
  verdicts,   \* decideErasure calls under way
  asked,      \* decisions this officer has confirmed
  elsewhere   \* requests others have decided

erasureVars == <<open, dpo, verdicts, asked, elsewhere>>

NoVerdict == [id |-> 0, of |-> NoRequest, status |-> "idle"]
Elsewhere(list) == [at |-> "away", list |-> list, declining |-> NoRequest, erasing |-> NoRequest,
                    done |-> FALSE, decide |-> NoVerdict]

ErasureInit ==
  /\ open = Erasable /\ dpo = Elsewhere(Erasable)
  /\ verdicts = {} /\ asked = 0 /\ elsewhere = 0

Pending == dpo.decide.status = "pending"
NoDpoDialog == dpo.declining = NoRequest /\ dpo.erasing = NoRequest

-----------------------------------------------------------------------------
(* The officer                                                             *)

(* The list is the cache's: as read before, and read again when it has     *)
(* gone stale, was invalidated or is retried.                              *)
OpenRequests ==
  /\ dpo.at = "away"
  /\ dpo' = [dpo EXCEPT !.at = "requests"]
  /\ UNCHANGED <<open, verdicts, asked, elsewhere>>

ReadRequests ==
  /\ dpo.at = "requests" /\ dpo.list # open
  /\ dpo' = [dpo EXCEPT !.list = open]
  /\ UNCHANGED <<open, verdicts, asked, elsewhere>>

LeaveRequests ==
  /\ dpo.at = "requests"
  /\ dpo' = Elsewhere(dpo.list)
  /\ verdicts' = {[v EXCEPT !.heard = FALSE] : v \in verdicts}
  /\ UNCHANGED <<open, asked, elsewhere>>

OnErasureTransition(r) ==
  /\ dpo.at = "requests" /\ NoDpoDialog /\ r \in dpo.list
  /\ \/ dpo' = [dpo EXCEPT !.done = FALSE, !.declining = r]
     \/ dpo' = [dpo EXCEPT !.done = FALSE, !.erasing = r]
  /\ UNCHANGED <<open, verdicts, asked, elsewhere>>

(* close: both dialogs, and the mutation is observed no more.              *)
ClosedUnreset(p) == [p EXCEPT !.declining = NoRequest, !.erasing = NoRequest]   \* mutant
Closed(p) == [p EXCEPT !.declining = NoRequest, !.erasing = NoRequest, !.decide = NoVerdict]

CancelDialogue ==
  /\ ~NoDpoDialog /\ (Pending => dpo.declining # NoRequest)
  /\ dpo' = Closed(dpo)
  /\ UNCHANGED <<open, verdicts, asked, elsewhere>>

(* mutateAsync: the mutation that was observed, if any, goes on unseen.    *)
Decide(r, decision) ==
  /\ asked < MaxVerdicts /\ asked' = asked + 1
  /\ verdicts' = verdicts \cup {[id |-> asked', of |-> r, decision |-> decision,
                                 answer |-> "none", reread |-> FALSE, heard |-> TRUE]}
  /\ dpo' = [dpo EXCEPT !.decide = [id |-> asked', of |-> r, status |-> "pending"]]
  /\ UNCHANGED <<open, elsewhere>>

SubmitDecline == dpo.declining # NoRequest /\ Decide(dpo.declining, "DECLINE")
SubmitErase == dpo.erasing # NoRequest /\ ~Pending /\ Decide(dpo.erasing, "EXECUTE")

-----------------------------------------------------------------------------
(* The service, and everyone else                                          *)

(* A request that is not pending is refused; so may be the erasure of one  *)
(* that is.                                                                *)
DecideErasure(v) ==
  /\ v.answer = "none"
  /\ \/ /\ v.of \in open /\ open' = open \ {v.of}
        /\ verdicts' = (verdicts \ {v}) \cup {[v EXCEPT !.answer = "done"]}
     \/ /\ v.of \notin open \/ v.decision = "EXECUTE"
        /\ verdicts' = (verdicts \ {v}) \cup {[v EXCEPT !.answer = "failed"]}
        /\ UNCHANGED open
  /\ UNCHANGED <<dpo, asked, elsewhere>>

(* The call fails, before it was decided or after.                         *)
LoseErasure(v) ==
  /\ v.answer # "failed" /\ ~v.reread
  /\ verdicts' = (verdicts \ {v}) \cup {[v EXCEPT !.answer = "failed"]}
  /\ open' \in {open, open \ {v.of}}
  /\ UNCHANGED <<dpo, asked, elsewhere>>

(* onSettled, awaited before the mutation settles: the list is read again, *)
(* or that read fails, or nobody observes it.                              *)
Invalidate(v) ==
  /\ v.answer # "none" /\ ~v.reread
  /\ verdicts' = (verdicts \ {v}) \cup {[v EXCEPT !.reread = TRUE]}
  /\ \/ dpo.at = "requests" /\ dpo' = [dpo EXCEPT !.list = open]
     \/ UNCHANGED dpo
  /\ UNCHANGED <<open, asked, elsewhere>>

(* After the await: of its own mutation or of one that is observed no more.*)
HearVerdict(v) ==
  /\ v.reread
  /\ verdicts' = verdicts \ {v}
  /\ dpo' = IF ~v.heard THEN dpo
            ELSE IF v.answer = "done" THEN Closed([dpo EXCEPT !.done = TRUE])
            ELSE IF dpo.decide.id = v.id THEN [dpo EXCEPT !.decide.status = "error"]
            ELSE dpo
  /\ UNCHANGED <<open, asked, elsewhere>>

DecidedElsewhere(r) ==
  /\ elsewhere < MaxElsewhere /\ elsewhere' = elsewhere + 1
  /\ r \in open /\ open' = open \ {r}
  /\ UNCHANGED <<dpo, verdicts, asked>>

DpoOfficer ==
  \/ OpenRequests \/ ReadRequests \/ LeaveRequests \/ CancelDialogue \/ SubmitDecline \/ SubmitErase
  \/ \E r \in Erasable : OnErasureTransition(r)
DpoService ==
  \/ \E v \in verdicts : DecideErasure(v) \/ LoseErasure(v) \/ Invalidate(v) \/ HearVerdict(v)
  \/ \E r \in Erasable : DecidedElsewhere(r)

ErasureSpec == ErasureInit /\ [][DpoOfficer \/ DpoService]_erasureVars

-----------------------------------------------------------------------------
(* Properties                                                              *)

ErasureTypeOK ==
  /\ open \subseteq Erasable /\ asked \in 0..MaxVerdicts /\ elsewhere \in 0..MaxElsewhere
  /\ dpo \in [at : {"away", "requests"}, list : SUBSET Erasable,
              declining : Erasable \cup {NoRequest}, erasing : Erasable \cup {NoRequest}, done : BOOLEAN,
              decide : [id : 0..MaxVerdicts, of : Erasable \cup {NoRequest},
                        status : {"idle", "pending", "error"}]]
  /\ verdicts \subseteq [id : 1..MaxVerdicts, of : Erasable, decision : {"DECLINE", "EXECUTE"},
                         answer : {"none", "done", "failed"}, reread : BOOLEAN, heard : BOOLEAN]

(* The failure shown in a dialog is of the request that dialog decides:    *)
(* both dialogs of every row show one mutation, and a decline that was     *)
(* cancelled answers while another dialog is open.                         *)
RefusalIsOfThisRequest ==
  dpo.decide.status = "error" /\ ~NoDpoDialog => dpo.decide.of \in {dpo.declining, dpo.erasing}
=============================================================================
