---------------------------- MODULE ConsoleProofs ----------------------------
(***************************************************************************)
(* Theorems about the rooms of the console, for any filters, requests,     *)
(* applications, texts, posts, lengths of lists and numbers of reads,      *)
(* presses and moves of others: their types, that the pages of a list      *)
(* follow on, that a bulk run's report is true of what was answered, that  *)
(* a refusal is of the row or request whose dialog shows it unless it is a *)
(* bulk's, and that what the Campaign Studio asks is done once and         *)
(* answered once.                                                          *)
(***************************************************************************)
EXTENDS Console, FiniteSetTheorems, TLAPS

(* Rows and a cursor that continue the list of read u, from its second     *)
(* page on.                                                                *)
Continues(rows, u) == \A i \in DOMAIN rows : rows[i] = [read |-> u, n |-> i + 1]
NextOf(rows, u) == [read |-> u, n |-> Len(rows) + 2]

(* What was read, kept or captured is of one list each: a cache entry, the *)
(* pages put aside and every load under way.                               *)
Cached == \A f \in Filter :
  cache[f].cursor # NoCursor => cache[f].at # 0 /\ cache[f].cursor = NextOf(<<>>, cache[f].at)
Kept(m) == m # NoMore =>
  /\ m.forUpdatedAt # 0 /\ Continues(m.rows, m.forUpdatedAt)
  /\ m.cursor # NoCursor => m.cursor = NextOf(m.rows, m.forUpdatedAt)
Captured == \A call \in loads :
  Continues(call.rows, call.updatedAt) /\ call.cursor = NextOf(call.rows, call.updatedAt)

RInv == RegisterTypeOK /\ Cached /\ Kept(register.more) /\ Captured

-----------------------------------------------------------------------------
(* The register                                                            *)

LEMMA CursorsAfterAre ==
  ASSUME NEW r \in 1..MaxReads, NEW n \in Nat \ {0}, NEW c \in CursorsAfter(r, n)
  PROVE  c \in Page \cup {NoCursor} /\ (c # NoCursor => c = [read |-> r, n |-> n + 1])
<1>1. CASE n < LastPage
  <2>1. n + 1 \in 2..LastPage
    BY <1>1, RegisterBounds
  <2> QED
    BY <1>1, <2>1 DEF CursorsAfter, Page
<1>2. CASE ~(n < LastPage)
  BY <1>2 DEF CursorsAfter
<1> QED
  BY <1>1, <1>2

LEMMA NoMoreIs ==
  /\ NoMore \in More /\ Kept(NoMore) /\ NoMore.rows = <<>> /\ NoMore.cursor = NoCursor
  /\ Continues(<<>>, 0) /\ \A u : Continues(<<>>, u)
BY RegisterBounds DEF NoMore, More, Kept, Continues

LEMMA AwayIs == Away \in [at : {"away", "list"}, filters : Filter, more : More, busy : BOOLEAN] /\ Away.more = NoMore
BY NoMoreIs, RegisterBounds DEF Away

LEMMA RInvInit == RegisterInit => RInv
<1> SUFFICES ASSUME RegisterInit PROVE RInv
  OBVIOUS
<1>1. NoRead \in [at : 0..MaxReads, cursor : Page \cup {NoCursor}] /\ NoRead.cursor = NoCursor
  BY RegisterBounds DEF NoRead
<1>2. RegisterTypeOK
  BY <1>1, AwayIs, RegisterBounds DEF RegisterInit, RegisterTypeOK
<1>3. Cached /\ Captured
  BY <1>1 DEF RegisterInit, Cached, Captured
<1>4. Kept(register.more)
  BY AwayIs, NoMoreIs DEF RegisterInit
<1> QED
  BY <1>2, <1>3, <1>4 DEF RInv

(* The pages shown: those put aside, if they are of this read.             *)
LEMMA ShownMore ==
  ASSUME RInv
  PROVE  LET u == cache[register.filters].at m == MoreOf(register) IN
         /\ m \in More /\ Continues(m.rows, u)
         /\ NextCursor # NoCursor => u # 0 /\ NextCursor = NextOf(m.rows, u)
<1> DEFINE u == cache[register.filters].at
           m == MoreOf(register)
<1>1. register.more \in More /\ register.filters \in Filter
  BY DEF RInv, RegisterTypeOK
<1>2. CASE register.more.forUpdatedAt = u /\ register.more # NoMore
  <2>1. m = register.more /\ NextCursor = m.cursor
    BY <1>2 DEF MoreOf, NextCursor
  <2> QED
    BY <1>1, <1>2, <2>1 DEF RInv, Kept
<1>3. CASE ~(register.more.forUpdatedAt = u /\ register.more # NoMore)
  <2>1. m = NoMore /\ NextCursor = cache[register.filters].cursor
    BY <1>3 DEF MoreOf, NextCursor
  <2> QED
    BY <1>1, <2>1, NoMoreIs DEF RInv, Cached
<1> QED
  BY <1>2, <1>3

LEMMA RegisterStep == ASSUME RInv, [RegisterNext]_registerVars PROVE RInv'
<1> USE DEF RInv
<1>1. CASE OpenRegister
  <2>1. register' \in [at : {"away", "list"}, filters : Filter, more : More, busy : BOOLEAN] /\ register'.more = NoMore
    BY <1>1, AwayIs DEF OpenRegister
  <2>2. fetching' \subseteq Filter
    BY <1>1, RegisterBounds DEF OpenRegister, Observed, RegisterTypeOK
  <2> QED
    BY <1>1, <2>1, <2>2, NoMoreIs DEF OpenRegister, RegisterTypeOK, Cached, Captured
<1>2. CASE LeaveRegister
  BY <1>2, AwayIs, NoMoreIs DEF LeaveRegister, RegisterTypeOK, Cached, Captured
<1>3. CASE RereadPageOne
  BY <1>3 DEF RereadPageOne, RegisterTypeOK, Cached, Captured
<1>4. CASE LoadMore
  <2> DEFINE u == cache[register.filters].at
             load == [rows |-> MoreOf(register).rows, cursor |-> NextCursor, updatedAt |-> u]
  <2>1. /\ MoreOf(register) \in More /\ Continues(MoreOf(register).rows, u)
        /\ u # 0 /\ NextCursor = NextOf(MoreOf(register).rows, u)
    BY <1>4, ShownMore DEF LoadMore
  <2>2. u \in 1..MaxReads /\ NextCursor \in Page
    <3>1. u \in 0..MaxReads /\ cache[register.filters].cursor \in Page \cup {NoCursor}
      BY DEF RegisterTypeOK
    <3>2. NextCursor \in Page \cup {NoCursor}
      BY <2>1, <3>1 DEF NextCursor, More
    <3> QED
      BY <1>4, <2>1, <3>1, <3>2, RegisterBounds DEF LoadMore
  <2>3. load \in [rows : Seq(Page), cursor : Page, updatedAt : 1..MaxReads]
    BY <2>1, <2>2 DEF More
  <2>4. loads' = loads \cup {load} /\ register' = [register EXCEPT !.busy = TRUE]
    BY <1>4 DEF LoadMore
  <2>5. Continues(load.rows, load.updatedAt) /\ load.cursor = NextOf(load.rows, load.updatedAt)
    BY <2>1
  <2>6. register' \in [at : {"away", "list"}, filters : Filter, more : More, busy : BOOLEAN]
        /\ register'.more = register.more
    BY <2>4 DEF RegisterTypeOK
  <2> HIDE DEF load
  <2>7. RegisterTypeOK'
    BY <1>4, <2>3, <2>4, <2>6, RegisterBounds DEF LoadMore, RegisterTypeOK
  <2>8. Captured'
    BY <2>4, <2>5 DEF Captured
  <2>9. Cached' /\ Kept(register.more)'
    BY <1>4, <2>6 DEF LoadMore, Cached, Kept
  <2> QED
    BY <2>7, <2>8, <2>9
<1>5. ASSUME NEW f \in Filter, ApplyFilters(f) PROVE RInv'
  <2>1. register' \in [at : {"away", "list"}, filters : Filter, more : More, busy : BOOLEAN] /\ register'.more = NoMore
    BY <1>5, NoMoreIs DEF ApplyFilters, RegisterTypeOK
  <2>2. fetching' \subseteq Filter
    BY <1>5 DEF ApplyFilters, Observed, RegisterTypeOK
  <2> QED
    BY <1>5, <2>1, <2>2, NoMoreIs DEF ApplyFilters, RegisterTypeOK, Cached, Captured
<1>6. ASSUME NEW f \in Filter, AnswerPageOne(f) PROVE RInv'
  <2>1. reads' \in 1..MaxReads
    BY <1>6, RegisterBounds DEF AnswerPageOne, RegisterTypeOK
  <2>2. PICK c \in CursorsAfter(reads', 1) : cache' = [cache EXCEPT ![f] = [at |-> reads', cursor |-> c]]
    BY <1>6 DEF AnswerPageOne
  <2>3. c \in Page \cup {NoCursor} /\ (c # NoCursor => c = [read |-> reads', n |-> 2])
    BY <2>1, CursorsAfterAre
  <2>4. cache' \in [Filter -> [at : 0..MaxReads, cursor : Page \cup {NoCursor}]]
    BY <2>1, <2>2, <2>3 DEF RegisterTypeOK
  <2>5. RegisterTypeOK'
    BY <1>6, <2>1, <2>4 DEF AnswerPageOne, RegisterTypeOK
  <2>6. Cached'
    <3> SUFFICES ASSUME NEW g \in Filter, cache'[g].cursor # NoCursor
                 PROVE  cache'[g].at # 0 /\ cache'[g].cursor = NextOf(<<>>, cache'[g].at)
      BY DEF Cached, NextOf
    <3>1. CASE g = f
      BY <2>1, <2>2, <2>3, <3>1 DEF RegisterTypeOK, NextOf
    <3>2. CASE g # f
      BY <2>2, <3>2 DEF RegisterTypeOK, Cached
    <3> QED
      BY <3>1, <3>2
  <2>7. Kept(register.more)' /\ Captured'
    BY <1>6 DEF AnswerPageOne, Kept, Captured
  <2> QED
    BY <2>5, <2>6, <2>7
<1>7. ASSUME NEW f \in Filter, LosePageOne(f) PROVE RInv'
  BY <1>7 DEF LosePageOne, RegisterTypeOK, Cached, Captured
<1>8. ASSUME NEW call \in loads, HearMore(call) PROVE RInv'
  <2>1. call \in [rows : Seq(Page), cursor : Page, updatedAt : 1..MaxReads]
    BY DEF RegisterTypeOK
  <2>2. Continues(call.rows, call.updatedAt) /\ call.cursor = NextOf(call.rows, call.updatedAt)
    BY DEF Captured
  <2>3. loads' = loads \ {call} /\ UNCHANGED <<cache, fetching, reads, pressed>>
    BY <1>8 DEF HearMore
  <2>4. ASSUME NEW m \in More, Kept(m), register' = [register EXCEPT !.more = m, !.busy = FALSE] PROVE RInv'
    <3>1. register' \in [at : {"away", "list"}, filters : Filter, more : More, busy : BOOLEAN] /\ register'.more = m
      BY <2>4 DEF RegisterTypeOK
    <3> QED
      BY <2>3, <2>4, <3>1 DEF RegisterTypeOK, Cached, Captured
  <2>5. ASSUME NEW c \in CursorsAfter(call.cursor.read, call.cursor.n)
        PROVE  Appended(call, c) \in More /\ Kept(Appended(call, c))
    <3> DEFINE u == call.updatedAt
               rows == Append(call.rows, call.cursor)
    <3>1. call.cursor.read = u /\ call.cursor.n = Len(call.rows) + 2 /\ Len(call.rows) \in Nat
      BY <2>1, <2>2 DEF NextOf
    <3>2. c \in Page \cup {NoCursor} /\ (c # NoCursor => c = [read |-> u, n |-> Len(call.rows) + 3])
      BY <2>1, <3>1, CursorsAfterAre
    <3>3. rows \in Seq(Page) /\ Len(rows) = Len(call.rows) + 1
      BY <2>1
    <3>4. Continues(rows, u)
      BY <2>1, <2>2, <3>1 DEF Continues, NextOf
    <3>5. c # NoCursor => c = NextOf(rows, u)
      BY <3>1, <3>2, <3>3 DEF NextOf
    <3> HIDE DEF rows
    <3>6. Appended(call, c) = [rows |-> rows, cursor |-> c, forUpdatedAt |-> u]
      BY DEF Appended, rows
    <3> QED
      BY <2>1, <3>2, <3>3, <3>4, <3>5, <3>6 DEF More, Kept
  <2>6. CASE \E c \in CursorsAfter(call.cursor.read, call.cursor.n) :
               register' = [register EXCEPT !.more = Appended(call, c), !.busy = FALSE]
    BY <2>4, <2>5, <2>6
  <2>7. CASE register' = [register EXCEPT !.busy = FALSE]
    <3>1. register' = [register EXCEPT !.more = register.more, !.busy = FALSE]
      BY <2>7 DEF RegisterTypeOK
    <3> QED
      BY <2>4, <3>1 DEF RegisterTypeOK
  <2> QED
    BY <1>8, <2>6, <2>7 DEF HearMore
<1>9. CASE UNCHANGED registerVars
  BY <1>9 DEF registerVars, RegisterTypeOK, Cached, Captured
<1> QED
  BY <1>1, <1>2, <1>3, <1>4, <1>5, <1>6, <1>7, <1>8, <1>9 DEF RegisterNext

LEMMA RegisterHolds == RegisterSpec => []RInv
<1>1. RegisterInit => RInv
  BY RInvInit
<1>2. RInv /\ [RegisterNext]_registerVars => RInv'
  BY RegisterStep
<1> QED
  BY <1>1, <1>2, PTL DEF RegisterSpec

(* The list under its filters is one list, page after page, whatever was   *)
(* applied, read again or left while a page was on its way                 *)
(* (ApplicationsPage.tsx, loadMore).                                       *)
THEOREM PagesAreOfOneList == RegisterSpec => []PagesFollowOn
<1>1. RInv => PagesFollowOn
  <2> SUFFICES ASSUME RInv PROVE PagesFollowOn
    OBVIOUS
  <2>1. Continues(MoreOf(register).rows, cache[register.filters].at)
    BY ShownMore
  <2> QED
    BY <2>1 DEF PagesFollowOn, Continues
<1> QED
  BY <1>1, RegisterHolds, PTL

-----------------------------------------------------------------------------
(* The requests                                                            *)

(* A mutation is observed only with the dialog open that it was begun in,  *)
(* or one on the same request.                                             *)
OfItsDialog(p) ==
  /\ p.decide.id # 0 => p.decide.of \in Erasable /\ p.decide.of \in {p.declining, p.erasing}
  /\ p.decide.status # "idle" => p.decide.id # 0

Officers == [at : {"away", "requests"}, list : SUBSET Erasable,
             declining : Erasable \cup {NoRequest}, erasing : Erasable \cup {NoRequest}, done : BOOLEAN,
             decide : [id : 0..MaxVerdicts, of : Erasable \cup {NoRequest},
                       status : {"idle", "pending", "error"}]]
Verdicts == [id : 1..MaxVerdicts, of : Erasable, decision : {"DECLINE", "EXECUTE"},
             answer : {"none", "done", "failed"}, reread : BOOLEAN, heard : BOOLEAN]

EInv == ErasureTypeOK /\ OfItsDialog(dpo)

LEMMA ErasureTyped == ErasureTypeOK <=>
  /\ open \subseteq Erasable /\ asked \in 0..MaxVerdicts /\ elsewhere \in 0..MaxElsewhere
  /\ dpo \in Officers /\ verdicts \subseteq Verdicts
BY Zenon DEF ErasureTypeOK, Officers, Verdicts

LEMMA NoVerdictIs ==
  NoVerdict \in [id : 0..MaxVerdicts, of : Erasable \cup {NoRequest}, status : {"idle", "pending", "error"}]
BY ErasureBounds DEF NoVerdict

LEMMA ClosedIs ==
  ASSUME NEW p \in Officers
  PROVE  Closed(p) \in Officers /\ OfItsDialog(Closed(p))
         /\ Closed([p EXCEPT !.done = TRUE]) \in Officers /\ OfItsDialog(Closed([p EXCEPT !.done = TRUE]))
BY NoVerdictIs DEF Officers, Closed, OfItsDialog, NoVerdict

LEMMA ElsewhereIs ==
  ASSUME NEW list \in SUBSET Erasable
  PROVE  Elsewhere(list) \in Officers /\ OfItsDialog(Elsewhere(list))
BY NoVerdictIs DEF Officers, Elsewhere, OfItsDialog, NoVerdict

LEMMA DecideStep ==
  ASSUME EInv, NEW r \in Erasable, NEW d \in {"DECLINE", "EXECUTE"}, Decide(r, d),
         r \in {dpo.declining, dpo.erasing}
  PROVE  EInv'
<1> USE ErasureTyped DEF EInv
<1>1. asked' \in 1..MaxVerdicts
  BY ErasureBounds DEF Decide
<1>2. [id |-> asked', of |-> r, decision |-> d, answer |-> "none", reread |-> FALSE, heard |-> TRUE] \in Verdicts
  BY <1>1 DEF Verdicts
<1>3. verdicts' \subseteq Verdicts
  BY <1>2 DEF Decide
<1>4. dpo' \in Officers /\ OfItsDialog(dpo')
  BY <1>1 DEF Decide, Officers, OfItsDialog
<1>5. ErasureTypeOK'
  BY <1>1, <1>3, <1>4 DEF Decide, ErasureTypeOK, Officers, Verdicts
<1> QED
  BY <1>4, <1>5

LEMMA EInvInit == ErasureInit => EInv
BY ElsewhereIs, ErasureTyped, ErasureBounds DEF ErasureInit, EInv

LEMMA ErasureStep == ASSUME EInv, [DpoOfficer \/ DpoService]_erasureVars PROVE EInv'
<1>0. /\ open \subseteq Erasable /\ asked \in 0..MaxVerdicts /\ elsewhere \in 0..MaxElsewhere
      /\ dpo \in Officers /\ verdicts \subseteq Verdicts /\ OfItsDialog(dpo)
  BY ErasureTyped DEF EInv
<1>a. ASSUME open' \subseteq Erasable, asked' \in 0..MaxVerdicts, elsewhere' \in 0..MaxElsewhere,
             dpo' \in Officers, verdicts' \subseteq Verdicts, OfItsDialog(dpo')
      PROVE  EInv'
  BY <1>a DEF EInv, ErasureTypeOK, Officers, Verdicts
<1>1. CASE OpenRequests \/ ReadRequests
  <2>1. dpo' \in Officers /\ OfItsDialog(dpo')
    BY <1>0, <1>1 DEF OpenRequests, ReadRequests, Officers, OfItsDialog
  <2> QED
    BY <1>0, <1>a, <1>1, <2>1 DEF OpenRequests, ReadRequests
<1>2. CASE LeaveRequests
  <2>1. \A v \in verdicts : [v EXCEPT !.heard = FALSE] \in Verdicts
    BY <1>0 DEF Verdicts
  <2>2. dpo' \in Officers /\ OfItsDialog(dpo')
    BY <1>0, <1>2, ElsewhereIs DEF LeaveRequests, Officers
  <2> QED
    BY <1>0, <1>a, <1>2, <2>1, <2>2 DEF LeaveRequests
<1>3. CASE CancelDialogue
  BY <1>0, <1>a, <1>3, ClosedIs DEF CancelDialogue
<1>4. CASE SubmitDecline
  <2>1. dpo.declining \in Erasable
    BY <1>0, <1>4 DEF SubmitDecline, Officers
  <2> QED
    BY <1>4, <2>1, DecideStep DEF SubmitDecline
<1>5. CASE SubmitErase
  <2>1. dpo.erasing \in Erasable
    BY <1>0, <1>5 DEF SubmitErase, Officers
  <2> QED
    BY <1>5, <2>1, DecideStep DEF SubmitErase
<1>6. ASSUME NEW r \in Erasable, OnErasureTransition(r) PROVE EInv'
  <2>1. dpo.decide.id = 0 /\ dpo.decide.status = "idle"
    BY <1>0, <1>6, ErasureBounds DEF OnErasureTransition, NoDpoDialog, OfItsDialog
  <2>2. dpo' \in Officers /\ dpo'.decide = dpo.decide
    BY <1>0, <1>6 DEF OnErasureTransition, Officers
  <2> QED
    BY <1>0, <1>a, <1>6, <2>1, <2>2 DEF OnErasureTransition, OfItsDialog
<1>7. ASSUME NEW v \in verdicts, DecideErasure(v) \/ LoseErasure(v) PROVE EInv'
  <2>1. [v EXCEPT !.answer = "done"] \in Verdicts /\ [v EXCEPT !.answer = "failed"] \in Verdicts
    BY <1>0 DEF Verdicts
  <2> QED
    BY <1>0, <1>a, <1>7, <2>1 DEF DecideErasure, LoseErasure
<1>8. ASSUME NEW v \in verdicts, Invalidate(v) PROVE EInv'
  <2>1. [v EXCEPT !.reread = TRUE] \in Verdicts
    BY <1>0 DEF Verdicts
  <2>2. dpo' \in Officers /\ OfItsDialog(dpo')
    BY <1>0, <1>8 DEF Invalidate, Officers, OfItsDialog
  <2> QED
    BY <1>0, <1>a, <1>8, <2>1, <2>2 DEF Invalidate
<1>9. ASSUME NEW v \in verdicts, HearVerdict(v) PROVE EInv'
  <2>1. v.id \in 1..MaxVerdicts
    BY <1>0 DEF Verdicts
  <2>2. dpo' \in Officers /\ OfItsDialog(dpo')
    <3>1. CASE dpo' = dpo
      BY <1>0, <3>1
    <3>2. CASE dpo' = Closed([dpo EXCEPT !.done = TRUE])
      BY <1>0, <3>2, ClosedIs
    <3>3. CASE dpo.decide.id = v.id /\ dpo' = [dpo EXCEPT !.decide.status = "error"]
      BY <1>0, <2>1, <3>3 DEF Officers, OfItsDialog
    <3> QED
      BY <1>9, <3>1, <3>2, <3>3, Zenon DEF HearVerdict
  <2> QED
    BY <1>0, <1>a, <1>9, <2>2 DEF HearVerdict
<1>10. ASSUME NEW r \in Erasable, DecidedElsewhere(r) PROVE EInv'
  <2>1. elsewhere' \in 0..MaxElsewhere
    BY <1>0, <1>10, ErasureBounds DEF DecidedElsewhere
  <2> QED
    BY <1>0, <1>a, <1>10, <2>1 DEF DecidedElsewhere
<1>11. CASE UNCHANGED erasureVars
  BY <1>0, <1>a, <1>11 DEF erasureVars
<1> QED
  BY <1>1, <1>2, <1>3, <1>4, <1>5, <1>6, <1>7, <1>8, <1>9, <1>10, <1>11 DEF DpoOfficer, DpoService

(* A refusal that either dialog of the requests shows is of the request    *)
(* that dialog decides, also after declines that were cancelled under way  *)
(* (DpoQueuePage.tsx, close and the shared mutation).                      *)
THEOREM RefusalsAreTheirs == ErasureSpec => []RefusalIsOfThisRequest
<1>1. ErasureInit => EInv
  BY EInvInit
<1>2. EInv /\ [DpoOfficer \/ DpoService]_erasureVars => EInv'
  BY ErasureStep
<1>3. EInv => RefusalIsOfThisRequest
  BY DEF EInv, OfItsDialog, RefusalIsOfThisRequest
<1> QED
  BY <1>1, <1>2, <1>3, PTL DEF ErasureSpec

-----------------------------------------------------------------------------
(* The queues                                                              *)

(* A row that was in medical review has been decided there, is ready to be *)
(* accepted or accepted, or was withdrawn.                                 *)
Past(r) ==
  \/ status[r] \in {"MEDICAL_REVIEW", "ACCEPTED", "WITHDRAWN"}
  \/ status[r] = "FINAL_SHORTLIST" /\ "SHORTLIST" \in taken[r]
  \/ status[r] = "REJECTED" /\ "REJECT" \in taken[r]

(* What the page remembers of a bulk run under way: rows still to come     *)
(* have no result and are untouched by it; the row asked for has what its  *)
(* answer says.                                                            *)
Honest(u) ==
  /\ desk.running /\ desk.bulked /\ u.decision = desk.chosen /\ u.decision \in {"SHORTLIST", "REJECT"}
  /\ u.row \notin u.todo /\ (u.row = 0 => u.answer = "none")
  /\ \A r \in Row : r \in u.todo \/ r = u.row => Past(r) /\ desk.report[r] = "none"
  /\ \A r \in u.todo : r \notin ours
  /\ u.row # 0 /\ u.answer \in {"none", "refused"} => u.row \notin ours
  /\ u.row # 0 /\ u.answer = "done" => u.decision \in taken[u.row]
  /\ \A r \in desk.targets : desk.report[r] # "none" \/ r \in u.todo \/ r = u.row

HeardBulk(u) == u.heard /\ u.kind = "bulk"
HeardRow(u) == u.heard /\ u.kind = "row"

BulkRuns ==
  /\ \A u \in runs : HeardBulk(u) => Honest(u)
  /\ \A u, v \in runs : HeardBulk(u) /\ HeardBulk(v) => u = v
RowRuns ==
  /\ \A u \in runs : HeardRow(u) =>
       desk.waiting /\ desk.pending.row = u.row /\ desk.pending.decision = u.decision /\ u.row # 0
  /\ \A u, v \in runs : HeardRow(u) /\ HeardRow(v) => u = v
NobodyHears == \A u \in runs : u.kind = "ghost" => ~u.heard
ShutPage == desk.at = "away" => ~desk.waiting /\ ~desk.running /\ desk.pending.row = 0 /\ desk.bulk = "none"
Asks == desk.bulk \in {"none", "SHORTLIST", "REJECT"} /\ (desk.pending.row # 0 => desk.pending.decision \in Decision)
Listed == \A r \in Row : desk.list[r] = "MEDICAL_REVIEW" => Past(r)
Mine == \A m \in Mutation : desk.failed[m] # 0 =>
  \/ desk.failed[m] = desk.pending.row /\ m = MutationOf(desk.pending.decision)
  \/ desk.bulked /\ m = "finalDecision"

QInv == DecisionsTypeOK /\ BulkRuns /\ RowRuns /\ NobodyHears /\ ShutPage /\ Asks /\ Listed /\ Mine /\ BulkReportIsTrue

Desk == [at : {"away", "queues"}, list : [Row -> Status],
         pending : [row : 0..Rows, decision : Decision \cup {"none"}],
         failed : [Mutation -> 0..Rows], waiting : BOOLEAN,
         bulk : Decision \cup {"none"}, running : BOOLEAN, chosen : Decision \cup {"none"},
         targets : SUBSET Row, report : [Row -> {"none", "done", "refused"}],
         faults : SUBSET Row, bulked : BOOLEAN]
Run == [id : 1..MaxDecisions + 1, kind : {"row", "bulk", "ghost"}, decision : Decision,
        row : 0..Rows, todo : SUBSET Row,
        answer : {"none", "done", "refused", "fault"}, heard : BOOLEAN]

DecisionsTyped ==
  /\ status \in [Row -> Status] /\ decisions \in 0..MaxDecisions /\ moves \in 0..MaxMoves /\ ours \subseteq Row
  /\ desk \in Desk /\ runs \subseteq Run /\ taken \in [Row -> SUBSET Decision]

LEMMA RowsAre == Row \subseteq 0..Rows /\ 0 \notin Row /\ 0 \in 0..Rows
BY DecisionRows DEF Row

LEMMA TypedIs == DecisionsTypeOK <=> DecisionsTyped
BY Zenon DEF DecisionsTypeOK, DecisionsTyped, Desk, Run

LEMMA QParts == QInv <=>
  DecisionsTyped /\ BulkRuns /\ RowRuns /\ NobodyHears /\ ShutPage /\ Asks /\ Listed /\ Mine /\ BulkReportIsTrue
BY TypedIs, Zenon DEF QInv

LEMMA Transitioned ==
  ASSUME NEW t, NEW d \in RowTransitions(t)
  PROVE  \/ d \in {"CLEAR", "REJECT_HOLD"} /\ t \in Hold
         \/ d \in {"SHORTLIST", "REJECT"} /\ t = "MEDICAL_REVIEW"
         \/ d = "ACCEPT" /\ t = "FINAL_SHORTLIST"
<1>1. CASE t \in Hold
  BY <1>1, Zenon DEF RowTransitions
<1>2. CASE t = "MEDICAL_REVIEW" /\ t \notin Hold
  BY <1>2, Zenon DEF RowTransitions
<1>3. CASE t = "FINAL_SHORTLIST" /\ t \notin Hold /\ t # "MEDICAL_REVIEW"
  <2>1. RowTransitions(t) = {"ACCEPT"}
    BY <1>3, Zenon DEF RowTransitions
  <2> QED
    BY <1>3, <2>1
<1>4. CASE t # "FINAL_SHORTLIST" /\ t \notin Hold /\ t # "MEDICAL_REVIEW"
  BY <1>4, Zenon DEF RowTransitions
<1> QED
  BY <1>1, <1>2, <1>3, <1>4

LEMMA TargetIs ==
  /\ Target("CLEAR") = "CLEARED" /\ Target("SHORTLIST") = "FINAL_SHORTLIST" /\ Target("ACCEPT") = "ACCEPTED"
  /\ Target("REJECT") = "REJECTED" /\ Target("REJECT_HOLD") = "REJECTED"
  /\ \A d \in Decision : Target(d) \in Status
<1>1. /\ Target("CLEAR") = "CLEARED" /\ Target("SHORTLIST") = "FINAL_SHORTLIST" /\ Target("ACCEPT") = "ACCEPTED"
      /\ Target("REJECT") = "REJECTED" /\ Target("REJECT_HOLD") = "REJECTED"
  BY Zenon DEF Target
<1>2. \A d \in Decision : Target(d) \in Status
  <2> SUFFICES ASSUME NEW d \in Decision PROVE Target(d) \in Status
    OBVIOUS
  <2>1. d \in {"CLEAR", "REJECT_HOLD", "SHORTLIST", "REJECT", "ACCEPT"}
    BY DEF Decision
  <2> QED
    BY <1>1, <2>1 DEF Status
<1> QED
  BY <1>1, <1>2

LEMMA MutationOfIs ==
  \A d : MutationOf(d) \in Mutation /\ MutationOf(d) \in Forgotten(MutationOf(d))
<1> SUFFICES ASSUME NEW d PROVE MutationOf(d) \in Mutation /\ MutationOf(d) \in Forgotten(MutationOf(d))
  OBVIOUS
<1>1. MutationOf(d) = "adjudicate" \/ MutationOf(d) = "accept" \/ MutationOf(d) = "finalDecision"
  <2>1. CASE d \in {"CLEAR", "REJECT_HOLD"}
    BY <2>1, Zenon DEF MutationOf
  <2>2. CASE d = "ACCEPT" /\ d \notin {"CLEAR", "REJECT_HOLD"}
    BY <2>2, Zenon DEF MutationOf
  <2>3. CASE d # "ACCEPT" /\ d \notin {"CLEAR", "REJECT_HOLD"}
    BY <2>3, Zenon DEF MutationOf
  <2> QED
    BY <2>1, <2>2, <2>3
<1> QED
  BY <1>1 DEF Mutation, Forgotten

LEMMA ShutIs ==
  ASSUME status \in [Row -> Status]
  PROVE  /\ Shut \in Desk /\ Shut.at = "away" /\ Shut.list = status /\ Shut.pending.row = 0 /\ Shut.bulk = "none"
         /\ ~Shut.waiting /\ ~Shut.running /\ ~Shut.bulked /\ Shut.targets = {} /\ Shut.faults = {}
         /\ Shut.failed = [m \in Mutation |-> 0] /\ Shut.report = [r \in Row |-> "none"]
<1>1. NoRow \in [row : 0..Rows, decision : Decision \cup {"none"}] /\ NoRow.row = 0
  BY RowsAre DEF NoRow
<1>2. [m \in Mutation |-> 0] \in [Mutation -> 0..Rows]
  BY RowsAre
<1>3. NoReport \in [Row -> {"none", "done", "refused"}] /\ NoReport = [r \in Row |-> "none"]
  BY DEF NoReport
<1> QED
  BY <1>1, <1>2, <1>3 DEF Shut, Desk

LEMMA QInvInit == DecisionsInit => QInv
<1> SUFFICES ASSUME DecisionsInit PROVE QInv
  OBVIOUS
<1>1. status \in [Row -> Status] /\ desk = Shut /\ runs = {} /\ ours = {} /\ taken = [r \in Row |-> {}]
      /\ decisions = 0 /\ moves = 0
  BY DecisionRows DEF DecisionsInit
<1>2. DecisionsTyped
  BY <1>1, ShutIs, DecisionRows, DecisionMoves DEF DecisionsTyped
<1>3. BulkRuns /\ RowRuns /\ NobodyHears
  BY <1>1 DEF BulkRuns, RowRuns, NobodyHears
<1>4. ShutPage /\ Asks /\ Listed /\ Mine
  BY <1>1, ShutIs DEF ShutPage, Asks, Listed, Past, Mine
<1>5. BulkReportIsTrue
  BY <1>1, ShutIs DEF BulkReportIsTrue
<1> QED
  BY <1>2, <1>3, <1>4, <1>5, QParts

-----------------------------------------------------------------------------
(* The applications move: forward of review, and never back into it.       *)

Forward ==
  /\ status' \in [Row -> Status] /\ taken' \in [Row -> SUBSET Decision]
  /\ \A r \in Row : (Past(r) => Past(r)') /\ taken[r] \subseteq taken'[r]

LEMMA StaysForward ==
  ASSUME DecisionsTyped, UNCHANGED <<status, taken>>
  PROVE  Forward
BY DEF DecisionsTyped, Forward, Past

LEMMA RecordedForward ==
  ASSUME DecisionsTyped, NEW r \in Row, NEW d \in RowTransitions(status[r]), Recorded(r, d)
  PROVE  Forward /\ d \in taken'[r] /\ d \in Decision
<1>1. \/ d \in {"CLEAR", "REJECT_HOLD"} /\ status[r] \in Hold
      \/ d \in {"SHORTLIST", "REJECT"} /\ status[r] = "MEDICAL_REVIEW"
      \/ d = "ACCEPT" /\ status[r] = "FINAL_SHORTLIST"
  BY Transitioned
<1>2. d \in Decision /\ Target(d) \in Status
  BY <1>1, TargetIs DEF Decision
<1>3. /\ status' = [status EXCEPT ![r] = Target(d)] /\ taken' = [taken EXCEPT ![r] = @ \cup {d}]
      /\ status \in [Row -> Status] /\ taken \in [Row -> SUBSET Decision]
  BY DEF Recorded, DecisionsTyped
<1>4. status' \in [Row -> Status] /\ taken' \in [Row -> SUBSET Decision] /\ taken'[r] = taken[r] \cup {d}
  BY <1>2, <1>3
<1>5. ASSUME NEW q \in Row, Past(q) PROVE Past(q)'
  <2>1. CASE q # r
    BY <1>3, <1>5, <2>1 DEF Past
  <2>2. CASE q = r
    <3>1. status'[r] = Target(d)
      BY <1>3
    <3>2. CASE d \in {"SHORTLIST", "REJECT"}
      BY <1>4, <2>2, <3>1, <3>2, TargetIs DEF Past
    <3>3. CASE d = "ACCEPT"
      BY <2>2, <3>1, <3>3, TargetIs DEF Past
    <3>4. CASE d \in {"CLEAR", "REJECT_HOLD"}
      BY <1>1, <1>5, <2>2, <3>4 DEF Past, Hold
    <3> QED
      BY <1>1, <3>2, <3>3, <3>4
  <2> QED
    BY <2>1, <2>2
<1> QED
  BY <1>2, <1>3, <1>4, <1>5 DEF Forward

LEMMA HonestForward ==
  ASSUME Forward, UNCHANGED <<desk, ours>>, NEW u, Honest(u), u.row \in 0..Rows
  PROVE  Honest(u)'
<1>1. u.row # 0 => u.row \in Row
  BY DecisionRows DEF Row
<1> QED
  BY <1>1 DEF Forward, Honest

LEMMA WorldKeeps ==
  ASSUME QInv, Forward, UNCHANGED <<desk, runs, decisions, ours>>, moves' \in 0..MaxMoves
  PROVE  QInv'
<1>0. DecisionsTyped /\ BulkRuns /\ RowRuns /\ NobodyHears /\ ShutPage /\ Asks /\ Listed /\ Mine /\ BulkReportIsTrue
  BY QParts
<1>1. DecisionsTypeOK'
  BY <1>0 DEF DecisionsTyped, DecisionsTypeOK, Desk, Run, Forward
<1>2. BulkRuns'
  <2>1. \A u \in runs : u.row \in 0..Rows
    BY <1>0 DEF DecisionsTyped, Run
  <2> QED
    BY <1>0, <2>1, HonestForward DEF BulkRuns, HeardBulk
<1>3. RowRuns' /\ NobodyHears' /\ ShutPage' /\ Asks' /\ Mine'
  BY <1>0 DEF RowRuns, NobodyHears, ShutPage, Asks, Mine, HeardRow
<1>4. Listed'
  BY <1>0 DEF Listed, Forward
<1>5. BulkReportIsTrue'
  BY <1>0 DEF BulkReportIsTrue, Forward
<1> QED
  BY <1>1, <1>2, <1>3, <1>4, <1>5 DEF QInv

-----------------------------------------------------------------------------
(* The officer                                                             *)

(* What a bulk's honesty is about.                                         *)
SameBulk == /\ desk'.running = desk.running /\ desk'.chosen = desk.chosen /\ desk'.targets = desk.targets
            /\ desk'.report = desk.report /\ desk'.faults = desk.faults /\ desk'.bulked = desk.bulked

LEMMA DeskKeeps ==
  ASSUME QInv, UNCHANGED <<status, runs, decisions, moves, taken, ours>>,
         desk' \in Desk, SameBulk, desk'.waiting = desk.waiting,
         desk'.pending = desk.pending \/ \A u \in runs : ~HeardRow(u),
         ShutPage', Asks', Listed', Mine'
  PROVE  QInv'
<1>0. DecisionsTyped /\ BulkRuns /\ RowRuns /\ NobodyHears /\ BulkReportIsTrue
  BY QParts
<1>1. DecisionsTypeOK'
  BY <1>0 DEF DecisionsTyped, DecisionsTypeOK, Desk, Run
<1>2. BulkRuns'
  BY <1>0 DEF BulkRuns, HeardBulk, Honest, Past, SameBulk
<1>3. RowRuns' /\ NobodyHears'
  BY <1>0 DEF RowRuns, NobodyHears, HeardRow
<1>4. BulkReportIsTrue'
  BY <1>0 DEF BulkReportIsTrue, SameBulk
<1> QED
  BY <1>1, <1>2, <1>3, <1>4 DEF QInv

LEMMA NoRowAsked == ASSUME QInv, desk.pending.row = 0 \/ ~desk.waiting PROVE \A u \in runs : ~HeardRow(u)
BY QParts DEF RowRuns

LEMMA NoBulkRuns == ASSUME QInv, ~desk.running PROVE \A u \in runs : ~HeardBulk(u)
BY QParts DEF BulkRuns, Honest

LEMMA QueueOfficerKeeps == ASSUME QInv, QueueOfficer PROVE QInv'
<1>0. /\ DecisionsTyped /\ BulkRuns /\ RowRuns /\ NobodyHears /\ ShutPage /\ Asks /\ Listed /\ Mine /\ BulkReportIsTrue
      /\ desk \in Desk /\ status \in [Row -> Status] /\ runs \subseteq Run
  BY QParts DEF DecisionsTyped
<1>1. CASE OpenQueues
  <2>1. /\ desk' = [Shut EXCEPT !.at = "queues"] /\ desk.at = "away"
        /\ UNCHANGED <<status, runs, decisions, moves, taken, ours>>
    BY <1>1 DEF OpenQueues
  <2>2. /\ desk' \in Desk /\ desk'.at = "queues" /\ desk'.list = status /\ desk'.bulk = "none" /\ desk'.pending.row = 0
        /\ ~desk'.waiting /\ ~desk'.running /\ ~desk'.bulked /\ desk'.targets = {}
        /\ desk'.failed = [m \in Mutation |-> 0] /\ desk'.report = [r \in Row |-> "none"]
    BY <1>0, <2>1, ShutIs DEF Desk
  <2>3. \A u \in runs : ~HeardBulk(u) /\ ~HeardRow(u)
    BY <1>0, <2>1, NoRowAsked, NoBulkRuns DEF ShutPage
  <2>4. DecisionsTypeOK'
    BY <1>0, <2>1, <2>2 DEF DecisionsTyped, DecisionsTypeOK, Desk, Run
  <2>5. BulkRuns' /\ RowRuns' /\ NobodyHears'
    BY <1>0, <2>1, <2>3 DEF BulkRuns, RowRuns, NobodyHears, HeardBulk, HeardRow
  <2>6. ShutPage' /\ Asks' /\ Listed' /\ Mine'
    BY <2>1, <2>2 DEF ShutPage, Asks, Listed, Past, Mine
  <2>7. BulkReportIsTrue'
    BY <2>1, <2>2 DEF BulkReportIsTrue
  <2> QED
    BY <2>4, <2>5, <2>6, <2>7 DEF QInv
<1>2. CASE Refetch
  <2>1. desk' = [desk EXCEPT !.list = status] /\ UNCHANGED <<status, runs, decisions, moves, taken, ours>>
    BY <1>2 DEF Refetch
  <2>2. /\ desk' \in Desk /\ desk'.list = status /\ desk'.pending = desk.pending /\ desk'.waiting = desk.waiting
        /\ desk'.at = desk.at /\ desk'.bulk = desk.bulk /\ desk'.failed = desk.failed /\ SameBulk
    BY <1>0, <2>1 DEF Desk, SameBulk
  <2>3. ShutPage' /\ Asks' /\ Listed' /\ Mine'
    BY <1>0, <2>1, <2>2 DEF ShutPage, Asks, Listed, Past, Mine, SameBulk
  <2> QED
    BY <2>1, <2>2, <2>3, DeskKeeps
<1>3. ASSUME NEW r \in Row, NEW d \in Decision, OnTransition(r, d) PROVE QInv'
  <2>1. /\ desk' = [desk EXCEPT !.pending = [row |-> r, decision |-> d]] /\ desk.at = "queues"
        /\ desk.pending.row = 0 /\ UNCHANGED <<status, runs, decisions, moves, taken, ours>>
    BY <1>3 DEF OnTransition, NoDialog
  <2>2. /\ desk' \in Desk /\ desk'.list = desk.list /\ desk'.waiting = desk.waiting
        /\ desk'.at = desk.at /\ desk'.bulk = desk.bulk /\ desk'.failed = desk.failed /\ SameBulk
    BY <1>0, <2>1, RowsAre DEF Desk, SameBulk
  <2>3. ShutPage' /\ Asks' /\ Listed' /\ Mine'
    BY <1>0, <2>1, <2>2 DEF ShutPage, Asks, Listed, Past, Mine, SameBulk
  <2> QED
    BY <2>1, <2>2, <2>3, NoRowAsked, DeskKeeps
<1>4. CASE CancelDecision
  <2>1. /\ desk' = Cancelled(desk.pending.decision) /\ ~desk.waiting
        /\ UNCHANGED <<status, runs, decisions, moves, taken, ours>> /\ desk.pending.row # 0
    BY <1>4 DEF CancelDecision
  <2>2. /\ desk' \in Desk /\ desk'.list = desk.list /\ desk'.waiting = desk.waiting /\ desk'.pending.row = 0
        /\ desk'.at = desk.at /\ desk'.bulk = desk.bulk /\ SameBulk
        /\ desk'.failed = [m \in Mutation |->
             IF m \in Forgotten(MutationOf(desk.pending.decision)) THEN 0 ELSE desk.failed[m]]
    <3>1. NoRow \in [row : 0..Rows, decision : Decision \cup {"none"}] /\ NoRow.row = 0
      BY RowsAre DEF NoRow
    <3>2. [m \in Mutation |-> IF m \in Forgotten(MutationOf(desk.pending.decision)) THEN 0 ELSE desk.failed[m]]
            \in [Mutation -> 0..Rows]
      BY <1>0, RowsAre DEF Desk
    <3>3. PICK f : f = [m \in Mutation |->
             IF m \in Forgotten(MutationOf(desk.pending.decision)) THEN 0 ELSE desk.failed[m]]
      OBVIOUS
    <3>4. desk' = [desk EXCEPT !.pending = NoRow, !.failed = f]
      BY <1>0, <2>1, <3>3 DEF Cancelled, Desk
    <3>5. f \in [Mutation -> 0..Rows]
      BY <3>2, <3>3
    <3>6. /\ desk' \in Desk /\ desk'.list = desk.list /\ desk'.waiting = desk.waiting /\ desk'.pending.row = 0
          /\ desk'.at = desk.at /\ desk'.bulk = desk.bulk /\ SameBulk /\ desk'.failed = f
      BY <1>0, <2>1, <3>1, <3>4, <3>5 DEF Desk, SameBulk
    <3> QED
      BY <3>3, <3>6
  <2>3. \A m \in Mutation : desk'.failed[m] # 0 => desk.bulked /\ m = "finalDecision"
    BY <1>0, <2>2, MutationOfIs DEF Mine
  <2>4. ShutPage' /\ Asks' /\ Listed' /\ Mine'
    BY <1>0, <2>1, <2>2, <2>3 DEF ShutPage, Asks, Listed, Past, Mine, SameBulk
  <2> QED
    BY <2>1, <2>2, <2>4, NoRowAsked, DeskKeeps
<1>5. ASSUME NEW d \in {"SHORTLIST", "REJECT"}, AskForAll(d) PROVE QInv'
  <2>1. /\ desk' = [desk EXCEPT !.bulk = d] /\ desk.at = "queues"
        /\ UNCHANGED <<status, runs, decisions, moves, taken, ours>>
    BY <1>5 DEF AskForAll
  <2>2. /\ desk' \in Desk /\ desk'.list = desk.list /\ desk'.waiting = desk.waiting /\ desk'.pending = desk.pending
        /\ desk'.at = desk.at /\ desk'.bulk = d /\ desk'.failed = desk.failed /\ SameBulk
    BY <1>0, <2>1 DEF Desk, SameBulk, Decision
  <2>3. ShutPage' /\ Asks' /\ Listed' /\ Mine'
    BY <1>0, <2>1, <2>2 DEF ShutPage, Asks, Listed, Past, Mine, SameBulk
  <2> QED
    BY <2>1, <2>2, <2>3, DeskKeeps
<1>6. CASE CancelAll
  <2>1. desk' = [desk EXCEPT !.bulk = "none"] /\ UNCHANGED <<status, runs, decisions, moves, taken, ours>>
    BY <1>6 DEF CancelAll
  <2>2. /\ desk' \in Desk /\ desk'.list = desk.list /\ desk'.waiting = desk.waiting /\ desk'.pending = desk.pending
        /\ desk'.at = desk.at /\ desk'.bulk = "none" /\ desk'.failed = desk.failed /\ SameBulk
    BY <1>0, <2>1 DEF Desk, SameBulk
  <2>3. ShutPage' /\ Asks' /\ Listed' /\ Mine'
    BY <1>0, <2>1, <2>2 DEF ShutPage, Asks, Listed, Past, Mine, SameBulk
  <2> QED
    BY <2>1, <2>2, <2>3, DeskKeeps
<1>7. CASE LeaveQueues
  <2>1. /\ desk' = Shut /\ ours' = {} /\ UNCHANGED <<status, decisions, moves, taken>>
        /\ runs' = {[u EXCEPT !.heard = FALSE] : u \in {v \in runs : v.todo # {} \/ v.answer = "none"}}
    BY <1>7 DEF LeaveQueues
  <2>2. \A u \in runs' : u \in Run /\ ~u.heard
    <3>1. \A u \in runs : [u EXCEPT !.heard = FALSE] \in Run /\ ~[u EXCEPT !.heard = FALSE].heard
      BY <1>0 DEF Run
    <3> QED
      BY <2>1, <3>1
  <2>3. DecisionsTypeOK'
    BY <1>0, <2>1, <2>2, ShutIs DEF DecisionsTyped, DecisionsTypeOK, Desk, Run
  <2>4. BulkRuns' /\ RowRuns' /\ NobodyHears'
    BY <2>2 DEF BulkRuns, RowRuns, NobodyHears, HeardBulk, HeardRow
  <2>5. ShutPage' /\ Asks' /\ Listed' /\ Mine'
    BY <1>0, <2>1, ShutIs DEF ShutPage, Asks, Listed, Past, Mine
  <2>6. BulkReportIsTrue'
    BY <1>0, <2>1, ShutIs DEF BulkReportIsTrue
  <2> QED
    BY <2>3, <2>4, <2>5, <2>6 DEF QInv
<1>8. CASE RunDecision
  <2> DEFINE d == desk.pending.decision
             m == MutationOf(d)
             w == Request("row", d, desk.pending.row, {})
  <2>1. /\ desk.pending.row # 0 /\ ~desk.waiting /\ decisions < MaxDecisions /\ decisions' = decisions + 1
        /\ runs' = runs \cup {w} /\ desk' = [desk EXCEPT !.waiting = TRUE, !.failed[m] = 0]
        /\ UNCHANGED <<status, moves, taken, ours>>
    BY <1>8 DEF RunDecision
  <2>2. decisions' \in 0..MaxDecisions /\ decisions + 1 \in 1..MaxDecisions + 1
    BY <1>0, <2>1, DecisionRows DEF DecisionsTyped
  <2>3. d \in Decision /\ m \in Mutation /\ desk.pending.row \in 0..Rows
    BY <1>0, <2>1, MutationOfIs DEF Asks, Desk
  <2>4. w \in Run /\ HeardRow(w) /\ ~HeardBulk(w) /\ w.row = desk.pending.row /\ w.decision = d /\ w.kind = "row"
    BY <2>2, <2>3 DEF Request, Run, HeardRow, HeardBulk
  <2>5. /\ desk'.list = desk.list /\ desk'.pending = desk.pending /\ desk'.waiting
        /\ desk'.at = desk.at /\ desk'.bulk = desk.bulk /\ SameBulk
        /\ desk' \in Desk
        /\ desk'.failed[m] = 0 /\ \A k \in Mutation : k # m => desk'.failed[k] = desk.failed[k]
    <3> HIDE DEF m, d
    <3> QED
      BY <1>0, <2>1, <2>3, RowsAre DEF Desk, SameBulk
  <2> HIDE DEF w
  <2>6. \A u \in runs : ~HeardRow(u)
    BY <2>1, NoRowAsked
  <2>7. DecisionsTypeOK'
    BY <1>0, <2>1, <2>2, <2>4, <2>5 DEF DecisionsTyped, DecisionsTypeOK, Desk, Run
  <2>8. BulkRuns'
    BY <1>0, <2>1, <2>4, <2>5 DEF BulkRuns, HeardBulk, Honest, Past, SameBulk
  <2>9. RowRuns' /\ NobodyHears'
    BY <1>0, <2>1, <2>4, <2>5, <2>6 DEF RowRuns, NobodyHears, HeardRow
  <2>10. ShutPage' /\ Asks' /\ Listed'
    BY <1>0, <2>1, <2>5 DEF ShutPage, Asks, Listed, Past, SameBulk
  <2>11. Mine'
    <3> HIDE DEF m, d
    <3> QED
      BY <1>0, <2>5 DEF Mine, SameBulk
  <2>12. BulkReportIsTrue'
    BY <1>0, <2>1, <2>5 DEF BulkReportIsTrue, SameBulk
  <2> QED
    BY <2>7, <2>8, <2>9, <2>10, <2>11, <2>12 DEF QInv
<1>9. CASE RunAll
  <2>0. PICK w : w = Request("bulk", desk.bulk, 0, InReview)
    OBVIOUS
  <2>1. /\ desk.bulk # "none" /\ ~desk.running /\ decisions + Cardinality(InReview) <= MaxDecisions
        /\ decisions' = decisions + Cardinality(InReview)
        /\ desk' = [desk EXCEPT !.running = TRUE, !.chosen = desk.bulk, !.targets = InReview,
                                !.report = NoReport, !.faults = {}, !.bulked = TRUE]
        /\ runs' = runs \cup {w} /\ ours' = {} /\ UNCHANGED <<status, moves, taken>>
    BY <1>9, <2>0 DEF RunAll
  <2>2. Cardinality(InReview) \in Nat /\ InReview \subseteq Row
    <3>1. IsFiniteSet(Row)
      BY DecisionRows, FS_Interval DEF Row
    <3>2. InReview \subseteq Row
      BY DEF InReview
    <3> QED
      BY <3>1, <3>2, FS_Subset, FS_CardinalityType
  <2>3. decisions' \in 0..MaxDecisions /\ decisions + 1 \in 1..MaxDecisions + 1
    BY <1>0, <2>1, <2>2, DecisionRows DEF DecisionsTyped
  <2>4. desk.bulk \in {"SHORTLIST", "REJECT"} /\ {"SHORTLIST", "REJECT"} \subseteq Decision
    BY <1>0, <2>1 DEF Asks, Decision
  <2>5. /\ w \in Run /\ ~HeardRow(w) /\ w.kind = "bulk" /\ w.row = 0 /\ w.todo = InReview
        /\ w.decision = desk.bulk /\ w.answer = "none"
    BY <2>0, <2>2, <2>3, <2>4, RowsAre DEF Request, Run, HeardRow
  <2>6. /\ desk' \in Desk /\ desk'.list = desk.list /\ desk'.pending = desk.pending /\ desk'.waiting = desk.waiting
        /\ desk'.at = desk.at /\ desk'.bulk = desk.bulk /\ desk'.failed = desk.failed
        /\ desk'.running /\ desk'.bulked /\ desk'.chosen = desk.bulk /\ desk'.targets = InReview
        /\ desk'.report = [r \in Row |-> "none"]
    BY <1>0, <2>1, <2>2, <2>4 DEF Desk, NoReport
  <2>7. \A u \in runs : ~HeardBulk(u)
    BY <2>1, NoBulkRuns
  <2>8. DecisionsTypeOK'
    BY <1>0, <2>1, <2>3, <2>5, <2>6 DEF DecisionsTyped, DecisionsTypeOK, Desk, Run
  <2>9. \A r \in InReview : Past(r)'
    BY <1>0, <2>1 DEF Listed, InReview, Past
  <2>10. Honest(w)'
    BY <2>1, <2>2, <2>4, <2>5, <2>6, <2>9, RowsAre DEF Honest
  <2>11. BulkRuns'
    BY <2>1, <2>7, <2>10 DEF BulkRuns, HeardBulk
  <2>12. RowRuns' /\ NobodyHears'
    BY <1>0, <2>1, <2>5, <2>6 DEF RowRuns, NobodyHears, HeardRow
  <2>13. ShutPage' /\ Asks' /\ Listed' /\ Mine'
    BY <1>0, <2>1, <2>6 DEF ShutPage, Asks, Listed, Past, Mine
  <2>14. BulkReportIsTrue'
    BY <2>1, <2>6 DEF BulkReportIsTrue
  <2> QED
    BY <2>8, <2>11, <2>12, <2>13, <2>14 DEF QInv
<1> QED
  BY <1>1, <1>2, <1>3, <1>4, <1>5, <1>6, <1>7, <1>8, <1>9 DEF QueueOfficer

-----------------------------------------------------------------------------
(* The runs                                                                *)

(* A run takes its step: it is replaced by what it has become.             *)
Becomes(u, S) ==
  /\ runs' = (runs \ {u}) \cup S
  /\ \A v \in S : /\ v \in Run /\ (v.kind = "ghost" => ~v.heard)
                  /\ HeardBulk(v) => HeardBulk(u) /\ Honest(v)'
                  /\ HeardRow(v) => HeardRow(u) /\ v.row = u.row /\ v.decision = u.decision
                  /\ \A w \in S : v.heard /\ w.heard => v = w

LEMMA RunStep ==
  ASSUME QInv, NEW u \in runs, NEW S, Becomes(u, S), Forward, desk' \in Desk, ours' \subseteq Row,
         UNCHANGED <<decisions, moves>>,
         \A v \in runs : v # u /\ HeardBulk(v) => Honest(v)',
         desk'.at = desk.at, desk'.list = desk.list,
         \/ desk'.pending = desk.pending /\ desk'.waiting = desk.waiting
         \/ \A v \in runs' : ~HeardRow(v),
         ShutPage', Asks', Mine', BulkReportIsTrue'
  PROVE  QInv'
<1>0. DecisionsTyped /\ BulkRuns /\ RowRuns /\ NobodyHears /\ Listed /\ runs \subseteq Run
  BY QParts DEF DecisionsTyped
<1>1. DecisionsTypeOK'
  <2>1. runs' \subseteq Run
    BY <1>0 DEF Becomes
  <2> QED
    BY <1>0, <2>1 DEF DecisionsTyped, DecisionsTypeOK, Desk, Run, Forward
<1>2. BulkRuns'
  BY <1>0 DEF BulkRuns, Becomes, HeardBulk
<1>3. RowRuns'
  BY <1>0 DEF RowRuns, Becomes, HeardRow
<1>4. NobodyHears' /\ Listed'
  BY <1>0 DEF NobodyHears, Becomes, Listed, Forward
<1> QED
  BY <1>1, <1>2, <1>3, <1>4 DEF QInv

(* The page as it was, whatever the run has become.                        *)
LEMMA SameDesk ==
  ASSUME QInv, NEW u \in runs, NEW S, Becomes(u, S), Forward, UNCHANGED <<desk, decisions, moves>>,
         ours' \subseteq Row, BulkReportIsTrue',
         ours' = ours \/ HeardBulk(u)
  PROVE  QInv'
<1>0. DecisionsTyped /\ BulkRuns /\ ShutPage /\ Asks /\ Mine /\ desk \in Desk /\ runs \subseteq Run
  BY QParts DEF DecisionsTyped
<1>1. ASSUME NEW v \in runs, v # u, HeardBulk(v) PROVE Honest(v)'
  <2>1. ours' = ours /\ Honest(v) /\ v.row \in 0..Rows
    BY <1>0, <1>1 DEF BulkRuns, Run
  <2> QED
    BY <2>1, HonestForward
<1>2. desk' \in Desk /\ ShutPage' /\ Asks' /\ Mine'
  BY <1>0 DEF ShutPage, Asks, Mine
<1> QED
  BY <1>1, <1>2, RunStep

LEMMA NextRowKeeps == ASSUME QInv, NEW u \in runs, NextRow(u) PROVE QInv'
<1>0. /\ DecisionsTyped /\ BulkRuns /\ ShutPage /\ Asks /\ Mine /\ BulkReportIsTrue
      /\ desk \in Desk /\ u \in Run /\ ours \subseteq Row
  BY QParts DEF DecisionsTyped
<1>1. PICK r \in u.todo : runs' = (runs \ {u}) \cup {[u EXCEPT !.row = r, !.todo = @ \ {r}]}
  BY Zenon DEF NextRow
<1>2. /\ u.kind = "bulk" /\ u.row = 0 /\ UNCHANGED <<status, decisions, moves, taken, ours>>
      /\ desk' = IF u.heard THEN [desk EXCEPT !.failed["finalDecision"] = 0] ELSE desk
  BY DEF NextRow
<1>3. PICK w : w = [u EXCEPT !.row = r, !.todo = @ \ {r}]
  OBVIOUS
<1>4. r \in Row /\ r # 0
  BY <1>0, RowsAre DEF Run
<1>5. /\ w \in Run /\ w.kind = "bulk" /\ w.heard = u.heard /\ w.row = r /\ w.todo = u.todo \ {r}
      /\ w.decision = u.decision /\ w.answer = u.answer
  BY <1>0, <1>2, <1>3, <1>4, RowsAre DEF Run
<1>6. desk' \in Desk /\ SameBulk /\ desk'.at = desk.at /\ desk'.list = desk.list /\ desk'.pending = desk.pending
      /\ desk'.waiting = desk.waiting /\ desk'.bulk = desk.bulk
  BY <1>0, <1>2, RowsAre DEF Desk, SameBulk
<1>7. ASSUME HeardBulk(u) PROVE Honest(w)'
  <2>1. Honest(u)
    BY <1>0, <1>7 DEF BulkRuns
  <2>2. u.answer = "none"
    BY <1>2, <2>1 DEF Honest
  <2>3. \A q \in Row : q \in w.todo \/ q = w.row => Past(q)' /\ desk'.report[q] = "none"
    BY <1>2, <1>5, <1>6, <2>1 DEF Honest, Past, SameBulk
  <2>4. r \notin ours' /\ \A q \in w.todo : q \notin ours'
    BY <1>2, <1>5, <2>1 DEF Honest
  <2>5. \A q \in desk'.targets : desk'.report[q] # "none" \/ q \in w.todo \/ q = w.row
    <3>1. desk.targets \subseteq Row
      BY <1>0 DEF Desk
    <3> QED
      BY <1>2, <1>5, <1>6, <2>1, <3>1, RowsAre DEF Honest, SameBulk
  <2> QED
    BY <1>4, <1>5, <1>6, <2>1, <2>2, <2>3, <2>4, <2>5 DEF Honest, SameBulk
<1>8. Becomes(u, {w})
  BY <1>1, <1>2, <1>3, <1>5, <1>7 DEF Becomes, HeardBulk, HeardRow
<1>9. \A v \in runs : v # u /\ HeardBulk(v) => Honest(v)'
  BY <1>0, <1>2, <1>6 DEF BulkRuns, Honest, Past, SameBulk
<1>10. ShutPage' /\ Asks' /\ BulkReportIsTrue'
  BY <1>0, <1>2, <1>6 DEF ShutPage, Asks, SameBulk, BulkReportIsTrue
<1>11. Mine'
  <2>1. \A m \in Mutation : desk'.failed[m] # 0 => desk'.failed[m] = desk.failed[m]
    BY <1>0, <1>2 DEF Desk
  <2> QED
    BY <1>0, <1>6, <2>1 DEF Mine, SameBulk
<1>12. Forward
  BY <1>0, <1>2, StaysForward
<1> QED
  BY <1>0, <1>2, <1>6, <1>8, <1>9, <1>10, <1>11, <1>12, RunStep

LEMMA EndOfRunKeeps == ASSUME QInv, NEW u \in runs, EndOfRun(u) PROVE QInv'
<1>0. /\ DecisionsTyped /\ BulkRuns /\ ShutPage /\ Asks /\ Mine /\ BulkReportIsTrue
      /\ desk \in Desk /\ u \in Run /\ ours \subseteq Row
  BY QParts DEF DecisionsTyped
<1>1. /\ u.kind = "bulk" /\ u.row = 0 /\ u.todo = {} /\ runs' = runs \ {u}
      /\ UNCHANGED <<status, decisions, moves, taken, ours>>
      /\ desk' = IF u.heard THEN [desk EXCEPT !.running = FALSE, !.bulk = "none"] ELSE desk
  BY DEF EndOfRun
<1>2. Becomes(u, {}) /\ Forward
  BY <1>0, <1>1, StaysForward DEF Becomes
<1>3. CASE ~u.heard
  <2>1. desk' = desk /\ BulkReportIsTrue'
    BY <1>0, <1>1, <1>3 DEF BulkReportIsTrue
  <2> QED
    BY <1>0, <1>1, <1>2, <2>1, SameDesk
<1>4. CASE u.heard
  <2>1. /\ desk' \in Desk /\ desk'.at = desk.at /\ desk'.list = desk.list /\ desk'.pending = desk.pending
        /\ desk'.waiting = desk.waiting /\ desk'.bulk = "none" /\ desk'.failed = desk.failed
        /\ ~desk'.running /\ desk'.report = desk.report /\ desk'.targets = desk.targets
        /\ desk'.faults = desk.faults /\ desk'.chosen = desk.chosen /\ desk'.bulked = desk.bulked
    BY <1>0, <1>1, <1>4 DEF Desk
  <2>2. Honest(u)
    BY <1>0, <1>1, <1>4 DEF BulkRuns, HeardBulk
  <2>3. \A v \in runs : v # u => ~HeardBulk(v)
    BY <1>0, <1>1, <1>4 DEF BulkRuns, HeardBulk
  <2>4. \A r \in desk.targets : desk.report[r] # "none"
    BY <1>0, <1>1, <2>2, RowsAre DEF Honest, Desk
  <2>5. ShutPage' /\ Asks' /\ Mine'
    BY <1>0, <2>1 DEF ShutPage, Asks, Mine
  <2>6. BulkReportIsTrue'
    BY <1>0, <1>1, <2>1, <2>4 DEF BulkReportIsTrue
  <2> QED
    BY <1>0, <1>1, <1>2, <2>1, <2>3, <2>5, <2>6, RunStep
<1> QED
  BY <1>3, <1>4

LEMMA LoseDecisionKeeps == ASSUME QInv, NEW u \in runs, LoseDecision(u) PROVE QInv'
<1>0. /\ DecisionsTyped /\ BulkRuns /\ RowRuns /\ BulkReportIsTrue /\ u \in Run /\ ours \subseteq Row
  BY QParts DEF DecisionsTyped
<1>1. /\ u.row # 0 /\ u.kind # "ghost" /\ UNCHANGED <<status, desk, decisions, moves, taken, ours>>
      /\ runs' = (runs \ {u}) \cup {[u EXCEPT !.answer = "fault"]}
           \cup IF u.answer = "none" THEN {[u EXCEPT !.kind = "ghost", !.todo = {}, !.heard = FALSE]} ELSE {}
  BY DEF LoseDecision
<1>2. PICK w : w = [u EXCEPT !.answer = "fault"]
  OBVIOUS
<1>3. PICK g : g = [u EXCEPT !.kind = "ghost", !.todo = {}, !.heard = FALSE]
  OBVIOUS
<1>4. /\ w \in Run /\ w.kind = u.kind /\ w.heard = u.heard /\ w.row = u.row /\ w.todo = u.todo
      /\ w.decision = u.decision /\ w.answer = "fault"
  BY <1>0, <1>2 DEF Run
<1>5. g \in Run /\ g.kind = "ghost" /\ ~g.heard
  BY <1>0, <1>3 DEF Run
<1>6. PICK S : S = {w} \cup IF u.answer = "none" THEN {g} ELSE {}
  OBVIOUS
<1>7. ASSUME HeardBulk(u) PROVE Honest(w)'
  <2>1. Honest(u)
    BY <1>0, <1>7 DEF BulkRuns
  <2> QED
    BY <1>1, <1>4, <2>1 DEF Honest, Past
<1>8. Becomes(u, S)
  <2>1. runs' = (runs \ {u}) \cup S
    BY <1>1, <1>2, <1>3, <1>6
  <2>2. \A v \in S : v = w \/ v = g
    BY <1>6
  <2> QED
    BY <1>1, <1>4, <1>5, <1>7, <2>1, <2>2 DEF Becomes, HeardBulk, HeardRow
<1>9. BulkReportIsTrue'
  BY <1>0, <1>1 DEF BulkReportIsTrue
<1>10. Forward
  BY <1>0, <1>1, StaysForward
<1> QED
  BY <1>0, <1>1, <1>8, <1>9, <1>10, SameDesk

LEMMA HearDecisionKeeps == ASSUME QInv, NEW u \in runs, HearDecision(u) PROVE QInv'
<1>0. /\ DecisionsTyped /\ BulkRuns /\ RowRuns /\ ShutPage /\ Asks /\ Mine /\ BulkReportIsTrue
      /\ desk \in Desk /\ u \in Run /\ ours \subseteq Row
  BY QParts DEF DecisionsTyped
<1> DEFINE m == MutationOf(u.decision)
           x == IF u.answer = "done" THEN 0 ELSE u.row
           y == IF u.answer = "done" THEN "done" ELSE "refused"
           z == IF u.answer = "fault" THEN desk.faults \cup {u.row} ELSE desk.faults
           failed == [desk.failed EXCEPT ![m] = x]
           next == [u EXCEPT !.row = 0, !.answer = "none", !.todo = Remaining(u)]
<1>1. /\ u.row # 0 /\ u.kind # "ghost" /\ u.answer # "none" /\ UNCHANGED <<status, decisions, moves, taken, ours>>
      /\ runs' = (runs \ {u}) \cup IF u.kind = "bulk" THEN {next} ELSE {}
      /\ desk' = IF ~u.heard THEN desk
                 ELSE IF u.kind = "bulk"
                   THEN [desk EXCEPT !.report[u.row] = y, !.faults = z, !.failed = failed]
                 ELSE [desk EXCEPT !.failed = failed, !.waiting = FALSE,
                                   !.pending = IF u.answer = "done" THEN NoRow ELSE @]
  BY DEF HearDecision
<1>2. m \in Mutation /\ x \in 0..Rows /\ u.row \in Row
  BY <1>0, <1>1, MutationOfIs, RowsAre, DecisionRows DEF Run, Row
<1>10. /\ y \in {"done", "refused"} /\ (y = "done" => u.answer = "done")
       /\ z \subseteq Row /\ desk.faults \subseteq z /\ (y = "refused" /\ u.row \notin z => u.answer = "refused")
  BY <1>0, <1>1, <1>2 DEF Desk, Run
<1>3. failed \in [Mutation -> 0..Rows] /\ failed[m] = x /\ \A k \in Mutation : k # m => failed[k] = desk.failed[k]
  BY <1>0, <1>2 DEF Desk
<1> HIDE DEF failed, x, y, z, m
<1>4. Forward
  BY <1>0, <1>1, StaysForward
<1>5. PICK w : w = next
  OBVIOUS
<1>6. /\ w \in Run /\ w.kind = u.kind /\ w.heard = u.heard /\ w.row = 0 /\ w.todo = u.todo
      /\ w.decision = u.decision /\ w.answer = "none"
  BY <1>0, <1>5, RowsAre DEF Run, Remaining
<1>7. CASE ~u.heard
  <2>1. \E S : Becomes(u, S)
    <3>1. Becomes(u, IF u.kind = "bulk" THEN {w} ELSE {})
      BY <1>1, <1>5, <1>6, <1>7 DEF Becomes, HeardBulk, HeardRow
    <3> QED
      BY <3>1
  <2>2. desk' = desk /\ BulkReportIsTrue'
    BY <1>0, <1>1, <1>7 DEF BulkReportIsTrue
  <2> QED
    BY <1>0, <1>1, <1>4, <2>1, <2>2, SameDesk
<1>8. CASE HeardBulk(u)
  <2>1. desk' = [desk EXCEPT !.report[u.row] = y, !.faults = z, !.failed = failed] /\ runs' = (runs \ {u}) \cup {w}
    BY <1>1, <1>5, <1>8 DEF HeardBulk
  <2>2. /\ desk' \in Desk /\ desk'.at = desk.at /\ desk'.list = desk.list /\ desk'.pending = desk.pending
        /\ desk'.waiting = desk.waiting /\ desk'.bulk = desk.bulk /\ desk'.running = desk.running
        /\ desk'.targets = desk.targets /\ desk'.chosen = desk.chosen /\ desk'.bulked = desk.bulked
        /\ desk'.report[u.row] = y /\ \A r \in Row : r # u.row => desk'.report[r] = desk.report[r]
        /\ desk'.faults = z /\ desk'.failed = failed
    BY <1>0, <1>2, <1>3, <1>10, <2>1 DEF Desk, Run
  <2>3. Honest(u)
    BY <1>0, <1>8 DEF BulkRuns
  <2>4. \A v \in runs : v # u => ~HeardBulk(v)
    BY <1>0, <1>8 DEF BulkRuns
  <2>5. Honest(w)'
    <3>1. desk.targets \subseteq Row
      BY <1>0 DEF Desk
    <3>2. \A r \in Row : r \in w.todo => r # u.row /\ r \in u.todo
      BY <1>6, <2>3 DEF Honest
    <3>3. \A r \in Row : r \in w.todo \/ r = w.row => Past(r)' /\ desk'.report[r] = "none"
      BY <1>1, <1>6, <2>2, <2>3, <3>2, RowsAre DEF Honest, Past
    <3>4. \A r \in desk'.targets : desk'.report[r] # "none" \/ r \in w.todo \/ r = w.row
      BY <1>1, <1>6, <1>10, <2>2, <2>3, <3>1 DEF Honest
    <3>5. w.row \notin w.todo
      BY <1>0, <1>6, RowsAre DEF Run
    <3> QED
      BY <1>1, <1>6, <2>2, <2>3, <3>3, <3>4, <3>5 DEF Honest
  <2>6. Becomes(u, {w})
    BY <1>6, <1>8, <2>1, <2>5 DEF Becomes, HeardBulk, HeardRow
  <2>7. ShutPage' /\ Asks' /\ Mine'
    <3>1. desk.bulked /\ m = "finalDecision"
      BY <2>3 DEF Honest, MutationOf, m
    <3> QED
      BY <1>0, <1>3, <2>2, <2>3, <3>1 DEF ShutPage, Asks, Mine, Honest
  <2>8. BulkReportIsTrue'
    <3>1. ASSUME NEW r \in Row, r # u.row
          PROVE  /\ desk'.report[r] = "done" => desk'.chosen \in taken'[r]
                 /\ desk'.report[r] = "refused" /\ r \notin desk'.faults => r \notin ours'
      BY <1>0, <1>1, <1>10, <2>2, <3>1 DEF BulkReportIsTrue
    <3>2. desk'.report[u.row] = "done" => desk'.chosen \in taken'[u.row]
      BY <1>1, <1>10, <2>2, <2>3 DEF Honest
    <3>3. desk'.report[u.row] = "refused" /\ u.row \notin desk'.faults => u.row \notin ours'
      BY <1>1, <1>10, <2>2, <2>3 DEF Honest
    <3>4. desk'.running
      BY <2>2, <2>3 DEF Honest
    <3> QED
      BY <3>1, <3>2, <3>3, <3>4 DEF BulkReportIsTrue
  <2> QED
    BY <1>0, <1>1, <1>4, <2>2, <2>4, <2>6, <2>7, <2>8, RunStep
<1>9. CASE HeardRow(u)
  <2>1. /\ desk' = [desk EXCEPT !.failed = failed, !.waiting = FALSE,
                                !.pending = IF u.answer = "done" THEN NoRow ELSE @]
        /\ runs' = runs \ {u}
    BY <1>1, <1>9 DEF HeardRow
  <2>2. NoRow \in [row : 0..Rows, decision : Decision \cup {"none"}] /\ NoRow.row = 0
    BY RowsAre DEF NoRow
  <2>3. /\ desk' \in Desk /\ desk'.at = desk.at /\ desk'.list = desk.list /\ ~desk'.waiting
        /\ desk'.pending = (IF u.answer = "done" THEN NoRow ELSE desk.pending)
        /\ desk'.bulk = desk.bulk /\ desk'.failed = failed /\ SameBulk
    BY <1>0, <1>3, <2>1, <2>2 DEF Desk, SameBulk
  <2>4. /\ desk.waiting /\ desk.pending.row = u.row /\ desk.pending.decision = u.decision
        /\ \A v \in runs' : ~HeardRow(v)
    BY <1>0, <1>9, <2>1 DEF RowRuns
  <2>5. \A v \in runs : HeardBulk(v) => Honest(v)'
    BY <1>0, <1>1, <2>3 DEF BulkRuns, Honest, Past, SameBulk
  <2>6. Becomes(u, {})
    BY <2>1 DEF Becomes
  <2>7. ShutPage' /\ Asks' /\ BulkReportIsTrue'
    BY <1>0, <1>1, <2>2, <2>3, <2>4 DEF ShutPage, Asks, BulkReportIsTrue, SameBulk
  <2>8. Mine'
    <3>1. CASE u.answer = "done"
      <4>1. x = 0
        BY <3>1 DEF x
      <4> QED
        BY <1>0, <1>2, <1>3, <2>3, <2>4, <4>1 DEF Mine, SameBulk, m
    <3>2. CASE u.answer # "done"
      <4>1. x = u.row
        BY <3>2 DEF x
      <4> QED
        BY <1>0, <1>2, <1>3, <2>3, <2>4, <3>2, <4>1 DEF Mine, SameBulk, m
    <3> QED
      BY <3>1, <3>2
  <2> QED
    BY <1>0, <1>1, <1>4, <2>3, <2>4, <2>5, <2>6, <2>7, <2>8, RunStep
<1> QED
  BY <1>0, <1>1, <1>7, <1>8, <1>9 DEF HeardBulk, HeardRow, Run

LEMMA DecideApplicationKeeps == ASSUME QInv, NEW u \in runs, DecideApplication(u) PROVE QInv'
<1>0. /\ DecisionsTyped /\ BulkRuns /\ RowRuns /\ NobodyHears /\ BulkReportIsTrue
      /\ u \in Run /\ ours \subseteq Row /\ taken \in [Row -> SUBSET Decision]
  BY QParts DEF DecisionsTyped
<1> DEFINE s == status[u.row]
           applies == u.decision \in RowTransitions(s)
           answers == IF applies THEN {"done"} \cup IF u.decision = "ACCEPT" THEN {"refused"} ELSE {}
                      ELSE IF s = Target(u.decision) THEN {"done"} ELSE {"refused"}
<1>1. /\ u.row # 0 /\ u.answer = "none" /\ UNCHANGED <<desk, decisions, moves>>
      /\ \E a \in answers :
          /\ runs' = (runs \ {u}) \cup IF u.kind # "ghost" THEN {[u EXCEPT !.answer = a]} ELSE {}
          /\ IF applies /\ a = "done"
             THEN /\ Recorded(u.row, u.decision)
                  /\ ours' = IF u.kind = "bulk" /\ u.heard THEN ours \cup {u.row} ELSE ours
             ELSE UNCHANGED <<status, taken, ours>>
  BY DEF DecideApplication
<1>2. PICK a \in answers :
          /\ runs' = (runs \ {u}) \cup IF u.kind # "ghost" THEN {[u EXCEPT !.answer = a]} ELSE {}
          /\ IF applies /\ a = "done"
             THEN /\ Recorded(u.row, u.decision)
                  /\ ours' = IF u.kind = "bulk" /\ u.heard THEN ours \cup {u.row} ELSE ours
             ELSE UNCHANGED <<status, taken, ours>>
  BY <1>1
<1>3. u.row \in Row
  BY <1>0, <1>1, DecisionRows DEF Run, Row
<1>4. Forward /\ ours' \subseteq Row /\ (applies /\ a = "done" => u.decision \in taken'[u.row])
  <2>1. CASE applies /\ a = "done"
    BY <1>0, <1>2, <1>3, <2>1, RecordedForward
  <2>2. CASE ~(applies /\ a = "done")
    BY <1>0, <1>2, <2>2, StaysForward
  <2> QED
    BY <2>1, <2>2
<1>5. PICK w : w = [u EXCEPT !.answer = a]
  OBVIOUS
<1>6. a \in {"done", "refused"}
  OBVIOUS
<1>7. /\ w \in Run /\ w.kind = u.kind /\ w.heard = u.heard /\ w.row = u.row /\ w.todo = u.todo
      /\ w.decision = u.decision /\ w.answer = a
  BY <1>0, <1>5, <1>6 DEF Run
<1>8. \/ ours' = ours
      \/ HeardBulk(u) /\ ours' = ours \cup {u.row} /\ a = "done"
  BY <1>2 DEF HeardBulk
<1>9. ASSUME HeardBulk(u) PROVE Honest(w)'
  <2>1. Honest(u)
    BY <1>0, <1>9 DEF BulkRuns
  <2>2. a = "done" => u.decision \in taken'[u.row]
    <3> SUFFICES ASSUME a = "done", ~applies PROVE u.decision \in taken'[u.row]
      BY <1>4
    <3>1. s = Target(u.decision)
      OBVIOUS
    <3>2. Past(u.row) /\ u.decision \in {"SHORTLIST", "REJECT"}
      BY <1>3, <2>1 DEF Honest
    <3>3. u.decision \in taken[u.row]
      BY <3>1, <3>2, TargetIs DEF Past
    <3> QED
      BY <1>3, <1>4, <3>3 DEF Forward
  <2>3. \A r \in w.todo : r \notin ours'
    BY <1>7, <1>8, <2>1 DEF Honest
  <2>4. w.answer = "refused" => w.row \notin ours'
    BY <1>1, <1>7, <1>8, <2>1 DEF Honest
  <2>5. \A r \in Row : r \in w.todo \/ r = w.row => Past(r)' /\ desk'.report[r] = "none"
    BY <1>1, <1>4, <1>7, <2>1 DEF Honest, Forward
  <2> QED
    BY <1>1, <1>6, <1>7, <2>1, <2>2, <2>3, <2>4, <2>5 DEF Honest
<1>10. \E S : Becomes(u, S)
  <2>1. Becomes(u, IF u.kind # "ghost" THEN {w} ELSE {})
    BY <1>2, <1>5, <1>7, <1>9 DEF Becomes, HeardBulk, HeardRow
  <2> QED
    BY <2>1
<1>11. BulkReportIsTrue'
  <2>1. ASSUME NEW r \in Row, desk.report[r] = "refused", r \notin desk.faults PROVE r \notin ours'
    <3>1. r \notin ours
      BY <1>0, <2>1 DEF BulkReportIsTrue
    <3>2. HeardBulk(u) => r # u.row
      BY <1>0, <2>1 DEF BulkRuns, Honest
    <3> QED
      BY <1>8, <3>1, <3>2
  <2> QED
    BY <1>0, <1>1, <1>4, <2>1 DEF BulkReportIsTrue, Forward
<1> QED
  BY <1>1, <1>4, <1>8, <1>10, <1>11, SameDesk

LEMMA QueueServiceKeeps == ASSUME QInv, QueueService PROVE QInv'
<1>0. DecisionsTyped
  BY QParts
<1>1. ASSUME NEW r \in Row, NEW d \in Decision, SomeoneDecides(r, d) PROVE QInv'
  <2>1. d \in RowTransitions(status[r]) /\ Recorded(r, d) /\ UNCHANGED <<desk, runs, decisions, ours>>
    BY <1>1 DEF SomeoneDecides
  <2>2. moves' \in 0..MaxMoves
    BY <1>0, <1>1, DecisionMoves DEF SomeoneDecides, DecisionsTyped
  <2> QED
    BY <1>0, <2>1, <2>2, RecordedForward, WorldKeeps
<1>2. ASSUME NEW r \in Row, MovesAway(r) PROVE QInv'
  <2>1. /\ UNCHANGED <<desk, runs, decisions, ours, taken>>
        /\ \/ status[r] \in {"DOCUMENT_REVIEW_AMBER", "CLEARED"} /\ status' = [status EXCEPT ![r] = "ADJUDICATION_REVIEW"]
           \/ status[r] \in {"MEDICAL_REVIEW", "FINAL_SHORTLIST"} /\ status' = [status EXCEPT ![r] = "WITHDRAWN"]
    BY <1>2 DEF MovesAway
  <2>2. moves' \in 0..MaxMoves
    BY <1>0, <1>2, DecisionMoves DEF MovesAway, DecisionsTyped
  <2>3. Forward
    <3>1. status' \in [Row -> Status] /\ taken' \in [Row -> SUBSET Decision]
      BY <1>0, <2>1 DEF DecisionsTyped, Status
    <3>2. ASSUME NEW q \in Row, Past(q) PROVE Past(q)'
      BY <1>0, <2>1, <3>2 DEF DecisionsTyped, Past
    <3> QED
      BY <2>1, <3>1, <3>2 DEF Forward
  <2> QED
    BY <2>1, <2>2, <2>3, WorldKeeps
<1> QED
  BY <1>1, <1>2, NextRowKeeps, EndOfRunKeeps, DecideApplicationKeeps, LoseDecisionKeeps, HearDecisionKeeps
  DEF QueueService

LEMMA QueueStep == ASSUME QInv, [QueueOfficer \/ QueueService]_decisionVars PROVE QInv'
<1>1. CASE UNCHANGED decisionVars
  <2>1. DecisionsTyped /\ Forward
    BY <1>1, QParts, StaysForward DEF decisionVars
  <2> QED
    BY <1>1, <2>1, WorldKeeps DEF decisionVars, DecisionsTyped
<1> QED
  BY <1>1, QueueOfficerKeeps, QueueServiceKeeps

LEMMA QueueRefusals == QInv => RefusalIsOfThisRow
<1> SUFFICES ASSUME QInv
             PROVE  LET m == MutationOf(desk.pending.decision) IN
                    \/ desk.failed[m] \in {0, desk.pending.row}
                    \/ desk.bulked /\ m = "finalDecision"
  BY DEF RefusalIsOfThisRow
<1> QED
  BY QParts, MutationOfIs DEF Mine

(* The report of a bulk run is true of every row that the service has      *)
(* answered for, whatever others decide or withdraw meanwhile, and leaves  *)
(* out no row it was asked to decide (QueuesPage.tsx, runBulk). Of a row   *)
(* whose answer was lost it prints a refusal, which may be wrong.          *)
THEOREM ReportsAreTrue == DecisionsSpec => []BulkReportIsTrue
<1>1. QInv => BulkReportIsTrue
  BY DEF QInv
<1>2. DecisionsInit => QInv
  BY QInvInit
<1>3. QInv /\ [QueueOfficer \/ QueueService]_decisionVars => QInv'
  BY QueueStep
<1> QED
  BY <1>1, <1>2, <1>3, PTL DEF DecisionsSpec

(* A dialog over the requests shows only refusals of its own request, and  *)
(* one of the queues only refusals of its own row, but for the dialogs     *)
(* that shortlist or reject after a bulk, where the last refusal of the    *)
(* bulk may be another row's (QueuesPage.tsx, DpoQueuePage.tsx).           *)
THEOREM DialogsAreTheirs == ConsoleSpec => []RefusalIsOfThisDialog
<1>1. ConsoleInit => QInv /\ EInv
  BY QInvInit, EInvInit DEF ConsoleInit
<1>2. ASSUME QInv, EInv, [ConsoleNext]_consoleVars PROVE QInv' /\ EInv'
  <2>1. CASE InTheStudio
    <3>1. UNCHANGED decisionVars /\ UNCHANGED erasureVars
      BY <2>1 DEF InTheStudio
    <3> QED
      BY <1>2, <3>1, QueueStep, ErasureStep
  <2>2. CASE AtTheQueues
    <3>1. (QueueOfficer \/ QueueService) /\ UNCHANGED erasureVars
      BY <2>2 DEF AtTheQueues
    <3> QED
      BY <1>2, <3>1, QueueStep, ErasureStep
  <2>3. CASE AtTheRegister
    <3>1. UNCHANGED decisionVars /\ UNCHANGED erasureVars
      BY <2>3 DEF AtTheRegister
    <3> QED
      BY <1>2, <3>1, QueueStep, ErasureStep
  <2>4. CASE AtTheRequests
    <3>1. (DpoOfficer \/ DpoService) /\ UNCHANGED decisionVars
      BY <2>4 DEF AtTheRequests
    <3> QED
      BY <1>2, <3>1, QueueStep, ErasureStep
  <2>5. CASE UNCHANGED consoleVars
    <3>1. UNCHANGED decisionVars /\ UNCHANGED erasureVars
      BY <2>5 DEF consoleVars
    <3> QED
      BY <1>2, <3>1, QueueStep, ErasureStep
  <2> QED
    BY <1>2, <2>1, <2>2, <2>3, <2>4, <2>5 DEF ConsoleNext
<1>3. QInv /\ EInv => RefusalIsOfThisDialog
  BY QueueRefusals DEF EInv, OfItsDialog, RefusalIsOfThisRequest, RefusalIsOfThisDialog
<1> QED
  BY <1>1, <1>2, <1>3, PTL DEF ConsoleSpec
-----------------------------------------------------------------------------
(* The Campaign Studio                                                     *)

Form == [text : Text, key : Key, asked : Asked, observes : Key,
         at : {"idle", "pending", "done", "refused", "fault"}]
Write == [id : Key, step : Step, asked : Asked, key : Key, since : Key,
          answer : {"none", "done", "refused", "fault"}, heard : BOOLEAN]
Replay == [asked : Asked, answer : {"none", "done", "refused"}]
StudioPage == [page : {"away", "new", "studio"}, detail : Campaign, dialog : Command \cup {"none"},
               may : Posts]

(* The types, without the one history that is a BOOLEAN.                   *)
StudioTyped ==
  /\ campaign \in Campaign /\ studio \in StudioPage
  /\ step \in [Step -> Form] /\ writes \subseteq Write /\ presses \in Key
  /\ replays \in [1..MaxPresses -> Replay]
  /\ intent \in [Step -> [since : Key, asked : Asked, made : Nat]]
  /\ shown \in [1..MaxPresses -> Nat]

(* Every key and every request was made by a press.                        *)
Dated ==
  /\ \A w \in writes : w.id \in 1..presses /\ w.key \in 1..presses /\ w.since \in 1..presses
  /\ \A s \in Step : /\ step[s].key <= presses /\ step[s].observes <= presses
                     /\ intent[s].since <= presses
  /\ \A k \in 1..MaxPresses : k > presses => shown[k] = 0 /\ replays[k].answer = "none"

(* A key whose answer was shown is no form's any more, and no answer still *)
(* awaited under it is the one its form observes.                          *)
Spent(k) ==
  /\ \A s \in Step : step[s].key # k
  /\ \A w \in writes : w.heard /\ w.key = k => step[w.step].observes # w.id
ShownAtMostOnce == \A k \in 1..MaxPresses : shown[k] = 0 \/ (shown[k] = 1 /\ Spent(k))

(* An awaited request has an id of its own, and a key of one form.         *)
OneOfEach ==
  /\ \A w, v \in writes : w.heard /\ v.heard /\ w.id = v.id => w = v
  /\ \A w, v \in writes : w.heard /\ v.heard /\ w.key = v.key => w.step = v.step
  /\ \A w \in writes, s \in Step : w.heard /\ step[s].key = w.key => s = w.step
  /\ \A s, t \in Step : step[s].key # 0 /\ step[s].key = step[t].key => s = t

(* What is awaited was asked on the page that is open.                     *)
PageOf(w) == IF w.step = "create" THEN "new" ELSE "studio"
OfThePage ==
  /\ studio.page # "studio" => ~studioHurried /\ studio.dialog = "none"
  /\ \A w \in writes : w.heard => studio.page = PageOf(w)

(* While nobody edits a session that is being saved: one request of a form *)
(* is awaited at a time, ...                                               *)
InDialog(s) == s \in {"publish", "lifecycle"}
AwaitedByForm(w) ==
  /\ step[w.step].at = "pending" /\ step[w.step].observes = w.id
  /\ intent[w.step].since = w.since
  /\ InDialog(w.step) => studio.dialog # "none" /\ StepOf(studio.dialog) = w.step
  /\ w.answer = "refused" => replays[w.key].answer = "refused"

(* ... a form's key is its intent's, every request of the intent carries   *)
(* both, and the edge knows under it what has come of the intent.          *)
OfIntent(w, s) ==
  w.key = step[s].key /\ w.since = w.key /\ w.step = s /\ w.asked = intent[s].asked
Claims(w, s) == w.key = step[s].key \/ (w.step = s /\ w.since = step[s].key)
Known(r, i) == /\ i.made = 1 => r.answer = "done"
               /\ r.answer # "none" => r.asked = i.asked
IntentKept(s) ==
  /\ step[s].key = intent[s].since /\ intent[s].made <= 1
  /\ step[s].at = "refused" => step[s].key = 0 /\ intent[s].made = 0
  /\ step[s].key # 0 =>
       /\ step[s].asked = intent[s].asked
       /\ Known(replays[step[s].key], intent[s])
       /\ \A w \in writes : Claims(w, s) => OfIntent(w, s)

Unhurried == ~studioHurried =>
  /\ \A w \in writes : w.heard => AwaitedByForm(w)
  /\ \A s \in Step : IntentKept(s)

SInv == StudioTypeOK /\ Dated /\ ShownAtMostOnce /\ OneOfEach /\ OfThePage /\ Unhurried

LEMMA StudioTypedIs == StudioTypeOK <=> StudioTyped /\ studioHurried \in BOOLEAN
  BY DEF StudioTypeOK, StudioTyped, Form, Write, Replay, StudioPage

LEMMA KeysAre ==
  /\ 0 \in Key /\ Key \subseteq Nat /\ 1..MaxPresses \subseteq Key
  /\ \A k \in Key : k < MaxPresses => k + 1 \in 1..MaxPresses
  BY StudioBound DEF Key

LEMMA FormsAre ==
  /\ NoText \in Text /\ Nothing \in Asked
  /\ NoForm \in Form /\ NoIntent \in [since : Key, asked : Asked, made : Nat]
<1>1. NoText \in Text
  BY StudioTexts DEF NoText
<1>2. Nothing \in Asked
  BY <1>1 DEF Nothing, Asked
<1> QED
  BY <1>1, <1>2, KeysAre DEF NoForm, NoIntent, Form

(* A command that is accepted leads to a campaign.                         *)
LEMMA NextStateIs ==
  ASSUME NEW s, NEW c \in AvailableCommands(s)
  PROVE  NextCampaignState(s, c) \in
           {"DRAFT", "REGISTRATION_OPEN", "REGISTRATION_CLOSED", "COMPLETED", "CANCELLED"}
<1> DEFINE P(t) == t[1] = c /\ t[2] = s
<1>1. \E t \in Transitions : P(t)
  BY DEF AvailableCommands
<1>2. (CHOOSE t \in Transitions : P(t)) \in Transitions
  BY <1>1
<1>3. \A t \in Transitions : t[3] \in
        {"DRAFT", "REGISTRATION_OPEN", "REGISTRATION_CLOSED", "COMPLETED", "CANCELLED"}
  BY DEF Transitions
<1> QED
  BY <1>2, <1>3 DEF NextCampaignState

LEMMA CommandedIs ==
  ASSUME NEW c \in Campaign, NEW a \in Asked, Accepts(c, a)
  PROVE  Commanded(c, a) \in Campaign
<1>1. CASE a.command \in {"create", "policy"}
  BY <1>1 DEF Commanded, Campaign
<1>2. CASE a.command = "session"
  <2>1. (a.text \in Active) \in BOOLEAN
    OBVIOUS
  <2>2. PICK b \in BOOLEAN : b = (a.text \in Active)
    BY <2>1
  <2>3. Commanded(c, a) = [c EXCEPT !.covered = b]
    BY <1>2, <2>2 DEF Commanded
  <2> QED
    BY <2>3 DEF Campaign
<1>3. CASE a.command \notin Typed
  <2>1. a.command \in AvailableCommands(c.status)
    <3>1. CASE a.command = "publish"
      <4>1. c.status = "DRAFT"
        BY <3>1 DEF Accepts, CanPublish
      <4>2. <<"publish", "DRAFT", "REGISTRATION_OPEN">> \in Transitions
        BY DEF Transitions
      <4> QED
        BY <3>1, <4>1, <4>2 DEF AvailableCommands
    <3>2. CASE a.command # "publish"
      BY <1>3, <3>2 DEF Accepts, Typed
    <3> QED
      BY <3>1, <3>2
  <2>2. NextCampaignState(c.status, a.command) \in
           {"DRAFT", "REGISTRATION_OPEN", "REGISTRATION_CLOSED", "COMPLETED", "CANCELLED"}
    BY <2>1, NextStateIs
  <2>3. Commanded(c, a) = [c EXCEPT !.status = NextCampaignState(c.status, a.command)]
    BY <1>3 DEF Commanded, Typed
  <2> QED
    BY <2>2, <2>3 DEF Campaign
<1> QED
  BY <1>1, <1>2, <1>3 DEF Typed

LEMMA SParts == SInv <=>
  /\ StudioTyped /\ studioHurried \in BOOLEAN
  /\ Dated /\ ShownAtMostOnce /\ OneOfEach /\ OfThePage /\ Unhurried
  BY StudioTypedIs DEF SInv

LEMMA SPartsNext ==
  ASSUME StudioTyped', studioHurried' \in BOOLEAN,
         Dated', ShownAtMostOnce', OneOfEach', OfThePage', Unhurried'
  PROVE  SInv'
<1>1. StudioTypeOK'
  BY DEF StudioTypeOK, StudioTyped, Form, Write, Replay, StudioPage
<1> QED
  BY <1>1 DEF SInv

LEMMA SInvInit == StudioInit => SInv
<1> SUFFICES ASSUME StudioInit PROVE SInv
  OBVIOUS
<1>0. presses = 0 /\ writes = {} /\ studioHurried = FALSE
  BY DEF StudioInit
<1>1. \A s \in Step : step[s] = NoForm /\ intent[s] = NoIntent
  BY DEF StudioInit
<1>2. \A k \in 1..MaxPresses : shown[k] = 0 /\ replays[k] = [asked |-> Nothing, answer |-> "none"]
  BY DEF StudioInit
<1>3. StudioTyped
  <2>1. campaign \in Campaign
    BY DEF StudioInit, Campaign
  <2>2. studio \in StudioPage
    BY <2>1 DEF StudioInit, StudioPage
  <2>3. step \in [Step -> Form] /\ intent \in [Step -> [since : Key, asked : Asked, made : Nat]]
    BY FormsAre DEF StudioInit
  <2>4. replays \in [1..MaxPresses -> Replay] /\ shown \in [1..MaxPresses -> Nat]
    BY FormsAre DEF StudioInit, Replay
  <2> QED
    BY <1>0, <2>1, <2>2, <2>3, <2>4, KeysAre DEF StudioTyped
<1>4. Dated
  BY <1>0, <1>1, <1>2 DEF Dated, NoForm, NoIntent
<1>5. ShownAtMostOnce /\ OneOfEach
  BY <1>0, <1>1, <1>2 DEF ShownAtMostOnce, OneOfEach, NoForm
<1>6. studio.dialog = "none"
  BY DEF StudioInit
<1>7. OfThePage /\ Unhurried
  BY <1>0, <1>1, <1>2, <1>6 DEF OfThePage, Unhurried, IntentKept, NoForm, NoIntent
<1> QED
  BY <1>0, <1>3, <1>4, <1>5, <1>7, SParts

(* What most steps do: requests are only answered or given up, forms only  *)
(* forget, and no key is made.                                             *)
Same(v, u) == v.id = u.id /\ v.step = u.step /\ v.asked = u.asked /\ v.key = u.key /\ v.since = u.since
Fewer == \A v \in writes' : \E u \in writes : Same(v, u) /\ (v.heard => u.heard)
Forgets == \A s \in Step : /\ step'[s].key \in {step[s].key, 0}
                            /\ step'[s].observes \in {step[s].observes, 0}
                            /\ intent'[s].since \in {intent[s].since, 0}

LEMMA FewerDated ==
  ASSUME StudioTyped, Dated, Fewer, Forgets, presses' = presses,
         \A k \in 1..MaxPresses : k > presses =>
           shown'[k] = shown[k] /\ replays'[k].answer = replays[k].answer
  PROVE  Dated'
<1>1. \A w \in writes' : w.id \in 1..presses' /\ w.key \in 1..presses' /\ w.since \in 1..presses'
  BY DEF Dated, Fewer, Same
<1>2. \A s \in Step : /\ step'[s].key <= presses' /\ step'[s].observes <= presses'
                     /\ intent'[s].since <= presses'
  BY KeysAre DEF Dated, Forgets, StudioTyped
<1> QED
  BY <1>1, <1>2 DEF Dated

LEMMA FewerSpent ==
  ASSUME StudioTyped, Dated, Fewer, Forgets, NEW k \in 1..MaxPresses, Spent(k)
  PROVE  Spent(k)'
<1>1. \A s \in Step : step'[s].key # k
  BY DEF Forgets, Spent
<1>2. ASSUME NEW w \in writes', w.heard, w.key = k PROVE step'[w.step].observes # w.id
  <2>1. PICK u \in writes : Same(w, u) /\ u.heard
    BY <1>2 DEF Fewer
  <2>2. step[u.step].observes # u.id /\ u.id # 0
    BY <1>2, <2>1 DEF Spent, Same, Dated
  <2>3. w.id = u.id /\ w.step = u.step
    BY <2>1 DEF Same
  <2>4. u.step \in Step
    BY DEF StudioTyped, Write
  <2> QED
    BY <2>2, <2>3, <2>4 DEF Forgets
<1> QED
  BY <1>1, <1>2 DEF Spent

LEMMA FewerOfEach ==
  ASSUME OneOfEach, Dated, Fewer, Forgets,
         \A w, v \in writes' : w.heard /\ v.heard /\ w.id = v.id => w = v
  PROVE  OneOfEach'
<1>1. ASSUME NEW w \in writes', NEW v \in writes', w.heard, v.heard, w.key = v.key
      PROVE  w.step = v.step
  <2>1. PICK u \in writes : Same(w, u) /\ u.heard
    BY <1>1 DEF Fewer
  <2>2. PICK t \in writes : Same(v, t) /\ t.heard
    BY <1>1 DEF Fewer
  <2> QED
    BY <1>1, <2>1, <2>2 DEF OneOfEach, Same
<1>2. ASSUME NEW w \in writes', NEW s \in Step, w.heard, step'[s].key = w.key
      PROVE  s = w.step
  <2>1. PICK u \in writes : Same(w, u) /\ u.heard
    BY <1>2 DEF Fewer
  <2>2. w.key # 0
    BY <2>1 DEF Same, Dated
  <2>3. step[s].key = u.key
    BY <1>2, <2>1, <2>2 DEF Forgets, Same
  <2> QED
    BY <2>1, <2>3 DEF OneOfEach, Same
<1>3. ASSUME NEW s \in Step, NEW t \in Step, step'[s].key # 0, step'[s].key = step'[t].key
      PROVE  s = t
  BY <1>3 DEF Forgets, OneOfEach
<1> QED
  BY <1>1, <1>2, <1>3 DEF OneOfEach

(* The same requests: each is heard at most once.                          *)
LEMMA SameWrites == ASSUME UNCHANGED writes PROVE Fewer
  BY DEF Fewer, Same

(* A form that forgets its intent, or one nothing has happened to.         *)
LEMMA IntentCleared ==
  ASSUME NEW s \in Step, step'[s].key = 0, intent'[s].since = 0, intent'[s].made <= 1,
         step'[s].at = "refused" => intent'[s].made = 0
  PROVE  IntentKept(s)'
  BY DEF IntentKept

LEMMA IntentStays ==
  ASSUME NEW s \in Step, IntentKept(s), Fewer, step'[s].key = step[s].key,
         step'[s].asked = step[s].asked, step'[s].at = "refused" => step[s].at = "refused",
         intent'[s] = intent[s],
         step[s].key # 0 => replays'[step[s].key] = replays[step[s].key]
  PROVE  IntentKept(s)'
<1>1. ASSUME NEW w \in writes', Claims(w, s)', step'[s].key # 0 PROVE OfIntent(w, s)'
  <2>1. PICK u \in writes : Same(w, u)
    BY DEF Fewer
  <2>2. OfIntent(u, s)
    BY <1>1, <2>1 DEF Claims, Same, IntentKept
  <2> QED
    BY <2>1, <2>2 DEF OfIntent, Same
<1>2. step'[s].key # 0 => Known(replays'[step'[s].key], intent'[s])
  BY DEF IntentKept
<1> QED
  BY <1>1, <1>2 DEF IntentKept, Known

(* A step of the page, or of another officer, that asks and hears nothing. *)
LEMMA QuietKeeps ==
  ASSUME SInv, UNCHANGED <<writes, presses, replays, intent, shown>>,
         StudioTyped', studioHurried' \in BOOLEAN, OfThePage',
         \A s \in Step : /\ step'[s].key = step[s].key /\ step'[s].asked = step[s].asked
                         /\ step'[s].observes \in {step[s].observes, 0}
                         /\ step'[s].at = "refused" => step[s].at = "refused",
         ~studioHurried' => ~studioHurried /\ \A w \in writes : w.heard =>
           /\ step'[w.step].at = step[w.step].at /\ step'[w.step].observes = step[w.step].observes
           /\ InDialog(w.step) => studio'.dialog = studio.dialog
  PROVE  SInv'
<1>1. /\ StudioTyped /\ Dated /\ ShownAtMostOnce /\ OneOfEach /\ Unhurried
  BY SParts
<1>2. Fewer /\ Forgets
  BY SameWrites DEF Forgets
<1>3. Dated'
  BY <1>1, <1>2, FewerDated
<1>4. ShownAtMostOnce'
  BY <1>1, <1>2, FewerSpent DEF ShownAtMostOnce
<1>5. OneOfEach'
  <2>1. \A w, v \in writes' : w.heard /\ v.heard /\ w.id = v.id => w = v
    BY <1>1 DEF OneOfEach
  <2> QED
    BY <1>1, <1>2, <2>1, FewerOfEach
<1>6. Unhurried'
  <2> SUFFICES ASSUME ~studioHurried'
               PROVE  /\ \A w \in writes' : w.heard => AwaitedByForm(w)'
                      /\ \A s \in Step : IntentKept(s)'
    BY DEF Unhurried
  <2>1. ASSUME NEW w \in writes', w.heard PROVE AwaitedByForm(w)'
    <3>1. AwaitedByForm(w)
      BY <1>1, <2>1 DEF Unhurried
    <3> QED
      BY <2>1, <3>1 DEF AwaitedByForm
  <2>2. ASSUME NEW s \in Step PROVE IntentKept(s)'
    <3>1. IntentKept(s)
      BY <1>1 DEF Unhurried
    <3> QED
      BY <1>2, <3>1, IntentStays
  <2> QED
    BY <2>1, <2>2
<1> QED
  BY <1>3, <1>4, <1>5, <1>6, SPartsNext

(* A page is left: its forms go, and nothing asked there is heard.         *)
LEMMA LeftKeeps ==
  ASSUME SInv, Left, Fewer, writes' \subseteq Write, studio' \in StudioPage,
         \A w \in writes' : ~w.heard, studio'.dialog = "none"
  PROVE  SInv'
<1>1. /\ StudioTyped /\ Dated /\ ShownAtMostOnce /\ OneOfEach /\ Unhurried
  BY SParts
<1>2. \A s \in Step : step'[s] = NoForm /\ intent'[s] = NoIntent
  BY DEF Left
<1>3. Forgets
  BY <1>2 DEF Forgets, NoForm, NoIntent
<1>4. UNCHANGED <<campaign, presses, replays, shown>> /\ studioHurried' = FALSE
  BY DEF Left
<1>5. Dated'
  BY <1>1, <1>3, <1>4, FewerDated
<1>6. ShownAtMostOnce'
  BY <1>1, <1>3, <1>4, FewerSpent DEF ShownAtMostOnce
<1>7. OneOfEach'
  BY <1>1, <1>3, FewerOfEach
<1>8. OfThePage'
  BY <1>4 DEF OfThePage
<1>9. Unhurried'
  BY <1>2, IntentCleared DEF Unhurried, NoForm, NoIntent
<1>10. StudioTyped'
  BY <1>1, <1>4, FormsAre DEF Left, StudioTyped
<1> QED
  BY <1>4, <1>5, <1>6, <1>7, <1>8, <1>9, <1>10, SPartsNext

LEMMA PagesKeep ==
  ASSUME SInv, (\E a \in Asked : AnotherOfficer(a)) \/ OpenNew \/ OpenStudio \/ Reread \/ CancelDialog
  PROVE  SInv'
<1>1. /\ StudioTyped /\ studioHurried \in BOOLEAN /\ OfThePage /\ Unhurried
  BY SParts
<1>2. UNCHANGED <<step, writes, presses, replays, intent, shown, studioHurried>>
  BY DEF AnotherOfficer, OpenNew, OpenStudio, Reread, CancelDialog
<1>3. StudioTyped'
  <2>1. campaign' \in Campaign
    BY <1>1, CommandedIs DEF AnotherOfficer, OpenNew, OpenStudio, Reread, CancelDialog, StudioTyped
  <2>2. studio' \in StudioPage
    BY <1>1 DEF AnotherOfficer, OpenNew, OpenStudio, Reread, CancelDialog, StudioTyped, StudioPage
  <2> QED
    BY <1>1, <1>2, <2>1, <2>2 DEF StudioTyped
<1>4. OfThePage'
  <2>1. CASE OpenNew \/ OpenStudio
    <3>1. ~studioHurried /\ \A w \in writes : ~w.heard
      BY <1>1, <2>1 DEF OfThePage, OpenNew, OpenStudio, PageOf
    <3>2. studio'.dialog = "none"
      BY <1>1, <2>1 DEF OfThePage, OpenNew, OpenStudio, StudioTyped, StudioPage
    <3> QED
      BY <1>2, <3>1, <3>2 DEF OfThePage
  <2>2. CASE (\E a \in Asked : AnotherOfficer(a)) \/ Reread \/ CancelDialog
    <3>1. studio'.page = studio.page /\ studio'.dialog \in {studio.dialog, "none"}
      BY <1>1, <2>2 DEF AnotherOfficer, Reread, CancelDialog, StudioTyped, StudioPage
    <3> QED
      BY <1>1, <1>2, <3>1 DEF OfThePage, PageOf
  <2> QED
    BY <2>1, <2>2
<1>5. ASSUME ~studioHurried, NEW w \in writes, w.heard, InDialog(w.step)
      PROVE  studio'.dialog = studio.dialog
  <2>1. AwaitedByForm(w)
    BY <1>1, <1>5 DEF Unhurried
  <2>2. ~CancelDialog
    BY <1>5, <2>1 DEF AwaitedByForm, CancelDialog
  <2> QED
    BY <1>1, <2>2 DEF AnotherOfficer, OpenNew, OpenStudio, Reread, StudioTyped, StudioPage
<1> QED
  BY <1>1, <1>2, <1>3, <1>4, <1>5, QuietKeeps

LEMMA EditKeeps == ASSUME SInv, NEW s \in Typed, NEW t \in Text, Edit(s, t) PROVE SInv'
<1>1. /\ StudioTyped /\ studioHurried \in BOOLEAN /\ OfThePage /\ Unhurried
  BY SParts
<1>2. /\ UNCHANGED <<campaign, studio, writes, presses, replays, intent, shown>>
      /\ studioHurried' = (studioHurried \/ (s = "session" /\ step[s].at = "pending"))
  BY Zenon DEF Edit
<1>3. s \in Step /\ step[s] \in Form /\ step \in [Step -> Form]
  BY <1>1 DEF StudioTyped, Step
<1> DEFINE at == IF s = "session" \/ (s = "create" /\ step[s].at \in {"refused", "fault"})
                 THEN "idle" ELSE step[s].at
           observes == IF s = "session" \/ (s = "create" /\ step[s].at \in {"refused", "fault"})
                       THEN 0 ELSE step[s].observes
           form == [step[s] EXCEPT !.text = t, !.at = at, !.observes = observes]
<1>4. step' = [step EXCEPT ![s] = form]
  BY <1>3 DEF Edit
<1>5. /\ form \in Form /\ form.key = step[s].key /\ form.asked = step[s].asked
      /\ form.at = at /\ form.observes = observes
  BY <1>3, KeysAre DEF Form
<1>6. /\ at \in {step[s].at, "idle"} /\ observes \in {step[s].observes, 0}
      /\ step[s].at = "pending" /\ s # "session" => at = step[s].at /\ observes = step[s].observes
  OBVIOUS
<1> HIDE DEF form, at, observes
<1>7. step'[s] = form /\ \A u \in Step \ {s} : step'[u] = step[u]
  BY <1>3, <1>4
<1>8. StudioTyped'
  BY <1>1, <1>2, <1>4, <1>5 DEF StudioTyped
<1>9. studioHurried' \in BOOLEAN
  BY <1>2, Zenon
<1>10. ~studioHurried' => ~studioHurried /\ ~(s = "session" /\ step[s].at = "pending")
  BY <1>2, Zenon
<1>11. OfThePage'
  <2>1. studio.page # "studio" => ~(s = "session" /\ step[s].at = "pending")
    BY DEF Edit, OnThePage
  <2>2. studio.page # "studio" => ~studioHurried'
    BY <1>1, <1>2, <2>1, Zenon DEF OfThePage
  <2> QED
    BY <1>1, <1>2, <2>2 DEF OfThePage, PageOf
<1>12. ASSUME ~studioHurried', NEW w \in writes, w.heard
       PROVE  step'[w.step].at = step[w.step].at /\ step'[w.step].observes = step[w.step].observes
  <2>1. step[w.step].at = "pending" /\ w.step \in Step
    BY <1>1, <1>10, <1>12 DEF Unhurried, AwaitedByForm, StudioTyped, Write
  <2> QED
    BY <1>5, <1>6, <1>7, <1>10, <1>12, <2>1
<1>13. \A u \in Step : /\ step'[u].key = step[u].key /\ step'[u].asked = step[u].asked
                       /\ step'[u].observes \in {step[u].observes, 0}
                       /\ step'[u].at = "refused" => step[u].at = "refused"
  BY <1>5, <1>6, <1>7
<1> QED
  BY <1>2, <1>8, <1>9, <1>10, <1>11, <1>12, <1>13, QuietKeeps

LEMMA OpenDialogKeeps ==
  ASSUME SInv, NEW c \in Closing \cup {"publish"}, OpenDialog(c) PROVE SInv'
<1> DEFINE s == StepOf(c)
           form == [step[s] EXCEPT !.at = "idle", !.observes = 0]
<1>1. /\ StudioTyped /\ studioHurried \in BOOLEAN /\ OfThePage /\ Unhurried
  BY SParts
<1>2. /\ UNCHANGED <<campaign, writes, presses, replays, intent, shown, studioHurried>>
      /\ studio.dialog = "none" /\ studio' = [studio EXCEPT !.dialog = c]
  BY DEF OpenDialog
<1>3. InDialog(s) /\ s \in Step /\ step[s] \in Form /\ step \in [Step -> Form] /\ c \in Command
  BY <1>1 DEF StudioTyped, Step, StepOf, Closing, InDialog, Command
<1>4. step' = [step EXCEPT ![s] = form]
  BY <1>3 DEF OpenDialog
<1>5. /\ form \in Form /\ form.key = step[s].key /\ form.asked = step[s].asked
      /\ form.at = "idle" /\ form.observes = 0
  BY <1>3, KeysAre DEF Form
<1> HIDE DEF form, s
<1>7. step'[s] = form /\ \A u \in Step \ {s} : step'[u] = step[u]
  BY <1>3, <1>4
<1>8. studio' \in StudioPage /\ studio'.page = studio.page
  BY <1>1, <1>2, <1>3 DEF StudioPage, StudioTyped
<1>9. StudioTyped'
  BY <1>1, <1>2, <1>4, <1>5, <1>8 DEF StudioTyped
<1>10. OfThePage'
  <2>1. studio.page = "studio"
    BY DEF OpenDialog
  <2> QED
    BY <1>1, <1>2, <1>8, <2>1 DEF OfThePage, PageOf
<1>11. ASSUME ~studioHurried', NEW w \in writes, w.heard
       PROVE  ~InDialog(w.step) /\ w.step \in Step
  BY <1>1, <1>2, <1>11 DEF Unhurried, AwaitedByForm, StudioTyped, Write
<1>12. ASSUME ~studioHurried', NEW w \in writes, w.heard
       PROVE  /\ step'[w.step].at = step[w.step].at
              /\ step'[w.step].observes = step[w.step].observes
  BY <1>3, <1>7, <1>11, <1>12
<1>13. \A u \in Step : /\ step'[u].key = step[u].key /\ step'[u].asked = step[u].asked
                       /\ step'[u].observes \in {step[u].observes, 0}
                       /\ step'[u].at = "refused" => step[u].at = "refused"
  BY <1>5, <1>7
<1> QED
  BY <1>1, <1>2, <1>9, <1>10, <1>11, <1>12, <1>13, QuietKeeps

LEMMA LeaveKeeps == ASSUME SInv, LeaveStudio PROVE SInv'
<1>1. StudioTyped
  BY SParts
<1>2. writes' = {[w EXCEPT !.heard = FALSE] : w \in {v \in writes : v.answer = "none"}} /\ Left
  BY DEF LeaveStudio
<1>3. ASSUME NEW u \in Write
      PROVE  LET v == [u EXCEPT !.heard = FALSE] IN v \in Write /\ Same(v, u) /\ v.heard = FALSE
  BY DEF Write, Same
<1>4. writes' \subseteq Write /\ \A v \in writes' : v.heard = FALSE
  <2> SUFFICES ASSUME NEW v \in writes' PROVE v \in Write /\ v.heard = FALSE
    OBVIOUS
  <2>1. PICK u \in writes : v = [u EXCEPT !.heard = FALSE]
    BY <1>2
  <2> QED
    BY <1>1, <1>3, <2>1 DEF StudioTyped
<1>5. Fewer
  <2> SUFFICES ASSUME NEW v \in writes' PROVE \E u \in writes : Same(v, u) /\ (v.heard => u.heard)
    BY Zenon DEF Fewer
  <2>1. PICK u \in writes : v = [u EXCEPT !.heard = FALSE]
    BY <1>2
  <2>2. Same(v, u) /\ v.heard = FALSE
    BY <1>1, <1>3, <2>1 DEF StudioTyped
  <2> QED
    BY <2>2
<1>6. studio' \in StudioPage
  BY <1>1 DEF LeaveStudio, StudioTyped, StudioPage
<1>7. studio'.dialog = "none"
  BY <1>1 DEF LeaveStudio, StudioTyped, StudioPage
<1> QED
  BY <1>2, <1>4, <1>5, <1>6, <1>7, LeftKeeps

(* A press: the key of the same intent again, or a new one.                *)
LEMMA PressKeeps ==
  ASSUME SInv, NEW c \in Command, NEW s, s = StepOf(c), PressCommand(c)
  PROVE  SInv'
<1> DEFINE f == step[s]
           demand == [command |-> c, text |-> IF c \in Typed THEN f.text ELSE NoText]
           key == KeyForIntent(f, demand)
           n == presses + 1
           since == IF intent[s].since # 0 /\ intent[s].asked = demand THEN intent[s].since ELSE n
           form == [f EXCEPT !.key = key, !.asked = demand, !.at = "pending", !.observes = n]
           new == [id |-> n, step |-> s, asked |-> demand, key |-> key, since |-> since,
                   answer |-> "none", heard |-> TRUE]
           fresh == [since |-> since, asked |-> demand, made |-> 0]
<1>1. /\ StudioTyped /\ studioHurried \in BOOLEAN /\ Dated /\ ShownAtMostOnce /\ OneOfEach
      /\ OfThePage /\ Unhurried
  BY SParts
<1>2. /\ IF c \in Typed THEN OnThePage(c) /\ studio.dialog = "none" ELSE studio.dialog = c
      /\ f.at # "pending" /\ presses < MaxPresses /\ presses' = n
      /\ UNCHANGED <<campaign, studio, replays, shown, studioHurried>>
  BY DEF PressCommand
<1>3. /\ step' = [step EXCEPT ![s].key = key, ![s].asked = demand, ![s].at = "pending",
                              ![s].observes = n]
      /\ writes' = writes \cup {new}
      /\ intent' = IF since = intent[s].since THEN intent ELSE [intent EXCEPT ![s] = fresh]
  BY DEF PressCommand
<1>4. s \in Step /\ (c \in Typed => s = c) /\ (InDialog(s) => c \notin Typed)
  BY DEF StepOf, Step, Command, Typed, Closing, InDialog
<1>5. f \in Form /\ step \in [Step -> Form] /\ writes \subseteq Write /\ presses \in Key
      /\ intent[s] \in [since : Key, asked : Asked, made : Nat]
      /\ intent \in [Step -> [since : Key, asked : Asked, made : Nat]]
  BY <1>1, <1>4 DEF StudioTyped
<1>6. demand \in Asked
  <2>1. f.text \in Text /\ NoText \in Text
    BY <1>5, FormsAre DEF Form
  <2> QED
    BY <2>1 DEF Asked
<1>7. n \in 1..MaxPresses /\ n \in Key /\ n \in 1..n /\ presses \in Nat /\ n = presses + 1
  BY <1>2, <1>5, KeysAre
<1>8. /\ f.key # 0 /\ f.asked = demand => key = f.key
      /\ ~(f.key # 0 /\ f.asked = demand) => key = n
  BY DEF KeyForIntent
<1>9. f.key \in 0..presses /\ intent[s].since \in 0..presses
  <2> HIDE DEF f, n, key, since, demand, form, new, fresh
  <2>1. f.key \in Key /\ intent[s].since \in Key
    BY <1>5 DEF Form
  <2>2. f.key <= presses /\ intent[s].since <= presses
    BY <1>1, <1>4 DEF Dated, f
  <2>3. f.key \in Nat /\ intent[s].since \in Nat
    BY <2>1, KeysAre
  <2> QED
    BY <1>7, <2>2, <2>3
<1>10. key \in 1..n /\ key \in Key /\ since \in 1..n /\ since \in Key
  BY <1>5, <1>7, <1>8, <1>9 DEF Form
<1>11. ASSUME NEW w \in writes
      PROVE  /\ w.id \in 1..presses /\ w.key \in 1..presses /\ w.since \in 1..presses
             /\ w.step \in Step /\ w \in Write
  BY <1>1, <1>5 DEF Dated, Write
<1>12. step' = [step EXCEPT ![s] = form]
  BY <1>3, <1>4, <1>5
<1>13. form \in Form /\ form.key = key /\ form.asked = demand /\ form.at = "pending"
       /\ form.observes = n
  BY <1>5, <1>6, <1>7, <1>10 DEF Form
<1>14. /\ new.id = n /\ new.step = s /\ new.asked = demand /\ new.key = key /\ new.since = since
       /\ new.answer = "none" /\ new.heard = TRUE
  OBVIOUS
<1>15. fresh.since = since /\ fresh.asked = demand /\ fresh.made = 0
       /\ fresh \in [since : Key, asked : Asked, made : Nat]
  BY <1>6, <1>10
<1>16. new \in Write
  BY <1>4, <1>6, <1>7, <1>10 DEF Write
<1>17. since = IF intent[s].since # 0 /\ intent[s].asked = demand THEN intent[s].since ELSE n
  OBVIOUS
<1>18. demand.command = c
  OBVIOUS
<1> HIDE DEF form, new, fresh, key, since, demand, f
<1>19. step'[s] = form /\ \A u \in Step \ {s} : step'[u] = step[u]
  BY <1>4, <1>5, <1>12
<1>20. /\ intent'[s] = IF since = intent[s].since THEN intent[s] ELSE fresh
       /\ \A u \in Step \ {s} : intent'[u] = intent[u]
  BY <1>3, <1>4, <1>5
<1>21. StudioTyped'
  <2>1. step' \in [Step -> Form]
    BY <1>5, <1>12, <1>13
  <2>2. intent' \in [Step -> [since : Key, asked : Asked, made : Nat]]
    BY <1>3, <1>5, <1>15
  <2>3. writes' \subseteq Write
    BY <1>3, <1>5, <1>16
  <2> QED
    BY <1>1, <1>2, <1>7, <2>1, <2>2, <2>3 DEF StudioTyped
<1>22. Dated'
  <2>1. \A w \in writes' : w.id \in 1..n /\ w.key \in 1..n /\ w.since \in 1..n
    BY <1>3, <1>7, <1>10, <1>11, <1>14
  <2>2. ASSUME NEW u \in Step
        PROVE  step'[u].key <= n /\ step'[u].observes <= n /\ intent'[u].since <= n
    <3>1. step[u].key \in Nat /\ step[u].observes \in Nat /\ intent[u].since \in Nat
      BY <1>5, KeysAre DEF Form
    <3>2. CASE u = s
      BY <1>7, <1>10, <1>13, <1>15, <1>19, <1>20, <3>2
    <3>3. CASE u # s
      BY <1>1, <1>7, <1>19, <1>20, <3>1, <3>3 DEF Dated
    <3> QED
      BY <3>2, <3>3
  <2>3. \A k \in 1..MaxPresses : k > n => shown'[k] = 0 /\ replays'[k].answer = "none"
    BY <1>1, <1>2, <1>7 DEF Dated
  <2> QED
    BY <1>2, <2>1, <2>2, <2>3 DEF Dated
<1>23. ASSUME NEW u \in Step, step[u].key = key PROVE u = s
  <2>1. step[u].key <= presses /\ key # 0
    BY <1>1, <1>10, <1>23 DEF Dated
  <2> QED
    BY <1>1, <1>4, <1>7, <1>8, <1>23, <2>1 DEF OneOfEach, f
<1>24. ASSUME NEW w \in writes, w.heard, w.key = key PROVE w.step = s
  BY <1>1, <1>4, <1>7, <1>8, <1>11, <1>24 DEF OneOfEach, f
<1>25. ShownAtMostOnce'
  <2> SUFFICES ASSUME NEW k \in 1..MaxPresses, shown[k] # 0 PROVE shown[k] = 1 /\ Spent(k)'
    BY <1>2 DEF ShownAtMostOnce
  <2>1. shown[k] = 1 /\ Spent(k) /\ k <= presses
    BY <1>1, <1>7 DEF ShownAtMostOnce, Dated
  <2>2. key # k
    BY <1>4, <1>7, <1>8, <2>1 DEF Spent, f
  <2>3. \A u \in Step : step'[u].key # k
    BY <1>13, <1>19, <2>1, <2>2 DEF Spent
  <2>4. ASSUME NEW w \in writes', w.heard, w.key = k PROVE step'[w.step].observes # w.id
    <3>1. w \in writes
      BY <1>3, <1>14, <2>2, <2>4
    <3>2. CASE w.step = s
      BY <1>7, <1>11, <1>13, <1>19, <3>1, <3>2
    <3>3. CASE w.step # s
      BY <1>11, <1>19, <2>1, <2>4, <3>1, <3>3 DEF Spent
    <3> QED
      BY <3>2, <3>3
  <2> QED
    BY <2>1, <2>3, <2>4 DEF Spent
<1>26. OneOfEach'
  <2>1. ASSUME NEW w \in writes', NEW v \in writes', w.heard, v.heard, w.id = v.id PROVE w = v
    BY <1>1, <1>3, <1>7, <1>11, <1>14, <2>1 DEF OneOfEach
  <2>2. ASSUME NEW w \in writes', NEW v \in writes', w.heard, v.heard, w.key = v.key
        PROVE  w.step = v.step
    BY <1>1, <1>3, <1>14, <1>24, <2>2 DEF OneOfEach
  <2>3. ASSUME NEW w \in writes', NEW u \in Step, w.heard, step'[u].key = w.key PROVE u = w.step
    <3>1. CASE u = s
      BY <1>3, <1>13, <1>14, <1>19, <1>24, <2>3, <3>1
    <3>2. CASE u # s
      BY <1>1, <1>3, <1>14, <1>19, <1>23, <2>3, <3>2 DEF OneOfEach
    <3> QED
      BY <3>1, <3>2
  <2>4. ASSUME NEW u \in Step, NEW v \in Step, step'[u].key # 0, step'[u].key = step'[v].key
        PROVE  u = v
    BY <1>1, <1>13, <1>19, <1>23, <2>4 DEF OneOfEach
  <2> QED
    BY <2>1, <2>2, <2>3, <2>4 DEF OneOfEach
<1>27. OfThePage'
  <2>1. studio.page = PageOf(new)
    <3>1. CASE c \in Typed
      BY <1>2, <1>4, <1>14, <3>1 DEF OnThePage, PageOf, Typed
    <3>2. CASE c \notin Typed
      <4>1. studio.dialog # "none" /\ s # "create"
        BY <1>2, <3>2 DEF StepOf, Typed, Command, Closing
      <4> QED
        BY <1>1, <1>14, <4>1 DEF OfThePage, PageOf
    <3> QED
      BY <3>1, <3>2
  <2> QED
    BY <1>1, <1>2, <1>3, <2>1 DEF OfThePage, PageOf
<1>28. Unhurried'
  <2> SUFFICES ASSUME ~studioHurried
               PROVE  /\ \A w \in writes' : w.heard => AwaitedByForm(w)'
                      /\ \A u \in Step : IntentKept(u)'
    BY <1>2 DEF Unhurried
  <2>1. ASSUME NEW w \in writes, w.heard PROVE AwaitedByForm(w)'
    <3>1. AwaitedByForm(w)
      BY <1>1, <2>1 DEF Unhurried
    <3>2. w.step # s
      BY <1>2, <3>1 DEF AwaitedByForm, f
    <3> QED
      BY <1>2, <1>11, <1>19, <1>20, <3>1, <3>2 DEF AwaitedByForm
  <2>2. ASSUME NEW w, w = new PROVE AwaitedByForm(w)'
    <3>1. intent'[s].since = since
      BY <1>15, <1>20
    <3>2. InDialog(s) => studio.dialog = c /\ c # "none" /\ StepOf(c) = s
      BY <1>2, <1>4 DEF Command, Typed, Closing
    <3> QED
      BY <1>2, <1>13, <1>14, <1>19, <2>2, <3>1, <3>2 DEF AwaitedByForm
  <2>3. ASSUME NEW u \in Step, u # s PROVE IntentKept(u)'
    <3>1. IntentKept(u) /\ step'[u] = step[u] /\ intent'[u] = intent[u] /\ UNCHANGED replays
      BY <1>1, <1>2, <1>19, <1>20, <2>3 DEF Unhurried
    <3>2. ASSUME NEW w \in writes', Claims(w, u)', step'[u].key # 0 PROVE OfIntent(w, u)'
      <4>1. w # new
        BY <1>14, <1>23, <2>3, <3>1, <3>2 DEF Claims
      <4> QED
        BY <1>3, <3>1, <3>2, <4>1 DEF Claims, OfIntent, IntentKept
    <3> QED
      BY <3>1, <3>2 DEF IntentKept
  <2>4. IntentKept(s)
    BY <1>1, <1>4 DEF Unhurried
  <2>5. ASSUME f.key # 0, f.asked = demand PROVE IntentKept(s)'
    <3>1. key = f.key /\ since = f.key /\ intent'[s] = intent[s] /\ intent[s].asked = demand
          /\ intent[s].since = f.key
      BY <1>8, <1>17, <1>20, <2>4, <2>5 DEF IntentKept, f
    <3>2. ASSUME NEW w \in writes', Claims(w, s)' PROVE OfIntent(w, s)'
      <4>1. CASE w = new
        BY <1>13, <1>14, <1>19, <3>1, <4>1 DEF OfIntent
      <4>2. CASE w \in writes
        BY <1>13, <1>19, <2>4, <2>5, <3>1, <3>2, <4>2 DEF OfIntent, Claims, IntentKept, f
      <4> QED
        BY <1>3, <4>1, <4>2
    <3>3. step'[s].key = step[s].key /\ step'[s].asked = demand /\ step'[s].at = "pending"
      BY <1>13, <1>19, <3>1 DEF f
    <3>4. step[s].key # 0 /\ UNCHANGED replays
      BY <1>2, <2>5 DEF f
    <3> QED
      BY <2>4, <3>1, <3>2, <3>3, <3>4 DEF IntentKept, Known, f
  <2>6. ASSUME ~(f.key # 0 /\ f.asked = demand) PROVE IntentKept(s)'
    <3>1. key = n /\ since = n /\ intent'[s] = fresh
      <4>1. key = n
        BY <1>8, <2>6
      <4>2. since = n
        BY <1>17, <2>4, <2>6 DEF IntentKept, f
      <4>3. since # intent[s].since
        BY <1>7, <1>9, <4>2
      <4> QED
        BY <1>20, <4>1, <4>2, <4>3
    <3>2. replays'[n].answer = "none"
      BY <1>1, <1>2, <1>7 DEF Dated
    <3>3. ASSUME NEW w \in writes', Claims(w, s)' PROVE OfIntent(w, s)'
      <4>1. w = new
        BY <1>3, <1>7, <1>11, <1>13, <1>19, <3>1, <3>3 DEF Claims
      <4> QED
        BY <1>13, <1>14, <1>15, <1>19, <3>1, <4>1 DEF OfIntent
    <3>4. step'[s].key = n /\ step'[s].asked = demand /\ step'[s].at = "pending"
      BY <1>13, <1>19, <3>1
    <3>5. intent'[s].since = n /\ intent'[s].asked = demand /\ intent'[s].made = 0
      BY <1>15, <3>1
    <3> QED
      BY <3>2, <3>3, <3>4, <3>5 DEF IntentKept, Known
  <2> QED
    BY <1>3, <2>1, <2>2, <2>3, <2>5, <2>6
<1> QED
  BY <1>1, <1>2, <1>21, <1>22, <1>25, <1>26, <1>27, <1>28, SPartsNext


(* A request that is awaited is one of its form's intent.                  *)
LEMMA HeardIsOfIntent ==
  ASSUME SInv, ~studioHurried, NEW w \in writes, w.heard
  PROVE  /\ AwaitedByForm(w) /\ OfIntent(w, w.step) /\ step[w.step].key # 0
         /\ Known(replays[w.key], intent[w.step]) /\ intent[w.step].made <= 1
<1>1. /\ StudioTyped /\ Dated /\ Unhurried
  BY SParts
<1>2. w.step \in Step /\ w.since \in 1..presses /\ presses \in Nat
  BY <1>1, KeysAre DEF StudioTyped, Write, Dated
<1>3. AwaitedByForm(w) /\ IntentKept(w.step)
  BY <1>1, <1>2 DEF Unhurried
<1>4. step[w.step].key = w.since /\ step[w.step].key # 0
  BY <1>2, <1>3 DEF AwaitedByForm, IntentKept
<1>5. OfIntent(w, w.step)
  BY <1>3, <1>4 DEF IntentKept, Claims
<1> QED
  BY <1>3, <1>4, <1>5 DEF IntentKept, OfIntent

LEMMA FewerOnThePage ==
  ASSUME OfThePage, Fewer, studio'.page = studio.page, UNCHANGED studioHurried,
         studio'.dialog \in {studio.dialog, "none"}
  PROVE  OfThePage'
<1>1. ASSUME NEW w \in writes', w.heard PROVE studio'.page = PageOf(w)'
  <2>1. PICK u \in writes : Same(w, u) /\ u.heard
    BY <1>1 DEF Fewer
  <2> QED
    BY <2>1 DEF OfThePage, PageOf, Same
<1> QED
  BY <1>1 DEF OfThePage

(* A request that has an answer now, or goes on unheard.                   *)
LEMMA AnsweredWrites ==
  ASSUME SInv, NEW w \in writes, NEW a \in {"done", "refused", "fault"},
         NEW v, v = [w EXCEPT !.answer = a], NEW g, g = [w EXCEPT !.heard = FALSE],
         writes' \subseteq (writes \ {w}) \cup {v, g}
  PROVE  /\ writes' \subseteq Write /\ Fewer
         /\ Same(v, w) /\ v.answer = a /\ v.heard = w.heard
         /\ \A x \in writes' : x.heard => x = v \/ x \in writes \ {w}
         /\ \A x, y \in writes' : x.heard /\ y.heard /\ x.id = y.id => x = y
<1>1. StudioTyped /\ OneOfEach
  BY SParts
<1>2. w \in Write /\ writes \subseteq Write
  BY <1>1 DEF StudioTyped
<1>3. v \in Write /\ Same(v, w) /\ v.answer = a /\ v.heard = w.heard
  BY <1>2 DEF Write, Same
<1>4. g \in Write /\ Same(g, w) /\ g.heard = FALSE
  BY <1>2 DEF Write, Same
<1>5. writes' \subseteq Write
  BY <1>2, <1>3, <1>4
<1>6. ASSUME NEW x \in writes' PROVE \E u \in writes : Same(x, u) /\ (x.heard => u.heard)
  <2>1. CASE x \in writes
    BY <2>1 DEF Same
  <2>2. CASE x = v
    BY <1>3, <2>2
  <2>3. CASE x = g
    BY <1>4, <2>3
  <2> QED
    BY <2>1, <2>2, <2>3
<1>7. Fewer
  BY <1>6, Zenon DEF Fewer
<1>8. \A x \in writes' : x.heard => x = v \/ x \in writes \ {w}
  BY <1>4
<1>9. ASSUME NEW x \in writes', NEW y \in writes', x.heard, y.heard, x.id = y.id PROVE x = y
  <2>1. CASE x = v /\ y = v
    BY <2>1
  <2>2. CASE x = v /\ y \in writes \ {w}
    BY <1>1, <1>3, <1>9, <2>2 DEF OneOfEach, Same
  <2>3. CASE y = v /\ x \in writes \ {w}
    BY <1>1, <1>3, <1>9, <2>3 DEF OneOfEach, Same
  <2>4. CASE x \in writes \ {w} /\ y \in writes \ {w}
    BY <1>1, <1>9, <2>4 DEF OneOfEach
  <2> QED
    BY <1>8, <1>9, <2>1, <2>2, <2>3, <2>4
<1> QED
  BY <1>3, <1>5, <1>7, <1>8, <1>9

LEMMA LoseKeeps == ASSUME SInv, NEW w \in writes, LoseWrite(w) PROVE SInv'
<1>1. /\ StudioTyped /\ studioHurried \in BOOLEAN /\ Dated /\ ShownAtMostOnce /\ OneOfEach
      /\ OfThePage /\ Unhurried
  BY SParts
<1>2. UNCHANGED <<campaign, studio, step, presses, replays, intent, shown, studioHurried>>
  BY DEF LoseWrite
<1>3. PICK v : v = [w EXCEPT !.answer = "fault"]
  OBVIOUS
<1>4. PICK g : g = [w EXCEPT !.heard = FALSE]
  OBVIOUS
<1>5. writes' \subseteq (writes \ {w}) \cup {v, g} /\ w.heard
  BY <1>3, <1>4 DEF LoseWrite
<1>6. /\ writes' \subseteq Write /\ Fewer
      /\ Same(v, w) /\ v.answer = "fault"
      /\ \A x \in writes' : x.heard => x = v \/ x \in writes \ {w}
      /\ \A x, y \in writes' : x.heard /\ y.heard /\ x.id = y.id => x = y
  BY <1>3, <1>4, <1>5, AnsweredWrites, Zenon
<1>7. Forgets
  BY <1>2 DEF Forgets
<1>8. StudioTyped'
  BY <1>1, <1>2, <1>6 DEF StudioTyped
<1>9. Dated' /\ OneOfEach' /\ OfThePage'
  BY <1>1, <1>2, <1>6, <1>7, FewerDated, FewerOfEach, FewerOnThePage
<1>10. ShownAtMostOnce'
  BY <1>1, <1>2, <1>6, <1>7, FewerSpent DEF ShownAtMostOnce
<1>11. Unhurried'
  <2> SUFFICES ASSUME ~studioHurried
               PROVE  /\ \A x \in writes' : x.heard => AwaitedByForm(x)'
                      /\ \A s \in Step : IntentKept(s)'
    BY <1>2 DEF Unhurried
  <2>1. ASSUME NEW x \in writes', x.heard PROVE AwaitedByForm(x)'
    <3>1. CASE x = v
      <4>1. AwaitedByForm(w)
        BY <1>1, <1>5 DEF Unhurried
      <4> QED
        BY <1>2, <1>6, <3>1, <4>1 DEF AwaitedByForm, Same
    <3>2. CASE x \in writes
      BY <1>1, <1>2, <2>1, <3>2 DEF Unhurried, AwaitedByForm
    <3> QED
      BY <1>6, <2>1, <3>1, <3>2
  <2>2. ASSUME NEW s \in Step PROVE IntentKept(s)'
    <3>1. IntentKept(s)
      BY <1>1 DEF Unhurried
    <3> QED
      BY <1>2, <1>6, <3>1, IntentStays
  <2> QED
    BY <2>1, <2>2
<1> QED
  BY <1>1, <1>2, <1>8, <1>9, <1>10, <1>11, SPartsNext

(* What the service does of a request it answers.                          *)
DecidedAs(w, a) ==
  /\ writes' = (writes \ {w}) \cup IF w.heard THEN {[w EXCEPT !.answer = a]} ELSE {}
  /\ IF replays[w.key].answer = "none"
     THEN /\ replays' = [replays EXCEPT ![w.key] = [asked |-> w.asked, answer |-> a]]
          /\ campaign' = IF a = "done" THEN Commanded(campaign, w.asked) ELSE campaign
          /\ intent' = IF a = "done" /\ intent[w.step].since = w.since
                       THEN [intent EXCEPT ![w.step].made = @ + 1] ELSE intent
     ELSE UNCHANGED <<replays, campaign, intent>>

LEMMA DecideKeeps ==
  ASSUME SInv, NEW w \in writes, NEW a \in Answers(w), DecidedAs(w, a),
         UNCHANGED <<studio, step, presses, shown, studioHurried>>
  PROVE  SInv'
<1> DEFINE fresh == replays[w.key].answer = "none"
<1>1. /\ StudioTyped /\ studioHurried \in BOOLEAN /\ Dated /\ ShownAtMostOnce /\ OneOfEach
      /\ OfThePage /\ Unhurried
  BY SParts
<1>2. /\ w \in Write /\ w.step \in Step /\ w.asked \in Asked /\ presses \in Nat
      /\ w.key \in 1..presses /\ w.since \in 1..presses /\ w.key \in 1..MaxPresses
  <2>1. w \in Write /\ presses \in Key /\ w.key \in 1..presses /\ w.since \in 1..presses
    BY <1>1 DEF StudioTyped, Dated
  <2>2. presses \in Nat /\ w.key <= MaxPresses
    BY <2>1, StudioBound DEF Key
  <2> QED
    BY <2>1, <2>2, StudioBound DEF Write
<1>3. a \in {"done", "refused"}
  <2>1. replays[w.key] \in Replay
    BY <1>1, <1>2 DEF StudioTyped
  <2> QED
    BY <2>1 DEF Answers, Replay
<1>4. PICK v : v = [w EXCEPT !.answer = a]
  OBVIOUS
<1>5. PICK g : g = [w EXCEPT !.heard = FALSE]
  OBVIOUS
<1>6. writes' \subseteq (writes \ {w}) \cup {v, g}
  BY <1>4 DEF DecidedAs
<1>7. /\ writes' \subseteq Write /\ Fewer
      /\ Same(v, w) /\ v.answer = a /\ v.heard = w.heard
      /\ \A x \in writes' : x.heard => x = v \/ x \in writes \ {w}
      /\ \A x, y \in writes' : x.heard /\ y.heard /\ x.id = y.id => x = y
  <2>1. a \in {"done", "refused", "fault"}
    BY <1>3
  <2> QED
    BY <2>1, <1>4, <1>5, <1>6, AnsweredWrites, Zenon
<1>8. \A s \in Step : intent'[s].since = intent[s].since /\ intent'[s].asked = intent[s].asked
  <2>0. UNCHANGED intent \/ intent' = [intent EXCEPT ![w.step].made = @ + 1]
    BY DEF DecidedAs
  <2>1. CASE UNCHANGED intent
    BY <2>1
  <2>2. CASE intent' = [intent EXCEPT ![w.step].made = @ + 1]
    <3>1. intent[w.step] \in [since : Key, asked : Asked, made : Nat]
      BY <1>1, <1>2 DEF StudioTyped
    <3>2. intent \in [Step -> [since : Key, asked : Asked, made : Nat]]
      BY <1>1 DEF StudioTyped
    <3> QED
      BY <2>2, <3>1, <3>2
  <2> QED
    BY <2>0, <2>1, <2>2
<1>9. Forgets
  BY <1>8 DEF Forgets
<1>10. \A k \in 1..MaxPresses : k # w.key => replays'[k] = replays[k]
  BY <1>1 DEF StudioTyped, DecidedAs
<1>11. fresh => replays'[w.key].asked = w.asked /\ replays'[w.key].answer = a
  BY <1>1, <1>2 DEF StudioTyped, DecidedAs
<1>12. StudioTyped'
  <2>1. campaign' \in Campaign
    <3>1. fresh /\ a = "done" => Accepts(campaign, w.asked)
      BY DEF Answers
    <3> QED
      BY <1>1, <1>2, <3>1, CommandedIs DEF StudioTyped, DecidedAs
  <2>2. replays' \in [1..MaxPresses -> Replay]
    <3>1. [asked |-> w.asked, answer |-> a] \in Replay
      BY <1>2, <1>3 DEF Replay
    <3> QED
      BY <1>1, <3>1 DEF StudioTyped, DecidedAs
  <2>3. intent' \in [Step -> [since : Key, asked : Asked, made : Nat]]
    <3>1. intent[w.step] \in [since : Key, asked : Asked, made : Nat]
      BY <1>1, <1>2 DEF StudioTyped
    <3>2. [intent[w.step] EXCEPT !.made = @ + 1] \in [since : Key, asked : Asked, made : Nat]
      BY <3>1
    <3> QED
      BY <1>1, <3>2 DEF StudioTyped, DecidedAs
  <2> QED
    BY <1>1, <1>7, <2>1, <2>2, <2>3 DEF StudioTyped
<1>13. Dated'
  <2>1. \A k \in 1..MaxPresses : k > presses =>
          shown'[k] = shown[k] /\ replays'[k].answer = replays[k].answer
    BY <1>2, <1>10
  <2> QED
    BY <1>1, <1>7, <1>9, <2>1, FewerDated
<1>14. OneOfEach' /\ OfThePage'
  BY <1>1, <1>7, <1>9, FewerOfEach, FewerOnThePage
<1>15. ShownAtMostOnce'
  BY <1>1, <1>7, <1>9, FewerSpent DEF ShownAtMostOnce
<1>16. Unhurried'
  <2> SUFFICES ASSUME ~studioHurried
               PROVE  /\ \A x \in writes' : x.heard => AwaitedByForm(x)'
                      /\ \A s \in Step : IntentKept(s)'
    BY DEF Unhurried
  <2>1. ASSUME NEW x \in writes', x.heard PROVE AwaitedByForm(x)'
    <3>1. CASE x = v
      <4>1. w.heard
        BY <1>7, <2>1, <3>1
      <4>2. AwaitedByForm(w) /\ OfIntent(w, w.step) /\ Known(replays[w.key], intent[w.step])
        BY <4>1, HeardIsOfIntent
      <4>3. a = "refused" => replays'[w.key].answer = "refused"
        <5>1. CASE fresh
          BY <1>11, <5>1
        <5>2. CASE ~fresh
          <6>1. replays[w.key].asked = w.asked /\ replays[w.key].answer # "none"
            BY <4>2, <5>2 DEF Known, OfIntent
          <6> QED
            BY <5>2, <6>1 DEF Answers, DecidedAs
        <5> QED
          BY <5>1, <5>2
      <4>4. intent'[w.step].since = w.since
        BY <1>2, <1>8, <4>2 DEF AwaitedByForm
      <4> QED
        BY <1>7, <3>1, <4>2, <4>3, <4>4 DEF AwaitedByForm, Same
    <3>2. CASE x \in writes
      <4>1. AwaitedByForm(x) /\ x.step \in Step /\ x.key \in 1..MaxPresses
        <5>1. AwaitedByForm(x) /\ x \in Write /\ x.key \in 1..presses /\ presses <= MaxPresses
          BY <1>1, <2>1, <3>2, StudioBound DEF Unhurried, StudioTyped, Dated, Key
        <5> QED
          BY <1>2, <5>1, StudioBound DEF Write
      <4>2. x.answer = "refused" => replays'[x.key].answer = "refused"
        BY <1>10, <4>1 DEF AwaitedByForm, DecidedAs
      <4> QED
        BY <1>8, <4>1, <4>2 DEF AwaitedByForm
    <3> QED
      BY <1>7, <2>1, <3>1, <3>2
  <2>2. ASSUME NEW s \in Step PROVE IntentKept(s)'
    <3>0. IntentKept(s) /\ step[s].key \in Nat /\ intent[s].made \in Nat
      BY <1>1, KeysAre DEF Unhurried, StudioTyped, Form
    <3>1. CASE ~fresh
      <4>1. UNCHANGED <<replays, intent>>
        BY <3>1 DEF DecidedAs
      <4> QED
        BY <1>7, <3>0, <4>1, IntentStays
    <3>2. CASE fresh /\ step[s].key # 0 /\ Claims(w, s)
      <4>1. OfIntent(w, s)
        BY <3>0, <3>2 DEF IntentKept
      <4>2. intent[s].made = 0 /\ intent[s].since = w.since
        <5>1. Known(replays[w.key], intent[s]) /\ intent[s].since = w.since
          BY <3>0, <3>2, <4>1 DEF IntentKept, OfIntent
        <5> QED
          BY <3>0, <3>2, <5>1 DEF IntentKept, Known
      <4>3. intent'[s].made = IF a = "done" THEN 1 ELSE 0
        <5>1. w.step = s
          BY <4>1 DEF OfIntent
        <5>2. intent[s] \in [since : Key, asked : Asked, made : Nat]
          BY <1>1 DEF StudioTyped
        <5>3. CASE a = "done"
          <6>1. intent' = [intent EXCEPT ![s].made = @ + 1]
            BY <3>2, <4>2, <5>1, <5>3 DEF DecidedAs
          <6> QED
            BY <1>1, <4>2, <5>2, <5>3, <6>1 DEF StudioTyped
        <5>4. CASE a # "done"
          BY <3>2, <4>2, <5>4 DEF DecidedAs
        <5> QED
          BY <5>3, <5>4
      <4>4. Known(replays'[step[s].key], intent'[s])
        BY <1>8, <1>11, <3>2, <4>1, <4>3 DEF Known, OfIntent
      <4>5. ASSUME NEW x \in writes', Claims(x, s)' PROVE OfIntent(x, s)'
        <5>1. PICK u \in writes : Same(x, u)
          BY <1>7 DEF Fewer
        <5>2. OfIntent(u, s)
          BY <3>0, <3>2, <4>5, <5>1 DEF Claims, Same, IntentKept
        <5> QED
          BY <1>8, <5>1, <5>2 DEF OfIntent, Same
      <4>6. intent'[s].made <= 1 /\ step'[s] = step[s] /\ step[s].at # "refused"
        BY <3>0, <3>2, <4>3 DEF IntentKept
      <4> QED
        BY <1>8, <3>0, <3>2, <4>4, <4>5, <4>6 DEF IntentKept, Known
    <3>3. CASE fresh /\ ~(step[s].key # 0 /\ Claims(w, s))
      <4>1. step[s].key # 0 => replays'[step[s].key] = replays[step[s].key]
        <5>1. step[s].key # 0 => step[s].key \in 1..MaxPresses /\ step[s].key # w.key
          BY <1>1, <3>0, <3>3, StudioBound DEF Claims, StudioTyped, Form, Key
        <5> QED
          BY <1>10, <5>1
      <4>2. intent'[s] = intent[s]
        <5>1. ~(w.step = s /\ intent[s].since = w.since)
          BY <1>2, <3>0, <3>3 DEF IntentKept, Claims
        <5> QED
          BY <1>1, <1>2, <5>1 DEF StudioTyped, DecidedAs
      <4> QED
        BY <1>7, <3>0, <4>1, <4>2, IntentStays
    <3> QED
      BY <3>1, <3>2, <3>3
  <2> QED
    BY <2>1, <2>2
<1> QED
  BY <1>1, <1>12, <1>13, <1>14, <1>15, <1>16, SPartsNext

(* An answer is heard: the page of a new campaign is left for its own, ... *)
LEMMA HearNewKeeps ==
  ASSUME SInv, NEW w \in writes, HearWrite(w), w.answer = "done", w.step = "create"
  PROVE  SInv'
<1>1. /\ StudioTyped /\ Dated /\ OneOfEach /\ OfThePage /\ Unhurried
  BY SParts
<1>2. w.heard /\ writes' = writes \ {w} /\ studio' = [studio EXCEPT !.page = "away"] /\ Left
  BY DEF HearWrite
<1>3. studio.page = "new" /\ ~studioHurried /\ studio.dialog = "none"
  BY <1>1, <1>2 DEF OfThePage, PageOf
<1>4. ASSUME NEW v \in writes', v.heard PROVE FALSE
  <2>1. v \in writes /\ v # w /\ v.step = "create"
    BY <1>1, <1>2, <1>3, <1>4 DEF OfThePage, PageOf
  <2>2. AwaitedByForm(v) /\ AwaitedByForm(w)
    BY <1>1, <1>2, <1>3, <1>4, <2>1 DEF Unhurried
  <2>3. v.id = w.id
    BY <2>1, <2>2 DEF AwaitedByForm
  <2> QED
    BY <1>1, <1>2, <1>4, <2>1, <2>3 DEF OneOfEach
<1>5. studio' \in StudioPage /\ studio'.dialog = "none"
  BY <1>1, <1>2, <1>3 DEF StudioTyped, StudioPage
<1>6. writes' \subseteq Write
  BY <1>1, <1>2 DEF StudioTyped
<1>7. Fewer
  BY <1>2 DEF Fewer, Same
<1> QED
  BY <1>2, <1>4, <1>5, <1>6, <1>7, LeftKeeps

(* ... any other is settled, and shown where its form still observes it.   *)
LEMMA HearOtherKeeps ==
  ASSUME SInv, NEW w \in writes, HearWrite(w), ~(w.answer = "done" /\ w.step = "create")
  PROVE  SInv'
<1> DEFINE s == w.step
           f == Settle(step[s], w.answer)
           seen == step[s].observes = w.id
           form == IF seen THEN [f EXCEPT !.at = w.answer] ELSE f
<1>1. /\ StudioTyped /\ studioHurried \in BOOLEAN /\ Dated /\ ShownAtMostOnce /\ OneOfEach
      /\ OfThePage /\ Unhurried
  BY SParts
<1>2. /\ w.heard /\ w.answer # "none" /\ writes' = writes \ {w}
      /\ studio' = IF w.answer = "done" /\ s \in {"publish", "lifecycle"}
                   THEN [studio EXCEPT !.dialog = "none"] ELSE studio
      /\ step' = [step EXCEPT ![s] = form]
      /\ shown' = IF seen /\ w.answer # "fault" THEN [shown EXCEPT ![w.key] = @ + 1] ELSE shown
      /\ intent' = IF w.answer # "fault" /\ intent[s].since = w.since
                   THEN [intent EXCEPT ![s].since = 0, ![s].asked = Nothing] ELSE intent
      /\ UNCHANGED <<campaign, presses, replays, studioHurried>>
  BY DEF HearWrite
<1>3. /\ w \in Write /\ s \in Step /\ step[s] \in Form /\ step \in [Step -> Form]
      /\ intent \in [Step -> [since : Key, asked : Asked, made : Nat]]
      /\ w.answer \in {"done", "refused", "fault"}
      /\ presses \in Nat /\ w.key \in 1..presses /\ w.key \in 1..MaxPresses /\ w.id # 0
  <2>1. w \in Write /\ presses \in Key /\ w.key \in 1..presses /\ w.id \in 1..presses
    BY <1>1 DEF StudioTyped, Dated
  <2>2. presses \in Nat /\ w.key <= MaxPresses
    BY <2>1, StudioBound DEF Key
  <2> QED
    BY <1>1, <1>2, <2>1, <2>2, StudioBound DEF Write, StudioTyped
<1>4. /\ form \in Form /\ form.observes = step[s].observes
      /\ form.key = IF w.answer = "fault" THEN step[s].key ELSE 0
      /\ w.answer = "fault" => form.asked = step[s].asked
      /\ form.at = IF seen THEN w.answer ELSE step[s].at
  BY <1>3, FormsAre, KeysAre DEF Settle, NoKey, Form
<1> HIDE DEF f, form
<1>5. step'[s] = form /\ \A u \in Step \ {s} : step'[u] = step[u]
  BY <1>2, <1>3
<1>6. /\ intent' \in [Step -> [since : Key, asked : Asked, made : Nat]]
      /\ \A u \in Step \ {s} : intent'[u] = intent[u]
      /\ w.answer = "fault" => intent' = intent
      /\ w.answer # "fault" /\ intent[s].since = w.since =>
           intent'[s].since = 0 /\ intent'[s].made = intent[s].made
      /\ intent'[s].since \in {intent[s].since, 0}
  BY <1>2, <1>3, FormsAre, KeysAre
<1>7. /\ studio' \in StudioPage /\ studio'.page = studio.page
      /\ studio'.dialog \in {studio.dialog, "none"}
      /\ ~InDialog(s) => studio'.dialog = studio.dialog
  BY <1>1, <1>2 DEF StudioTyped, StudioPage, InDialog
<1>8. shown' \in [1..MaxPresses -> Nat] /\ \A k \in 1..MaxPresses : k # w.key => shown'[k] = shown[k]
  BY <1>1, <1>2, <1>3 DEF StudioTyped
<1>9. Fewer /\ Forgets
  <2>1. Fewer
    BY <1>2 DEF Fewer, Same
  <2>2. ASSUME NEW u \in Step
        PROVE  /\ step'[u].key \in {step[u].key, 0}
               /\ step'[u].observes \in {step[u].observes, 0}
               /\ intent'[u].since \in {intent[u].since, 0}
    BY <1>4, <1>5, <1>6
  <2> QED
    BY <2>1, <2>2 DEF Forgets
<1>10. StudioTyped'
  <2>1. step' \in [Step -> Form] /\ writes' \subseteq Write
    BY <1>1, <1>2, <1>3, <1>4 DEF StudioTyped
  <2>2. campaign' \in Campaign /\ presses' \in Key /\ replays' \in [1..MaxPresses -> Replay]
    BY <1>1, <1>2 DEF StudioTyped
  <2> QED
    BY <1>6, <1>7, <1>8, <2>1, <2>2 DEF StudioTyped
<1>11. Dated'
  <2>1. \A k \in 1..MaxPresses : k > presses =>
          shown'[k] = shown[k] /\ replays'[k].answer = replays[k].answer
    BY <1>2, <1>3, <1>8
  <2> QED
    BY <1>1, <1>2, <1>9, <2>1, FewerDated
<1>12. OneOfEach' /\ OfThePage'
  <2>1. \A x, y \in writes' : x.heard /\ y.heard /\ x.id = y.id => x = y
    BY <1>1, <1>2 DEF OneOfEach
  <2> QED
    BY <1>1, <1>2, <1>7, <1>9, <2>1, FewerOfEach, FewerOnThePage
<1>13. ShownAtMostOnce'
  <2> SUFFICES ASSUME NEW k \in 1..MaxPresses
               PROVE  shown'[k] = 0 \/ (shown'[k] = 1 /\ Spent(k)')
    BY DEF ShownAtMostOnce
  <2>1. CASE shown'[k] = shown[k]
    BY <1>1, <1>9, <2>1, FewerSpent DEF ShownAtMostOnce
  <2>2. CASE shown'[k] # shown[k]
    <3>1. k = w.key /\ seen /\ w.answer # "fault" /\ shown'[k] = shown[k] + 1
      BY <1>1, <1>2, <1>3, <1>8, <2>2 DEF StudioTyped
    <3>2. ~Spent(k)
      BY <1>2, <3>1 DEF Spent
    <3>3. shown'[k] = 1
      BY <1>1, <3>1, <3>2 DEF ShownAtMostOnce
    <3>4. ASSUME NEW u \in Step PROVE step'[u].key # k
      <4>1. CASE u = s
        BY <1>3, <1>4, <1>5, <3>1, <4>1
      <4>2. CASE u # s
        BY <1>1, <1>2, <1>5, <3>1, <4>2 DEF OneOfEach
      <4> QED
        BY <4>1, <4>2
    <3>5. ASSUME NEW v \in writes', v.heard, v.key = k PROVE step'[v.step].observes # v.id
      <4>1. v.step = s /\ v.id # w.id
        BY <1>1, <1>2, <3>1, <3>5 DEF OneOfEach
      <4> QED
        BY <1>4, <1>5, <3>1, <4>1
    <3> QED
      BY <3>3, <3>4, <3>5 DEF Spent
  <2> QED
    BY <2>1, <2>2
<1>14. Unhurried'
  <2> SUFFICES ASSUME ~studioHurried
               PROVE  /\ \A x \in writes' : x.heard => AwaitedByForm(x)'
                      /\ \A u \in Step : IntentKept(u)'
    BY <1>2 DEF Unhurried
  <2>1. /\ AwaitedByForm(w) /\ OfIntent(w, s) /\ Known(replays[w.key], intent[s])
        /\ seen /\ intent[s].since = w.since /\ intent[s].made <= 1
    BY <1>2, HeardIsOfIntent DEF AwaitedByForm
  <2>2. ASSUME NEW x \in writes', x.heard PROVE AwaitedByForm(x)'
    <3>1. AwaitedByForm(x) /\ x.step \in Step /\ x \in writes /\ x # w
      BY <1>1, <1>2, <2>2 DEF Unhurried, StudioTyped, Write
    <3>2. x.step # s
      BY <1>1, <1>2, <2>1, <2>2, <3>1 DEF AwaitedByForm, OneOfEach
    <3>3. step'[x.step] = step[x.step] /\ intent'[x.step] = intent[x.step]
      BY <1>5, <1>6, <3>1, <3>2
    <3>4. InDialog(x.step) => studio'.dialog = studio.dialog
      BY <1>7, <2>1, <3>1, <3>2 DEF AwaitedByForm
    <3>5. UNCHANGED replays
      BY <1>2
    <3> QED
      BY <3>1, <3>3, <3>4, <3>5 DEF AwaitedByForm
  <2>3. ASSUME NEW u \in Step, u # s PROVE IntentKept(u)'
    <3>1. IntentKept(u) /\ step'[u] = step[u] /\ intent'[u] = intent[u]
      BY <1>1, <1>5, <1>6, <2>3 DEF Unhurried
    <3> QED
      BY <1>2, <1>9, <3>1, IntentStays
  <2>4. IntentKept(s)
    BY <1>1, <1>3 DEF Unhurried
  <2>5. ASSUME w.answer = "fault" PROVE IntentKept(s)'
    <3>1. step'[s].key = step[s].key /\ step'[s].asked = step[s].asked /\ step'[s].at = "fault"
          /\ intent'[s] = intent[s]
      BY <1>4, <1>5, <1>6, <2>1, <2>5
    <3> QED
      BY <1>2, <1>3, <1>9, <2>4, <3>1, IntentStays
  <2>6. ASSUME w.answer # "fault" PROVE IntentKept(s)'
    <3>1. step'[s].key = 0 /\ step'[s].at = w.answer /\ intent'[s].since = 0
          /\ intent'[s].made = intent[s].made
      BY <1>4, <1>5, <1>6, <2>1, <2>6
    <3>2. w.answer = "refused" => intent[s].made # 1
      BY <2>1 DEF AwaitedByForm, Known
    <3>3. w.answer = "refused" => intent[s].made = 0
      BY <1>3, <2>1, <3>2
    <3> QED
      BY <1>3, <2>1, <3>1, <3>3, IntentCleared
  <2> QED
    BY <2>2, <2>3, <2>5, <2>6
<1> QED
  BY <1>1, <1>2, <1>10, <1>11, <1>12, <1>13, <1>14, SPartsNext

LEMMA StudioStep == ASSUME SInv, [StudioOfficer \/ StudioService]_studioVars PROVE SInv'
<1>1. CASE UNCHANGED studioVars
  <2>1. /\ StudioTyped /\ studioHurried \in BOOLEAN /\ OfThePage
    BY SParts
  <2>2. UNCHANGED <<campaign, studio, step, writes, presses, replays, intent, shown, studioHurried>>
    BY <1>1 DEF studioVars
  <2>3. StudioTyped' /\ studioHurried' \in BOOLEAN /\ OfThePage'
    BY <2>1, <2>2 DEF StudioTyped, OfThePage, PageOf
  <2> QED
    BY <2>2, <2>3, QuietKeeps
<1>2. CASE OpenNew \/ OpenStudio \/ Reread \/ CancelDialog \/ \E a \in Asked : AnotherOfficer(a)
  BY <1>2, PagesKeep
<1>3. CASE LeaveStudio
  BY <1>3, LeaveKeeps
<1>4. CASE \E s \in Typed, t \in Text : Edit(s, t)
  BY <1>4, EditKeeps
<1>5. CASE \E c \in Closing \cup {"publish"} : OpenDialog(c)
  BY <1>5, OpenDialogKeeps
<1>6. CASE \E c \in Command : PressCommand(c)
  BY <1>6, PressKeeps
<1>7. CASE \E w \in writes : HearWrite(w)
  BY <1>7, HearNewKeeps, HearOtherKeeps
<1>8. CASE \E w \in writes : DecideWrite(w) \/ LoseWrite(w)
  <2>1. PICK w \in writes : DecideWrite(w) \/ LoseWrite(w)
    BY <1>8
  <2>2. CASE LoseWrite(w)
    BY <2>2, LoseKeeps
  <2>3. CASE DecideWrite(w)
    <3>1. PICK a \in Answers(w) : DecidedAs(w, a)
      BY <2>3, Zenon DEF DecideWrite, DecidedAs
    <3>2. UNCHANGED <<studio, step, presses, shown, studioHurried>>
      BY <2>3 DEF DecideWrite
    <3> QED
      BY <3>1, <3>2, DecideKeeps
  <2> QED
    BY <2>1, <2>2, <2>3
<1> QED
  BY <1>1, <1>2, <1>3, <1>4, <1>5, <1>6, <1>7, <1>8 DEF StudioOfficer, StudioService

(* The studio is one room of the console: what another room does leaves it *)
(* as it was.                                                              *)
LEMMA StudioIsKept == ConsoleSpec => []SInv
<1>1. ConsoleInit => SInv
  BY SInvInit DEF ConsoleInit
<1>2. ASSUME SInv, [ConsoleNext]_consoleVars PROVE SInv'
  <2>1. CASE InTheStudio
    BY <1>2, <2>1, StudioStep DEF InTheStudio
  <2>2. CASE AtTheQueues \/ AtTheRegister \/ AtTheRequests \/ UNCHANGED consoleVars
    <3>1. UNCHANGED studioVars
      BY <2>2 DEF AtTheQueues, AtTheRegister, AtTheRequests, consoleVars
    <3> QED
      BY <1>2, <3>1, StudioStep
  <2> QED
    BY <1>2, <2>1, <2>2 DEF ConsoleNext
<1> QED
  BY <1>1, <1>2, PTL DEF ConsoleSpec

(* The studio's variables keep their types: no form, request or intent     *)
(* ever holds a key that no press made (useIntentKey, StudioPage.tsx).     *)
THEOREM StudioTypeCorrect == ConsoleSpec => []StudioTypeOK
<1>1. SInv => StudioTypeOK
  BY DEF SInv
<1> QED
  BY <1>1, StudioIsKept, PTL

(* No stored answer is put to an officer twice, whatever is lost, edited,  *)
(* pressed again or answered late: a key whose answer was shown is gone    *)
(* from every form, and no form observes a request under it (settle in     *)
(* useIntentKey, and the mutations' observers).                            *)
THEOREM AnswersAreShownOnce == ConsoleSpec => []AnswerShownOnce
<1>1. ASSUME SInv PROVE AnswerShownOnce
  <2>1. shown \in [1..MaxPresses -> Nat]
    BY <1>1, SParts DEF StudioTyped
  <2>2. ShownAtMostOnce
    BY <1>1 DEF SInv
  <2> QED
    BY <2>1, <2>2 DEF ShownAtMostOnce, AnswerShownOnce
<1> QED
  BY <1>1, StudioIsKept, PTL

(* A lost response replays instead of duplicating: an intent is carried    *)
(* out at most once, and what was done is not told as refused, unless the  *)
(* officer edits a session while it is being saved (useIntentKey and the   *)
(* edge's stored answers).                                                 *)
THEOREM IntentsAreWrittenOnce == ConsoleSpec => []WrittenOnce
<1>1. ASSUME SInv PROVE WrittenOnce
  <2>1. Unhurried
    BY <1>1 DEF SInv
  <2> QED
    BY <2>1 DEF Unhurried, IntentKept, WrittenOnce
<1> QED
  BY <1>1, StudioIsKept, PTL
=============================================================================
