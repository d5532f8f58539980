------------------------------ MODULE Register ------------------------------
(***************************************************************************)
(* The applications list (packages/features/applications/src/ui/           *)
(* ApplicationsPage.tsx): page one is a cached query of the filters, "load *)
(* more" appends the pages behind its cursor by hand, and the filters, the *)
(* cache and the visit may all have changed when such a page arrives.      *)
(*                                                                         *)
(* A read is named by the time it was answered, dataUpdatedAt; no two are  *)
(* answered within one millisecond. A page is named by the read whose      *)
(* cursor led to it and its number; page one by its read alone.            *)
(***************************************************************************)
EXTENDS Naturals, Sequences

CONSTANTS
  Filter,       \* filter sets an officer applies
  AllFilter,    \* EMPTY_FILTERS
  LastPage,     \* pages of a list, at most
  MaxReads,     \* bound: reads of a page one
  MaxLoads      \* bound: presses of "load more"

ASSUME RegisterBounds == AllFilter \in Filter /\ {LastPage, MaxReads, MaxLoads} \subseteq Nat

VARIABLES
  register,     \* the page: filters, the extra pages, whether a load is under way
  cache,        \* the query of each filter set: its last read, and where it ends
  fetching,     \* filter sets whose page one is being read
  loads,        \* loadMore calls under way, with what their closure holds
  reads, pressed

registerVars == <<register, cache, fetching, loads, reads, pressed>>

Page == [read : 1..MaxReads, n : 2..LastPage]
NoCursor == [read |-> 0, n |-> 0]
NoMore == [rows |-> <<>>, cursor |-> NoCursor, forUpdatedAt |-> 0]
NoRead == [at |-> 0, cursor |-> NoCursor]
Away == [at |-> "away", filters |-> AllFilter, more |-> NoMore, busy |-> FALSE]

(* A page of the list of read r, and the cursor behind it, if it is not    *)
(* the last; where a list ends is the service's to say.                    *)
CursorsAfter(r, n) == {NoCursor} \cup IF n < LastPage THEN {[read |-> r, n |-> n + 1]} ELSE {}

RegisterInit ==
  /\ register = Away
  /\ cache = [f \in Filter |-> NoRead] /\ fetching = {}
  /\ loads = {} /\ reads = 0 /\ pressed = 0

(* The pages a render shows after page one: those of exactly this read.    *)
MoreOf(p) == IF p.more.forUpdatedAt = cache[p.filters].at /\ p.more # NoMore
             THEN p.more ELSE NoMore
NextCursor == LET more == MoreOf(register) IN
              IF more # NoMore THEN more.cursor ELSE cache[register.filters].cursor

(* A query that is observed is read when it has no data, or when what it   *)
(* has is stale or was invalidated; it may also be fresh.                  *)
Observed(f) == \/ cache[f].at = 0 /\ fetching' = fetching \cup {f}
               \/ cache[f].at # 0 /\ fetching' \in {fetching, fetching \cup {f}}

OpenRegister ==
  /\ register.at = "away"
  /\ register' = [Away EXCEPT !.at = "list"]
  /\ Observed(AllFilter)
  /\ UNCHANGED <<cache, loads, reads, pressed>>

(* State and calls of the page are forgotten with it; the cache is not.    *)
LeaveRegister ==
  /\ register.at = "list"
  /\ register' = Away
  /\ loads' = {}
  /\ UNCHANGED <<cache, fetching, reads, pressed>>

(* apply: moreBusy is left as it is.                                       *)
ApplyFilters(f) ==
  /\ register.at = "list"
  /\ register' = [register EXCEPT !.more = NoMore, !.filters = f]
  /\ IF f = register.filters THEN UNCHANGED fetching ELSE Observed(f)
  /\ UNCHANGED <<cache, loads, reads, pressed>>

(* The retry button, a reconnection, or an officer's write elsewhere.      *)
RereadPageOne ==
  /\ register.at = "list"
  /\ fetching' = fetching \cup {register.filters} /\ fetching' # fetching
  /\ UNCHANGED <<register, cache, loads, reads, pressed>>

AnswerPageOne(f) ==
  /\ f \in fetching /\ fetching' = fetching \ {f}
  /\ reads < MaxReads /\ reads' = reads + 1
  /\ \E c \in CursorsAfter(reads', 1) : cache' = [cache EXCEPT ![f] = [at |-> reads', cursor |-> c]]
  /\ UNCHANGED <<register, loads, pressed>>

LosePageOne(f) ==
  /\ f \in fetching /\ fetching' = fetching \ {f}
  /\ UNCHANGED <<register, cache, loads, reads, pressed>>

(* loadMore keeps, across its await, the rows, the cursor and the read of  *)
(* the render it was pressed in.                                           *)
LoadMore ==
  /\ register.at = "list" /\ ~register.busy /\ NextCursor # NoCursor
  /\ pressed < MaxLoads /\ pressed' = pressed + 1
  /\ loads' = loads \cup {[rows |-> MoreOf(register).rows, cursor |-> NextCursor,
                           updatedAt |-> cache[register.filters].at]}
  /\ register' = [register EXCEPT !.busy = TRUE]
  /\ UNCHANGED <<cache, fetching, reads>>

MarkedOnArrival(call, c) ==   \* mutant: it belongs to the read on the screen
  [rows |-> Append(call.rows, call.cursor), cursor |-> c, forUpdatedAt |-> cache[register.filters].at]
Appended(call, c) ==
  [rows |-> Append(call.rows, call.cursor), cursor |-> c, forUpdatedAt |-> call.updatedAt]

HearMore(call) ==
  /\ loads' = loads \ {call}
  /\ \/ \E c \in CursorsAfter(call.cursor.read, call.cursor.n) :
          register' = [register EXCEPT !.more = Appended(call, c), !.busy = FALSE]
     \/ register' = [register EXCEPT !.busy = FALSE]     \* the read failed
  /\ UNCHANGED <<cache, fetching, reads, pressed>>

RegisterNext ==
  \/ OpenRegister \/ LeaveRegister \/ RereadPageOne \/ LoadMore
  \/ \E f \in Filter : ApplyFilters(f) \/ AnswerPageOne(f) \/ LosePageOne(f)
  \/ \E call \in loads : HearMore(call)

RegisterSpec == RegisterInit /\ [][RegisterNext]_registerVars

-----------------------------------------------------------------------------
(* Properties                                                              *)

More == [rows : Seq(Page), cursor : Page \cup {NoCursor}, forUpdatedAt : 0..MaxReads]
RegisterTypeOK ==
  /\ register \in [at : {"away", "list"}, filters : Filter, more : More, busy : BOOLEAN]
  /\ loads \subseteq [rows : Seq(Page), cursor : Page, updatedAt : 1..MaxReads]
  /\ cache \in [Filter -> [at : 0..MaxReads, cursor : Page \cup {NoCursor}]]
  /\ fetching \subseteq Filter /\ reads \in 0..MaxReads /\ pressed \in 0..MaxLoads

(* "Extra pages belong to the exact first page they followed": whatever is *)
(* applied, read again or left while a page is on its way, the list on the *)
(* screen is one list, page after page, of the filters it stands under.    *)
PagesFollowOn ==
  register.at = "list" =>
    LET rows == MoreOf(register).rows IN
    \A i \in DOMAIN rows : rows[i] = [read |-> cache[register.filters].at, n |-> i + 1]
=============================================================================
