---------------------------- MODULE LedgerProofs ----------------------------
(***************************************************************************)
(* What the field ledger guarantees, for any number of records, of applies *)
(* and of faults. With any number of tabs it keeps its types: no sequence  *)
(* ever runs past the number of captures (Counted), because no two jobs    *)
(* append one record (Jobs). With one tab more is true, and only then: the *)
(* sequence read is still the last one when the record is put, and the     *)
(* row an apply read is still the row it writes (Current).                 *)
(***************************************************************************)
EXTENDS Ledger, TLAPS, FiniteSetTheorems, SequenceTheorems, WellFoundedInduction

IsAppend(j) == j.kind = "append"
Place(t) == 1..Len(tail[t])

(* Every append on a tail is of a record of its own, not stored yet.       *)
Jobs ==
  /\ \A t \in Tab : \A k \in Place(t) : IsAppend(tail[t][k]) =>
       tail[t][k].id <= asked /\ tail[t][k].id \notin Stored
  /\ \A t, u \in Tab : \A k \in Place(t), l \in Place(u) :
       /\ IsAppend(tail[t][k]) /\ IsAppend(tail[u][l])
       /\ tail[t][k].id = tail[u][l].id
       => t = u /\ k = l
  /\ \A i \in Stored : i <= asked

(* Where a job is between its awaits says what it is.                      *)
Phases == \A t \in Tab :
  /\ phase[t] \in {"sequenced", "signed"} => tail[t] # <<>> /\ IsAppend(Head(tail[t]))
  /\ phase[t] = "got" => /\ tail[t] # <<>> /\ Head(tail[t]).kind = "apply"
                         /\ Head(tail[t]).id \in Stored

Counted ==
  /\ \A i \in Id : rows[i].seq <= Cardinality(Stored)
  /\ \A t \in Tab : read[t].seq <= Cardinality(Stored)

LInv == LedgerTypeOK /\ Jobs /\ Phases /\ Counted

(* One tab: the appends on its tail are in order, after all that is        *)
(* stored, and what its job read is still so.                              *)
OneTab == \A t, u \in Tab : t = u
Ordered == \A t \in Tab : \A k \in Place(t) : IsAppend(tail[t][k]) =>
  /\ \A i \in Stored : i < tail[t][k].id
  /\ \A l \in Place(t) : l < k /\ IsAppend(tail[t][l]) => tail[t][l].id < tail[t][k].id
Current == \A t \in Tab :
  /\ phase[t] \in {"sequenced", "signed"} => read[t].seq = Cardinality(Stored)
  /\ phase[t] = "got" => read[t] = rows[Head(tail[t]).id]

OInv == LInv /\ Ordered /\ Current /\ InCaptureOrder

-----------------------------------------------------------------------------
(* Numbers and jobs                                                        *)

(* A set of naturals has a least element.                                  *)
LEMMA Least ==
  ASSUME NEW T \in SUBSET Nat, T # {} PROVE \E x \in T : \A y \in T : x <= y
<1>1. IsWellFoundedOn(OpToRel(<, Nat), Nat)
  BY NatLessThanWellFounded
<1> DEFINE R == {ss \in Nat \X Nat : ss[1] < ss[2]}
<1>2. IsWellFoundedOn(R, Nat)
  BY <1>1 DEF OpToRel
<1> HIDE DEF R
<1>3. PICK x \in T : \A y \in T : ~ (<<y, x>> \in R)
  BY <1>2, WFMin
<1>4. \A y \in T : x <= y
  <2>1. ASSUME NEW y \in T PROVE ~ (y < x)
    <3>1. y \in Nat /\ x \in Nat
      OBVIOUS
    <3>2. ~ (<<y, x>> \in R)
      BY <1>3
    <3>3. <<y, x>> \in Nat \X Nat
      BY <3>1
    <3> QED
      BY <3>2, <3>3 DEF R
  <2> QED
    BY <2>1
<1> QED
  BY <1>4

(* The highest sequence stored exists and is one.                          *)
LEMMA LastSequenceIsStored ==
  ASSUME LedgerTypeOK
  PROVE  /\ LastSequence \in 0..MaxRecords
         /\ \A i \in Id : rows[i].seq <= LastSequence
         /\ LastSequence = 0 \/ \E i \in Id : rows[i].seq = LastSequence
<1> USE LedgerBounds
<1>0. \A i \in Id : rows[i].seq \in 0..MaxRecords
  BY DEF LedgerTypeOK
<1> DEFINE T == {n \in 0..MaxRecords : \A i \in Id : rows[i].seq <= n}
<1>1. T \in SUBSET Nat /\ MaxRecords \in T
  BY <1>0
<1>2. PICK n \in T : \A y \in T : n <= y
  <2> HIDE DEF T
  <2> QED
    BY <1>1, Least
<1>3. n = 0 \/ \E i \in Id : rows[i].seq = n
  <2> SUFFICES ASSUME n # 0 PROVE \E i \in Id : rows[i].seq = n
    OBVIOUS
  <2>1. n - 1 \in 0..MaxRecords /\ n - 1 \notin T
    BY <1>2
  <2>2. PICK i \in Id : ~ (rows[i].seq <= n - 1)
    BY <2>1
  <2> QED
    BY <2>2, <1>0, <1>2
<1> DEFINE Last(m) == /\ \A i \in Id : rows[i].seq <= m
                      /\ m = 0 \/ \E i \in Id : rows[i].seq = m
<1>4. n \in 0..MaxRecords /\ Last(n)
  BY <1>2, <1>3
<1>5. LastSequence = CHOOSE m \in 0..MaxRecords : Last(m)
  BY Zenon DEF LastSequence
<1>6. LastSequence \in 0..MaxRecords /\ Last(LastSequence)
  <2> HIDE DEF Last
  <2> QED
    BY <1>4, <1>5, Zenon
<1> QED
  BY <1>6

(* The records stored are finitely many, and one more is one more.         *)
LEMMA StoredIsFinite ==
  /\ IsFiniteSet(Stored) /\ Cardinality(Stored) \in 0..MaxRecords
  /\ \A i \in Id \ Stored : /\ Cardinality(Stored \cup {i}) = Cardinality(Stored) + 1
                            /\ Cardinality(Stored) + 1 <= MaxRecords
<1> USE LedgerBounds
<1>1. IsFiniteSet(Id) /\ Cardinality(Id) = MaxRecords
  BY FS_Interval DEF Id
<1>2. Stored \in SUBSET Id
  BY DEF Stored
<1>3. IsFiniteSet(Stored) /\ Cardinality(Stored) <= MaxRecords
  BY <1>1, <1>2, FS_Subset
<1>4. Cardinality(Stored) \in Nat
  BY <1>3, FS_CardinalityType
<1>5. ASSUME NEW i \in Id, i \notin Stored
      PROVE  /\ Cardinality(Stored \cup {i}) = Cardinality(Stored) + 1
             /\ Cardinality(Stored) + 1 <= MaxRecords
  <2>1. Cardinality(Stored \cup {i}) = Cardinality(Stored) + 1
    BY <1>3, <1>5, FS_AddElement
  <2>2. Stored \cup {i} \in SUBSET Id
    BY <1>2
  <2>3. Cardinality(Stored \cup {i}) <= MaxRecords
    BY <1>1, <2>2, FS_Subset
  <2> QED
    BY <2>1, <2>3
<1> QED
  BY <1>3, <1>4, <1>5

LEMMA JobIsJob ==
  ASSUME NEW j \in Job
  PROVE  j.id \in Id /\ j.kind \in {"append", "apply"} /\ (j.kind = "apply" => j.event \in Event)
BY DEF Job

(* What the machine says is a state.                                       *)
LEMMA TargetIsState ==
  ASSUME NEW e \in Event PROVE Target(e) \in SyncState
<1>1. e.type \in {"SEND", "SEND_UNCERTAIN", "ACK"} /\ (e.type = "ACK" => e.outcome = "ACCEPTED")
  BY DEF Event
<1> QED
  BY <1>1 DEF Target, SyncState, WaitingState

(* The head of a tail and the rest of it.                                  *)
LEMMA HeadOfTail ==
  ASSUME LedgerTypeOK, NEW t \in Tab, tail[t] # <<>>
  PROVE  /\ Head(tail[t]) \in Job /\ Head(tail[t]) = tail[t][1] /\ 1 \in Place(t)
         /\ Tail(tail[t]) \in Seq(Job) /\ Len(Tail(tail[t])) = Len(tail[t]) - 1
         /\ \A k \in 1..Len(Tail(tail[t])) : Tail(tail[t])[k] = tail[t][k + 1] /\ k + 1 \in Place(t)
<1>1. tail[t] \in Seq(Job)
  BY DEF LedgerTypeOK
<1>2. /\ Head(tail[t]) \in Job /\ Tail(tail[t]) \in Seq(Job)
      /\ Len(Tail(tail[t])) = Len(tail[t]) - 1
      /\ \A k \in 1..Len(Tail(tail[t])) : Tail(tail[t])[k] = tail[t][k + 1]
  BY <1>1, HeadTailProperties
<1>3. Len(tail[t]) \in Nat /\ Len(tail[t]) # 0
  BY <1>1, EmptySeq, LenProperties
<1>4. 1 \in Place(t) /\ \A k \in 1..Len(Tail(tail[t])) : k + 1 \in Place(t)
  BY <1>2, <1>3 DEF Place
<1>5. Head(tail[t]) = tail[t][1]
  BY <1>1
<1> QED
  BY <1>2, <1>4, <1>5

-----------------------------------------------------------------------------
(* The initial state, and what the steps do to the jobs and to the rows    *)

LEMMA InitLInv == LedgerInit => OInv
<1> SUFFICES ASSUME LedgerInit PROVE OInv
  OBVIOUS
<1> USE LedgerBounds
<1>1. Nothing \in [seq : 0..MaxRecords, state : SyncState]
  BY DEF Nothing, SyncState
<1>2. LedgerTypeOK
  <2>1. \A t \in Tab : tail[t] \in Seq(Job)
    BY EmptySeq DEF LedgerInit
  <2> QED
    BY <1>1, <2>1 DEF LedgerInit, LedgerTypeOK, Phase
<1>3. Stored = {}
  BY DEF LedgerInit, Stored, Nothing
<1>4. Cardinality(Stored) = 0
  BY <1>3, FS_EmptySet
<1>5. \A t \in Tab : Place(t) = {}
  BY EmptySeq DEF LedgerInit, Place
<1>6. Jobs /\ Ordered
  BY <1>3, <1>5 DEF Jobs, Ordered
<1>7. Phases /\ Counted /\ Current
  BY <1>4, <1>2 DEF LedgerInit, Phases, Counted, Current, Nothing
<1>8. InCaptureOrder
  BY <1>3, <1>4 DEF InCaptureOrder
<1> QED
  BY <1>2, <1>6, <1>7, <1>8 DEF OInv, LInv

(* Jobs leave a tail at its head: what is left was there before.           *)
Shift(d) == \A u \in Tab : \A k \in Place(u)' :
  k + d[u] \in Place(u) /\ tail'[u][k] = tail[u][k + d[u]]

LEMMA SettleShifts ==
  ASSUME LedgerTypeOK, NEW t \in Tab, tail[t] # <<>>, Settle(t)
  PROVE  Shift([u \in Tab |-> IF u = t THEN 1 ELSE 0])
<1> DEFINE d == [u \in Tab |-> IF u = t THEN 1 ELSE 0]
<1>1. tail' = [tail EXCEPT ![t] = Tail(tail[t])]
  BY DEF Settle
<1>2. ASSUME NEW u \in Tab, NEW k \in Place(u)'
      PROVE  k + d[u] \in Place(u) /\ tail'[u][k] = tail[u][k + d[u]]
  <2>1. CASE u = t
    <3>1. tail'[u] = Tail(tail[t])
      BY <1>1, <2>1 DEF LedgerTypeOK
    <3>2. k \in 1..Len(Tail(tail[t]))
      BY <3>1 DEF Place
    <3> QED
      BY <2>1, <3>1, <3>2, HeadOfTail
  <2>2. CASE u # t
    <3>1. tail'[u] = tail[u]
      BY <1>1, <2>2 DEF LedgerTypeOK
    <3>2. k \in Place(u) /\ k + 0 = k
      BY <3>1 DEF Place
    <3> QED
      BY <2>2, <3>1, <3>2
  <2> QED
    BY <2>1, <2>2
<1> QED
  BY <1>2 DEF Shift

LEMMA CrashShifts ==
  ASSUME LedgerTypeOK, NEW t \in Tab, tail' = [tail EXCEPT ![t] = <<>>]
  PROVE  Shift([u \in Tab |-> 0])
<1>1. ASSUME NEW u \in Tab, NEW k \in Place(u)' PROVE k \in Place(u) /\ tail'[u][k] = tail[u][k] /\ k + 0 = k
  <2>1. u # t
    BY EmptySeq DEF Place, LedgerTypeOK
  <2> QED
    BY <2>1 DEF Place, LedgerTypeOK
<1> QED
  BY <1>1 DEF Shift

LEMMA JobsAfterShift ==
  ASSUME LedgerTypeOK, Jobs, NEW d \in [Tab -> Nat], Shift(d), asked' = asked,
         \A i \in Stored' : i <= asked,
         \A u \in Tab : \A k \in Place(u)' : IsAppend(tail'[u][k]) => tail'[u][k].id \notin Stored'
  PROVE  Jobs'
<1>1. ASSUME NEW u \in Tab, NEW k \in Place(u)', IsAppend(tail'[u][k])
      PROVE  tail'[u][k].id <= asked'
  BY <1>1 DEF Jobs, Shift
<1>2. ASSUME NEW u \in Tab, NEW v \in Tab, NEW k \in Place(u)', NEW l \in Place(v)',
             IsAppend(tail'[u][k]), IsAppend(tail'[v][l]), tail'[u][k].id = tail'[v][l].id
      PROVE  u = v /\ k = l
  <2>1. k + d[u] \in Place(u) /\ l + d[v] \in Place(v)
    BY DEF Shift
  <2>2. u = v /\ k + d[u] = l + d[v]
    BY <1>2, <2>1 DEF Jobs, Shift
  <2>3. k \in Int /\ l \in Int /\ d[u] \in Int
    BY DEF Place
  <2> QED
    BY <2>2, <2>3
<1> QED
  BY <1>1, <1>2 DEF Jobs, IsAppend, Place

LEMMA OrderAfterShift ==
  ASSUME LedgerTypeOK, Ordered, NEW d \in [Tab -> Nat], Shift(d),
         \A u \in Tab : \A k \in Place(u)' : IsAppend(tail'[u][k]) =>
           \A i \in Stored' \ Stored : i < tail'[u][k].id
  PROVE  Ordered'
<1>1. ASSUME NEW u \in Tab, NEW k \in Place(u)', IsAppend(tail'[u][k])
      PROVE  /\ \A i \in Stored' : i < tail'[u][k].id
             /\ \A l \in Place(u)' : l < k /\ IsAppend(tail'[u][l]) => tail'[u][l].id < tail'[u][k].id
  <2>1. k + d[u] \in Place(u) /\ tail'[u][k] = tail[u][k + d[u]]
    BY DEF Shift
  <2>2. \A i \in Stored : i < tail'[u][k].id
    BY <1>1, <2>1 DEF Ordered
  <2>3. ASSUME NEW l \in Place(u)', l < k, IsAppend(tail'[u][l]) PROVE tail'[u][l].id < tail'[u][k].id
    <3>1. l + d[u] \in Place(u) /\ tail'[u][l] = tail[u][l + d[u]]
      BY DEF Shift
    <3>2. l + d[u] < k + d[u]
      BY <2>3 DEF Place
    <3> QED
      BY <1>1, <2>1, <2>3, <3>1, <3>2 DEF Ordered
  <2> QED
    BY <1>1, <2>2, <2>3
<1> QED
  BY <1>1 DEF Ordered, IsAppend, Place

(* A request goes behind everything on its tail.                           *)
Chained(t, j) == tail' = [tail EXCEPT ![t] = Append(@, j)]

LEMMA RequestAdds ==
  ASSUME LedgerTypeOK, NEW t \in Tab, NEW j \in Job, Chained(t, j)
  PROVE  /\ tail' \in [Tab -> Seq(Job)]
         /\ Place(t)' = Place(t) \cup {Len(tail[t]) + 1} /\ Len(tail[t]) + 1 \notin Place(t)
         /\ tail'[t][Len(tail[t]) + 1] = j /\ tail'[t] # <<>>
         /\ \A k \in Place(t) : tail'[t][k] = tail[t][k] /\ k < Len(tail[t]) + 1
         /\ \A u \in Tab \ {t} : tail'[u] = tail[u] /\ Place(u)' = Place(u)
         /\ tail[t] # <<>> => Head(tail'[t]) = Head(tail[t])
<1>1. tail[t] \in Seq(Job)
  BY DEF LedgerTypeOK
<1>2. /\ Append(tail[t], j) \in Seq(Job) /\ Append(tail[t], j) # <<>>
      /\ Len(Append(tail[t], j)) = Len(tail[t]) + 1
      /\ \A k \in 1..Len(tail[t]) : Append(tail[t], j)[k] = tail[t][k]
      /\ Append(tail[t], j)[Len(tail[t]) + 1] = j
  BY <1>1, AppendProperties
<1>3. tail'[t] = Append(tail[t], j)
  BY DEF LedgerTypeOK, Chained
<1>4. tail' \in [Tab -> Seq(Job)]
  BY <1>2 DEF LedgerTypeOK, Chained
<1>5. \A u \in Tab \ {t} : tail'[u] = tail[u] /\ Place(u)' = Place(u)
  BY DEF LedgerTypeOK, Place, Chained
<1>6. Len(tail[t]) \in Nat
  BY <1>1, LenProperties
<1>7. /\ Place(t)' = Place(t) \cup {Len(tail[t]) + 1} /\ Len(tail[t]) + 1 \notin Place(t)
      /\ \A k \in Place(t) : k < Len(tail[t]) + 1
  BY <1>2, <1>3, <1>6 DEF Place
<1>8. tail[t] # <<>> => Head(tail'[t]) = Head(tail[t])
  <2> SUFFICES ASSUME tail[t] # <<>> PROVE Head(tail'[t]) = Head(tail[t])
    OBVIOUS
  <2>1. 1 \in 1..Len(tail[t])
    BY <1>1, EmptySeq
  <2>2. Head(Append(tail[t], j)) = Append(tail[t], j)[1] /\ Head(tail[t]) = tail[t][1]
    BY <1>1, <1>2
  <2> QED
    BY <1>2, <1>3, <2>1, <2>2
<1> QED
  BY <1>2, <1>3, <1>4, <1>5, <1>7, <1>8 DEF Place

LEMMA SameRows ==
  ASSUME rows' = rows
  PROVE  Stored' = Stored /\ Cardinality(Stored)' = Cardinality(Stored) /\ (InCaptureOrder => InCaptureOrder')
BY DEF Stored, InCaptureOrder

(* Settling types and clears the tab that settles.                         *)
LEMMA SettleTypes ==
  ASSUME LedgerTypeOK, NEW t \in Tab, tail[t] # <<>>, Settle(t)
  PROVE  /\ tail' \in [Tab -> Seq(Job)] /\ phase' \in [Tab -> Phase]
         /\ read' \in [Tab -> [seq : 0..MaxRecords, state : SyncState]]
         /\ phase'[t] = "idle" /\ read'[t] = Nothing
         /\ \A u \in Tab \ {t} : phase'[u] = phase[u] /\ read'[u] = read[u] /\ tail'[u] = tail[u]
<1>1. Nothing \in [seq : 0..MaxRecords, state : SyncState]
  BY LedgerBounds DEF Nothing, SyncState
<1> QED
  BY <1>1, HeadOfTail DEF Settle, LedgerTypeOK, Phase

(* A put stores the record its job names, which was not stored.            *)
LEMMA PutStores ==
  ASSUME LInv, NEW t \in Tab, Put(t)
  PROVE  /\ tail[t] # <<>> /\ IsAppend(Head(tail[t]))
         /\ Head(tail[t]).id \in Id \ Stored /\ Head(tail[t]).id <= asked
         /\ Stored' = Stored \cup {Head(tail[t]).id}
         /\ Cardinality(Stored)' = Cardinality(Stored) + 1
         /\ rows' = [rows EXCEPT ![Head(tail[t]).id] = [seq |-> read[t].seq + 1, state |-> "LOCAL_ONLY"]]
         /\ rows' \in [Id -> [seq : 0..MaxRecords, state : SyncState]]
<1> DEFINE i == Head(tail[t]).id
<1>1. tail[t] # <<>> /\ IsAppend(Head(tail[t])) /\ phase[t] = "signed"
  BY DEF LInv, Phases, Put
<1>2. Head(tail[t]) = tail[t][1] /\ 1 \in Place(t) /\ i \in Id
  BY <1>1, HeadOfTail, JobIsJob DEF LInv
<1>3. i \notin Stored /\ i <= asked
  BY <1>1, <1>2 DEF LInv, Jobs
<1>4. rows' = [rows EXCEPT ![i] = [seq |-> read[t].seq + 1, state |-> "LOCAL_ONLY"]]
  BY DEF Put
<1>5. read[t].seq \in Nat /\ read[t].seq <= Cardinality(Stored)
  BY DEF LInv, LedgerTypeOK, Counted
<1>6. Cardinality(Stored) + 1 <= MaxRecords /\ Cardinality(Stored \cup {i}) = Cardinality(Stored) + 1
      /\ Cardinality(Stored) \in Nat
  BY <1>2, <1>3, StoredIsFinite
<1>7. read[t].seq + 1 \in 0..MaxRecords
  BY <1>5, <1>6, LedgerBounds
<1>8. rows' \in [Id -> [seq : 0..MaxRecords, state : SyncState]]
  BY <1>2, <1>4, <1>7 DEF LInv, LedgerTypeOK, SyncState
<1>9. Stored' = Stored \cup {i}
  BY <1>2, <1>4, <1>5 DEF Stored, LInv, LedgerTypeOK
<1> QED
  BY <1>1, <1>2, <1>3, <1>4, <1>6, <1>8, <1>9

(* A set writes the state of a record that is stored, and nothing else.    *)
LEMMA SetWrites ==
  ASSUME LInv, NEW t \in Tab, Set(t)
  PROVE  /\ tail[t] # <<>> /\ Head(tail[t]).kind = "apply" /\ Head(tail[t]).event \in Event
         /\ Head(tail[t]).id \in Stored
         /\ rows' \in [Id -> [seq : 0..MaxRecords, state : SyncState]]
         /\ \A i \in Id : rows'[i].seq = rows[i].seq
         /\ Stored' = Stored /\ Cardinality(Stored)' = Cardinality(Stored)
         /\ InCaptureOrder => InCaptureOrder'
<1> DEFINE j == Head(tail[t])
<1>1. tail[t] # <<>> /\ j.kind = "apply" /\ j.id \in Stored
  BY DEF LInv, Phases, Set
<1>2. j.event \in Event /\ j.id \in Id
  BY <1>1, HeadOfTail, JobIsJob DEF LInv
<1>3. rows' \in {rows, [rows EXCEPT ![j.id].state = Target(j.event)]}
  BY DEF Set
<1>4. Target(j.event) \in SyncState
  BY <1>2, TargetIsState
<1> DEFINE r == [rows EXCEPT ![j.id].state = Target(j.event)]
<1>a. rows \in [Id -> [seq : 0..MaxRecords, state : SyncState]]
  BY DEF LInv, LedgerTypeOK
<1>b. r \in [Id -> [seq : 0..MaxRecords, state : SyncState]] /\ \A i \in Id : r[i].seq = rows[i].seq
  <2> DEFINE row == [rows[j.id] EXCEPT !.state = Target(j.event)]
  <2>1. row \in [seq : 0..MaxRecords, state : SyncState] /\ row.seq = rows[j.id].seq
    BY <1>2, <1>4, <1>a
  <2>2. r = [rows EXCEPT ![j.id] = row]
    OBVIOUS
  <2> HIDE DEF row, r
  <2> QED
    BY <1>2, <1>a, <2>1, <2>2
<1>5. rows' \in [Id -> [seq : 0..MaxRecords, state : SyncState]] /\ \A i \in Id : rows'[i].seq = rows[i].seq
  <2> HIDE DEF r
  <2> QED
    BY <1>3, <1>a, <1>b DEF r
<1>6. Stored' = Stored
  BY <1>5 DEF Stored
<1>7. InCaptureOrder => InCaptureOrder'
  <2>1. {rows'[i].seq : i \in Stored'} = {rows[i].seq : i \in Stored}
    BY <1>5, <1>6 DEF Stored
  <2> QED
    BY <1>5, <1>6, <2>1 DEF InCaptureOrder, Stored
<1> QED
  BY <1>1, <1>2, <1>5, <1>6, <1>7

-----------------------------------------------------------------------------
(* What each action keeps, with any number of tabs                         *)

LEMMA RequestKeeps ==
  ASSUME LInv, NEW t \in Tab, NEW j \in Job, Chained(t, j),
         asked' \in Nat, asked <= asked', rows' = rows, phase' = phase, read' = read,
         IsAppend(j) => asked' = asked + 1 /\ j.id = asked + 1
  PROVE  Jobs' /\ Phases' /\ Counted' /\ (OneTab /\ OInv => Ordered' /\ Current' /\ InCaptureOrder')
<1> USE DEF IsAppend
<1> DEFINE n == Len(tail[t]) + 1
<1>0. asked \in Nat
  BY LedgerBounds DEF LInv, LedgerTypeOK
<1>1. /\ Place(t)' = Place(t) \cup {n} /\ n \notin Place(t)
      /\ tail'[t][n] = j /\ tail'[t] # <<>>
      /\ \A k \in Place(t) : tail'[t][k] = tail[t][k] /\ k < n
      /\ \A u \in Tab \ {t} : tail'[u] = tail[u] /\ Place(u)' = Place(u)
      /\ tail[t] # <<>> => Head(tail'[t]) = Head(tail[t])
  BY RequestAdds DEF LInv
<1> HIDE DEF n
<1>2. Stored' = Stored /\ Cardinality(Stored)' = Cardinality(Stored) /\ (InCaptureOrder => InCaptureOrder')
  BY SameRows
<1>3. \A u \in Tab : \A k \in Place(u)' :
        (k \in Place(u) /\ tail'[u][k] = tail[u][k]) \/ (u = t /\ k = n /\ tail'[u][k] = j)
  BY <1>1
<1>4. Jobs'
  <2>1. ASSUME NEW u \in Tab, NEW k \in Place(u)', IsAppend(tail'[u][k])
        PROVE  tail'[u][k].id <= asked' /\ tail'[u][k].id \notin Stored'
    <3>1. CASE k \in Place(u) /\ tail'[u][k] = tail[u][k]
      <4>1. tail[u][k].id <= asked /\ tail[u][k].id \notin Stored
        BY <2>1, <3>1 DEF LInv, Jobs
      <4>2. tail[u][k].id \in Nat
        BY <3>1, JobIsJob, ElementOfSeq DEF LInv, LedgerTypeOK, Place, Id
      <4> QED
        BY <1>0, <1>2, <3>1, <4>1, <4>2
    <3>2. CASE tail'[u][k] = j
      <4>1. asked + 1 \notin Stored
        BY <1>0 DEF LInv, Jobs, Stored, Id
      <4> QED
        BY <2>1, <3>2, <4>1, <1>0, <1>2
    <3> QED
      BY <1>3, <3>1, <3>2
  <2>2. ASSUME NEW u \in Tab, NEW v \in Tab, NEW k \in Place(u)', NEW l \in Place(v)',
               IsAppend(tail'[u][k]), IsAppend(tail'[v][l]), tail'[u][k].id = tail'[v][l].id
        PROVE  u = v /\ k = l
    <3>1. ASSUME NEW w \in Tab, NEW m \in Place(w), IsAppend(tail[w][m]) PROVE tail[w][m].id # asked + 1
      BY <3>1, <1>0 DEF LInv, Jobs
    <3>2. CASE k \in Place(u) /\ tail'[u][k] = tail[u][k] /\ l \in Place(v) /\ tail'[v][l] = tail[v][l]
      BY <2>2, <3>2 DEF LInv, Jobs
    <3>3. CASE u = t /\ k = n /\ tail'[u][k] = j /\ l \in Place(v) /\ tail'[v][l] = tail[v][l]
      BY <2>2, <3>1, <3>3
    <3>4. CASE v = t /\ l = n /\ tail'[v][l] = j /\ k \in Place(u) /\ tail'[u][k] = tail[u][k]
      BY <2>2, <3>1, <3>4
    <3> QED
      BY <1>3, <3>2, <3>3, <3>4
  <2>3. \A i \in Stored' : i <= asked'
    BY <1>0, <1>2 DEF LInv, Jobs, Stored, Id
  <2> QED
    BY <2>1, <2>2, <2>3 DEF Jobs, IsAppend, Place
<1>5. \A u \in Tab : tail[u] # <<>> => tail'[u] # <<>> /\ Head(tail'[u]) = Head(tail[u])
  BY <1>1
<1>6. Phases'
  BY <1>2, <1>5 DEF LInv, Phases, IsAppend
<1>7. Counted'
  BY <1>2 DEF LInv, Counted
<1>8. ASSUME OneTab, OInv PROVE Ordered' /\ Current'
  <2>1. Current'
    BY <1>2, <1>5, <1>8 DEF OInv, LInv, Current, Phases
  <2>2. ASSUME NEW u \in Tab, NEW k \in Place(u)', IsAppend(tail'[u][k])
        PROVE  /\ \A i \in Stored' : i < tail'[u][k].id
               /\ \A l \in Place(u)' : l < k /\ IsAppend(tail'[u][l]) => tail'[u][l].id < tail'[u][k].id
    <3>1. CASE k \in Place(u) /\ tail'[u][k] = tail[u][k]
      <4>1. \A l \in Place(u)' : l < k => l \in Place(u) /\ tail'[u][l] = tail[u][l]
        BY <1>1, <1>3, <3>1 DEF Place
      <4> QED
        BY <1>2, <1>8, <2>2, <3>1, <4>1 DEF OInv, Ordered
    <3>2. CASE u = t /\ k = n /\ tail'[u][k] = j
      <4>1. \A i \in Stored : i < asked + 1
        BY <1>0 DEF LInv, Jobs, Stored, Id
      <4>2. ASSUME NEW l \in Place(u)', l < k, IsAppend(tail'[u][l]) PROVE tail'[u][l].id < asked + 1
        <5>1. l \in Place(u) /\ tail'[u][l] = tail[u][l]
          BY <1>1, <1>3, <3>2, <4>2 DEF Place
        <5>2. tail[u][l].id \in Nat
          BY <5>1, JobIsJob, ElementOfSeq DEF LInv, LedgerTypeOK, Place, Id
        <5>3. tail[u][l].id <= asked
          BY <4>2, <5>1 DEF LInv, Jobs
        <5> QED
          BY <4>2, <5>1, <5>2, <5>3, <1>0
      <4> QED
        BY <1>2, <2>2, <3>2, <4>1, <4>2
    <3> QED
      BY <1>3, <3>1, <3>2
  <2> QED
    BY <2>1, <2>2 DEF Ordered, IsAppend, Place
<1> QED
  BY <1>2, <1>4, <1>6, <1>7, <1>8 DEF OInv

(* A job's end, or the tab's: nothing runs there, the others go on.        *)
Ended(t) ==
  /\ phase'[t] = "idle" /\ read'[t] = Nothing
  /\ \A u \in Tab \ {t} : phase'[u] = phase[u] /\ read'[u] = read[u] /\ tail'[u] = tail[u]
Waits(S) == \A u \in Tab : \A k \in Place(u)' : IsAppend(tail'[u][k]) => tail'[u][k].id \notin S

LEMMA EndKeeps ==
  ASSUME LInv, NEW t \in Tab, NEW d \in [Tab -> Nat], Shift(d), Ended(t), asked' = asked,
         Stored \subseteq Stored', Cardinality(Stored) <= Cardinality(Stored)',
         \A i \in Stored' : i <= asked, Waits(Stored'),
         \A i \in Id : rows'[i].seq <= Cardinality(Stored)'
  PROVE  Jobs' /\ Phases' /\ Counted' /\ (OneTab => Current')
<1>1. Jobs'
  BY JobsAfterShift DEF LInv, Waits
<1>2. Phases'
  <2>1. ASSUME NEW u \in Tab, u # t
        PROVE  /\ phase'[u] \in {"sequenced", "signed"} => tail'[u] # <<>> /\ IsAppend(Head(tail'[u]))
               /\ phase'[u] = "got" => /\ tail'[u] # <<>> /\ Head(tail'[u]).kind = "apply"
                                       /\ Head(tail'[u]).id \in Stored'
    <3>1. phase'[u] = phase[u] /\ tail'[u] = tail[u]
      BY <2>1 DEF Ended
    <3> QED
      BY <3>1 DEF LInv, Phases
  <2>2. phase'[t] = "idle"
    BY DEF Ended
  <2> QED
    BY <2>1, <2>2 DEF Phases, IsAppend
<1>3. Counted'
  <2>1. Cardinality(Stored) \in Nat /\ Cardinality(Stored)' \in Nat
    <3>1. Cardinality(Stored) \in Nat
      BY StoredIsFinite
    <3>2. Stored' \in SUBSET Id /\ IsFiniteSet(Id)
      BY LedgerBounds, FS_Interval DEF Stored, Id
    <3>3. IsFiniteSet(Stored')
      BY <3>2, FS_Subset
    <3> QED
      BY <3>1, <3>3, FS_CardinalityType
  <2>2. ASSUME NEW u \in Tab PROVE read'[u].seq <= Cardinality(Stored)'
    <3>1. CASE u = t
      BY <2>1, <3>1 DEF Ended, Nothing
    <3>2. CASE u # t
      <4>1. read'[u] = read[u] /\ read[u].seq <= Cardinality(Stored) /\ read[u].seq \in Nat
        BY <3>2 DEF Ended, LInv, Counted, LedgerTypeOK
      <4> QED
        BY <2>1, <4>1
    <3> QED
      BY <3>1, <3>2
  <2> QED
    BY <2>2 DEF Counted
<1>4. OneTab => Current'
  <2>1. OneTab => \A u \in Tab : phase'[u] = "idle"
    BY DEF OneTab, Ended
  <2> QED
    BY <2>1 DEF Current
<1> QED
  BY <1>1, <1>2, <1>3, <1>4

(* A job that ends without a record, by a set, a missing record or a fault.*)
LEMMA SettleKeeps ==
  ASSUME LInv, NEW t \in Tab, tail[t] # <<>>, Settle(t), asked' = asked,
         Stored' = Stored, Cardinality(Stored)' = Cardinality(Stored),
         \A i \in Id : rows'[i].seq = rows[i].seq
  PROVE  Jobs' /\ Phases' /\ Counted' /\ (OneTab => Current') /\ (Ordered => Ordered')
<1> DEFINE d == [u \in Tab |-> IF u = t THEN 1 ELSE 0]
<1>1. Shift(d) /\ d \in [Tab -> Nat]
  BY SettleShifts DEF LInv
<1> HIDE DEF d
<1>2. Ended(t)
  BY SettleTypes DEF Ended, LInv
<1>3. Waits(Stored')
  BY <1>1 DEF Waits, Shift, LInv, Jobs
<1>4. Cardinality(Stored) \in Nat
  BY StoredIsFinite
<1>5. \A i \in Id : rows'[i].seq <= Cardinality(Stored)'
  BY DEF LInv, Counted
<1>6. \A i \in Stored' : i <= asked
  BY DEF LInv, Jobs
<1>7. Ordered => Ordered'
  BY <1>1, OrderAfterShift DEF LInv
<1> QED
  BY <1>1, <1>2, <1>3, <1>4, <1>5, <1>6, <1>7, EndKeeps

LEMMA CrashKeeps ==
  ASSUME LInv, NEW t \in Tab, Crash(t)
  PROVE  Jobs' /\ Phases' /\ Counted' /\ (OneTab => Current') /\ (Ordered => Ordered') /\ LedgerTypeOK'
<1> DEFINE d == [u \in Tab |-> 0]
<1>1. Shift(d) /\ d \in [Tab -> Nat]
  BY CrashShifts DEF LInv, Crash
<1> HIDE DEF d
<1>2. Ended(t)
  BY DEF Ended, LInv, LedgerTypeOK, Crash
<1>3. rows' = rows /\ asked' = asked
  BY DEF Crash
<1>4. Stored' = Stored /\ Cardinality(Stored)' = Cardinality(Stored)
  BY <1>3, SameRows
<1>5. Waits(Stored')
  BY <1>1, <1>4 DEF Waits, Shift, LInv, Jobs
<1>6. Cardinality(Stored) \in Nat
  BY StoredIsFinite
<1>7. \A i \in Id : rows'[i].seq <= Cardinality(Stored)'
  BY <1>3, <1>4 DEF LInv, Counted
<1>8. \A i \in Stored' : i <= asked
  BY <1>4 DEF LInv, Jobs
<1>9. Ordered => Ordered'
  BY <1>1, <1>4, OrderAfterShift DEF LInv
<1>10. LedgerTypeOK'
  <2>1. Nothing \in [seq : 0..MaxRecords, state : SyncState]
    BY LedgerBounds DEF Nothing, SyncState
  <2>2. <<>> \in Seq(Job)
    BY EmptySeq
  <2> QED
    BY <2>1, <2>2, LedgerBounds DEF Crash, LInv, LedgerTypeOK, Phase
<1> QED
  BY <1>1, <1>2, <1>3, <1>4, <1>5, <1>6, <1>7, <1>8, <1>9, <1>10, EndKeeps

LEMMA PutKeeps ==
  ASSUME LInv, NEW t \in Tab, Put(t)
  PROVE  /\ Jobs' /\ Phases' /\ Counted' /\ (OneTab => Current')
         /\ OneTab /\ OInv => Ordered' /\ InCaptureOrder'
<1> USE DEF IsAppend
<1> DEFINE i == Head(tail[t]).id
           d == [u \in Tab |-> IF u = t THEN 1 ELSE 0]
<1>0. tail[t] # <<>> /\ Settle(t) /\ asked' = asked
  BY PutStores DEF Put
<1>1. /\ IsAppend(Head(tail[t])) /\ i \in Id /\ i \notin Stored /\ i <= asked
      /\ Stored' = Stored \cup {i} /\ Cardinality(Stored)' = Cardinality(Stored) + 1
      /\ rows' = [rows EXCEPT ![i] = [seq |-> read[t].seq + 1, state |-> "LOCAL_ONLY"]]
  BY PutStores
<1>2. Head(tail[t]) = tail[t][1] /\ 1 \in Place(t)
  BY <1>0, HeadOfTail DEF LInv
<1>3. Shift(d) /\ d \in [Tab -> Nat] /\ d[t] = 1
  BY <1>0, SettleShifts DEF LInv
<1> HIDE DEF d
<1>4. Ended(t)
  BY <1>0, SettleTypes DEF Ended, LInv
<1>5. ASSUME NEW u \in Tab, NEW k \in Place(u)', IsAppend(tail'[u][k])
      PROVE  tail'[u][k].id # i /\ tail'[u][k].id \notin Stored
  <2>1. k + d[u] \in Place(u) /\ tail'[u][k] = tail[u][k + d[u]] /\ k \in Nat /\ k >= 1
    BY <1>3 DEF Shift, Place
  <2>2. u # t \/ k + d[u] # 1
    BY <1>3, <2>1
  <2>3. tail'[u][k].id # i
    BY <1>1, <1>2, <1>5, <2>1, <2>2 DEF LInv, Jobs
  <2>4. tail'[u][k].id \notin Stored
    BY <1>5, <2>1 DEF LInv, Jobs
  <2> QED
    BY <2>3, <2>4
<1>6. Waits(Stored')
  BY <1>1, <1>5 DEF Waits
<1>7. Cardinality(Stored) \in Nat /\ Cardinality(Stored) <= Cardinality(Stored)'
  BY <1>1, StoredIsFinite
<1>8. \A n \in Stored' : n <= asked
  BY <1>1 DEF LInv, Jobs
<1>9. read[t].seq \in Nat /\ \A n \in Id : rows[n].seq \in Nat
  BY DEF LInv, LedgerTypeOK
<1>10. rows'[i].seq = read[t].seq + 1 /\ \A n \in Id \ {i} : rows'[n] = rows[n]
  BY <1>1 DEF LInv, LedgerTypeOK
<1>11. \A n \in Id : rows'[n].seq <= Cardinality(Stored)'
  <2>1. rows'[i].seq <= Cardinality(Stored)'
    BY <1>1, <1>7, <1>9, <1>10 DEF LInv, Counted
  <2>2. \A n \in Id \ {i} : rows'[n].seq <= Cardinality(Stored)'
    BY <1>1, <1>7, <1>9, <1>10 DEF LInv, Counted
  <2> QED
    BY <2>1, <2>2
<1>12. Jobs' /\ Phases' /\ Counted' /\ (OneTab => Current')
  BY <1>0, <1>1, <1>3, <1>4, <1>6, <1>7, <1>8, <1>11, EndKeeps
<1>13. ASSUME OneTab, OInv PROVE Ordered' /\ InCaptureOrder'
  <2>1. ASSUME NEW u \in Tab, NEW k \in Place(u)', IsAppend(tail'[u][k]) PROVE i < tail'[u][k].id
    <3>1. k + d[u] \in Place(u) /\ tail'[u][k] = tail[u][k + d[u]] /\ k \in Nat /\ k >= 1
      BY <1>3 DEF Shift, Place
    <3>2. u = t /\ k + d[u] > 1
      BY <1>13, <1>3, <3>1 DEF OneTab
    <3> QED
      BY <1>1, <1>2, <1>13, <2>1, <3>1, <3>2 DEF OInv, Ordered
  <2>2. Stored' \ Stored \subseteq {i}
    BY <1>1
  <2>3. Ordered'
    BY <1>3, <1>13, <2>1, <2>2, OrderAfterShift DEF OInv, LInv
  <2>4. read[t].seq = Cardinality(Stored) /\ phase[t] = "signed"
    BY <1>13 DEF OInv, Current, Put
  <2> DEFINE n == Cardinality(Stored)
  <2>5. rows'[i].seq = n + 1 /\ Cardinality(Stored)' = n + 1 /\ n \in Nat
    BY <1>1, <1>7, <1>10, <2>4
  <2>6. \A m \in Stored : m # i /\ m \in Id /\ rows'[m].seq = rows[m].seq
    BY <1>1, <1>10 DEF Stored
  <2>7. \A m \in Stored : m < i
    BY <1>1, <1>2, <1>13 DEF OInv, Ordered
  <2>8. {rows[m].seq : m \in Stored} = 1..n /\ \A m, q \in Stored : m < q => rows[m].seq < rows[q].seq
    BY <1>13 DEF OInv, InCaptureOrder
  <2>9. {rows'[m].seq : m \in Stored'} = 1..(n + 1)
    <3>1. {rows'[m].seq : m \in Stored'} = {rows[m].seq : m \in Stored} \cup {n + 1}
      <4> HIDE DEF n
      <4> QED
        BY <1>1, <2>5, <2>6
    <3>2. 1..(n + 1) = 1..n \cup {n + 1}
      BY <2>5
    <3> QED
      BY <2>8, <3>1, <3>2
  <2>10. ASSUME NEW m \in Stored', NEW q \in Stored', m < q PROVE rows'[m].seq < rows'[q].seq
    <3>0. m \in Nat /\ q \in Nat /\ i \in Nat
      BY <1>1 DEF Stored, Id
    <3>1. m # i
      BY <1>1, <2>7, <2>10, <3>0
    <3>2. m \in Stored /\ rows'[m].seq = rows[m].seq /\ rows[m].seq \in 1..n
      BY <1>1, <2>6, <2>8, <3>1
    <3>3. CASE q = i
      BY <2>5, <3>2, <3>3
    <3>4. CASE q # i
      BY <1>1, <2>6, <2>8, <2>10, <3>2, <3>4
    <3> QED
      BY <3>3, <3>4
  <2>11. InCaptureOrder'
    BY <2>5, <2>9, <2>10 DEF InCaptureOrder
  <2> QED
    BY <2>3, <2>11
<1> QED
  BY <1>12, <1>13

(* A read or a signature: the store and the tails stay as they are.        *)
LEMMA ReadKeeps ==
  ASSUME LInv, NEW t \in Tab, NEW p \in Phase, NEW v \in [seq : 0..MaxRecords, state : SyncState],
         UNCHANGED <<rows, tail, asked, applied, faults>>,
         phase' = [phase EXCEPT ![t] = p], read' = [read EXCEPT ![t] = v],
         tail[t] # <<>>, p \in {"sequenced", "signed"} => IsAppend(Head(tail[t])),
         p = "got" => /\ Head(tail[t]).kind = "apply" /\ Head(tail[t]).id \in Stored
                      /\ v = rows[Head(tail[t]).id],
         v.seq <= Cardinality(Stored),
         OInv /\ p \in {"sequenced", "signed"} => v.seq = Cardinality(Stored)
  PROVE  LInv' /\ (OInv => OInv')
<1>1. LedgerTypeOK'
  BY DEF LInv, LedgerTypeOK
<1>2. Stored' = Stored /\ Cardinality(Stored)' = Cardinality(Stored) /\ (InCaptureOrder => InCaptureOrder')
  BY SameRows
<1>3. Jobs' /\ (Ordered => Ordered')
  BY <1>2 DEF LInv, Jobs, Ordered, Place
<1>4. ASSUME NEW u \in Tab, u # t PROVE phase'[u] = phase[u] /\ read'[u] = read[u]
  BY <1>4 DEF LInv, LedgerTypeOK
<1>5. phase'[t] = p /\ read'[t] = v
  BY DEF LInv, LedgerTypeOK
<1>6. Phases'
  BY <1>2, <1>4, <1>5 DEF LInv, Phases, IsAppend
<1>7. Counted'
  BY <1>2, <1>4, <1>5 DEF LInv, Counted
<1>8. OInv => Current'
  BY <1>2, <1>4, <1>5 DEF OInv, Current
<1> QED
  BY <1>1, <1>2, <1>3, <1>6, <1>7, <1>8 DEF OInv, LInv

LEMMA ReadSequenceKeeps ==
  ASSUME LInv, NEW t \in Tab, ReadSequence(t)
  PROVE  LInv' /\ (OInv => OInv')
<1> DEFINE v == [read[t] EXCEPT !.seq = LastSequence]
<1>1. LastSequence \in 0..MaxRecords /\ \A i \in Id : rows[i].seq <= LastSequence
  BY LastSequenceIsStored DEF LInv
<1>2. LastSequence = 0 \/ \E i \in Id : rows[i].seq = LastSequence
  BY LastSequenceIsStored DEF LInv
<1>3. Cardinality(Stored) \in Nat /\ LastSequence <= Cardinality(Stored)
  BY <1>1, <1>2, StoredIsFinite DEF LInv, Counted
<1>4. ASSUME OInv PROVE LastSequence = Cardinality(Stored)
  <2> DEFINE n == Cardinality(Stored)
  <2>1. n = 0 \/ n \in {rows[i].seq : i \in Stored}
    BY <1>3, <1>4 DEF OInv, InCaptureOrder
  <2>2. n <= LastSequence
    BY <1>1, <2>1 DEF Stored
  <2> QED
    BY <1>1, <1>3, <2>2
<1>5. read[t] \in [seq : 0..MaxRecords, state : SyncState]
  BY DEF LInv, LedgerTypeOK
<1>6. v \in [seq : 0..MaxRecords, state : SyncState] /\ v.seq = LastSequence
  BY <1>1, <1>5
<1>7. read' = [read EXCEPT ![t] = v]
  BY DEF ReadSequence
<1>8. /\ tail[t] # <<>> /\ IsAppend(Head(tail[t])) /\ UNCHANGED <<rows, tail, asked, applied, faults>>
      /\ phase' = [phase EXCEPT ![t] = "sequenced"]
  BY DEF ReadSequence, Running, IsAppend
<1> HIDE DEF v
<1> QED
  BY <1>3, <1>4, <1>6, <1>7, <1>8, ReadKeeps DEF Phase

LEMMA SignKeeps ==
  ASSUME LInv, NEW t \in Tab, Sign(t)
  PROVE  LInv' /\ (OInv => OInv')
<1>1. tail[t] # <<>> /\ IsAppend(Head(tail[t])) /\ phase[t] = "sequenced"
  BY DEF LInv, Phases, Sign
<1>2. read[t] \in [seq : 0..MaxRecords, state : SyncState] /\ read' = [read EXCEPT ![t] = read[t]]
  BY DEF LInv, LedgerTypeOK, Sign
<1>3. read[t].seq <= Cardinality(Stored) /\ (OInv => read[t].seq = Cardinality(Stored))
  BY <1>1 DEF OInv, Current, LInv, Counted
<1>4. UNCHANGED <<rows, tail, asked, applied, faults>> /\ phase' = [phase EXCEPT ![t] = "signed"]
  BY DEF Sign
<1> QED
  BY <1>1, <1>2, <1>3, <1>4, ReadKeeps DEF Phase

LEMMA GetKeeps ==
  ASSUME LInv, NEW t \in Tab, Get(t)
  PROVE  LInv' /\ (OneTab /\ OInv => OInv')
<1>1. tail[t] # <<>> /\ Head(tail[t]).kind = "apply"
  BY DEF Get, Running
<1>2. Head(tail[t]).id \in Id
  BY <1>1, HeadOfTail, JobIsJob DEF LInv
<1>3. CASE Head(tail[t]).id \in Stored
  <2>1. /\ rows[Head(tail[t]).id] \in [seq : 0..MaxRecords, state : SyncState]
        /\ rows[Head(tail[t]).id].seq <= Cardinality(Stored)
    BY <1>2 DEF LInv, LedgerTypeOK, Counted
  <2>2. /\ UNCHANGED <<rows, tail, asked, applied, faults>> /\ phase' = [phase EXCEPT ![t] = "got"]
        /\ read' = [read EXCEPT ![t] = rows[Head(tail[t]).id]]
    BY <1>3 DEF Get
  <2> QED
    BY <1>1, <1>3, <2>1, <2>2, ReadKeeps DEF Phase
<1>4. CASE Head(tail[t]).id \notin Stored
  <2>1. Settle(t) /\ rows' = rows /\ asked' = asked /\ applied' = applied /\ faults' = faults
    BY <1>4 DEF Get
  <2>2. Stored' = Stored /\ Cardinality(Stored)' = Cardinality(Stored) /\ (InCaptureOrder => InCaptureOrder')
    BY <2>1, SameRows
  <2>3. Jobs' /\ Phases' /\ Counted' /\ (OneTab => Current') /\ (Ordered => Ordered')
    BY <1>1, <2>1, <2>2, SettleKeeps
  <2>4. LedgerTypeOK'
    BY <1>1, <2>1, SettleTypes DEF LInv, LedgerTypeOK
  <2> QED
    BY <2>2, <2>3, <2>4 DEF OInv, LInv
<1> QED
  BY <1>3, <1>4

-----------------------------------------------------------------------------
(* Every step keeps what holds with any tabs, and what holds with one.     *)
LEMMA LedgerStep ==
  ASSUME LInv, [LedgerNext]_ledgerVars
  PROVE  LInv' /\ (OneTab /\ OInv => OInv')
<1>1. ASSUME NEW t \in Tab, RequestAppend(t) PROVE LInv' /\ (OneTab /\ OInv => OInv')
  <2> DEFINE j == [kind |-> "append", id |-> asked + 1]
  <2>0. asked \in Nat /\ asked + 1 \in 1..MaxRecords
    BY <1>1, LedgerBounds DEF LInv, LedgerTypeOK, RequestAppend
  <2>1. j \in Job /\ IsAppend(j) /\ j.id = asked + 1
    BY <2>0 DEF Job, Id, IsAppend
  <2>2. /\ Chained(t, j) /\ asked' = asked + 1
        /\ rows' = rows /\ phase' = phase /\ read' = read /\ applied' = applied /\ faults' = faults
    BY <1>1 DEF RequestAppend, Chained
  <2> HIDE DEF j
  <2>3. Jobs' /\ Phases' /\ Counted' /\ (OneTab /\ OInv => Ordered' /\ Current' /\ InCaptureOrder')
    BY <2>0, <2>1, <2>2, RequestKeeps
  <2>4. tail' \in [Tab -> Seq(Job)]
    BY <2>1, <2>2, RequestAdds DEF LInv
  <2>5. LedgerTypeOK'
    BY <2>0, <2>2, <2>4 DEF LInv, LedgerTypeOK
  <2> QED
    BY <2>3, <2>5 DEF OInv, LInv
<1>2. ASSUME NEW t \in Tab, NEW e \in Event, RequestApply(t, e) PROVE LInv' /\ (OneTab /\ OInv => OInv')
  <2>0. asked \in Nat /\ asked <= MaxRecords /\ applied' \in 0..MaxApplies
    BY <1>2, LedgerBounds DEF LInv, LedgerTypeOK, RequestApply
  <2>1. PICK i \in 1..asked : tail' = [tail EXCEPT ![t] = Append(@, [kind |-> "apply", id |-> i, event |-> e])]
    BY <1>2 DEF RequestApply
  <2> DEFINE j == [kind |-> "apply", id |-> i, event |-> e]
  <2>2. j \in Job /\ ~ IsAppend(j)
    BY <2>0, LedgerBounds DEF Job, Id, IsAppend
  <2>3. Chained(t, j)
    BY <2>1 DEF Chained
  <2>4. asked' = asked /\ rows' = rows /\ phase' = phase /\ read' = read /\ faults' = faults
    BY <1>2 DEF RequestApply
  <2> HIDE DEF j
  <2>5. Jobs' /\ Phases' /\ Counted' /\ (OneTab /\ OInv => Ordered' /\ Current' /\ InCaptureOrder')
    BY <2>0, <2>2, <2>3, <2>4, RequestKeeps
  <2>6. tail' \in [Tab -> Seq(Job)]
    BY <2>2, <2>3, RequestAdds DEF LInv
  <2>7. LedgerTypeOK'
    BY <2>0, <2>4, <2>6 DEF LInv, LedgerTypeOK
  <2> QED
    BY <2>5, <2>7 DEF OInv, LInv
<1>3. ASSUME NEW t \in Tab, ReadSequence(t) PROVE LInv' /\ (OneTab /\ OInv => OInv')
  BY <1>3, ReadSequenceKeeps
<1>4. ASSUME NEW t \in Tab, Sign(t) PROVE LInv' /\ (OneTab /\ OInv => OInv')
  BY <1>4, SignKeeps
<1>5. ASSUME NEW t \in Tab, Put(t) PROVE LInv' /\ (OneTab /\ OInv => OInv')
  <2>1. Jobs' /\ Phases' /\ Counted' /\ (OneTab => Current') /\ (OneTab /\ OInv => Ordered' /\ InCaptureOrder')
    BY <1>5, PutKeeps
  <2>2. rows' \in [Id -> [seq : 0..MaxRecords, state : SyncState]] /\ tail[t] # <<>>
    BY <1>5, PutStores
  <2>3. Settle(t) /\ asked' = asked /\ applied' = applied /\ faults' = faults
    BY <1>5 DEF Put
  <2>4. LedgerTypeOK'
    BY <2>2, <2>3, SettleTypes DEF LInv, LedgerTypeOK
  <2> QED
    BY <2>1, <2>4 DEF OInv, LInv
<1>6. ASSUME NEW t \in Tab, Get(t) PROVE LInv' /\ (OneTab /\ OInv => OInv')
  BY <1>6, GetKeeps
<1>7. ASSUME NEW t \in Tab, Set(t) PROVE LInv' /\ (OneTab /\ OInv => OInv')
  <2>1. /\ tail[t] # <<>> /\ rows' \in [Id -> [seq : 0..MaxRecords, state : SyncState]]
        /\ \A i \in Id : rows'[i].seq = rows[i].seq
        /\ Stored' = Stored /\ Cardinality(Stored)' = Cardinality(Stored)
        /\ InCaptureOrder => InCaptureOrder'
    BY <1>7, SetWrites
  <2>2. Settle(t) /\ asked' = asked /\ applied' = applied /\ faults' = faults
    BY <1>7 DEF Set
  <2>3. Jobs' /\ Phases' /\ Counted' /\ (OneTab => Current') /\ (Ordered => Ordered')
    BY <2>1, <2>2, SettleKeeps
  <2>4. LedgerTypeOK'
    BY <2>1, <2>2, SettleTypes DEF LInv, LedgerTypeOK
  <2> QED
    BY <2>1, <2>3, <2>4 DEF OInv, LInv
<1>8. ASSUME NEW t \in Tab, Fail(t) PROVE LInv' /\ (OneTab /\ OInv => OInv')
  <2>1. tail[t] # <<>> /\ Settle(t) /\ rows' = rows /\ asked' = asked /\ applied' = applied
    BY <1>8 DEF Fail
  <2>2. Stored' = Stored /\ Cardinality(Stored)' = Cardinality(Stored) /\ (InCaptureOrder => InCaptureOrder')
    BY <2>1, SameRows
  <2>3. Jobs' /\ Phases' /\ Counted' /\ (OneTab => Current') /\ (Ordered => Ordered')
    BY <2>1, <2>2, SettleKeeps
  <2>4. faults' \in 0..MaxFaults
    BY <1>8, LedgerBounds DEF Fail, LInv, LedgerTypeOK
  <2>5. LedgerTypeOK'
    BY <2>1, <2>4, SettleTypes DEF LInv, LedgerTypeOK
  <2> QED
    BY <2>2, <2>3, <2>5 DEF OInv, LInv
<1>9. ASSUME NEW t \in Tab, Crash(t) PROVE LInv' /\ (OneTab /\ OInv => OInv')
  <2>1. rows' = rows
    BY <1>9 DEF Crash
  <2>2. InCaptureOrder => InCaptureOrder'
    BY <2>1, SameRows
  <2>3. Jobs' /\ Phases' /\ Counted' /\ (OneTab => Current') /\ (Ordered => Ordered') /\ LedgerTypeOK'
    BY <1>9, CrashKeeps
  <2> QED
    BY <2>2, <2>3 DEF OInv, LInv
<1>10. CASE UNCHANGED ledgerVars
  <2>1. /\ rows' = rows /\ tail' = tail /\ phase' = phase /\ read' = read
        /\ asked' = asked /\ applied' = applied /\ faults' = faults
    BY <1>10 DEF ledgerVars
  <2>2. Stored' = Stored /\ Cardinality(Stored)' = Cardinality(Stored) /\ (InCaptureOrder => InCaptureOrder')
    BY <2>1, SameRows
  <2>3. LedgerTypeOK'
    BY <2>1 DEF LInv, LedgerTypeOK
  <2>4. Jobs' /\ Phases'
    BY <2>1, <2>2 DEF LInv, Jobs, Phases, Place, IsAppend
  <2>5. Counted'
    BY <2>1, <2>2 DEF LInv, Counted
  <2>6. (Ordered => Ordered') /\ (Current => Current')
    BY <2>1, <2>2 DEF Ordered, Current, Place
  <2> QED
    BY <2>2, <2>3, <2>4, <2>5, <2>6 DEF OInv, LInv
<1> QED
  BY <1>1, <1>2, <1>3, <1>4, <1>5, <1>6, <1>7, <1>8, <1>9, <1>10 DEF LedgerNext, Work

-----------------------------------------------------------------------------
(* Theorems                                                                *)

(* Any tabs: the store, the tails and the jobs keep their types; no        *)
(* sequence runs past the number of captures (ledger.ts).                  *)
THEOREM LedgerTypeCorrect == LedgerSpec => []LedgerTypeOK
<1>1. LedgerInit => LInv
  BY InitLInv DEF OInv
<1>2. LInv /\ [LedgerNext]_ledgerVars => LInv'
  BY LedgerStep
<1>3. LInv => LedgerTypeOK
  BY DEF LInv
<1> QED
  BY <1>1, <1>2, <1>3, PTL DEF LedgerSpec

(* One tab: whatever fails between the awaits of append(), the sequences   *)
(* stored have no gap, no duplicate, and the order of the captures.        *)
THEOREM CapturesAreInOrder == OneTab => (LedgerSpec => []InCaptureOrder)
<1> SUFFICES ASSUME OneTab PROVE LedgerSpec => []InCaptureOrder
  OBVIOUS
<1>1. LedgerInit => OInv
  BY InitLInv
<1>2. OInv /\ [LedgerNext]_ledgerVars => OInv'
  BY LedgerStep DEF OInv
<1>3. OInv => InCaptureOrder
  BY DEF OInv
<1> QED
  BY <1>1, <1>2, <1>3, PTL DEF LedgerSpec

-----------------------------------------------------------------------------
(* Refinement: with one tab each append and each apply acts as one step.   *)

LEMMA SameTables ==
  /\ Atomic!Stored = Stored /\ Atomic!Cardinality(Stored) = Cardinality(Stored)
  /\ \A e \in Event : /\ e \in Atomic!SyncEvent
                       /\ Atomic!AcceptedFrom(e) = AcceptedFrom(e)
                       /\ Atomic!Target(e) = Target(e)
<1>1. Atomic!Stored = Stored /\ Atomic!Cardinality(Stored) = Cardinality(Stored)
  BY DEF Atomic!Stored, Stored, Atomic!Cardinality, Cardinality
<1>2. ASSUME NEW e \in Event
      PROVE  /\ e \in Atomic!SyncEvent
             /\ Atomic!AcceptedFrom(e) = AcceptedFrom(e)
             /\ Atomic!Target(e) = Target(e)
  <2>1. CASE e.type = "ACK"
    <3>1. e = [type |-> "ACK", outcome |-> "ACCEPTED"]
      BY <2>1 DEF Event
    <3>2. e \in Atomic!SyncEvent
      BY <3>1 DEF Atomic!SyncEvent, Atomic!AckOutcome
    <3> QED
      BY <2>1, <3>2 DEF Atomic!AcceptedFrom, AcceptedFrom, Atomic!Target, Target
  <2>2. CASE e.type # "ACK"
    <3>1. e \in [type : {"SEND", "SEND_UNCERTAIN"}]
      BY <2>2 DEF Event
    <3>2. e \in Atomic!SyncEvent
      BY <3>1 DEF Atomic!SyncEvent, Atomic!PlainEvent
    <3>3. Atomic!WaitingState = WaitingState
      BY DEF Atomic!WaitingState, WaitingState
    <3>4. CASE e.type = "SEND"
      BY <3>2, <3>4 DEF Atomic!AcceptedFrom, AcceptedFrom, Atomic!Target, Target
    <3>5. CASE e.type = "SEND_UNCERTAIN"
      BY <3>2, <3>3, <3>5 DEF Atomic!AcceptedFrom, AcceptedFrom, Atomic!Target, Target
    <3> QED
      BY <3>1, <3>4, <3>5
  <2> QED
    BY <2>1, <2>2
<1> QED
  BY <1>1, <1>2

(* A put is the append of the abstract ledger.                             *)
LEMMA PutAppends ==
  ASSUME OInv, NEW t \in Tab, Put(t) PROVE Atomic!AtomicNext
<1> DEFINE i == Head(tail[t]).id
<1>1. /\ i \in Id /\ i \notin Stored
      /\ rows' = [rows EXCEPT ![i] = [seq |-> read[t].seq + 1, state |-> "LOCAL_ONLY"]]
  BY PutStores DEF OInv
<1>2. read[t].seq = Cardinality(Stored)
  BY DEF OInv, Current, Put
<1> HIDE DEF i
<1>3. Atomic!Append(i)
  BY <1>1, <1>2, SameTables DEF Atomic!Append
<1> QED
  BY <1>1, <1>3 DEF Atomic!AtomicNext

(* A set is the write of the abstract ledger, or no step of it.            *)
LEMMA SetIsOneWrite ==
  ASSUME OInv, NEW t \in Tab, Set(t) PROVE Atomic!AtomicNext \/ rows' = rows
<1> DEFINE j == Head(tail[t])
<1>1. j.event \in Event /\ j.id \in Stored /\ j.id \in Id
  BY SetWrites DEF OInv, Stored
<1>2. read[t] = rows[j.id]
  BY DEF OInv, Current, Set
<1>3. rows' = IF read[t].state \in AcceptedFrom(j.event)
               THEN [rows EXCEPT ![j.id].state = Target(j.event)] ELSE rows
  BY DEF Set
<1> HIDE DEF j
<1>4. CASE read[t].state \in AcceptedFrom(j.event)
  <2>1. Atomic!Write(j.id, j.event)
    BY <1>1, <1>2, <1>3, <1>4, SameTables DEF Atomic!Write
  <2>2. j.event \in Atomic!SyncEvent
    BY <1>1, SameTables
  <2> QED
    BY <1>1, <2>1, <2>2 DEF Atomic!AtomicNext
<1>5. CASE read[t].state \notin AcceptedFrom(j.event)
  BY <1>3, <1>5
<1> QED
  BY <1>4, <1>5

(* One tab: the ledger with its awaits implements AtomicLedger, so what    *)
(* FieldSync takes it for is what it is.                                   *)
THEOREM LedgerActsAtomically == OneTab => (LedgerSpec => ActsAtomically)
<1> SUFFICES ASSUME OneTab PROVE LedgerSpec => ActsAtomically
  OBVIOUS
<1>1. LedgerInit => OInv
  BY InitLInv
<1>2. OInv /\ [LedgerNext]_ledgerVars => OInv'
  BY LedgerStep DEF OInv
<1>3. LedgerInit => Atomic!AtomicInit
  BY DEF LedgerInit, Atomic!AtomicInit, Nothing, Atomic!Nothing
<1>4. OInv /\ [LedgerNext]_ledgerVars => [Atomic!AtomicNext]_rows
  <2> SUFFICES ASSUME OInv, [LedgerNext]_ledgerVars PROVE Atomic!AtomicNext \/ rows' = rows
    OBVIOUS
  <2>1. ASSUME NEW t \in Tab, Put(t) PROVE Atomic!AtomicNext
    BY <2>1, PutAppends
  <2>2. ASSUME NEW t \in Tab, Set(t) PROVE Atomic!AtomicNext \/ rows' = rows
    BY <2>2, SetIsOneWrite
  <2>3. ASSUME NEW t \in Tab, \/ RequestAppend(t) \/ ReadSequence(t) \/ Sign(t) \/ Get(t) \/ Fail(t) \/ Crash(t)
                              \/ \E e \in Event : RequestApply(t, e)
        PROVE  rows' = rows
    BY <2>3 DEF RequestAppend, RequestApply, ReadSequence, Sign, Get, Fail, Crash
  <2>4. CASE UNCHANGED ledgerVars
    BY <2>4 DEF ledgerVars
  <2> QED
    BY <2>1, <2>2, <2>3, <2>4 DEF LedgerNext, Work
<1> QED
  BY <1>1, <1>2, <1>3, <1>4, PTL DEF LedgerSpec, ActsAtomically, Atomic!AtomicSpec
=============================================================================
