---------------------------- MODULE EditorProofs -----------------------------
(***************************************************************************)
(* Theorems about BillEditor, for every number of bills, periods, requests *)
(* and lost answers, and whatever bills the place has at the start.        *)
(***************************************************************************)
EXTENDS BillEditor, Images, TLAPS

-----------------------------------------------------------------------------
(* TypeOK.  The ids never run out: a post is sent only when there is one   *)
(* left for it and for those under way.                                    *)

Pending(rs) == {r \in rs : r.kind = "post" /\ r.phase \in {"sent", "checked"}}

Room == IsFiniteSet(requests) /\ made + Cardinality(Pending(requests)) <= MaxBills

Inv == TypeOK /\ Room /\ OnePerId(fetch.rows)

LEMMA InitInv == Init => Inv
<1> SUFFICES ASSUME Init PROVE Inv
  OBVIOUS
<1> USE RecordedAssumption DEF Init
<1>1. Cardinality(Recorded) \in 0 .. MaxBills
  BY FS_CardinalityType
<1>2. Pending(requests) = {}
  BY DEF Pending
<1>3. Room
  BY <1>1, <1>2, FS_EmptySet DEF Room
<1>4. Asked \in Fetch /\ Closed \in Form
  BY DEF Asked, Idle, Closed, Fetch, Form
<1>5. bills \subseteq Bill /\ OnePerId(bills) /\ made \in 0 .. MaxBills /\ \A b \in bills : b.id <= made
  BY <1>1 DEF OnePerId
<1>6. saves \in 0 .. MaxSaves /\ faults \in 0 .. MaxFaults
  OBVIOUS
<1>7. listError \in BOOLEAN /\ drifted \in BOOLEAN
  BY Zenon
<1>8. TypeOK
  BY <1>4, <1>5, <1>6, <1>7 DEF TypeOK
<1>9. OnePerId(fetch.rows)
  BY DEF OnePerId, Asked, Idle
<1> QED
  BY <1>3, <1>8, <1>9 DEF Inv

LEMMA PendingType ==
  ASSUME Inv
  PROVE  /\ IsFiniteSet(Pending(requests)) /\ Cardinality(Pending(requests)) \in Nat
         /\ made \in Nat /\ Posts = Cardinality(Pending(requests))
<1>1. Pending(requests) \in SUBSET requests
  BY DEF Pending
<1>2. IsFiniteSet(Pending(requests))
  BY <1>1, FS_Subset DEF Inv, Room
<1> QED
  BY <1>2, FS_CardinalityType DEF Posts, Pending, Inv, TypeOK

\* Fewer requests, or no new post among them, leave as much room.
LEMMA RoomKept ==
  ASSUME Inv, IsFiniteSet(requests'), made' = made,
         Pending(requests') \subseteq Pending(requests)
  PROVE  Room'
<1>1. /\ IsFiniteSet(Pending(requests')) /\ Cardinality(Pending(requests')) \in Nat
      /\ Cardinality(Pending(requests')) <= Cardinality(Pending(requests))
  BY PendingType, FS_Subset, FS_CardinalityType
<1>2. Cardinality(Pending(requests)) \in Nat /\ made \in Nat /\ MaxBills \in Nat
      /\ made + Cardinality(Pending(requests)) <= MaxBills
  BY PendingType, RecordedAssumption DEF Inv, Room
<1>3. made' + Cardinality(Pending(requests')) <= MaxBills
  BY <1>1, <1>2
<1> QED
  BY <1>3 DEF Room, Pending

\* One more request, which is no post unless there is room for it.
LEMMA RoomForOne ==
  ASSUME Inv, NEW x, requests' = requests \cup {x}, made' = made,
         x.kind = "post" => CanPost
  PROVE  Room'
<1> DEFINE P == Pending(requests)
<1>0. /\ IsFiniteSet(P) /\ Cardinality(P) \in Nat /\ made \in Nat /\ MaxBills \in Nat
      /\ made + Cardinality(P) <= MaxBills
  BY PendingType, RecordedAssumption DEF Inv, Room
<1>1. IsFiniteSet(requests')
  BY FS_AddElement DEF Inv, Room
<1>2. CASE x.kind = "post"
  <2>1. Pending(requests') \in SUBSET (P \cup {x})
    BY DEF Pending
  <2>2. /\ Cardinality(Pending(requests')) \in Nat
        /\ Cardinality(Pending(requests')) <= Cardinality(P) + 1
    BY <1>0, <2>1, OneMore
  <2>4. made + Cardinality(P) < MaxBills
    BY <1>2, PendingType DEF CanPost
  <2>5. made' + Cardinality(Pending(requests')) <= MaxBills
    BY <1>0, <2>2, <2>4
  <2> QED
    BY <1>1, <2>5 DEF Room, Pending
<1>3. CASE x.kind # "post"
  <2>1. Pending(requests') \subseteq P
    BY <1>3 DEF Pending
  <2> QED
    BY <1>1, <2>1, RoomKept
<1> QED
  BY <1>2, <1>3

\* A request moves on; the post it is, if it is one, was there before.
LEMMA RoomWhenMoved ==
  ASSUME Inv, NEW r \in requests, NEW x, requests' = (requests \ {r}) \cup {x}, made' = made,
         x \in Pending({x}) => r \in Pending({r})
  PROVE  Room'
<1> DEFINE P == Pending(requests)
<1>0. /\ IsFiniteSet(P) /\ Cardinality(P) \in Nat /\ made \in Nat /\ MaxBills \in Nat
      /\ made + Cardinality(P) <= MaxBills
  BY PendingType, RecordedAssumption DEF Inv, Room
<1>1. IsFiniteSet(requests')
  BY FS_AddElement, FS_RemoveElement DEF Inv, Room
<1>2. CASE x \in Pending({x})
  <2>1. r \in P
    BY <1>2 DEF Pending
  <2>2. Pending(requests') \in SUBSET ((P \ {r}) \cup {x})
    BY DEF Pending
  <2>3. IsFiniteSet(P \ {r}) /\ Cardinality(P \ {r}) = Cardinality(P) - 1
    BY <1>0, <2>1, FS_RemoveElement
  <2>4. /\ Cardinality(Pending(requests')) \in Nat
        /\ Cardinality(Pending(requests')) <= Cardinality(P \ {r}) + 1
    BY <2>2, <2>3, OneMore
  <2>6. made' + Cardinality(Pending(requests')) <= MaxBills
    BY <1>0, <2>3, <2>4
  <2> QED
    BY <1>1, <2>6 DEF Room, Pending
<1>3. CASE x \notin Pending({x})
  <2>1. Pending(requests') \subseteq P
    BY <1>3 DEF Pending
  <2> QED
    BY <1>1, <2>1, RoomKept
<1> QED
  BY <1>2, <1>3

\* Every request is changed, and none becomes a post under way.
LEMMA RoomWhenMapped ==
  ASSUME Inv, NEW left \in SUBSET requests, NEW f, f = [q \in left |-> f[q]],
         IsFiniteSet(requests'), NEW n \in 0 .. 1, made' = made + n,
         Cardinality(Pending(left)) + n <= Cardinality(Pending(requests)),
         \A q \in Pending(requests') : \E p \in Pending(left) : q = f[p]
  PROVE  Room'
<1> DEFINE P == Pending(left)
           g == [q \in P |-> f[q]]
<1>1. P \in SUBSET Pending(requests)
  BY DEF Pending
<1>2. IsFiniteSet(P) /\ Cardinality(P) \in Nat
  BY <1>1, PendingType, FS_Subset, FS_CardinalityType
<1>3. IsFiniteSet(Values(g, P)) /\ Cardinality(Values(g, P)) <= Cardinality(P)
  <2>1. g = [q \in P |-> g[q]]
    OBVIOUS
  <2> HIDE DEF g
  <2> QED
    BY <1>2, <2>1, FewValues
<1>4. Pending(requests') \in SUBSET Values(g, P)
  BY DEF Values
<1>5. /\ Cardinality(Pending(requests')) \in Nat /\ Cardinality(Values(g, P)) \in Nat
      /\ Cardinality(Pending(requests')) <= Cardinality(Values(g, P))
  BY <1>3, <1>4, FS_Subset, FS_CardinalityType
<1>6. /\ Cardinality(Pending(requests)) \in Nat /\ made \in Nat /\ MaxBills \in Nat
      /\ made + Cardinality(Pending(requests)) <= MaxBills
  BY PendingType, RecordedAssumption DEF Inv, Room
<1>7. made' + Cardinality(Pending(requests')) <= MaxBills
  BY <1>2, <1>3, <1>5, <1>6
<1> QED
  BY <1>7 DEF Room, Pending

\* What an action that writes no bill has to show.
LEMMA NoBillWritten ==
  ASSUME Inv, UNCHANGED <<bills, made>>, Room',
         requests' \subseteq Request, list' = NoData \/ (list' \subseteq Bill /\ OnePerId(list')),
         listError' \in BOOLEAN, drifted' \in BOOLEAN, fetch' \in Fetch, form' \in Form,
         OnePerId(fetch'.rows), saves' \in 0 .. MaxSaves, faults' \in 0 .. MaxFaults
  PROVE  Inv'
<1>1. /\ bills' \subseteq Bill /\ OnePerId(bills)'
      /\ made' \in 0 .. MaxBills /\ \A b \in bills' : b.id <= made'
  BY DEF Inv, TypeOK, OnePerId
<1>2. OnePerId(list)' = OnePerId(list') /\ OnePerId(fetch.rows)' = OnePerId(fetch'.rows)
  BY DEF OnePerId
<1> QED
  BY <1>1, <1>2 DEF Inv, TypeOK

LEMMA SameRoom ==
  ASSUME Inv, UNCHANGED <<requests, made>>
  PROVE  Room' /\ requests' \subseteq Request
<1>1. Room'
  BY RoomKept DEF Inv, Room
<1> QED
  BY <1>1 DEF Inv, TypeOK

LEMMA UnheardRoom ==
  ASSUME Inv, NEW left \in SUBSET requests, requests' = Unheard(left), made' = made
  PROVE  Room' /\ requests' \subseteq Request
<1> DEFINE f == [q \in left |-> [q EXCEPT !.heard = FALSE]]
<1>0. left \in SUBSET Request
  BY DEF Inv, TypeOK
<1>1. requests' = Values(f, left) /\ requests' \subseteq Request
  BY <1>0 DEF Unheard, Values, Request
<1>2. IsFiniteSet(left)
  BY FS_Subset DEF Inv, Room
<1>3. f = [q \in left |-> f[q]]
  OBVIOUS
<1>4. IsFiniteSet(requests')
  <2> HIDE DEF f
  <2> QED
    BY <1>1, <1>2, <1>3, FewValues
<1>5. \A q \in Pending(requests') : \E p \in Pending(left) : q = f[p]
  <2>1. ASSUME NEW q \in Pending(requests') PROVE \E p \in Pending(left) : q = f[p]
    <3>1. PICK p \in left : q = [p EXCEPT !.heard = FALSE]
      BY DEF Pending, Unheard
    <3>2. p \in Pending(left)
      BY <1>0, <3>1 DEF Pending, Request
    <3> QED
      BY <3>1, <3>2
  <2> QED
    BY <2>1
<1>6. Cardinality(Pending(left)) + 0 <= Cardinality(Pending(requests))
  <2>1. Pending(left) \in SUBSET Pending(requests)
    BY DEF Pending
  <2>2. Cardinality(Pending(left)) \in Nat
    BY <2>1, PendingType, FS_Subset, FS_CardinalityType
  <2> QED
    BY <2>1, <2>2, PendingType, FS_Subset
<1>7. made' = made + 0
  BY PendingType
<1>8. Room'
  <2> HIDE DEF f
  <2>1. 0 \in 0 .. 1
    OBVIOUS
  <2> QED
    BY <1>3, <1>4, <1>5, <1>6, <1>7, <2>1, RoomWhenMapped
<1> QED
  BY <1>1, <1>8

LEMMA Types ==
  ASSUME Inv
  PROVE  /\ requests \subseteq Request /\ fetch \in Fetch /\ form \in Form
         /\ list = NoData \/ (list \subseteq Bill /\ OnePerId(list))
         /\ bills \subseteq Bill /\ OnePerId(bills) /\ made \in 0 .. MaxBills
         /\ listError \in BOOLEAN /\ drifted \in BOOLEAN
         /\ saves \in 0 .. MaxSaves /\ faults \in 0 .. MaxFaults
         /\ Idle \in Fetch /\ Asked \in Fetch /\ Closed \in Form
         /\ [fetch EXCEPT !.clean = FALSE] \in Fetch
         /\ OnePerId(fetch.rows) /\ OnePerId(Idle.rows) /\ OnePerId(Asked.rows)
         /\ [fetch EXCEPT !.clean = FALSE].rows = fetch.rows
BY DEF Inv, TypeOK, Idle, Asked, Closed, Fetch, Form, OnePerId

LEMMA OpenedType ==
  ASSUME form \in Form, NEW adding \in BOOLEAN, NEW id \in Ids \cup {NoBill}
  PROVE  Opened(adding, id) \in Form
BY DEF Opened, Closed, Form

\* The list is fetched and the form is filled in.
LEMMA PageStep ==
  ASSUME Inv, ByUser \/ Refetch \/ ReadList \/ TakeList \/ LoseList
  PROVE  Inv'
<1> USE Types
<1>1. ASSUME PressAdd PROVE Inv'
  <2>1. form' = Opened(TRUE, form.editing) /\ form.editing \in Ids \cup {NoBill}
    BY <1>1 DEF PressAdd, Form
  <2>2. form' \in Form
    BY <2>1, OpenedType
  <2> QED
    BY <1>1, <2>2, SameRoom, NoBillWritten DEF PressAdd
<1>2. ASSUME list # NoData, NEW b \in list, PressEdit(b) PROVE Inv'
  <2>1. form' = Opened(FALSE, b.id) /\ b.id \in Ids \cup {NoBill}
    BY <1>2 DEF PressEdit, Bill
  <2>2. form' \in Form
    BY <2>1, OpenedType
  <2> QED
    BY <1>2, <2>2, SameRoom, NoBillWritten DEF PressEdit
<1>3. ASSUME Cancel PROVE Inv'
  <2>1. requests' = Unheard(requests) /\ form' = Closed
        /\ UNCHANGED <<bills, made, list, listError, fetch, saves, faults, drifted>>
    BY <1>3 DEF Cancel, CloseBillForm
  <2>2. Room' /\ requests' \subseteq Request
    BY <2>1, UnheardRoom
  <2> QED
    BY <2>1, <2>2, NoBillWritten
<1>4. ASSUME NEW p \in Periods, Submit(p) PROVE Inv'
  <2> DEFINE kind == IF form.editing = NoBill THEN "post" ELSE "patch"
             x == [ARequest(kind, form.editing, p)
                     EXCEPT !.origin = form.origin, !.switched = form.switched, !.heard = TRUE]
  <2>1. requests' = requests \cup {x}
    BY <1>4 DEF Submit
  <2>2. x \in Request /\ x.kind = kind
    BY DEF ARequest, Request, Form, Phases
  <2>3. x.kind = "post" => CanPost
    BY <1>4, <2>2 DEF Submit
  <2> HIDE DEF x
  <2>4. Room' /\ requests' \subseteq Request
    BY <1>4, <2>1, <2>2, <2>3, RoomForOne DEF Submit
  <2>5. form' \in Form
    BY <1>4 DEF Submit, Form
  <2>6. saves' \in 0 .. MaxSaves
    BY <1>4, RecordedAssumption DEF Submit, CanSend
  <2> QED
    BY <1>4, <2>4, <2>5, <2>6, NoBillWritten DEF Submit
<1>5. ASSUME list # NoData, NEW b \in list, PressDelete(b) PROVE Inv'
  <2> DEFINE x == ARequest("delete", b.id, Blank)
  <2>1. requests' = requests \cup {x} /\ UNCHANGED page
    BY <1>5 DEF PressDelete
  <2>2. x \in Request /\ x.kind = "delete"
    BY <1>5 DEF ARequest, Request, Bill, Phases
  <2> HIDE DEF x
  <2>3. Room' /\ requests' \subseteq Request
    BY <1>5, <2>1, <2>2, RoomForOne DEF PressDelete
  <2>4. saves' \in 0 .. MaxSaves
    BY <1>5, RecordedAssumption DEF PressDelete, CanSend
  <2> QED
    BY <1>5, <2>3, <2>4, NoBillWritten DEF PressDelete, page
<1>6. ASSUME Refetch PROVE Inv'
  BY <1>6, SameRoom, NoBillWritten DEF Refetch
<1>7. ASSUME ReadList PROVE Inv'
  <2>1. fetch' \in Fetch /\ fetch'.rows = bills
    BY <1>7 DEF ReadList, Fetch
  <2> QED
    BY <1>7, <2>1, SameRoom, NoBillWritten DEF ReadList
<1>8. CASE TakeList
  <2>1. /\ list' = fetch.rows /\ fetch' = Idle
        /\ UNCHANGED <<bills, made, requests, form, saves, faults>>
    BY <1>8 DEF TakeList
  <2>2. fetch.rows \subseteq Bill /\ OnePerId(fetch.rows)
    BY DEF Fetch
  <2>3. list' \subseteq Bill /\ OnePerId(list')
    BY <2>1, <2>2
  <2>4. listError' \in BOOLEAN /\ drifted' \in BOOLEAN
    BY <1>8, Zenon DEF TakeList
  <2> QED
    BY <2>1, <2>3, <2>4, SameRoom, NoBillWritten
<1>9. CASE LoseList
  <2>1. listError' \in BOOLEAN
    BY <1>9, Zenon DEF LoseList
  <2>2. faults' \in 0 .. MaxFaults
    BY <1>9, RecordedAssumption DEF LoseList
  <2> QED
    BY <1>9, <2>1, <2>2, SameRoom, NoBillWritten DEF LoseList
<1> QED
  BY <1>1, <1>2, <1>3, <1>4, <1>5, <1>6, <1>7, <1>8, <1>9 DEF ByUser

LEMMA FewerRoom ==
  ASSUME Inv, NEW r, requests' = requests \ {r}, made' = made
  PROVE  Room' /\ requests' \subseteq Request
<1>1. IsFiniteSet(requests')
  BY FS_RemoveElement DEF Inv, Room
<1>2. Pending(requests') \subseteq Pending(requests)
  BY DEF Pending
<1> QED
  BY <1>1, <1>2, RoomKept, Types

\* The other writer and the network; the answer arrives.
LEMMA RequestStep ==
  ASSUME Inv,
         \/ \E p \in Periods : Import(p)
         \/ \E r \in requests : \/ Check(r) \/ LoseRequest(r)
                                \/ TakeSuccess(r) \/ TakeFailure(r) \/ TakeImport(r)
  PROVE  Inv'
<1> USE Types
<1>1. ASSUME NEW p \in Periods, Import(p) PROVE Inv'
  <2> DEFINE x == [ARequest("post", NoBill, p) EXCEPT !.mine = FALSE]
  <2>1. requests' = requests \cup {x} /\ UNCHANGED page
    BY <1>1 DEF Import
  <2>2. x \in Request /\ CanPost
    BY <1>1 DEF Import, ARequest, Request, Phases
  <2> HIDE DEF x
  <2>3. Room' /\ requests' \subseteq Request
    BY <1>1, <2>1, <2>2, RoomForOne DEF Import
  <2>4. saves' \in 0 .. MaxSaves
    BY <1>1, RecordedAssumption DEF Import, CanSend
  <2> QED
    BY <1>1, <2>3, <2>4, NoBillWritten DEF Import, page
<1>2. ASSUME NEW r \in requests, NEW to \in Phases, Put(r, to), made' = made,
             to \in {"sent", "checked"} => r.phase = "sent"
      PROVE  Room' /\ requests' \subseteq Request
  <2> DEFINE x == [r EXCEPT !.phase = to]
  <2>1. requests' = (requests \ {r}) \cup {x}
    BY <1>2 DEF Put
  <2>2. r \in Request /\ x \in Request /\ x.kind = r.kind /\ x.phase = to
    BY DEF Request
  <2> HIDE DEF x
  <2>3. x \in Pending({x}) => r \in Pending({r})
    BY <1>2, <2>2 DEF Pending
  <2> QED
    BY <1>2, <2>1, <2>2, <2>3, RoomWhenMoved
<1>3. ASSUME NEW r \in requests, Check(r) PROVE Inv'
  <2>1. r.phase = "sent" /\ Put(r, IF Refused(r) THEN "failed" ELSE "checked")
        /\ UNCHANGED <<bills, made, page, saves, faults, drifted>>
    BY <1>3 DEF Check
  <2>2. Room' /\ requests' \subseteq Request
    <3>1. CASE Refused(r)
      <4>1. Put(r, "failed")
        BY <2>1, <3>1
      <4> QED
        BY <1>2, <2>1, <4>1 DEF Phases
    <3>2. CASE ~Refused(r)
      <4>1. Put(r, "checked")
        BY <2>1, <3>2
      <4> QED
        BY <1>2, <2>1, <4>1 DEF Phases
    <3> QED
      BY <3>1, <3>2
  <2> QED
    BY <2>1, <2>2, NoBillWritten DEF page
<1>4. ASSUME NEW r \in requests, LoseRequest(r) PROVE Inv'
  <2>1. /\ Put(r, "failed") /\ faults < MaxFaults /\ faults' = faults + 1
        /\ fetch' = IF r.phase = "ok" THEN [fetch EXCEPT !.clean = FALSE] ELSE fetch
        /\ UNCHANGED <<bills, made, list, listError, form, saves>>
    BY <1>4 DEF LoseRequest
  <2>2. Room' /\ requests' \subseteq Request
    BY <1>2, <2>1 DEF Phases
  <2>3. drifted' \in BOOLEAN
    <3>1. drifted' = (drifted \/ r.phase = "ok")
      BY <1>4 DEF LoseRequest
    <3> QED
      BY <3>1
  <2>4. faults' \in 0 .. MaxFaults
    BY <2>1, RecordedAssumption
  <2>5. fetch' \in Fetch /\ OnePerId(fetch'.rows)
    BY <2>1
  <2> QED
    BY <2>1, <2>2, <2>3, <2>4, <2>5, NoBillWritten
<1>5. ASSUME NEW r \in requests, TakeSuccess(r) PROVE Inv'
  <2>1. /\ Invalidate
        /\ IF r.kind = "delete" THEN requests' = requests \ {r} /\ UNCHANGED form
                                ELSE form' = Closed /\ requests' = Unheard(requests \ {r})
        /\ UNCHANGED <<bills, made, list, listError, saves, faults>>
    BY <1>5 DEF TakeSuccess, CloseBillForm
  <2>2. requests \ {r} \in SUBSET requests
    OBVIOUS
  <2>3. Room' /\ requests' \subseteq Request /\ form' \in Form
    BY <2>1, <2>2, UnheardRoom, FewerRoom
  <2>4. drifted' \in BOOLEAN
    <3>1. drifted' = (drifted \/ (list = NoData /\ fetch.phase = "read"))
      BY <1>5 DEF TakeSuccess
    <3> QED
      BY <3>1
  <2>5. fetch' \in Fetch /\ OnePerId(fetch'.rows)
    BY <2>1 DEF Invalidate
  <2> QED
    BY <2>1, <2>3, <2>4, <2>5, NoBillWritten
<1>6. ASSUME NEW r \in requests, TakeFailure(r) PROVE Inv'
  <2>1. /\ form' = [form EXCEPT !.busy = (@ /\ ~r.heard)] /\ requests' = requests \ {r}
        /\ UNCHANGED <<bills, made, list, listError, fetch, saves, faults, drifted>>
    BY <1>6 DEF TakeFailure
  <2>2. form' \in Form
    BY <2>1 DEF Form, Request
  <2> QED
    BY <2>1, <2>2, FewerRoom, NoBillWritten
<1>7. ASSUME NEW r \in requests, TakeImport(r) PROVE Inv'
  BY <1>7, FewerRoom, NoBillWritten DEF TakeImport, page
<1> QED
  BY <1>1, <1>3, <1>4, <1>5, <1>6, <1>7

\* The commit: the rows stay one per id.
LEMMA WrittenTypes ==
  ASSUME Inv, NEW r \in requests, r.phase = "checked",
         r.kind = "post" => made < MaxBills, r.kind # "delete" => r.period \in Periods
  PROVE  /\ Written(r) \subseteq Bill /\ OnePerId(Written(r))
         /\ \A b \in Written(r) : b.id <= IF r.kind = "post" THEN made + 1 ELSE made
<1> USE Types
<1>0. \A b \in bills : b.id <= made /\ b.id \in Nat
  BY DEF Inv, TypeOK, Bill, Ids
<1>1. CASE r.kind = "post"
  <2> DEFINE x == [id |-> made + 1, numbered |-> FALSE, period |-> r.period]
  <2>1. Written(r) = bills \cup {x}
    BY <1>1 DEF Written
  <2>2. x \in Bill /\ x.id = made + 1
    BY <1>1, RecordedAssumption DEF Bill, Ids
  <2> HIDE DEF x
  <2>3. \A b \in bills : b.id # x.id
    BY <1>0, <2>2
  <2>4. OnePerId(bills \cup {x})
    BY <2>3 DEF OnePerId
  <2>5. \A b \in bills \cup {x} : b.id <= made + 1
    BY <1>0, <2>2
  <2> QED
    BY <1>1, <2>1, <2>2, <2>4, <2>5
<1>2. CASE r.kind = "patch"
  <2> DEFINE e(b) == [b EXCEPT !.period = IF b.id = r.target THEN r.period ELSE @]
  <2>1. Written(r) = {e(b) : b \in bills}
    BY <1>2 DEF Written
  <2>2. \A b \in bills : e(b) \in Bill /\ e(b).id = b.id
    BY <1>2 DEF Bill
  <2> HIDE DEF e
  <2>3. OnePerId(Written(r))
    BY <2>1, <2>2 DEF OnePerId
  <2> QED
    BY <1>0, <1>2, <2>1, <2>2, <2>3
<1>3. CASE r.kind = "delete"
  <2>1. Written(r) \subseteq bills
    BY <1>3 DEF Written
  <2> QED
    BY <1>0, <1>3, <2>1 DEF OnePerId
<1> QED
  BY <1>1, <1>2, <1>3 DEF Request

-----------------------------------------------------------------------------
(* What a request carries, from the form to the commit.                    *)

BodyOK(r) ==
  r.kind # "delete" =>
    /\ r.period \in Periods
    /\ r.mine /\ ~r.switched => r.origin = r.target

\* A form that has not been switched saves the bill whose values it took.
FormOK == ~form.switched => form.origin = form.editing

Bodies == FormOK /\ \A r \in requests : BodyOK(r)

SameBody(q, r) ==
  /\ q.kind = r.kind /\ q.period = r.period /\ q.target = r.target
  /\ q.origin = r.origin /\ q.switched = r.switched /\ q.mine = r.mine

\* No action but the three that send changes what a request carries.
LEMMA BodyKept ==
  ASSUME Inv, NEW r \in requests,
         Check(r) \/ Commit(r) \/ LoseRequest(r) \/ TakeSuccess(r) \/ TakeFailure(r) \/ TakeImport(r)
  PROVE  \A q \in requests' : \E p \in requests : SameBody(q, p)
<1>0. requests \subseteq Request
  BY Types
<1>1. ASSUME NEW to, Put(r, to) PROVE \A q \in requests' : \E p \in requests : SameBody(q, p)
  <2>1. SameBody([r EXCEPT !.phase = to], r)
    BY <1>0 DEF SameBody, Request
  <2> QED
    BY <1>1, <2>1 DEF Put, SameBody
<1>2. ASSUME requests' = requests \ {r}
      PROVE  \A q \in requests' : \E p \in requests : SameBody(q, p)
  BY <1>2 DEF SameBody
<1>3. ASSUME requests' = Unheard(requests \ {r})
      PROVE  \A q \in requests' : \E p \in requests : SameBody(q, p)
  <2>1. \A p \in requests : SameBody([p EXCEPT !.heard = FALSE], p)
    BY <1>0 DEF SameBody, Request
  <2> QED
    BY <1>3, <2>1 DEF Unheard
<1>4. ASSUME Commit(r) PROVE \A q \in requests' : \E p \in requests : SameBody(q, p)
  <2> DEFINE lost == r.kind = "patch" /\ Row(r.target) = {}
             late(q) == [q EXCEPT !.overtaken = (@ \/ q.phase = "checked")]
             done == [r EXCEPT !.phase = IF lost THEN "failed" ELSE "ok"]
  <2>1. requests' = {late(q) : q \in requests \ {r}} \cup {done}
    BY <1>4 DEF Commit
  <2>2. \A q \in requests : SameBody(late(q), q)
    BY <1>0 DEF SameBody, Request
  <2>3. SameBody(done, r)
    BY <1>0 DEF SameBody, Request
  <2> HIDE DEF late, done
  <2> QED
    BY <2>1, <2>2, <2>3
<1>5. CASE Check(r)
  BY <1>1, <1>5 DEF Check
<1>6. CASE LoseRequest(r)
  BY <1>1, <1>6 DEF LoseRequest
<1>7. CASE TakeSuccess(r)
  BY <1>2, <1>3, <1>7 DEF TakeSuccess, CloseBillForm
<1> QED
  BY <1>2, <1>4, <1>5, <1>6, <1>7 DEF TakeFailure, TakeImport

LEMMA BodiesStep == Inv /\ Bodies /\ [Next]_vars => Bodies'
<1> SUFFICES ASSUME Inv, Bodies, [Next]_vars PROVE FormOK' /\ \A q \in requests' : BodyOK(q)
  BY DEF Bodies, BodyOK
<1> USE Types
<1>1. ASSUME \A q \in requests' : \E p \in requests : SameBody(q, p)
      PROVE  \A q \in requests' : BodyOK(q)
  <2>1. ASSUME NEW q \in requests' PROVE BodyOK(q)
    <3>1. PICK p \in requests : SameBody(q, p)
      BY <1>1
    <3>2. BodyOK(p)
      BY DEF Bodies
    <3> QED
      BY <3>1, <3>2 DEF BodyOK, SameBody
  <2> QED
    BY <2>1
<1>2. ASSUME UNCHANGED requests PROVE \A q \in requests' : BodyOK(q)
  BY <1>2 DEF Bodies
<1>3. ASSUME form' = form \/ form' = Closed PROVE FormOK'
  <2>1. Closed.origin = Closed.editing
    BY DEF Closed
  <2> QED
    BY <1>3, <2>1 DEF Bodies, FormOK
<1>4. ASSUME NEW adding \in BOOLEAN, NEW id \in Ids \cup {NoBill}, form' = Opened(adding, id)
      PROVE  FormOK'
  <2>1. CASE FormShown
    <3>1. form' = [form EXCEPT !.adding = adding, !.editing = id,
                              !.switched = (form.switched \/ id # form.origin)]
      BY <1>4, <2>1 DEF Opened
    <3>2. form'.editing = id /\ form'.origin = form.origin
          /\ form'.switched = (form.switched \/ id # form.origin)
      BY <3>1 DEF Form
    <3> QED
      BY <3>2 DEF FormOK
  <2>2. CASE ~FormShown
    <3>1. form' = [Closed EXCEPT !.adding = adding, !.editing = id, !.origin = id]
      BY <1>4, <2>2 DEF Opened
    <3>2. form'.editing = id /\ form'.origin = id
      BY <3>1 DEF Closed
    <3> QED
      BY <3>2 DEF FormOK
  <2> QED
    BY <2>1, <2>2
<1>5. ASSUME PressAdd PROVE FormOK' /\ \A q \in requests' : BodyOK(q)
  <2>1. form' = Opened(TRUE, form.editing) /\ form.editing \in Ids \cup {NoBill}
    BY <1>5 DEF PressAdd, Form
  <2>2. FormOK'
    BY <1>4, <2>1
  <2> QED
    BY <1>2, <1>5, <2>2 DEF PressAdd
<1>6. ASSUME list # NoData, NEW b \in list, PressEdit(b)
      PROVE  FormOK' /\ \A q \in requests' : BodyOK(q)
  <2>1. form' = Opened(FALSE, b.id) /\ b.id \in Ids \cup {NoBill}
    BY <1>6 DEF PressEdit, Bill
  <2>2. FormOK'
    BY <1>4, <2>1
  <2> QED
    BY <1>2, <1>6, <2>2 DEF PressEdit
<1>7. ASSUME Cancel PROVE FormOK' /\ \A q \in requests' : BodyOK(q)
  <2>1. requests' = Unheard(requests) /\ form' = Closed
    BY <1>7 DEF Cancel, CloseBillForm
  <2>2. \A p \in requests : SameBody([p EXCEPT !.heard = FALSE], p)
    BY DEF SameBody, Request
  <2>3. \A q \in requests' : \E p \in requests : SameBody(q, p)
    BY <2>1, <2>2 DEF Unheard
  <2> QED
    BY <1>1, <1>3, <2>1, <2>3
<1>8. ASSUME NEW p \in Periods, Submit(p) PROVE FormOK' /\ \A q \in requests' : BodyOK(q)
  <2> DEFINE kind == IF form.editing = NoBill THEN "post" ELSE "patch"
             x == [ARequest(kind, form.editing, p)
                     EXCEPT !.origin = form.origin, !.switched = form.switched, !.heard = TRUE]
  <2>1. requests' = requests \cup {x} /\ form' = [form EXCEPT !.busy = TRUE]
    BY <1>8 DEF Submit
  <2>2. x.period = p /\ x.switched = form.switched /\ x.origin = form.origin
        /\ x.target = form.editing
    BY DEF ARequest
  <2> HIDE DEF x
  <2>3. BodyOK(x)
    BY <2>2 DEF BodyOK, Bodies, FormOK
  <2>4. form'.switched = form.switched /\ form'.origin = form.origin /\ form'.editing = form.editing
    BY <2>1 DEF Form
  <2>5. FormOK'
    BY <2>4 DEF FormOK, Bodies
  <2> QED
    BY <2>1, <2>3, <2>5 DEF Bodies
<1>9. ASSUME list # NoData, NEW b \in list, PressDelete(b)
      PROVE  FormOK' /\ \A q \in requests' : BodyOK(q)
  <2>1. requests' = requests \cup {ARequest("delete", b.id, Blank)} /\ form' = form
    BY <1>9 DEF PressDelete, page
  <2>2. BodyOK(ARequest("delete", b.id, Blank))
    BY DEF BodyOK, ARequest
  <2> QED
    BY <1>3, <2>1, <2>2 DEF Bodies
<1>10. ASSUME NEW p \in Periods, Import(p) PROVE FormOK' /\ \A q \in requests' : BodyOK(q)
  <2> DEFINE x == [ARequest("post", NoBill, p) EXCEPT !.mine = FALSE]
  <2>1. requests' = requests \cup {x} /\ form' = form
    BY <1>10 DEF Import, page
  <2>2. x.period = p /\ x.mine = FALSE
    BY DEF ARequest
  <2> HIDE DEF x
  <2>3. BodyOK(x)
    BY <2>2 DEF BodyOK
  <2> QED
    BY <1>3, <2>1, <2>3 DEF Bodies
<1>11. ASSUME Refetch \/ ReadList \/ TakeList \/ LoseList \/ UNCHANGED vars
       PROVE  FormOK' /\ \A q \in requests' : BodyOK(q)
  <2>1. UNCHANGED <<requests, form>>
    BY <1>11 DEF Refetch, ReadList, TakeList, LoseList, vars, page
  <2> QED
    BY <1>2, <1>3, <2>1
<1>12. ASSUME NEW r \in requests,
              Check(r) \/ Commit(r) \/ LoseRequest(r) \/ TakeSuccess(r) \/ TakeFailure(r) \/ TakeImport(r)
       PROVE  FormOK' /\ \A q \in requests' : BodyOK(q)
  <2>1. FormOK'
    <3>1. CASE TakeFailure(r)
      <4>1. form' = [form EXCEPT !.busy = (@ /\ ~r.heard)]
        BY <3>1 DEF TakeFailure
      <4>2. form'.switched = form.switched /\ form'.origin = form.origin /\ form'.editing = form.editing
        BY <4>1 DEF Form
      <4> QED
        BY <4>2 DEF FormOK, Bodies
    <3>2. CASE ~TakeFailure(r)
      <4>1. form' = form \/ form' = Closed
        BY <1>12, <3>2 DEF Check, Commit, LoseRequest, TakeSuccess, TakeImport, CloseBillForm, page
      <4> QED
        BY <1>3, <4>1
    <3> QED
      BY <3>1, <3>2
  <2> QED
    BY <1>1, <1>12, <2>1, BodyKept
<1> QED
  BY <1>5, <1>6, <1>7, <1>8, <1>9, <1>10, <1>11, <1>12 DEF Next, ByUser

\* What a commit leaves of the requests.
Late(q) == [q EXCEPT !.overtaken = (@ \/ q.phase = "checked")]
Lost(r) == r.kind = "patch" /\ Row(r.target) = {}
Done(r) == [r EXCEPT !.phase = IF Lost(r) THEN "failed" ELSE "ok"]

LEMMA CommitRequests ==
  ASSUME Inv, NEW r \in requests, Commit(r)
  PROVE  /\ requests' = {Late(q) : q \in requests \ {r}} \cup {Done(r)}
         /\ requests' \subseteq Request
         /\ Done(r).phase \in {"failed", "ok"}
         /\ \A q \in requests : /\ Late(q).phase = q.phase /\ Late(q).kind = q.kind
                                /\ Late(q).mine = q.mine
                                /\ Late(q).phase = "checked" => Late(q).overtaken
<1>1. requests' = {Late(q) : q \in requests \ {r}} \cup {Done(r)}
  BY DEF Commit, Late, Done, Lost
<1>2. \A q \in requests : /\ Late(q) \in Request /\ Late(q).phase = q.phase /\ Late(q).kind = q.kind
                          /\ Late(q).mine = q.mine
                          /\ Late(q).phase = "checked" => Late(q).overtaken
  BY Types DEF Late, Request
<1>3. Done(r) \in Request /\ Done(r).phase \in {"failed", "ok"}
  BY Types DEF Done, Request, Phases
<1> QED
  BY <1>1, <1>2, <1>3

LEMMA CommitRoom ==
  ASSUME Inv, NEW r \in requests, Commit(r)
  PROVE  Room' /\ (r.kind = "post" => made < MaxBills)
<1> DEFINE left == requests \ {r}
           f == [q \in left |-> Late(q)]
           n == IF r.kind = "post" THEN 1 ELSE 0
           P == Pending(requests)
<1>0. /\ requests' = {Late(q) : q \in left} \cup {Done(r)}
      /\ Done(r).phase \in {"failed", "ok"}
      /\ \A q \in requests : Late(q).phase = q.phase /\ Late(q).kind = q.kind
  BY CommitRequests
<1>1. /\ IsFiniteSet(P) /\ Cardinality(P) \in Nat /\ made \in Nat /\ MaxBills \in Nat
      /\ made + Cardinality(P) <= MaxBills /\ IsFiniteSet(left)
  BY PendingType, RecordedAssumption, FS_RemoveElement DEF Inv, Room
<1>2. r.phase = "checked" /\ made' = made + n
  BY <1>1 DEF Commit
<1>3. f = [q \in left |-> f[q]] /\ left \in SUBSET requests
  OBVIOUS
<1>4. IsFiniteSet(requests')
  <2>1. requests' = Values(f, left) \cup {Done(r)}
    BY <1>0 DEF Values
  <2>2. IsFiniteSet(Values(f, left))
    <3> HIDE DEF f, left
    <3> QED
      BY <1>1, <1>3, FewValues
  <2> QED
    BY <2>1, <2>2, FS_AddElement
<1>5. \A q \in Pending(requests') : \E p \in Pending(left) : q = f[p]
  <2>1. ASSUME NEW q \in Pending(requests') PROVE \E p \in Pending(left) : q = f[p]
    <3>1. q \in requests' /\ q.phase \in {"sent", "checked"} /\ q.kind = "post"
      BY DEF Pending
    <3>2. PICK p \in left : q = Late(p)
      BY <1>0, <3>1
    <3>3. p \in Pending(left)
      BY <1>0, <3>1, <3>2 DEF Pending
    <3> QED
      BY <3>2, <3>3
  <2> QED
    BY <2>1
<1>6. Pending(left) = P \ {r}
  BY DEF Pending
<1>7. CASE r.kind = "post"
  <2>1. r \in P
    BY <1>2, <1>7 DEF Pending
  <2>2. Cardinality(Pending(left)) = Cardinality(P) - 1 /\ Cardinality(Pending(left)) \in Nat
    <3>1. IsFiniteSet(P \ {r}) /\ Cardinality(P \ {r}) = Cardinality(P) - 1
      BY <1>1, <2>1, FS_RemoveElement
    <3> QED
      BY <1>6, <3>1, FS_CardinalityType
  <2>3. made < MaxBills /\ Cardinality(Pending(left)) + 1 <= Cardinality(P)
    BY <1>1, <2>2
  <2>4. Room'
    <3>1. 1 \in 0 .. 1 /\ made' = made + 1
      BY <1>2, <1>7
    <3> HIDE DEF f, left, P
    <3> QED
      BY <1>3, <1>4, <1>5, <2>3, <3>1, RoomWhenMapped DEF P
  <2> QED
    BY <2>3, <2>4
<1>8. CASE r.kind # "post"
  <2>1. Pending(left) \in SUBSET P
    BY <1>6
  <2>2. Cardinality(Pending(left)) \in Nat /\ Cardinality(Pending(left)) <= Cardinality(P)
    BY <1>1, <2>1, FS_Subset, FS_CardinalityType
  <2>3. Cardinality(Pending(left)) + 0 <= Cardinality(P) /\ 0 \in 0 .. 1 /\ made' = made + 0
    BY <1>1, <1>2, <1>8, <2>2
  <2>4. Room'
    <3> HIDE DEF f, left, P
    <3> QED
      BY <1>3, <1>4, <1>5, <2>3, RoomWhenMapped DEF P
  <2> QED
    BY <1>8, <2>4
<1> QED
  BY <1>7, <1>8

LEMMA CommitStep ==
  ASSUME Inv, Bodies, NEW r \in requests, Commit(r)
  PROVE  Inv'
<1> USE Types
<1>1. /\ r.phase = "checked"
      /\ bills' = IF Lost(r) THEN bills ELSE Written(r)
      /\ made' = IF r.kind = "post" THEN made + 1 ELSE made
      /\ fetch' = IF r.mine THEN fetch ELSE [fetch EXCEPT !.clean = FALSE]
      /\ UNCHANGED <<list, listError, form, saves, faults>>
  BY DEF Commit, Lost
<1>2. /\ Room' /\ requests' \subseteq Request
      /\ r.kind = "post" => made < MaxBills
  BY CommitRequests, CommitRoom
<1>3. r.kind # "delete" => r.period \in Periods
  BY DEF Bodies, BodyOK
<1>4. /\ Written(r) \subseteq Bill /\ OnePerId(Written(r))
      /\ \A b \in Written(r) : b.id <= IF r.kind = "post" THEN made + 1 ELSE made
  BY <1>1, <1>2, <1>3, WrittenTypes
<1>5. \A b \in bills : b.id <= made
  BY DEF Inv, TypeOK
<1>6. made' \in 0 .. MaxBills /\ bills' \subseteq Bill /\ OnePerId(bills') /\ \A b \in bills' : b.id <= made'
  <2>1. CASE Lost(r)
    BY <1>1, <1>5, <2>1 DEF Lost
  <2>2. CASE ~Lost(r)
    BY <1>1, <1>2, <1>4, <2>2, RecordedAssumption
  <2> QED
    BY <2>1, <2>2
<1>7. drifted' \in BOOLEAN
  <2>1. drifted' = (drifted \/ ~r.mine)
    BY DEF Commit
  <2> QED
    BY <2>1
<1>8. fetch' \in Fetch /\ OnePerId(fetch'.rows)
  BY <1>1
<1>9. TypeOK'
  <2>1. /\ list' = NoData \/ (list' \subseteq Bill /\ OnePerId(list'))
        /\ listError' \in BOOLEAN /\ form' \in Form
        /\ saves' \in 0 .. MaxSaves /\ faults' \in 0 .. MaxFaults
    BY <1>1
  <2> QED
    BY <1>2, <1>6, <1>7, <1>8, <2>1 DEF TypeOK, OnePerId
<1> QED
  BY <1>2, <1>8, <1>9 DEF Inv, OnePerId

LEMMA InvStep == Inv /\ Bodies /\ [Next]_vars => Inv'
<1> SUFFICES ASSUME Inv, Bodies, [Next]_vars PROVE Inv'
  OBVIOUS
<1>1. CASE UNCHANGED vars
  <2>1. UNCHANGED <<bills, made, requests, list, listError, fetch, form, saves, faults, drifted>>
    BY <1>1 DEF vars, page
  <2> QED
    BY <2>1, SameRoom, NoBillWritten, Types
<1>2. ASSUME \E p \in Periods : Import(p) PROVE Inv'
  BY <1>2, RequestStep
<1>3. ASSUME NEW r \in requests, Check(r) \/ LoseRequest(r) \/ TakeSuccess(r) \/ TakeFailure(r) \/ TakeImport(r)
      PROVE  Inv'
  BY <1>3, RequestStep
<1> QED
  BY <1>1, <1>2, <1>3, PageStep, CommitStep DEF Next

LEMMA InitBodies == Init => Bodies
  BY DEF Init, Bodies, FormOK, Closed

\* Rows, requests and form keep their ranges, and no bill is made without an id.
THEOREM TypeCorrect == Spec => []TypeOK
<1>1. Inv => TypeOK
  BY DEF Inv
<1> QED
  BY InitInv, InitBodies, InvStep, BodiesStep, <1>1, PTL DEF Spec

\* A form comes to save into another bill than the one whose values it took.
Strays == form.origin = form.editing /\ form'.origin # form'.editing

\* "Edit" of that other bill, while a form is on screen.
EditOverForm == FormShown /\ list # NoData /\ \E b \in list : b.id # form.origin /\ PressEdit(b)

\* Nothing else writes a form but to open, close, busy or free it.
LEMMA EditStrays ==
  ASSUME Inv, [Next]_vars, Strays
  PROVE  EditOverForm
<1> USE Types
<1>1. form' # form
  BY DEF Strays
<1>2. form' # Closed
  <2>1. Closed.origin = Closed.editing
    BY DEF Closed
  <2> QED
    BY <2>1 DEF Strays
<1>3. ASSUME NEW busy \in BOOLEAN PROVE form' # [form EXCEPT !.busy = busy]
  <2> DEFINE g == [form EXCEPT !.busy = busy]
  <2>1. g.origin = form.origin /\ g.editing = form.editing
    BY DEF Form
  <2> QED
    BY <2>1 DEF Strays
<1>4. ASSUME NEW adding \in BOOLEAN, NEW id \in Ids \cup {NoBill}, form' = Opened(adding, id)
      PROVE  FormShown /\ id # form.origin
  <2>1. CASE FormShown
    <3>1. form' = [form EXCEPT !.adding = adding, !.editing = id,
                              !.switched = (form.switched \/ id # form.origin)]
      BY <1>4, <2>1 DEF Opened
    <3>2. form'.editing = id /\ form'.origin = form.origin
      BY <3>1 DEF Form
    <3> QED
      BY <2>1, <3>2 DEF Strays
  <2>2. CASE ~FormShown
    <3>1. form' = [Closed EXCEPT !.adding = adding, !.editing = id, !.origin = id]
      BY <1>4, <2>2 DEF Opened
    <3>2. form'.editing = id /\ form'.origin = id
      BY <3>1 DEF Closed
    <3> QED
      BY <3>2 DEF Strays
  <2> QED
    BY <2>1, <2>2
<1>5. CASE PressAdd
  <2>1. form' = Opened(TRUE, form.editing) /\ form.editing \in Ids \cup {NoBill}
    BY <1>5 DEF PressAdd, Form
  <2> QED
    BY <1>4, <2>1 DEF Strays
<1>6. ASSUME list # NoData, NEW b \in list, PressEdit(b) PROVE EditOverForm
  <2>1. form' = Opened(FALSE, b.id) /\ b.id \in Ids \cup {NoBill}
    BY <1>6 DEF PressEdit, Bill
  <2>2. FormShown /\ b.id # form.origin
    BY <1>4, <2>1
  <2> QED
    BY <1>6, <2>2 DEF EditOverForm
<1>7. ASSUME NEW p \in Periods, Submit(p) PROVE FALSE
  BY <1>3, <1>7 DEF Submit
<1>8. ASSUME NEW r \in requests, TakeFailure(r) PROVE FALSE
  <2>1. form' = [form EXCEPT !.busy = (form.busy /\ ~r.heard)] /\ (form.busy /\ ~r.heard) \in BOOLEAN
    BY <1>8 DEF TakeFailure, Form
  <2> QED
    BY <1>3, <2>1
<1>9. ASSUME NEW r \in requests, Check(r) \/ Commit(r) \/ LoseRequest(r) \/ TakeSuccess(r) \/ TakeImport(r)
      PROVE  FALSE
  BY <1>1, <1>2, <1>9 DEF Check, Commit, LoseRequest, TakeSuccess, TakeImport, CloseBillForm, page
<1>10. ASSUME NEW b \in list, PressDelete(b) PROVE FALSE
  BY <1>1, <1>10 DEF PressDelete, page
<1>11. ASSUME NEW p \in Periods, Import(p) PROVE FALSE
  BY <1>1, <1>11 DEF Import, page
<1>12. CASE Cancel \/ Refetch \/ ReadList \/ TakeList \/ LoseList \/ UNCHANGED vars
  BY <1>1, <1>2, <1>12 DEF Cancel, CloseBillForm, Refetch, ReadList, TakeList, LoseList, vars, page
<1> QED
  BY <1>5, <1>6, <1>7, <1>8, <1>9, <1>10, <1>11, <1>12 DEF Next, ByUser

\* A save goes into the bill whose values its form took, or, when it was sent
\* from a form over which another bill's Edit had been pressed, wherever that
\* left it; and nothing but such an Edit turns a form to another bill: no
\* Cancel, Add or answer that comes in between (PlaceDetailPage.tsx).
THEOREM SavesItsBill == Spec => []SaveIsOfItsBill /\ [][Strays => EditOverForm]_vars
<1>1. Bodies => SaveIsOfItsBill
  BY DEF Bodies, BodyOK, SaveIsOfItsBill
<1>2. Inv /\ Bodies /\ [Next]_vars => [Strays => EditOverForm]_vars
  BY EditStrays
<1>3. Spec => [](Inv /\ Bodies)
  BY InitInv, InitBodies, InvStep, BodiesStep, PTL DEF Spec
<1>4. Spec => []SaveIsOfItsBill
  BY <1>1, <1>3, PTL
<1>5. Spec => [][Strays => EditOverForm]_vars
  BY <1>2, <1>3, PTL DEF Spec
<1> QED
  BY <1>4, <1>5

-----------------------------------------------------------------------------
(* DuplicateOnlyByRace: what a check has found holds until a commit.       *)

Unovertaken == \A r \in requests : r.phase = "checked" /\ ~r.overtaken => ~Refused(r)

\* The checked requests of the next state were checked before.
NoNewCheck ==
  \A q \in requests' : q.phase = "checked" /\ ~q.overtaken =>
    \E p \in requests : SameBody(q, p) /\ p.phase = "checked" /\ ~p.overtaken

LEMMA SameRefusal ==
  ASSUME NEW q, NEW p, SameBody(q, p)
  PROVE  Refused(q) = Refused(p)
BY DEF Refused, RefusedPatch, SameBody

LEMMA RefusedAgain ==
  ASSUME NEW q, bills' = bills
  PROVE  Refused(q)' = Refused(q)
BY DEF Refused, RefusedPatch, Duplicate, Row

LEMMA UnovertakenKept ==
  ASSUME Unovertaken, NoNewCheck, bills' = bills
  PROVE  Unovertaken'
<1>1. ASSUME NEW q \in requests', q.phase = "checked", ~q.overtaken
      PROVE  ~Refused(q)'
  <2>1. PICK p \in requests : SameBody(q, p) /\ p.phase = "checked" /\ ~p.overtaken
    BY <1>1 DEF NoNewCheck
  <2> QED
    BY <2>1, SameRefusal, RefusedAgain DEF Unovertaken
<1> QED
  BY <1>1 DEF Unovertaken

LEMMA UnovertakenStep == Inv /\ Unovertaken /\ [Next]_vars => Unovertaken'
<1> SUFFICES ASSUME Inv, Unovertaken, [Next]_vars PROVE Unovertaken'
  OBVIOUS
<1>0. requests \subseteq Request
  BY Types
<1>1. ASSUME NEW x, x.phase = "sent", requests' = requests \cup {x}, bills' = bills
      PROVE  Unovertaken'
  <2>1. NoNewCheck
    BY <1>1 DEF NoNewCheck, SameBody
  <2> QED
    BY <1>1, <2>1, UnovertakenKept
<1>2. ASSUME requests' \subseteq requests, bills' = bills PROVE Unovertaken'
  <2>1. NoNewCheck
    BY <1>2 DEF NoNewCheck, SameBody
  <2> QED
    BY <1>2, <2>1, UnovertakenKept
<1>3. ASSUME NEW left \in SUBSET requests, requests' = Unheard(left), bills' = bills
      PROVE  Unovertaken'
  <2>1. NoNewCheck
    <3>1. ASSUME NEW q \in requests'
          PROVE  \E p \in requests : SameBody(q, p) /\ p.phase = q.phase /\ p.overtaken = q.overtaken
      <4>1. PICK p \in left : q = [p EXCEPT !.heard = FALSE]
        BY <1>3 DEF Unheard
      <4> QED
        BY <1>0, <4>1 DEF SameBody, Request
    <3> QED
      BY <3>1 DEF NoNewCheck
  <2> QED
    BY <1>3, <2>1, UnovertakenKept
<1>4. ASSUME NEW r \in requests, Check(r) PROVE Unovertaken'
  <2> DEFINE x == [r EXCEPT !.phase = IF Refused(r) THEN "failed" ELSE "checked"]
  <2>1. requests' = (requests \ {r}) \cup {x} /\ bills' = bills
    BY <1>4 DEF Check, Put
  <2>2. SameBody(x, r) /\ x.phase = IF Refused(r) THEN "failed" ELSE "checked"
    BY <1>0 DEF SameBody, Request
  <2> HIDE DEF x
  <2>3. ASSUME NEW q \in requests', q.phase = "checked", ~q.overtaken PROVE ~Refused(q)
    <3>1. CASE q = x
      BY <2>2, <2>3, <3>1, SameRefusal
    <3>2. CASE q # x
      BY <2>1, <2>3, <3>2 DEF Unovertaken
    <3> QED
      BY <3>1, <3>2
  <2> QED
    BY <2>1, <2>3, RefusedAgain DEF Unovertaken
<1>5. ASSUME NEW r \in requests, LoseRequest(r) PROVE Unovertaken'
  <2> DEFINE x == [r EXCEPT !.phase = "failed"]
  <2>1. requests' = (requests \ {r}) \cup {x} /\ bills' = bills
    BY <1>5 DEF LoseRequest, Put
  <2>2. x.phase = "failed"
    BY <1>0 DEF Request
  <2> HIDE DEF x
  <2>3. NoNewCheck
    BY <2>1, <2>2 DEF NoNewCheck, SameBody
  <2> QED
    BY <2>1, <2>3, UnovertakenKept
<1>6. ASSUME NEW r \in requests, Commit(r) PROVE Unovertaken'
  <2>1. \A q \in requests' : q.phase = "checked" => q.overtaken
    BY <1>6, CommitRequests
  <2> QED
    BY <2>1 DEF Unovertaken
<1>7. ASSUME NEW r \in requests, TakeSuccess(r) PROVE Unovertaken'
  <2>1. bills' = bills /\ requests' \in {requests \ {r}, Unheard(requests \ {r})}
    BY <1>7 DEF TakeSuccess, CloseBillForm
  <2> QED
    BY <1>2, <1>3, <2>1
<1>8. ASSUME NEW r \in requests, TakeFailure(r) \/ TakeImport(r) PROVE Unovertaken'
  BY <1>2, <1>8 DEF TakeFailure, TakeImport
<1>9. ASSUME NEW p \in Periods, Submit(p) PROVE Unovertaken'
  <2> DEFINE x == [ARequest(IF form.editing = NoBill THEN "post" ELSE "patch", form.editing, p)
                     EXCEPT !.origin = form.origin, !.switched = form.switched, !.heard = TRUE]
  <2>1. requests' = requests \cup {x} /\ bills' = bills
    BY <1>9 DEF Submit
  <2>2. x.phase = "sent"
    BY DEF ARequest
  <2> HIDE DEF x
  <2> QED
    BY <1>1, <2>1, <2>2
<1>10. ASSUME NEW b, PressDelete(b) PROVE Unovertaken'
  BY <1>1, <1>10 DEF PressDelete, ARequest
<1>11. ASSUME NEW p \in Periods, Import(p) PROVE Unovertaken'
  <2>1. requests' = requests \cup {[ARequest("post", NoBill, p) EXCEPT !.mine = FALSE]} /\ bills' = bills
    BY <1>11 DEF Import
  <2>2. [ARequest("post", NoBill, p) EXCEPT !.mine = FALSE].phase = "sent"
    BY DEF ARequest
  <2> QED
    BY <1>1, <2>1, <2>2
<1>12. ASSUME Cancel PROVE Unovertaken'
  BY <1>3, <1>12 DEF Cancel, CloseBillForm
<1>13. ASSUME NEW b, PressEdit(b) PROVE Unovertaken'
  BY <1>2, <1>13 DEF PressEdit
<1>14. ASSUME PressAdd \/ Refetch \/ ReadList \/ TakeList \/ LoseList \/ UNCHANGED vars PROVE Unovertaken'
  BY <1>2, <1>14 DEF PressAdd, Refetch, ReadList, TakeList, LoseList, vars
<1> QED
  BY <1>4, <1>5, <1>6, <1>7, <1>8, <1>9, <1>10, <1>11, <1>12, <1>13, <1>14 DEF Next, ByUser

\* A write that passed its check keeps the rule.
LEMMA AcceptedKeepsRule ==
  ASSUME Inv, OnePerPeriod, NEW r \in requests, Commit(r), ~Refused(r)
  PROVE  OnePerPeriod'
<1> USE Types
<1>0. \A b \in bills : b.id \in Ids /\ b.id # NoBill
  BY DEF Bill, Ids, NoBill
<1>1. CASE bills' = bills
  BY <1>1 DEF OnePerPeriod
<1>2. CASE bills' = Written(r) /\ r.kind = "post"
  <2> DEFINE x == [id |-> made + 1, numbered |-> FALSE, period |-> r.period]
  <2>1. bills' = bills \cup {x}
    BY <1>2 DEF Written
  <2>2. \A b \in bills : b.period # r.period
    BY <1>0, <1>2 DEF Refused, Duplicate
  <2>3. x.period = r.period
    OBVIOUS
  <2> HIDE DEF x
  <2> QED
    BY <2>1, <2>2, <2>3 DEF OnePerPeriod
<1>3. CASE bills' = Written(r) /\ r.kind = "patch"
  <2> DEFINE e(b) == [b EXCEPT !.period = IF b.id = r.target THEN r.period ELSE @]
  <2>1. bills' = {e(b) : b \in bills}
    BY <1>3 DEF Written
  <2>2. \A b \in bills : /\ e(b).id = b.id /\ e(b).numbered = b.numbered
                         /\ e(b).period = IF b.id = r.target THEN r.period ELSE b.period
    BY DEF Bill
  <2>3. \A b, c \in bills : b.id = r.target /\ ~b.numbered /\ c.id # r.target => c.period # r.period
    BY <1>3 DEF Refused, RefusedPatch, Duplicate, Row
  <2> HIDE DEF e
  <2>4. ASSUME NEW b \in bills, NEW c \in bills, ~e(b).numbered, ~e(c).numbered,
               e(b).period = e(c).period
        PROVE  b = c
    <3>1. CASE b.id = r.target /\ c.id = r.target
      BY <3>1 DEF OnePerId
    <3>2. CASE b.id # r.target /\ c.id # r.target
      BY <2>2, <2>4, <3>2 DEF OnePerPeriod
    <3>3. CASE (b.id = r.target) # (c.id = r.target)
      BY <2>2, <2>3, <2>4, <3>3
    <3> QED
      BY <3>1, <3>2, <3>3
  <2> QED
    BY <2>1, <2>4 DEF OnePerPeriod
<1>4. CASE bills' = Written(r) /\ r.kind = "delete"
  <2>1. bills' \subseteq bills
    BY <1>4 DEF Written
  <2> QED
    BY <2>1 DEF OnePerPeriod
<1>5. bills' = bills \/ bills' = Written(r)
  BY DEF Commit
<1>6. r.kind \in {"post", "patch", "delete"}
  BY DEF Request
<1> QED
  BY <1>1, <1>2, <1>3, <1>4, <1>5, <1>6

LEMMA OnlyCommitWrites ==
  ASSUME [Next]_vars, bills' # bills
  PROVE  \E r \in requests : Commit(r)
<1>1. ASSUME ByUser PROVE FALSE
  <2>1. ASSUME NEW p \in Periods, Submit(p) PROVE FALSE
    BY <2>1 DEF Submit
  <2>2. ASSUME NEW b, PressEdit(b) \/ PressDelete(b) PROVE FALSE
    BY <2>2 DEF PressEdit, PressDelete
  <2> QED
    BY <1>1, <2>1, <2>2 DEF ByUser, PressAdd, Cancel
<1>2. ASSUME NEW p \in Periods, Import(p) PROVE FALSE
  BY <1>2 DEF Import
<1>3. ASSUME Refetch \/ ReadList \/ TakeList \/ LoseList \/ UNCHANGED vars PROVE FALSE
  BY <1>3 DEF Refetch, ReadList, TakeList, LoseList, vars
<1>4. ASSUME NEW r \in requests,
             Check(r) \/ LoseRequest(r) \/ TakeSuccess(r) \/ TakeFailure(r) \/ TakeImport(r)
      PROVE  FALSE
  BY <1>4 DEF Check, LoseRequest, TakeSuccess, TakeFailure, TakeImport
<1> QED
  BY <1>1, <1>2, <1>3, <1>4 DEF Next

\* Only a commit that another write has overtaken since its check makes two bills
\* without a number for one period.
THEOREM OnlyRacesDuplicate == Spec => DuplicateOnlyByRace
<1>1. Init => Unovertaken
  BY DEF Init, Unovertaken
<1>2. Inv /\ Unovertaken /\ [Next]_vars =>
        [OnePerPeriod /\ ~OnePerPeriod' => \E r \in requests : r.overtaken /\ Commit(r)]_vars
  <2> SUFFICES ASSUME Inv, Unovertaken, [Next]_vars, OnePerPeriod, ~OnePerPeriod'
               PROVE  \E r \in requests : r.overtaken /\ Commit(r)
    OBVIOUS
  <2>1. bills' # bills
    BY DEF OnePerPeriod
  <2>2. PICK r \in requests : Commit(r)
    BY <2>1, OnlyCommitWrites
  <2>3. Refused(r)
    BY <2>2, AcceptedKeepsRule
  <2>4. r.phase = "checked"
    BY <2>2 DEF Commit
  <2> QED
    BY <2>2, <2>3, <2>4 DEF Unovertaken
<1> QED
  BY InitInv, InitBodies, InvStep, BodiesStep, UnovertakenStep, <1>1, <1>2, PTL
  DEF Spec, DuplicateOnlyByRace

-----------------------------------------------------------------------------
(* QuietListIsServer: no read that is shown misses a write of this page.   *)

\* No save of this page is committed and not yet answered.
Settled == \A r \in requests : r.mine => r.phase # "ok"

Current ==
  Settled =>
    /\ fetch.phase = "read" /\ fetch.clean => fetch.rows = bills
    /\ fetch.phase = "idle" /\ list # NoData /\ ~listError /\ ~drifted => list = bills

\* Whatever changes neither the rows, nor the list, nor its fetch.
LEMMA CurrentKept ==
  ASSUME Current, UNCHANGED <<bills, list, listError, fetch, drifted>>, Settled' => Settled
  PROVE  Current'
BY DEF Current

LEMMA FetchCleared ==
  ASSUME Inv
  PROVE  /\ [fetch EXCEPT !.clean = FALSE].clean = FALSE
         /\ [fetch EXCEPT !.clean = FALSE].phase = fetch.phase
         /\ Asked.phase = "sent" /\ Idle.phase = "idle"
BY Types DEF Fetch, Asked, Idle

LEMMA UnheardSettled ==
  ASSUME Inv, NEW left \in SUBSET requests, requests' = Unheard(left), Settled'
  PROVE  \A r \in left : r.mine => r.phase # "ok"
<1> SUFFICES ASSUME NEW r \in left, r.mine PROVE r.phase # "ok"
  OBVIOUS
<1> DEFINE x == [r EXCEPT !.heard = FALSE]
<1>1. x \in requests'
  BY DEF Unheard
<1>2. x.mine = r.mine /\ x.phase = r.phase
  BY Types DEF Request
<1> HIDE DEF x
<1> QED
  BY <1>1, <1>2 DEF Settled

LEMMA CurrentUserStep ==
  ASSUME Inv, Current, ByUser \/ \E p \in Periods : Import(p)
  PROVE  Current'
<1>1. ASSUME requests \subseteq requests' PROVE Settled' => Settled
  BY <1>1 DEF Settled
<1>2. ASSUME PressAdd PROVE Current'
  BY <1>1, <1>2, CurrentKept DEF PressAdd
<1>3. ASSUME NEW b, PressEdit(b) \/ PressDelete(b) PROVE Current'
  BY <1>1, <1>3, CurrentKept DEF PressEdit, PressDelete, page
<1>4. ASSUME NEW p \in Periods, Submit(p) \/ Import(p) PROVE Current'
  <2>1. requests \subseteq requests' /\ UNCHANGED <<bills, list, listError, fetch, drifted>>
    BY <1>4 DEF Submit, Import, page
  <2> QED
    BY <1>1, <2>1, CurrentKept
<1>5. ASSUME Cancel PROVE Current'
  <2>1. requests' = Unheard(requests) /\ UNCHANGED <<bills, list, listError, fetch, drifted>>
    BY <1>5 DEF Cancel, CloseBillForm
  <2>2. Settled' => Settled
    BY <2>1, UnheardSettled DEF Settled
  <2> QED
    BY <2>1, <2>2, CurrentKept
<1> QED
  BY <1>2, <1>3, <1>4, <1>5 DEF ByUser

LEMMA CurrentListStep ==
  ASSUME Inv, Current, Refetch \/ ReadList \/ TakeList \/ LoseList
  PROVE  Current'
<1>0. UNCHANGED <<bills, requests>> /\ Settled' = Settled
  BY DEF Refetch, ReadList, TakeList, LoseList, Settled
<1>1. CASE Refetch
  BY <1>1, FetchCleared DEF Refetch, Current
<1>2. CASE ReadList
  BY <1>2 DEF ReadList, Current
<1>3. CASE TakeList
  <2>1. /\ fetch.phase = "read" /\ list' = fetch.rows /\ drifted' = ~fetch.clean /\ fetch' = Idle
    BY <1>3 DEF TakeList
  <2> QED
    BY <1>0, <2>1, FetchCleared DEF Current
<1>4. CASE LoseList
  <2>1. listError' = TRUE /\ fetch' = Idle
    BY <1>4 DEF LoseList
  <2> QED
    BY <2>1, FetchCleared DEF Current
<1> QED
  BY <1>1, <1>2, <1>3, <1>4

LEMMA CurrentRequestStep ==
  ASSUME Inv, Current, NEW r \in requests,
         \/ Check(r) \/ Commit(r) \/ LoseRequest(r)
         \/ TakeSuccess(r) \/ TakeFailure(r) \/ TakeImport(r)
  PROVE  Current'
<1>0. requests \subseteq Request /\ r \in Request
  BY Types
<1>1. CASE Check(r)
  <2> DEFINE x == [r EXCEPT !.phase = IF Refused(r) THEN "failed" ELSE "checked"]
  <2>1. requests' = (requests \ {r}) \cup {x} /\ r.phase = "sent"
        /\ UNCHANGED <<bills, list, listError, fetch, drifted>>
    BY <1>1 DEF Check, Put, page
  <2>2. Settled' => Settled
    BY <2>1 DEF Settled
  <2> QED
    BY <2>1, <2>2, CurrentKept
<1>2. CASE Commit(r)
  <2>1. /\ requests' = {Late(q) : q \in requests \ {r}} \cup {Done(r)}
        /\ \A q \in requests : Late(q).phase = q.phase /\ Late(q).mine = q.mine
    BY <1>2, CommitRequests
  <2>2. /\ r.phase = "checked"
        /\ bills' = IF Lost(r) THEN bills ELSE Written(r)
        /\ drifted' = (drifted \/ ~r.mine)
        /\ fetch' = IF r.mine THEN fetch ELSE [fetch EXCEPT !.clean = FALSE]
        /\ UNCHANGED <<list, listError>>
    BY <1>2 DEF Commit, Lost
  <2>3. CASE ~r.mine
    BY <2>2, <2>3, FetchCleared DEF Current
  <2>4. CASE r.mine /\ ~Lost(r)
    <3>1. Done(r).mine /\ Done(r).phase = "ok"
      BY <1>0, <2>4 DEF Done, Request
    <3>2. ~Settled'
      BY <2>1, <3>1 DEF Settled
    <3> QED
      BY <3>2 DEF Current
  <2>5. CASE r.mine /\ Lost(r)
    <3>1. Settled' => Settled
      BY <2>1, <2>2 DEF Settled
    <3>2. UNCHANGED <<bills, fetch>> /\ (~drifted' => ~drifted)
      BY <2>2, <2>5
    <3> QED
      BY <2>2, <3>1, <3>2 DEF Current
  <2> QED
    BY <2>3, <2>4, <2>5
<1>3. CASE LoseRequest(r)
  <2> DEFINE x == [r EXCEPT !.phase = "failed"]
  <2>1. /\ requests' = (requests \ {r}) \cup {x}
        /\ r.phase \in {"sent", "ok"} /\ drifted' = (drifted \/ r.phase = "ok")
        /\ fetch' = IF r.phase = "ok" THEN [fetch EXCEPT !.clean = FALSE] ELSE fetch
        /\ UNCHANGED <<bills, list, listError>>
    BY <1>3 DEF LoseRequest, Put
  <2>2. CASE r.phase = "ok"
    BY <2>1, <2>2, FetchCleared DEF Current
  <2>3. CASE r.phase = "sent"
    <3>1. Settled' => Settled
      BY <2>1, <2>3 DEF Settled
    <3>2. fetch' = fetch /\ (~drifted' => ~drifted)
      BY <2>1, <2>3
    <3> QED
      BY <2>1, <3>1, <3>2 DEF Current
  <2> QED
    BY <2>1, <2>2, <2>3
<1>4. CASE TakeSuccess(r)
  <2>1. /\ fetch' = IF list = NoData /\ fetch.phase # "idle"
                      THEN [fetch EXCEPT !.clean = FALSE] ELSE Asked
        /\ UNCHANGED <<bills, list, listError>>
    BY <1>4 DEF TakeSuccess, Invalidate
  <2> QED
    BY <2>1, FetchCleared DEF Current
<1>5. CASE TakeFailure(r) \/ TakeImport(r)
  <2>1. /\ requests' = requests \ {r} /\ UNCHANGED <<bills, list, listError, fetch, drifted>>
        /\ r.mine => r.phase # "ok"
    BY <1>5 DEF TakeFailure, TakeImport, page
  <2>2. Settled' => Settled
    BY <2>1 DEF Settled
  <2> QED
    BY <2>1, <2>2, CurrentKept
<1> QED
  BY <1>1, <1>2, <1>3, <1>4, <1>5

\* When nothing of this page is under way, the rows on screen are the server's.
THEOREM QuietListIsCurrent == Spec => []QuietListIsServer
<1>1. Init => Current
  BY DEF Init, Current, Asked, Idle
<1>2. Inv /\ Current /\ [Next]_vars => Current'
  <2> SUFFICES ASSUME Inv, Current, [Next]_vars PROVE Current'
    OBVIOUS
  <2>1. CASE UNCHANGED vars
    BY <2>1, CurrentKept DEF vars, page, Settled
  <2> QED
    BY <2>1, CurrentUserStep, CurrentListStep, CurrentRequestStep DEF Next
<1>3. Current => QuietListIsServer
  BY DEF Current, Settled, QuietListIsServer
<1> QED
  BY InitInv, InitBodies, InvStep, BodiesStep, <1>1, <1>2, <1>3, PTL DEF Spec
==============================================================================
