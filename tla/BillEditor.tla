----------------------------- MODULE BillEditor ------------------------------
(***************************************************************************)
(* The bills of one place between the page that edits them and the table   *)
(* that holds them: pages/PlaceDetailPage.tsx with components/BillForm.tsx, *)
(* the queries and mutations of api/hooks.ts in the query cache of         *)
(* TanStack Query, and backend/app/routers/bills.py.  A second writer, the *)
(* ingest tool or another tab, posts bills this page is not told of.       *)
(***************************************************************************)
EXTENDS Naturals, FiniteSets

CONSTANTS
  Periods,         \* what a form holds; the other fields tell nothing apart
  Recorded,        \* the bills at the start
  NoData,          \* a query that has no data yet
  MaxBills,        \* bound: bills ever recorded
  MaxRequests,     \* bound: saves, deletions and imports under way
  MaxSaves,        \* bound: and altogether
  MaxFaults        \* bound: requests and answers that get lost

Ids    == 1 .. MaxBills
NoBill == 0
Blank  == "none"  \* the period of a request without a body
Bill   == [id : Ids, numbered : BOOLEAN, period : Periods]

ASSUME RecordedAssumption ==
  /\ MaxBills \in Nat /\ MaxRequests \in Nat /\ MaxSaves \in Nat /\ MaxFaults \in Nat
  /\ Recorded \subseteq Bill /\ IsFiniteSet(Recorded) /\ Blank \notin Periods
  /\ Cardinality(Recorded) <= MaxBills /\ \A b \in Recorded : b.id <= Cardinality(Recorded)
  /\ \A b, c \in Recorded : b.id = c.id => b = c
  /\ \A b, c \in Recorded :
       ~b.numbered /\ ~c.numbered /\ b.period = c.period => b = c

VARIABLES
  bills,      \* server: the rows of this place
  made,       \* server: ids given out so far
  requests,   \* mutations under way
  list,       \* query ['bills', placeId]: its data, NoData before the first
  listError,  \*   and isError
  fetch,      \*   and its fetch under way
  form,       \* the form's state, and editingBill and billFormOpen
  saves, faults,   \* requests sent and lost so far
  drifted     \* history: the list misses a write the page cannot know of

page == <<list, listError, fetch, form>>
vars == <<bills, made, requests, page, saves, faults, drifted>>

Phases == {"sent", "checked", "ok", "failed"}

\* period: what the request carries; origin and switched: the bill the form
\* was opened for, and whether Edit was pressed since.  mine: sent by this page;
\* heard: by the form that is open now.  overtaken: another write was committed
\* since this one was checked.
Request ==
  [kind : {"post", "patch", "delete"}, target : Ids \cup {NoBill},
   period : Periods \cup {Blank}, origin : Ids \cup {NoBill}, switched : BOOLEAN,
   mine : BOOLEAN, heard : BOOLEAN, phase : Phases, overtaken : BOOLEAN]

\* origin: the bill whose values the mounted BillForm took, NoBill for an empty
\* one; busy: its isSubmitting.
Form ==
  [adding : BOOLEAN, editing : Ids \cup {NoBill}, origin : Ids \cup {NoBill},
   busy : BOOLEAN, switched : BOOLEAN]

\* clean: read after the last write this page is not told of.
Fetch == [phase : {"idle", "sent", "read"}, rows : SUBSET Bill, clean : BOOLEAN]

OnePerId(rows) == \A b, c \in rows : b.id = c.id => b = c

TypeOK ==
  /\ bills \subseteq Bill /\ OnePerId(bills)
  /\ made \in 0 .. MaxBills /\ \A b \in bills : b.id <= made
  /\ requests \subseteq Request
  /\ list = NoData \/ (list \subseteq Bill /\ OnePerId(list))
  /\ listError \in BOOLEAN /\ drifted \in BOOLEAN
  /\ fetch \in Fetch /\ form \in Form
  /\ saves \in 0 .. MaxSaves /\ faults \in 0 .. MaxFaults

(***************************************************************************)
(* The query cache                                                         *)
(***************************************************************************)
Idle  == [phase |-> "idle", rows |-> {}, clean |-> FALSE]
Asked == [Idle EXCEPT !.phase = "sent"]

\* Mutant: a refetch joins the fetch that is under way.
InvalidateJoining ==
  fetch' = IF fetch.phase = "idle" THEN Asked ELSE fetch

\* invalidateQueries: the list is fetched again and a fetch under way is
\* dropped, except the very first one, which is kept.
Invalidate ==
  fetch' = IF list = NoData /\ fetch.phase # "idle"
             THEN [fetch EXCEPT !.clean = FALSE] ELSE Asked

\* The page is mounted, or looked at again after staleTime.
Refetch ==
  /\ fetch.phase = "idle"
  /\ fetch' = Asked
  /\ UNCHANGED <<bills, made, requests, list, listError, form, saves, faults, drifted>>

\* list_bills reads the rows of the place.
ReadList ==
  /\ fetch.phase = "sent"
  /\ fetch' = [phase |-> "read", rows |-> bills, clean |-> TRUE]
  /\ UNCHANGED <<bills, made, requests, list, listError, form, saves, faults, drifted>>

TakeList ==
  /\ fetch.phase = "read"
  /\ list' = fetch.rows /\ listError' = FALSE
  /\ drifted' = ~fetch.clean
  /\ fetch' = Idle
  /\ UNCHANGED <<bills, made, requests, form, saves, faults>>

\* Three retries later the query is an error; the data it had stays.
LoseList ==
  /\ fetch.phase # "idle" /\ faults < MaxFaults
  /\ faults' = faults + 1
  /\ listError' = TRUE /\ fetch' = Idle
  /\ UNCHANGED <<bills, made, requests, list, form, saves, drifted>>

(***************************************************************************)
(* The form of the page                                                    *)
(***************************************************************************)
Closed ==
  [adding |-> FALSE, editing |-> NoBill, origin |-> NoBill, busy |-> FALSE,
   switched |-> FALSE]

FormShown == form.adding \/ form.editing # NoBill

\* BillForm is mounted with the values of its bill; a mounted one keeps what it
\* holds, whatever its `initial` becomes.
Opened(adding, id) ==
  IF FormShown
    THEN [form EXCEPT !.adding = adding, !.editing = id,
                      !.switched = (@ \/ id # form.origin)]
    ELSE [Closed EXCEPT !.adding = adding, !.editing = id, !.origin = id]

\* Mutant: "Add bill" turns a form that edits into one that adds.
PressAddOverEdit ==
  /\ ~form.adding
  /\ form' = [form EXCEPT !.adding = TRUE, !.editing = NoBill]
  /\ UNCHANGED <<bills, made, requests, list, listError, fetch, saves, faults, drifted>>

\* "Add bill", on screen while billFormOpen is false.
PressAdd ==
  /\ ~form.adding
  /\ form' = Opened(TRUE, form.editing)
  /\ UNCHANGED <<bills, made, requests, list, listError, fetch, saves, faults, drifted>>

\* "Edit" in the row of a bill.
PressEdit(b) ==
  /\ list # NoData /\ ~listError /\ b \in list
  /\ form' = Opened(FALSE, b.id)
  /\ UNCHANGED <<bills, made, requests, list, listError, fetch, saves, faults, drifted>>

\* Once the form is gone nobody hears its request.
Unheard(left) == {[r EXCEPT !.heard = FALSE] : r \in left}

\* closeBillForm: the flags go, and with them the form.
CloseBillForm(left) ==
  /\ form' = Closed
  /\ requests' = Unheard(left)

Cancel ==
  /\ FormShown
  /\ CloseBillForm(requests)
  /\ UNCHANGED <<bills, made, list, listError, fetch, saves, faults, drifted>>

Posts == Cardinality({r \in requests : r.kind = "post" /\ r.phase \in {"sent", "checked"}})
CanSend == Cardinality(requests) < MaxRequests /\ saves < MaxSaves /\ saves' = saves + 1
CanPost == made + Posts < MaxBills

ARequest(kind, target, period) ==
  [kind |-> kind, target |-> target, period |-> period, origin |-> NoBill,
   switched |-> FALSE, mine |-> TRUE, heard |-> FALSE, phase |-> "sent",
   overtaken |-> FALSE]

\* handleSubmit with what has been typed by now: a PATCH of editingBill when
\* there is one, a POST otherwise.
Submit(period) ==
  /\ FormShown /\ ~form.busy /\ CanSend
  /\ form.editing # NoBill \/ CanPost
  /\ form' = [form EXCEPT !.busy = TRUE]
  /\ requests' = requests \cup
       {[ARequest(IF form.editing = NoBill THEN "post" ELSE "patch",
                  form.editing, period)
           EXCEPT !.origin = form.origin, !.switched = form.switched, !.heard = TRUE]}
  /\ UNCHANGED <<bills, made, list, listError, fetch, faults, drifted>>

\* "Delete" in the row of a bill, confirmed.
PressDelete(b) ==
  /\ list # NoData /\ ~listError /\ b \in list /\ CanSend
  /\ requests' = requests \cup {ARequest("delete", b.id, Blank)}
  /\ UNCHANGED <<bills, made, page, faults, drifted>>

\* Another writer posts a bill without an invoice number.
Import(period) ==
  /\ CanSend /\ CanPost
  /\ requests' = requests \cup {[ARequest("post", NoBill, period) EXCEPT !.mine = FALSE]}
  /\ UNCHANGED <<bills, made, page, faults, drifted>>

(***************************************************************************)
(* The router                                                              *)
(***************************************************************************)
Row(id)    == {b \in bills : b.id = id}
Put(r, to) == requests' = (requests \ {r}) \cup {[r EXCEPT !.phase = to]}

\* _duplicate_detail for a bill without an invoice number: any other bill of
\* the period is in its way.  The invoice numbers of the others differ, and
\* neither form nor import changes one.
Duplicate(numbered, period, exclude) ==
  /\ ~numbered
  /\ \E b \in bills : b.period = period /\ b.id # exclude

\* Mutant: update_bill compares the bill it had, not the one it will have.
RefusedPatchBefore(r) ==
  \/ Row(r.target) = {}
  \/ \E b \in Row(r.target) : Duplicate(b.numbered, b.period, b.id)

\* update_bill up to its commit: 404, or 409 for the bill it would become.
RefusedPatch(r) ==
  \/ Row(r.target) = {}
  \/ \E b \in Row(r.target) : Duplicate(b.numbered, r.period, b.id)

Refused(r) ==
  CASE r.kind = "post"   -> Duplicate(FALSE, r.period, NoBill)
    [] r.kind = "patch"  -> RefusedPatch(r)
    [] r.kind = "delete" -> Row(r.target) = {}

Check(r) ==
  /\ r.phase = "sent"
  /\ Put(r, IF Refused(r) THEN "failed" ELSE "checked")
  /\ UNCHANGED <<bills, made, page, saves, faults, drifted>>

\* Mutant: the row of an edit is written beside the old one.
WrittenTwice(r) ==
  CASE r.kind = "post"   -> bills \cup {[id |-> made + 1, numbered |-> FALSE, period |-> r.period]}
    [] r.kind = "patch"  -> bills \cup {[b EXCEPT !.period = r.period] : b \in Row(r.target)}
    [] r.kind = "delete" -> bills \ Row(r.target)

\* The rows after the commit.
Written(r) ==
  CASE r.kind = "post"   -> bills \cup {[id |-> made + 1, numbered |-> FALSE, period |-> r.period]}
    [] r.kind = "patch"  -> {[b EXCEPT !.period = IF b.id = r.target THEN r.period ELSE @] : b \in bills}
    [] r.kind = "delete" -> bills \ Row(r.target)

\* The commit.  A row deleted since the check fails an update; a deletion does
\* not mind.
Commit(r) ==
  /\ r.phase = "checked"
  /\ LET lost == r.kind = "patch" /\ Row(r.target) = {}
         told == r.mine
     IN
     /\ bills' = IF lost THEN bills ELSE Written(r)
     /\ made' = IF r.kind = "post" THEN made + 1 ELSE made
     /\ requests' =
          {[q EXCEPT !.overtaken = (@ \/ q.phase = "checked")] : q \in requests \ {r}}
          \cup {[r EXCEPT !.phase = IF lost THEN "failed" ELSE "ok"]}
     /\ drifted' = (drifted \/ ~told)
     /\ fetch' = IF told THEN fetch ELSE [fetch EXCEPT !.clean = FALSE]
  /\ UNCHANGED <<list, listError, form, saves, faults>>

(***************************************************************************)
(* The answer                                                              *)
(***************************************************************************)
\* The network loses the request, or the answer after the commit.
LoseRequest(r) ==
  /\ faults < MaxFaults /\ r.phase \in {"sent", "ok"}
  /\ faults' = faults + 1
  /\ Put(r, "failed")
  /\ drifted' = (drifted \/ r.phase = "ok")
  /\ fetch' = IF r.phase = "ok" THEN [fetch EXCEPT !.clean = FALSE] ELSE fetch
  /\ UNCHANGED <<bills, made, list, listError, form, saves>>

\* onSuccess invalidates what hangs on the bills, then the page closes its form,
\* whichever form that is by now.
TakeSuccess(r) ==
  /\ r.phase = "ok" /\ r.mine
  /\ Invalidate
  /\ drifted' = (drifted \/ (list = NoData /\ fetch.phase = "read"))
  /\ IF r.kind = "delete"
       THEN requests' = requests \ {r} /\ UNCHANGED form
       ELSE CloseBillForm(requests \ {r})
  /\ UNCHANGED <<bills, made, list, listError, saves, faults>>

\* BillForm's catch: the message, and the button is free again.
TakeFailure(r) ==
  /\ r.phase = "failed" /\ r.mine
  /\ form' = [form EXCEPT !.busy = (@ /\ ~r.heard)]
  /\ requests' = requests \ {r}
  /\ UNCHANGED <<bills, made, list, listError, fetch, saves, faults, drifted>>

\* The other writer has its answer.
TakeImport(r) ==
  /\ ~r.mine /\ r.phase \in {"ok", "failed"}
  /\ requests' = requests \ {r}
  /\ UNCHANGED <<bills, made, page, saves, faults, drifted>>

(***************************************************************************)
(* The specification                                                       *)
(***************************************************************************)
\* The page is mounted and its query asks for the first time.
Init ==
  /\ bills = Recorded /\ made = Cardinality(Recorded)
  /\ requests = {} /\ list = NoData /\ listError = FALSE /\ fetch = Asked
  /\ form = Closed /\ saves = 0 /\ faults = 0 /\ drifted = FALSE

ByUser ==
  \/ PressAdd \/ Cancel
  \/ \E p \in Periods : Submit(p)
  \/ list # NoData /\ \E b \in list : PressEdit(b) \/ PressDelete(b)

Next ==
  \/ ByUser
  \/ \E p \in Periods : Import(p)
  \/ Refetch \/ ReadList \/ TakeList \/ LoseList
  \/ \E r \in requests :
       \/ Check(r) \/ Commit(r) \/ LoseRequest(r)
       \/ TakeSuccess(r) \/ TakeFailure(r) \/ TakeImport(r)

Spec == Init /\ [][Next]_vars

(***************************************************************************)
(* Properties                                                              *)
(***************************************************************************)
\* When nothing is under way, the rows on screen are those of the server:
\* every save that is answered refreshes the list and no older read undoes it,
\* and a refresh that fails hides the old rows.  What remains is a write the
\* page is not told of: somebody else's, one whose answer was lost, or one that
\* overtakes the page's first load (api/hooks.ts invalidatePlaceData).
QuietListIsServer ==
  (/\ fetch.phase = "idle" /\ \A r \in requests : ~r.mine
   /\ list # NoData /\ ~listError /\ ~drifted) => list = bills

\* What is saved into a bill was typed into a form that had been opened with
\* that bill's values, unless Edit was pressed while a form was open: that
\* changes the bill that is saved and not the values (PlaceDetailPage.tsx, the
\* form has no key).
SaveIsOfItsBill ==
  \A r \in requests :
    r.kind # "delete" /\ r.mine /\ ~r.switched => r.origin = r.target

\* No two bills without an invoice number have one period, unless a save was
\* committed between the check and the commit of another: whatever was posted,
\* edited, deleted and imported before, only a commit that another write has
\* overtaken breaks the rule (_duplicate_detail, the race docs/adr/0020 accepts).
OnePerPeriod ==
  \A b, c \in bills :
    ~b.numbered /\ ~c.numbered /\ b.period = c.period => b = c
DuplicateOnlyByRace ==
  [][OnePerPeriod /\ ~OnePerPeriod' => \E r \in requests : r.overtaken /\ Commit(r)]_vars
==============================================================================
