---------------------------- MODULE DocumentProofs ----------------------------
(***************************************************************************)
(* Theorems about DocumentStore, for every number of files, bills and      *)
(* requests, every daily limit, and any number of failed calls.            *)
(***************************************************************************)
EXTENDS DocumentStore, Images, TLAPS

-----------------------------------------------------------------------------
(* The inductive invariant.                                                *)

WithFile == {"dedupe", "limit", "put", "insert", "recover", "check", "delete", "purge"}

\* What a request knows of the tables, and what it still knows of them as long
\* as no deletion of its kind has overlapped another request.
ReqOK(r) ==
  /\ rpc[r] \in WithFile => file[r] \in Files
  /\ doc[r] <= used
  /\ rpc[r] \in {"check", "delete", "bill"} => doc[r] # NoId
  /\ rpc[r] \in {"check", "delete"} =>
       /\ \A f \in Files : row[f] = doc[r] => f = file[r]
       /\ "delete" \notin raced => row[file[r]] \in {doc[r], NoId}
  /\ rpc[r] = "delete" /\ "delete" \notin raced => ~Referenced(doc[r])
  /\ rpc[r] = "purge" /\ "delete" \notin raced => \A k \in keys[r] : row[k] = NoId
  /\ rpc[r] = "insert" /\ "delete" \notin raced /\ alive => file[r] \in stored
  /\ rpc[r] = "cascade" /\ "forget" \notin raced =>
       \A f \in Files : row[f] # NoId => f \in keys[r]
  /\ rpc[r] = "purgeAll" => ~alive
  /\ rpc[r] = "bill" /\ raced = {} => \E f \in Files : row[f] = doc[r]
  /\ ~alive /\ "forget" \notin raced => rpc[r] \in {"idle", "purgeAll"}

\* A deletion that has overlapped nobody runs alone.
Solo ==
  \A o \in DOMAIN Deleting \ raced, r \in Requests : rpc[r] \in Deleting[o] =>
    \A q \in Requests \ {r} : rpc[q] = "idle"

\* An id is handed out once, and a place that is gone has no documents.
RowsOK ==
  /\ \A f \in Files : row[f] <= used /\ (row[f] # NoId => alive)
  /\ \A f, g \in Files : row[f] = row[g] /\ row[f] # NoId => f = g

\* Somebody will still give this object its row, or take it away.
Accounted(k) ==
  \/ row[k] # NoId
  \/ \E r \in Requests : rpc[r] = "insert" /\ file[r] = k
  \/ \E r \in Requests : rpc[r] \in {"purge", "purgeAll"} /\ k \in keys[r]

NoOrphans == faults = 0 /\ "forget" \notin raced => \A k \in stored : Accounted(k)

KeepsObject == "delete" \notin raced => \A f \in Files : row[f] # NoId => f \in stored

Inv ==
  /\ TypeOK /\ Solo /\ RowsOK /\ NoOrphans /\ KeepsObject
  /\ \A r \in Requests : ReqOK(r)

LEMMA InitInv == Init => Inv
<1> SUFFICES ASSUME Init PROVE Inv
  OBVIOUS
<1> USE StoreAssumption DEF Init
<1>1. TypeOK
  BY DEF TypeOK, RequestStates, NoId, Ids, Deleting
<1>2. Solo /\ RowsOK /\ NoOrphans /\ KeepsObject
  BY DEF Solo, RowsOK, NoOrphans, KeepsObject, Deleting, NoId
<1>3. \A r \in Requests : ReqOK(r)
  BY DEF ReqOK, WithFile, NoId
<1> QED
  BY <1>1, <1>2, <1>3 DEF Inv

-----------------------------------------------------------------------------
(* How a request moves.                                                    *)

Moved(r, s, f, d, K) ==
  /\ rpc'[r] = s /\ file'[r] = f /\ doc'[r] = d /\ keys'[r] = K
  /\ \A q \in Requests \ {r} :
       rpc'[q] = rpc[q] /\ file'[q] = file[q] /\ doc'[q] = doc[q] /\ keys'[q] = keys[q]
  /\ rpc' \in [Requests -> RequestStates]
  /\ file' \in [Requests -> Files \cup {NoFile}]
  /\ doc' \in [Requests -> Ids \cup {NoId}]
  /\ keys' \in [Requests -> SUBSET Files]

LEMMA HoldMoves ==
  ASSUME TypeOK, NEW r \in Requests, NEW s \in RequestStates, NEW f \in Files \cup {NoFile},
         NEW d \in Ids \cup {NoId}, NEW K \in SUBSET Files, Hold(r, s, f, d, K)
  PROVE  Moved(r, s, f, d, K)
BY DEF Hold, Moved, TypeOK

LEMMA GotoMoves ==
  ASSUME TypeOK, NEW r \in Requests, NEW s \in RequestStates, Goto(r, s)
  PROVE  Moved(r, s, file[r], doc[r], keys[r])
BY DEF Goto, Moved, TypeOK

LEMMA RespondMoves ==
  ASSUME TypeOK, NEW r \in Requests, Respond(r)
  PROVE  Moved(r, "idle", NoFile, NoId, {})
BY DEF Respond, Moved, TypeOK, RequestStates

\* A request that goes on alone stays alone, and one beside others is no
\* deletion that runs alone.
LEMMA SoloMoves ==
  ASSUME Inv, NEW r \in Requests, NEW s, NEW f, NEW d, NEW K, Moved(r, s, f, d, K),
         rpc[r] # "idle", raced' = raced,
         \A o \in DOMAIN Deleting : s \in Deleting[o] => rpc[r] \in Deleting[o]
  PROVE  Solo'
<1> SUFFICES ASSUME NEW o \in DOMAIN Deleting \ raced, NEW q \in Requests,
                    rpc'[q] \in Deleting[o], NEW p \in Requests \ {q}
             PROVE  rpc'[p] = "idle"
  BY DEF Solo, Deleting
<1>1. rpc[q] \in Deleting[o]
  BY DEF Moved
<1>2. rpc[p] = "idle"
  BY <1>1 DEF Inv, Solo
<1>3. p # r
  BY <1>2
<1> QED
  BY <1>2, <1>3 DEF Moved

LEMMA SoloBegins ==
  ASSUME Inv, NEW r \in Requests, NEW s \in RequestStates, NEW f \in Files \cup {NoFile},
         NEW d \in Ids \cup {NoId}, Begin(r, s, f, d)
  PROVE  Moved(r, s, f, d, {}) /\ Solo' /\ raced \subseteq raced' /\ raced' \subseteq DOMAIN Deleting
<1> DEFINE Others == {rpc[q] : q \in Requests \ {r}} \ {"idle"}
<1>1. raced' = raced \cup {o \in DOMAIN Deleting :
                             \/ Others \cap Deleting[o] # {}
                             \/ Others # {} /\ s \in Deleting[o]}
  BY DEF Begin
<1>2. Moved(r, s, f, d, {})
  BY HoldMoves DEF Begin, Inv
<1>3. raced \subseteq raced' /\ raced' \subseteq DOMAIN Deleting
  BY <1>1 DEF Inv, TypeOK
<1>4. Solo'
  <2> SUFFICES ASSUME NEW o \in DOMAIN Deleting \ raced', NEW q \in Requests,
                      rpc'[q] \in Deleting[o], NEW p \in Requests \ {q}
               PROVE  rpc'[p] = "idle"
    BY DEF Solo, Deleting
  <2>1. Others \cap Deleting[o] = {} /\ (Others = {} \/ s \notin Deleting[o])
    BY <1>1
  <2>2. "idle" \notin Deleting[o]
    BY DEF Deleting
  <2>3. q = r
    <3> SUFFICES ASSUME q # r PROVE FALSE
      OBVIOUS
    <3>1. rpc[q] \in Others
      BY <1>2, <2>2 DEF Moved
    <3> QED
      BY <1>2, <2>1, <3>1 DEF Moved
  <2>4. Others = {}
    BY <1>2, <2>1, <2>3 DEF Moved
  <2>5. rpc[p] = "idle"
    BY <2>3, <2>4
  <2> QED
    BY <1>2, <2>3, <2>5 DEF Moved
<1> QED
  BY <1>2, <1>3, <1>4

-----------------------------------------------------------------------------
(* What the other requests know.                                           *)

\* A step that leaves the tables alone, and no object that an insert counts
\* on, takes nothing from the others.
LEMMA OthersKeep ==
  ASSUME Inv, NEW r \in Requests, NEW s, NEW f, NEW d, NEW K, Moved(r, s, f, d, K),
         UNCHANGED tables, raced \subseteq raced', NEW q \in Requests \ {r},
         rpc[q] = "insert" /\ "delete" \notin raced' /\ alive => file[q] \in stored'
  PROVE  ReqOK(q)'
<1>1. ReqOK(q)
  BY DEF Inv
<1>2. rpc'[q] = rpc[q] /\ file'[q] = file[q] /\ doc'[q] = doc[q] /\ keys'[q] = keys[q]
  BY DEF Moved
<1>3. alive' = alive /\ row' = row /\ used' = used /\ link' = link /\ bills' = bills
  BY DEF tables
<1>4. Referenced(doc[q])' = Referenced(doc[q])
  BY <1>2, <1>3 DEF Referenced
<1>5. "delete" \notin raced' => "delete" \notin raced
  OBVIOUS
<1>6. "forget" \notin raced' => "forget" \notin raced
  OBVIOUS
<1>7. raced' = {} => raced = {}
  OBVIOUS
<1> QED
  BY <1>1, <1>2, <1>3, <1>4, <1>5, <1>6, <1>7 DEF ReqOK, Referenced

\* Such a step, if it leaves the store alone too, needs a look at its own
\* request only.
LEMMA StepKeeps ==
  ASSUME Inv, NEW r \in Requests, NEW s, NEW f, NEW d, NEW K, Moved(r, s, f, d, K),
         UNCHANGED <<tables, stored>>, raced \subseteq raced', raced' \subseteq DOMAIN Deleting,
         faults' \in 0 .. MaxFaults, faults <= faults', Solo', ReqOK(r)',
         faults' = 0 => /\ rpc[r] # "insert"
                        /\ rpc[r] \in {"purge", "purgeAll"} => keys[r] = {}
  PROVE  Inv'
<1>1. alive' = alive /\ row' = row /\ used' = used /\ link' = link /\ bills' = bills
  BY DEF tables
<1>2. TypeOK'
  BY <1>1 DEF Inv, TypeOK, Moved
<1>3. RowsOK'
  BY <1>1 DEF Inv, RowsOK
<1>4. KeepsObject'
  BY <1>1 DEF Inv, KeepsObject
<1>5. NoOrphans'
  <2> SUFFICES ASSUME faults' = 0, "forget" \notin raced', NEW k \in stored PROVE Accounted(k)'
    BY DEF NoOrphans
  <2>1. faults = 0
    BY DEF Inv, TypeOK
  <2>2. Accounted(k)
    BY <2>1 DEF Inv, NoOrphans
  <2>3. CASE row[k] # NoId
    BY <1>1, <2>3 DEF Accounted
  <2>4. CASE \E q \in Requests : rpc[q] = "insert" /\ file[q] = k
    BY <2>4 DEF Accounted, Moved
  <2>5. CASE \E q \in Requests : rpc[q] \in {"purge", "purgeAll"} /\ k \in keys[q]
    BY <2>5 DEF Accounted, Moved
  <2> QED
    BY <2>2, <2>3, <2>4, <2>5 DEF Accounted
<1>6. \A q \in Requests \ {r} : ReqOK(q)'
  <2> TAKE q \in Requests \ {r}
  <2>1. rpc[q] = "insert" /\ "delete" \notin raced' /\ alive => file[q] \in stored'
    BY DEF Inv, ReqOK
  <2> QED
    BY <2>1, OthersKeep
<1> QED
  BY <1>2, <1>3, <1>4, <1>5, <1>6 DEF Inv

-----------------------------------------------------------------------------
(* Steps that leave the tables and the store alone.                        *)

LEMMA StartInv ==
  ASSUME Inv, NEW r \in Requests, Start(r)
  PROVE  Inv'
<1> USE StoreAssumption
<1>1. ASSUME NEW f \in Files, UploadStart(r, f) PROVE Inv'
  <2>1. Begin(r, "dedupe", f, NoId) /\ alive /\ rpc[r] = "idle" /\ UNCHANGED <<tables, stored, faults>>
    BY <1>1 DEF UploadStart
  <2>2. Moved(r, "dedupe", f, NoId, {}) /\ Solo' /\ raced \subseteq raced'
          /\ raced' \subseteq DOMAIN Deleting
    BY <2>1, SoloBegins DEF RequestStates
  <2>3. ReqOK(r)'
    BY <2>1, <2>2 DEF ReqOK, Moved, WithFile, tables, NoId, Inv, TypeOK
  <2> QED
    BY <2>1, <2>2, <2>3, StepKeeps DEF Inv, TypeOK
<1>2. ASSUME NEW f \in Files, DeleteStart(r, f) PROVE Inv'
  <2>1. Begin(r, "check", f, row[f]) /\ row[f] # NoId /\ rpc[r] = "idle" /\ UNCHANGED <<tables, stored, faults>>
    BY <1>2 DEF DeleteStart, Rows
  <2>2. row[f] \in Ids \cup {NoId} /\ "check" \in RequestStates
    BY DEF Inv, TypeOK, RequestStates, Deleting
  <2>3. Moved(r, "check", f, row[f], {}) /\ Solo' /\ raced \subseteq raced'
          /\ raced' \subseteq DOMAIN Deleting
    BY <2>1, <2>2, SoloBegins
  <2>4. row[f] <= used /\ alive /\ \A g \in Files : row[g] = row[f] => g = f
    BY <2>1 DEF Inv, RowsOK
  <2>5. ReqOK(r)'
    BY <2>1, <2>3, <2>4 DEF ReqOK, Moved, WithFile, tables
  <2> QED
    BY <2>1, <2>3, <2>5, StepKeeps DEF Inv, TypeOK
<1>3. ASSUME NEW f \in Files, LinkStart(r, f) PROVE Inv'
  <2>1. Begin(r, "bill", NoFile, row[f]) /\ row[f] # NoId /\ rpc[r] = "idle" /\ UNCHANGED <<tables, stored, faults>>
    BY <1>3 DEF LinkStart, Rows
  <2>2. row[f] \in Ids \cup {NoId} /\ "bill" \in RequestStates
    BY DEF Inv, TypeOK, RequestStates
  <2>3. Moved(r, "bill", NoFile, row[f], {}) /\ Solo' /\ raced \subseteq raced'
          /\ raced' \subseteq DOMAIN Deleting
    BY <2>1, <2>2, SoloBegins
  <2>4. row[f] <= used /\ alive
    BY <2>1 DEF Inv, RowsOK
  <2>5. ReqOK(r)'
    BY <2>1, <2>3, <2>4 DEF ReqOK, Moved, WithFile, tables
  <2> QED
    BY <2>1, <2>3, <2>5, StepKeeps DEF Inv, TypeOK
<1>4. ASSUME ForgetStart(r) PROVE Inv'
  <2>1. Begin(r, "collect", NoFile, NoId) /\ alive /\ rpc[r] = "idle" /\ UNCHANGED <<tables, stored, faults>>
    BY <1>4 DEF ForgetStart
  <2>2. Moved(r, "collect", NoFile, NoId, {}) /\ Solo' /\ raced \subseteq raced'
          /\ raced' \subseteq DOMAIN Deleting
    BY <2>1, SoloBegins DEF RequestStates, Deleting
  <2>3. ReqOK(r)'
    BY <2>1, <2>2 DEF ReqOK, Moved, WithFile, tables, NoId, Inv, TypeOK
  <2> QED
    BY <2>1, <2>2, <2>3, StepKeeps DEF Inv, TypeOK
<1> QED
  BY <1>1, <1>2, <1>3, <1>4 DEF Start

\* A request that is answered knows nothing and awaits nothing.
LEMMA AnswerInv ==
  ASSUME Inv, NEW r \in Requests, Respond(r), rpc[r] # "idle",
         UNCHANGED <<tables, stored, raced>>, faults' \in 0 .. MaxFaults, faults <= faults',
         faults' = 0 => /\ rpc[r] # "insert"
                        /\ rpc[r] \in {"purge", "purgeAll"} => keys[r] = {}
  PROVE  Inv'
<1>1. Moved(r, "idle", NoFile, NoId, {})
  BY RespondMoves DEF Inv
<1>2. Solo'
  BY <1>1, SoloMoves DEF Deleting
<1>3. ReqOK(r)'
  BY <1>1 DEF ReqOK, Moved, WithFile, NoId, tables, Inv, TypeOK
<1>4. raced' \subseteq DOMAIN Deleting
  BY DEF Inv, TypeOK
<1> QED
  BY <1>1, <1>2, <1>3, <1>4, StepKeeps

LEMMA ReadInv ==
  ASSUME Inv, NEW r \in Requests,
         \/ UploadDedupe(r) \/ UploadLimit(r) \/ UploadRecover(r)
         \/ DeleteCheck(r) \/ ForgetCollect(r)
  PROVE  Inv'
<1> USE StoreAssumption
<1>1. faults \in 0 .. MaxFaults /\ raced \subseteq DOMAIN Deleting /\ faults \in Nat
  BY DEF Inv, TypeOK
<1>2. ReqOK(r)
  BY DEF Inv
<1>3. ASSUME UploadDedupe(r) PROVE Inv'
  <2>1. CASE Respond(r)
    BY <1>1, <1>3, <2>1, AnswerInv DEF UploadDedupe
  <2>2. CASE Goto(r, "limit")
    <3>1. Moved(r, "limit", file[r], doc[r], keys[r])
      BY <2>2, GotoMoves DEF Inv, RequestStates
    <3>2. Solo'
      BY <1>3, <3>1, SoloMoves DEF UploadDedupe, Deleting
    <3>3. ReqOK(r)'
      BY <1>2, <1>3, <3>1 DEF UploadDedupe, ReqOK, Moved, WithFile, tables
    <3> QED
      BY <1>1, <1>3, <3>1, <3>2, <3>3, StepKeeps DEF UploadDedupe
  <2> QED
    BY <1>3, <2>1, <2>2 DEF UploadDedupe
<1>4. ASSUME UploadLimit(r) PROVE Inv'
  <2>1. CASE Respond(r)
    BY <1>1, <1>4, <2>1, AnswerInv DEF UploadLimit
  <2>2. CASE Goto(r, "put")
    <3>1. Moved(r, "put", file[r], doc[r], keys[r])
      BY <2>2, GotoMoves DEF Inv, RequestStates
    <3>2. Solo'
      BY <1>4, <3>1, SoloMoves DEF UploadLimit, Deleting
    <3>3. ReqOK(r)'
      BY <1>2, <1>4, <3>1 DEF UploadLimit, ReqOK, Moved, WithFile, tables
    <3> QED
      BY <1>1, <1>4, <3>1, <3>2, <3>3, StepKeeps DEF UploadLimit
  <2> QED
    BY <1>4, <2>1, <2>2 DEF UploadLimit
<1>5. ASSUME UploadRecover(r) PROVE Inv'
  BY <1>1, <1>5, AnswerInv DEF UploadRecover
<1>6. ASSUME DeleteCheck(r) PROVE Inv'
  <2>1. CASE Respond(r)
    BY <1>1, <1>6, <2>1, AnswerInv DEF DeleteCheck
  <2>2. CASE Goto(r, "delete") /\ ~Referenced(doc[r])
    <3>1. Moved(r, "delete", file[r], doc[r], keys[r])
      BY <2>2, GotoMoves DEF Inv, RequestStates, Deleting
    <3>2. Solo'
      BY <1>6, <3>1, SoloMoves DEF DeleteCheck, Deleting
    <3>3. ~Referenced(doc[r])'
      BY <1>6, <2>2, <3>1 DEF DeleteCheck, Referenced, tables, Moved
    <3>4. ReqOK(r)'
      BY <1>2, <1>6, <3>1, <3>3 DEF DeleteCheck, ReqOK, Moved, WithFile, tables
    <3> QED
      BY <1>1, <1>6, <3>1, <3>2, <3>4, StepKeeps DEF DeleteCheck
  <2> QED
    BY <1>6, <2>1, <2>2 DEF DeleteCheck, RefusesDelete
<1>7. ASSUME ForgetCollect(r) PROVE Inv'
  <2>1. Hold(r, "cascade", NoFile, NoId, Rows) /\ rpc[r] = "collect"
          /\ UNCHANGED <<tables, stored, faults, raced>>
    BY <1>7 DEF ForgetCollect, KeysOfRows
  <2>2. Moved(r, "cascade", NoFile, NoId, Rows)
    BY <2>1, HoldMoves DEF Inv, RequestStates, Deleting, Rows
  <2>3. Solo'
    BY <2>1, <2>2, SoloMoves DEF Deleting
  <2>4. ReqOK(r)'
    BY <1>2, <2>1, <2>2 DEF ReqOK, Moved, WithFile, tables, NoId, Rows, Inv, TypeOK
  <2> QED
    BY <1>1, <2>1, <2>2, <2>3, <2>4, StepKeeps
<1> QED
  BY <1>3, <1>4, <1>5, <1>6, <1>7

LEMMA FailInv ==
  ASSUME Inv, NEW r \in Requests, PurgeFails(r) \/ PurgeDone(r) \/ Die(r)
  PROVE  Inv'
<1> USE StoreAssumption
<1>1. faults \in 0 .. MaxFaults /\ faults \in Nat /\ raced \subseteq DOMAIN Deleting
  BY DEF Inv, TypeOK
<1>2. ASSUME PurgeDone(r) PROVE Inv'
  BY <1>1, <1>2, AnswerInv DEF PurgeDone, Purging
<1>3. ASSUME Die(r) PROVE Inv'
  BY <1>1, <1>3, AnswerInv DEF Die
<1>4. ASSUME PurgeFails(r) PROVE Inv'
  <2>1. PICK k \in keys[r] : Hold(r, rpc[r], file[r], doc[r], keys[r] \ {k})
    BY <1>4 DEF PurgeFails
  <2>2. Moved(r, rpc[r], file[r], doc[r], keys[r] \ {k})
    BY <2>1, HoldMoves DEF Inv, TypeOK
  <2>3. rpc[r] \in {"purge", "purgeAll"} /\ UNCHANGED <<tables, stored, raced>>
          /\ faults' = faults + 1 /\ faults < MaxFaults
    BY <1>4 DEF PurgeFails, Purging
  <2>4. Solo'
    BY <2>2, <2>3, SoloMoves
  <2>5. ReqOK(r)
    BY DEF Inv
  <2>6. ReqOK(r)'
    BY <2>2, <2>3, <2>5 DEF ReqOK, Moved, WithFile, tables
  <2> QED
    BY <1>1, <2>2, <2>3, <2>4, <2>6, StepKeeps
<1> QED
  BY <1>2, <1>3, <1>4

-----------------------------------------------------------------------------
(* Steps that change the store.                                            *)

LEMMA PutInv ==
  ASSUME Inv, NEW r \in Requests, UploadPut(r)
  PROVE  Inv'
<1>1. /\ rpc[r] = "put" /\ stored' = stored \cup {file[r]} /\ Goto(r, "insert")
      /\ UNCHANGED tables /\ faults' = faults /\ raced' = raced
  BY DEF UploadPut
<1>2. alive' = alive /\ row' = row /\ used' = used /\ link' = link /\ bills' = bills
  BY <1>1 DEF tables
<1>3. Moved(r, "insert", file[r], doc[r], keys[r])
  BY <1>1, GotoMoves DEF Inv, RequestStates
<1>4. ReqOK(r)
  BY DEF Inv
<1>5. file[r] \in Files
  BY <1>1, <1>4 DEF ReqOK, WithFile
<1>6. TypeOK'
  BY <1>1, <1>2, <1>3, <1>5 DEF Inv, TypeOK, Moved
<1>7. Solo'
  BY <1>1, <1>3, SoloMoves DEF Deleting
<1>8. RowsOK' /\ KeepsObject'
  BY <1>1, <1>2 DEF Inv, RowsOK, KeepsObject
<1>9. NoOrphans'
  <2> SUFFICES ASSUME faults' = 0, "forget" \notin raced', NEW k \in stored' PROVE Accounted(k)'
    BY DEF NoOrphans
  <2>1. CASE k = file[r]
    BY <1>3, <2>1 DEF Accounted, Moved
  <2>2. CASE k \in stored
    <3>1. Accounted(k)
      BY <1>1, <2>2 DEF Inv, NoOrphans
    <3> QED
      BY <1>1, <1>2, <1>3, <3>1 DEF Accounted, Moved
  <2> QED
    BY <1>1, <2>1, <2>2
<1>10. ReqOK(r)'
  BY <1>1, <1>2, <1>3, <1>4 DEF ReqOK, Moved, WithFile
<1>11. \A q \in Requests \ {r} : ReqOK(q)'
  <2> TAKE q \in Requests \ {r}
  <2>1. rpc[q] = "insert" /\ "delete" \notin raced' /\ alive => file[q] \in stored'
    BY <1>1 DEF Inv, ReqOK
  <2> QED
    BY <1>1, <1>3, <2>1, OthersKeep
<1> QED
  BY <1>6, <1>7, <1>8, <1>9, <1>10, <1>11 DEF Inv

LEMMA PurgeInv ==
  ASSUME Inv, NEW r \in Requests, Purge(r)
  PROVE  Inv'
<1> PICK k \in keys[r] : stored' = stored \ {k} /\ Hold(r, rpc[r], file[r], doc[r], keys[r] \ {k})
  BY DEF Purge
<1>1. rpc[r] \in {"purge", "purgeAll"} /\ UNCHANGED tables /\ faults' = faults /\ raced' = raced
  BY DEF Purge, Purging
<1>2. alive' = alive /\ row' = row /\ used' = used /\ link' = link /\ bills' = bills
  BY <1>1 DEF tables
<1>3. Moved(r, rpc[r], file[r], doc[r], keys[r] \ {k})
  BY HoldMoves DEF Inv, TypeOK
<1>4. ReqOK(r) /\ k \in Files
  BY DEF Inv, TypeOK
<1>5. TypeOK'
  BY <1>1, <1>2, <1>3 DEF Inv, TypeOK, Moved
<1>6. Solo'
  BY <1>1, <1>3, SoloMoves
<1>7. RowsOK'
  BY <1>2 DEF Inv, RowsOK
\* Unless a deletion was overtaken, nothing has a row or is about to get one.
<1>8. "delete" \notin raced => row[k] = NoId
  BY <1>1, <1>4 DEF ReqOK, Inv, RowsOK
<1>9. KeepsObject'
  BY <1>1, <1>2, <1>8 DEF Inv, KeepsObject
<1>10. NoOrphans'
  <2> SUFFICES ASSUME faults' = 0, "forget" \notin raced', NEW j \in stored' PROVE Accounted(j)'
    BY DEF NoOrphans
  <2>1. j # k /\ Accounted(j)
    BY <1>1 DEF Inv, NoOrphans
  <2>2. CASE row[j] # NoId
    BY <1>2, <2>2 DEF Accounted
  <2>3. CASE \E q \in Requests : rpc[q] = "insert" /\ file[q] = j
    BY <1>1, <1>3, <2>3 DEF Accounted, Moved
  <2>4. CASE \E q \in Requests : rpc[q] \in {"purge", "purgeAll"} /\ j \in keys[q]
    <3>1. PICK q \in Requests : rpc[q] \in {"purge", "purgeAll"} /\ j \in keys[q]
      BY <2>4
    <3>2. rpc'[q] \in {"purge", "purgeAll"} /\ j \in keys'[q]
      BY <1>3, <2>1, <3>1 DEF Moved
    <3> QED
      BY <3>2 DEF Accounted
  <2> QED
    BY <2>1, <2>2, <2>3, <2>4 DEF Accounted
<1>11. ReqOK(r)'
  BY <1>1, <1>2, <1>3, <1>4 DEF ReqOK, Moved, WithFile
<1>12. \A q \in Requests \ {r} : ReqOK(q)'
  <2> TAKE q \in Requests \ {r}
  <2>1. ~(rpc[q] = "insert" /\ "delete" \notin raced /\ alive)
    <3> SUFFICES ASSUME rpc[q] = "insert", "delete" \notin raced, alive PROVE FALSE
      OBVIOUS
    <3>1. rpc[r] = "purge"
      BY <1>1, <1>4 DEF ReqOK
    <3>2. "delete" \in DOMAIN Deleting \ raced /\ rpc[r] \in Deleting["delete"]
      BY <3>1 DEF Deleting
    <3>3. rpc[q] = "idle"
      BY <3>2 DEF Inv, Solo
    <3> QED
      BY <3>3
  <2> QED
    BY <1>1, <1>3, <2>1, OthersKeep
<1> QED
  BY <1>5, <1>6, <1>7, <1>9, <1>10, <1>11, <1>12 DEF Inv

-----------------------------------------------------------------------------
(* Steps that change the tables.                                           *)

\* A deletion that nobody else was overtaken by has nobody beside it.
LEMMA Alone ==
  ASSUME Inv, NEW r \in Requests, NEW q \in Requests \ {r}, NEW o \in DOMAIN Deleting \ raced,
         rpc[q] \in Deleting[o] \/ rpc[r] \in Deleting[o]
  PROVE  rpc[q] = "idle" \/ rpc[r] = "idle"
BY DEF Inv, Solo

LEMMA InsertInv ==
  ASSUME Inv, NEW r \in Requests, UploadInsert(r)
  PROVE  Inv'
<1> USE StoreAssumption
<1>1. rpc[r] = "insert" /\ alive' = alive /\ link' = link /\ bills' = bills
        /\ stored' = stored /\ faults' = faults /\ raced' = raced
  BY DEF UploadInsert
<1>2. ReqOK(r)
  BY DEF Inv
<1>3. file[r] \in Files /\ used \in 0 .. MaxIds
  BY <1>1, <1>2 DEF ReqOK, WithFile, Inv, TypeOK
\* The row is refused.
<1>4. CASE ~(alive /\ file[r] \notin Rows)
  <2>1. Goto(r, "recover") /\ used' = used /\ row' = row
    BY <1>4 DEF UploadInsert
  <2>2. Moved(r, "recover", file[r], doc[r], keys[r])
    BY <2>1, GotoMoves DEF Inv, RequestStates
  <2>3. TypeOK'
    BY <1>1, <2>1, <2>2 DEF Inv, TypeOK, Moved
  <2>4. Solo'
    BY <1>1, <2>2, SoloMoves DEF Deleting
  <2>5. RowsOK' /\ KeepsObject'
    BY <1>1, <2>1 DEF Inv, RowsOK, KeepsObject
  <2>6. NoOrphans'
    <3> SUFFICES ASSUME faults' = 0, "forget" \notin raced', NEW k \in stored' PROVE Accounted(k)'
      BY DEF NoOrphans
    <3>1. Accounted(k)
      BY <1>1 DEF Inv, NoOrphans
    <3>2. alive
      BY <1>1, <1>2 DEF ReqOK
    <3>3. row[file[r]] # NoId
      BY <1>3, <1>4, <3>2 DEF Rows
    <3>4. CASE row[k] # NoId
      BY <2>1, <3>4 DEF Accounted
    <3>5. CASE \E q \in Requests : rpc[q] = "insert" /\ file[q] = k
      BY <2>1, <2>2, <3>3, <3>5 DEF Accounted, Moved
    <3>6. CASE \E q \in Requests : rpc[q] \in {"purge", "purgeAll"} /\ k \in keys[q]
      BY <1>1, <2>2, <3>6 DEF Accounted, Moved
    <3> QED
      BY <3>1, <3>4, <3>5, <3>6 DEF Accounted
  <2>7. ReqOK(r)'
    BY <1>1, <1>2, <2>1, <2>2 DEF ReqOK, Moved, WithFile
  <2>8. \A q \in Requests \ {r} : ReqOK(q)'
    <3> TAKE q \in Requests \ {r}
    <3>1. rpc[q] = "insert" /\ "delete" \notin raced' /\ alive => file[q] \in stored'
      BY <1>1 DEF Inv, ReqOK
    <3> QED
      BY <1>1, <2>1, <2>2, <3>1, OthersKeep DEF tables
  <2> QED
    BY <2>3, <2>4, <2>5, <2>6, <2>7, <2>8 DEF Inv
\* The row is there.
<1>5. CASE alive /\ file[r] \notin Rows
  <2>1. Respond(r) /\ used < MaxIds /\ used' = used + 1 /\ row' = [row EXCEPT ![file[r]] = used + 1]
    BY <1>5 DEF UploadInsert
  <2>2. Moved(r, "idle", NoFile, NoId, {})
    BY <2>1, RespondMoves DEF Inv
  <2>3. row \in [Files -> Ids \cup {NoId}] /\ row[file[r]] = NoId
    BY <1>3, <1>5 DEF Inv, TypeOK, Rows
  <2>4. row'[file[r]] = used' /\ used' \in Ids /\ used' # NoId
    BY <1>3, <2>1, <2>3 DEF Ids, NoId
  <2>5. \A g \in Files : g # file[r] => row'[g] = row[g]
    BY <1>3, <2>1, <2>3
  <2>6. row' \in [Files -> Ids \cup {NoId}]
    BY <1>3, <2>1, <2>3, <2>4
  <2>7. \A g \in Files : row[g] \in Nat /\ row[g] <= used /\ row[g] # used'
    BY <1>3, <2>1, <2>3 DEF Inv, RowsOK, Ids, NoId
  <2>8. TypeOK'
    BY <1>1, <1>3, <2>1, <2>2, <2>6 DEF Inv, TypeOK, Moved
  <2>9. Solo'
    BY <1>1, <2>2, SoloMoves DEF Deleting
  <2>10. RowsOK'
    <3>1. ASSUME NEW g \in Files PROVE row'[g] <= used' /\ (row'[g] # NoId => alive')
      BY <1>1, <1>3, <1>5, <2>1, <2>4, <2>5, <2>7
    <3>2. ASSUME NEW g \in Files, NEW h \in Files, row'[g] = row'[h], row'[g] # NoId PROVE g = h
      BY <1>3, <2>4, <2>5, <2>7, <3>2 DEF Inv, RowsOK
    <3> QED
      BY <3>1, <3>2 DEF RowsOK
  <2>11. KeepsObject'
    <3> SUFFICES ASSUME "delete" \notin raced, NEW g \in Files, row'[g] # NoId PROVE g \in stored
      BY <1>1 DEF KeepsObject
    <3>1. CASE g = file[r]
      BY <1>1, <1>2, <1>5, <3>1 DEF ReqOK
    <3>2. CASE g # file[r]
      BY <2>5, <3>2 DEF Inv, KeepsObject
    <3> QED
      BY <3>1, <3>2
  <2>12. NoOrphans'
    <3> SUFFICES ASSUME faults' = 0, "forget" \notin raced', NEW k \in stored' PROVE Accounted(k)'
      BY DEF NoOrphans
    <3>1. k \in Files /\ Accounted(k)
      BY <1>1 DEF Inv, NoOrphans, TypeOK
    <3>2. CASE k = file[r]
      BY <2>4, <3>2 DEF Accounted
    <3>3. CASE k # file[r] /\ row[k] # NoId
      BY <2>5, <3>1, <3>3 DEF Accounted
    <3>4. CASE k # file[r] /\ \E q \in Requests : rpc[q] = "insert" /\ file[q] = k
      BY <2>2, <3>4 DEF Accounted, Moved
    <3>5. CASE \E q \in Requests : rpc[q] \in {"purge", "purgeAll"} /\ k \in keys[q]
      BY <1>1, <2>2, <3>5 DEF Accounted, Moved
    <3> QED
      BY <3>1, <3>2, <3>3, <3>4, <3>5 DEF Accounted
  <2>13. ReqOK(r)'
    BY <1>1, <1>3, <1>5, <2>1, <2>2 DEF ReqOK, Moved, WithFile, NoId
  <2>14. \A q \in Requests \ {r} : ReqOK(q)'
    <3> TAKE q \in Requests \ {r}
    <3>1. rpc'[q] = rpc[q] /\ file'[q] = file[q] /\ doc'[q] = doc[q] /\ keys'[q] = keys[q]
      BY <2>2 DEF Moved
    <3>2. ReqOK(q)
      BY DEF Inv
    <3>3. doc[q] \in Nat /\ doc[q] <= used /\ doc[q] # used'
      BY <1>3, <2>1, <3>2 DEF ReqOK, Inv, TypeOK, Ids, NoId
    <3>4. doc'[q] <= used'
      BY <1>3, <2>1, <3>1, <3>3
    <3>5. "delete" \notin raced => rpc[q] \notin {"check", "delete", "purge"}
      BY <1>1, Alone DEF Deleting
    <3>6. "forget" \notin raced => rpc[q] # "cascade"
      BY <1>1, Alone DEF Deleting
    <3>7. rpc[q] \in {"check", "delete"} => \A g \in Files : row'[g] = doc[q] => g = file[q]
      BY <1>3, <2>4, <2>5, <3>2, <3>3 DEF ReqOK
    <3>8. rpc[q] = "bill" /\ raced = {} => \E g \in Files : row'[g] = doc[q]
      <4> SUFFICES ASSUME rpc[q] = "bill", raced = {} PROVE \E g \in Files : row'[g] = doc[q]
        OBVIOUS
      <4>1. PICK g \in Files : row[g] = doc[q]
        BY <3>2 DEF ReqOK
      <4>2. CASE g # file[r]
        BY <2>5, <4>1, <4>2
      <4>3. CASE g = file[r]
        <5>1. doc[q] = NoId
          BY <2>3, <4>1, <4>3
        <5> QED
          BY <5>1, <3>2 DEF ReqOK
      <4> QED
        BY <4>2, <4>3
    <3> QED
      BY <1>1, <1>5, <3>1, <3>2, <3>4, <3>5, <3>6, <3>7, <3>8 DEF ReqOK
  <2> QED
    BY <2>8, <2>9, <2>10, <2>11, <2>12, <2>13, <2>14 DEF Inv
<1> QED
  BY <1>4, <1>5

LEMMA DeleteRowInv ==
  ASSUME Inv, NEW r \in Requests, DeleteRow(r)
  PROVE  Inv'
<1> USE StoreAssumption
<1>1. /\ rpc[r] = "delete" /\ alive' = alive /\ used' = used /\ bills' = bills
      /\ stored' = stored /\ faults' = faults /\ raced' = raced
      /\ row' = [f \in Files |-> IF row[f] = doc[r] THEN NoId ELSE row[f]]
      /\ link' = [b \in Bills |-> IF link[b] = doc[r] THEN NoId ELSE link[b]]
      /\ Hold(r, "purge", file[r], doc[r], {file[r]})
  BY DEF DeleteRow
<1>2. ReqOK(r)
  BY DEF Inv
<1>3. file[r] \in Files /\ doc[r] # NoId /\ doc[r] \in Ids \cup {NoId}
        /\ \A f \in Files : row[f] = doc[r] => f = file[r]
  BY <1>1, <1>2 DEF ReqOK, WithFile, Inv, TypeOK
<1>4. Moved(r, "purge", file[r], doc[r], {file[r]})
  BY <1>1, <1>3, HoldMoves DEF Inv, RequestStates, Deleting, TypeOK
<1>5. TypeOK'
  BY <1>1, <1>4 DEF Inv, TypeOK, Moved
<1>6. Solo'
  BY <1>1, <1>4, SoloMoves DEF Deleting
<1>7. \A f \in Files : row'[f] \in {row[f], NoId} /\ (f # file[r] => row'[f] = row[f])
  BY <1>1, <1>3
<1>8. \A f \in Files : row'[f] # NoId => row'[f] = row[f]
  BY <1>7
<1>9. 0 <= used
  BY DEF Inv, TypeOK
<1>10. RowsOK'
  BY <1>1, <1>7, <1>8, <1>9 DEF Inv, RowsOK, NoId
<1>11. KeepsObject'
  BY <1>1, <1>8 DEF Inv, KeepsObject
<1>12. NoOrphans'
  <2> SUFFICES ASSUME faults' = 0, "forget" \notin raced', NEW k \in stored' PROVE Accounted(k)'
    BY DEF NoOrphans
  <2>1. k \in Files /\ Accounted(k)
    BY <1>1 DEF Inv, NoOrphans, TypeOK
  <2>2. CASE k = file[r]
    BY <1>4, <2>2 DEF Accounted, Moved
  <2>3. CASE k # file[r] /\ row[k] # NoId
    BY <1>7, <2>1, <2>3 DEF Accounted
  <2>4. CASE \E q \in Requests : rpc[q] = "insert" /\ file[q] = k
    BY <1>1, <1>4, <2>4 DEF Accounted, Moved
  <2>5. CASE \E q \in Requests : rpc[q] \in {"purge", "purgeAll"} /\ k \in keys[q]
    BY <1>1, <1>4, <2>5 DEF Accounted, Moved
  <2> QED
    BY <2>1, <2>2, <2>3, <2>4, <2>5 DEF Accounted
<1>13. ReqOK(r)'
  <2>1. "delete" \notin raced => row[file[r]] \in {doc[r], NoId}
    BY <1>1, <1>2 DEF ReqOK
  <2>2. "delete" \notin raced => row'[file[r]] = NoId
    BY <1>1, <1>3, <2>1
  <2> QED
    BY <1>1, <1>2, <1>3, <1>4, <2>2 DEF ReqOK, Moved, WithFile
<1>14. \A q \in Requests \ {r} : ReqOK(q)'
  <2> TAKE q \in Requests \ {r}
  <2>1. rpc'[q] = rpc[q] /\ file'[q] = file[q] /\ doc'[q] = doc[q] /\ keys'[q] = keys[q]
    BY <1>4 DEF Moved
  <2>2. ReqOK(q)
    BY DEF Inv
  <2>3. "delete" \notin raced => rpc[q] = "idle"
    BY <1>1, Alone DEF Deleting
  <2>4. rpc[q] \in {"check", "delete"} => \A f \in Files : row'[f] = doc[q] => f = file[q]
    BY <1>8, <2>2 DEF ReqOK
  <2>5. "forget" \notin raced /\ rpc[q] = "cascade" => \A f \in Files : row'[f] # NoId => f \in keys[q]
    BY <1>8, <2>2 DEF ReqOK
  <2>6. raced = {} => rpc[q] # "bill"
    BY <2>3
  <2> QED
    BY <1>1, <2>1, <2>2, <2>3, <2>4, <2>5, <2>6 DEF ReqOK
<1> QED
  BY <1>5, <1>6, <1>10, <1>11, <1>12, <1>13, <1>14 DEF Inv

LEMMA CascadeInv ==
  ASSUME Inv, NEW r \in Requests, ForgetCascade(r)
  PROVE  Inv'
<1> USE StoreAssumption
<1>1. /\ rpc[r] = "cascade" /\ alive' = FALSE /\ used' = used /\ bills' = {}
      /\ stored' = stored /\ faults' = faults /\ raced' = raced
      /\ row' = [f \in Files |-> NoId]
      /\ link' = [b \in Bills |-> NoId]
      /\ Goto(r, "purgeAll")
  BY DEF ForgetCascade
<1>2. ReqOK(r)
  BY DEF Inv
<1>3. Moved(r, "purgeAll", file[r], doc[r], keys[r])
  BY <1>1, GotoMoves DEF Inv, RequestStates, Deleting
<1>4. TypeOK'
  BY <1>1, <1>3 DEF Inv, TypeOK, Moved
<1>5. Solo'
  BY <1>1, <1>3, SoloMoves DEF Deleting
<1>6. 0 <= used /\ \A f \in Files : row'[f] = NoId
  BY <1>1 DEF Inv, TypeOK
<1>7. RowsOK' /\ KeepsObject'
  BY <1>1, <1>6 DEF RowsOK, KeepsObject, NoId
<1>8. NoOrphans'
  <2> SUFFICES ASSUME faults' = 0, "forget" \notin raced', NEW k \in stored' PROVE Accounted(k)'
    BY DEF NoOrphans
  <2>1. k \in Files /\ Accounted(k)
    BY <1>1 DEF Inv, NoOrphans, TypeOK
  <2>2. CASE row[k] # NoId
    BY <1>1, <1>2, <1>3, <2>1, <2>2 DEF Accounted, Moved, ReqOK
  <2>3. CASE \E q \in Requests : rpc[q] = "insert" /\ file[q] = k
    BY <1>1, <2>3, Alone DEF Deleting
  <2>4. CASE \E q \in Requests : rpc[q] \in {"purge", "purgeAll"} /\ k \in keys[q]
    BY <1>1, <1>3, <2>4 DEF Accounted, Moved
  <2> QED
    BY <2>1, <2>2, <2>3, <2>4 DEF Accounted
<1>9. ReqOK(r)'
  BY <1>1, <1>2, <1>3, <1>6 DEF ReqOK, Moved, WithFile
<1>10. \A q \in Requests \ {r} : ReqOK(q)'
  <2> TAKE q \in Requests \ {r}
  <2>1. rpc'[q] = rpc[q] /\ file'[q] = file[q] /\ doc'[q] = doc[q] /\ keys'[q] = keys[q]
    BY <1>3 DEF Moved
  <2>2. ReqOK(q)
    BY DEF Inv
  <2>3. "forget" \notin raced => rpc[q] = "idle"
    BY <1>1, Alone DEF Deleting
  <2>4. ~Referenced(doc[q])'
    BY <1>1 DEF Referenced
  <2>5. \A k \in keys[q] : row'[k] = NoId
    BY <1>6 DEF Inv, TypeOK
  <2>6. rpc[q] \in {"check", "delete"} => row'[file[q]] = NoId /\ \A f \in Files : row'[f] # doc[q]
    BY <1>6, <2>2 DEF ReqOK, WithFile
  <2> QED
    BY <1>1, <1>6, <2>1, <2>2, <2>3, <2>4, <2>5, <2>6 DEF ReqOK, Referenced
<1> QED
  BY <1>4, <1>5, <1>7, <1>8, <1>9, <1>10 DEF Inv

LEMMA LinkInsertInv ==
  ASSUME Inv, NEW r \in Requests, LinkInsert(r)
  PROVE  Inv'
<1> USE StoreAssumption
<1>1. /\ rpc[r] = "bill" /\ Respond(r) /\ alive' = alive /\ row' = row /\ used' = used
      /\ stored' = stored /\ faults' = faults /\ raced' = raced
  BY DEF LinkInsert
<1>2. Moved(r, "idle", NoFile, NoId, {})
  BY <1>1, RespondMoves DEF Inv
<1>3. bills' \subseteq Bills /\ link' \in [Bills -> Ids \cup {NoId}]
  BY DEF LinkInsert, Inv, TypeOK
<1>4. TypeOK'
  BY <1>1, <1>2, <1>3 DEF Inv, TypeOK, Moved
<1>5. Solo'
  BY <1>1, <1>2, SoloMoves DEF Deleting
<1>6. RowsOK' /\ KeepsObject'
  BY <1>1 DEF Inv, RowsOK, KeepsObject
<1>7. NoOrphans'
  BY <1>1, <1>2 DEF Inv, NoOrphans, Accounted, Moved
<1>8. ReqOK(r)'
  BY <1>1, <1>2 DEF ReqOK, Moved, WithFile, NoId, Inv, TypeOK
<1>9. \A q \in Requests \ {r} : ReqOK(q)'
  <2> TAKE q \in Requests \ {r}
  <2>1. rpc'[q] = rpc[q] /\ file'[q] = file[q] /\ doc'[q] = doc[q] /\ keys'[q] = keys[q]
    BY <1>2 DEF Moved
  <2>2. ReqOK(q)
    BY DEF Inv
  <2>3. "delete" \notin raced => rpc[q] # "delete"
    BY <1>1, Alone DEF Deleting
  <2> QED
    BY <1>1, <2>1, <2>2, <2>3 DEF ReqOK
<1> QED
  BY <1>4, <1>5, <1>6, <1>7, <1>8, <1>9 DEF Inv

LEMMA DeleteBillInv ==
  ASSUME Inv, NEW b \in Bills, DeleteBill(b)
  PROVE  Inv'
<1>1. bills' = bills \ {b} /\ link' = [link EXCEPT ![b] = NoId]
        /\ UNCHANGED <<alive, row, used, stored, reqVars, faults, raced>>
  BY DEF DeleteBill
<1>2. TypeOK'
  BY <1>1 DEF Inv, TypeOK, reqVars
<1>3. Solo' /\ RowsOK' /\ KeepsObject' /\ NoOrphans'
  BY <1>1 DEF Inv, Solo, RowsOK, KeepsObject, NoOrphans, Accounted, reqVars
<1>4. \A q \in Requests : ReqOK(q)'
  <2> TAKE q \in Requests
  <2>1. ReqOK(q)
    BY DEF Inv
  <2>2. rpc'[q] = rpc[q] /\ file'[q] = file[q] /\ doc'[q] = doc[q] /\ keys'[q] = keys[q]
    BY <1>1 DEF reqVars
  <2>3. ~Referenced(doc[q]) => ~Referenced(doc[q])'
    BY <1>1, <2>2 DEF Referenced, Inv, TypeOK
  <2> QED
    BY <1>1, <2>1, <2>2, <2>3 DEF ReqOK, Referenced
<1> QED
  BY <1>2, <1>3, <1>4 DEF Inv

LEMMA NextInv == Inv /\ [Next]_vars => Inv'
<1> SUFFICES ASSUME Inv, [Next]_vars PROVE Inv'
  OBVIOUS
<1>1. CASE UNCHANGED vars
  BY <1>1 DEF vars, reqVars, Inv, TypeOK, Solo, RowsOK, NoOrphans, KeepsObject, ReqOK,
     Accounted, Referenced, WithFile
<1>2. ASSUME NEW r \in Requests, Start(r) PROVE Inv'
  BY <1>2, StartInv
<1>3. ASSUME NEW r \in Requests, Step(r) PROVE Inv'
  BY <1>3, ReadInv, FailInv, PutInv, PurgeInv, InsertInv, DeleteRowInv, CascadeInv,
     LinkInsertInv DEF Step
<1>4. ASSUME NEW b \in Bills, DeleteBill(b) PROVE Inv'
  BY <1>4, DeleteBillInv
<1> QED
  BY <1>1, <1>2, <1>3, <1>4 DEF Next

LEMMA Invariant == Spec => []Inv
BY InitInv, NextInv, PTL DEF Spec

-----------------------------------------------------------------------------
(* What follows.                                                           *)

\* The tables, the store and the requests keep their types.
THEOREM TypeCorrect == Spec => []TypeOK
<1>1. Inv => TypeOK
  BY DEF Inv
<1> QED
  BY <1>1, Invariant, PTL

\* A row has its object, whatever dies in between, unless the deletion of a
\* document overlapped another request (bill_documents.py:231).
THEOREM RowsKeepTheirObjects == Spec => []RowKeepsItsObject
<1>1. Inv => RowKeepsItsObject
  BY DEF Inv, KeepsObject, RowKeepsItsObject, Rows
<1> QED
  BY <1>1, Invariant, PTL

\* When nothing is in flight, nothing failed and no deletion was overtaken,
\* storage and table agree.
THEOREM QuietStoresAgree == Spec => []QuietIsConsistent
<1>1. Inv => QuietIsConsistent
  <2> SUFFICES ASSUME Inv, Quiet, raced = {} PROVE stored = Rows
    BY DEF QuietIsConsistent
  <2>1. Rows \subseteq stored
    BY DEF Inv, KeepsObject, Rows
  <2>2. stored \subseteq Rows
    BY DEF Inv, TypeOK, NoOrphans, Accounted, Quiet, Rows
  <2> QED
    BY <2>1, <2>2
<1> QED
  BY <1>1, Invariant, PTL

\* Deleting a place or an account leaves no PDF behind, unless another request
\* was under way at the time (documents.py:6).
THEOREM ForgottenIsGone == Spec => []ForgetIsComplete
<1>1. Inv => ForgetIsComplete
  <2> SUFFICES ASSUME Inv, "forget" \notin raced, Quiet, ~alive, NEW k \in stored PROVE FALSE
    BY DEF ForgetIsComplete, ForgottenLeavesNothing
  <2>1. k \in Files /\ Accounted(k)
    BY DEF Inv, TypeOK, NoOrphans, Quiet
  <2>2. row[k] # NoId
    BY <2>1 DEF Accounted, Quiet
  <2> QED
    BY <2>1, <2>2 DEF Inv, RowsOK
<1> QED
  BY <1>1, Invariant, PTL

\* Deleting a document nulls no bill's link, unless the deletion overlapped
\* another request (bill_documents.py:337).
THEOREM LinksSurvive == Spec => LinkSurvives
<1> DEFINE Kept(b) == b \in bills' /\ "delete" \notin raced' => link'[b] = link[b]
<1>1. Inv /\ [Next]_vars => [\A b \in bills : Kept(b)]_vars
  <2> SUFFICES ASSUME Inv, Next, NEW b \in bills, b \in bills', "delete" \notin raced'
               PROVE  link'[b] = link[b]
    OBVIOUS
  <2>1. b \in Bills /\ link \in [Bills -> Ids \cup {NoId}]
    BY DEF Inv, TypeOK
  <2>2. CASE UNCHANGED link
    BY <2>2
  <2>3. ASSUME NEW r \in Requests, DeleteRow(r) PROVE link'[b] = link[b]
    <3>1. ~Referenced(doc[r])
      BY <2>3 DEF DeleteRow, Inv, ReqOK
    <3>2. link[b] # doc[r]
      BY <3>1 DEF Referenced
    <3> QED
      BY <2>1, <2>3, <3>2 DEF DeleteRow
  <2>4. ASSUME NEW r \in Requests, ForgetCascade(r) PROVE FALSE
    BY <2>4 DEF ForgetCascade
  <2>5. ASSUME NEW r \in Requests, LinkInsert(r) PROVE link'[b] = link[b]
    BY <2>1, <2>5 DEF LinkInsert
  <2>6. ASSUME NEW c \in Bills, DeleteBill(c) PROVE link'[b] = link[b]
    BY <2>1, <2>6 DEF DeleteBill
  <2>7. ASSUME NEW r \in Requests, Start(r) PROVE UNCHANGED link
    BY <2>7 DEF Start, UploadStart, DeleteStart, LinkStart, ForgetStart, tables
  <2>8. ASSUME NEW r \in Requests, Step(r), ~DeleteRow(r), ~ForgetCascade(r), ~LinkInsert(r)
        PROVE  UNCHANGED link
    BY <2>8 DEF Step, UploadDedupe, UploadLimit, UploadPut, UploadInsert, UploadRecover,
       DeleteCheck, ForgetCollect, Purge, PurgeFails, PurgeDone, Die, tables
  <2> QED
    BY <2>2, <2>3, <2>4, <2>5, <2>6, <2>7, <2>8 DEF Next
<1> QED
  BY <1>1, Invariant, PTL DEF Spec, LinkSurvives

-----------------------------------------------------------------------------
(* The daily limit, counted before the row is inserted.                    *)

\* The uploads that are past the count.
Counted == {r \in Requests : rpc[r] \in {"put", "insert"}}

Room == Cardinality(Rows) + Cardinality(Counted) <= DailyLimit - 1 + Cardinality(Requests)

LEMMA Sizes ==
  /\ IsFiniteSet(Rows) /\ Cardinality(Rows) \in Nat
  /\ IsFiniteSet(Counted) /\ Cardinality(Counted) \in Nat
  /\ Cardinality(Counted) <= Cardinality(Requests) /\ Cardinality(Requests) \in Nat
<1> USE StoreAssumption
<1>1. Rows \in SUBSET Files /\ Counted \in SUBSET Requests
  BY DEF Rows, Counted
<1>2. IsFiniteSet(Rows) /\ IsFiniteSet(Counted) /\ Cardinality(Counted) <= Cardinality(Requests)
  BY <1>1, FS_Subset
<1> QED
  BY <1>2, FS_CardinalityType

\* No step but a count makes room for another upload, and no step but an
\* insert adds a row.
LEMMA RoomShrinks ==
  ASSUME Room, NEW M, M = Rows', NEW N, N = Counted', M \subseteq Rows, N \subseteq Counted
  PROVE  Room'
<1>1. IsFiniteSet(M) /\ Cardinality(M) <= Cardinality(Rows)
  BY Sizes, FS_Subset
<1>2. IsFiniteSet(N) /\ Cardinality(N) <= Cardinality(Counted)
  BY Sizes, FS_Subset
<1>3. Cardinality(M) \in Nat /\ Cardinality(N) \in Nat
  BY <1>1, <1>2, FS_CardinalityType
<1>4. Cardinality(M) + Cardinality(N) <= DailyLimit - 1 + Cardinality(Requests)
  BY <1>1, <1>2, <1>3, Sizes, StoreAssumption DEF Room
<1> QED
  BY <1>4 DEF Room

LEMMA RoomInit == Init => Room
<1> SUFFICES ASSUME Init PROVE Room
  OBVIOUS
<1>1. Rows = {} /\ Counted = {}
  BY DEF Init, Rows, Counted
<1>2. Cardinality(Rows) = 0 /\ Cardinality(Counted) = 0
  BY <1>1, FS_EmptySet
<1>3. Cardinality(Requests) \in Nat /\ Cardinality(Requests) # 0
  BY StoreAssumption, FS_CardinalityType, FS_EmptySet
<1> QED
  BY <1>2, <1>3, StoreAssumption DEF Room

LEMMA RoomCounts ==
  ASSUME Inv, Room, NEW r \in Requests, UploadLimit(r)
  PROVE  Room'
<1> USE StoreAssumption
<1>1. rpc[r] = "limit" /\ row' = row /\ Rows' = Rows
  BY DEF UploadLimit, tables, Rows
<1>2. CASE Respond(r)
  <2>1. Moved(r, "idle", NoFile, NoId, {})
    BY <1>2, RespondMoves DEF Inv
  <2>2. Counted' \subseteq Counted
    BY <2>1 DEF Counted, Moved
  <2> QED
    BY <1>1, <2>2, RoomShrinks
<1>3. CASE ~LimitReached(Cardinality(Rows))
  <2>1. Cardinality(Rows) <= DailyLimit - 1
    BY <1>3, Sizes DEF LimitReached
  <2>2. Counted' \in SUBSET Requests
    BY DEF Counted
  <2>3. IsFiniteSet(Counted') /\ Cardinality(Counted') <= Cardinality(Requests)
    BY <2>2, FS_Subset
  <2>4. Cardinality(Counted') \in Nat
    BY <2>3, FS_CardinalityType
  <2>5. Cardinality(Rows') + Cardinality(Counted') <= DailyLimit - 1 + Cardinality(Requests)
    BY <1>1, <2>1, <2>3, <2>4, Sizes
  <2> QED
    BY <2>5 DEF Room
<1> QED
  BY <1>2, <1>3 DEF UploadLimit

LEMMA RoomInserts ==
  ASSUME Inv, Room, NEW r \in Requests, UploadInsert(r)
  PROVE  Room'
<1> USE StoreAssumption
<1>1. rpc[r] = "insert"
  BY DEF UploadInsert
<1>2. rpc' = [rpc EXCEPT ![r] = rpc'[r]] /\ rpc'[r] \in {"idle", "recover"}
  BY <1>1 DEF UploadInsert, Respond, Goto, Inv, TypeOK
<1>3. Counted' = Counted \ {r} /\ r \in Counted
  BY <1>1, <1>2 DEF Counted, Inv, TypeOK
<1>4. Cardinality(Counted') = Cardinality(Counted) - 1
  BY <1>3, Sizes, FS_RemoveElement
<1>5. file[r] \in Files
  BY <1>1 DEF Inv, ReqOK, WithFile
<1>6. Rows' \in SUBSET (Rows \cup {file[r]})
  BY <1>5 DEF UploadInsert, Rows, Inv, TypeOK
<1> DEFINE M == Rows'
<1>7. M \in SUBSET (Rows \cup {file[r]})
  BY <1>6
<1> HIDE DEF M
<1>8. Cardinality(M) \in Nat /\ Cardinality(M) <= Cardinality(Rows) + 1
  BY <1>7, Sizes, OneMore
<1>9. Cardinality(Rows') \in Nat /\ Cardinality(Rows') <= Cardinality(Rows) + 1
  BY <1>8 DEF M
<1>10. Cardinality(Rows') + Cardinality(Counted') <= DailyLimit - 1 + Cardinality(Requests)
  BY <1>4, <1>9, Sizes DEF Room
<1> QED
  BY <1>10 DEF Room

LEMMA RoomNext == Inv /\ Room /\ [Next]_vars => Room'
<1> SUFFICES ASSUME Inv, Room, [Next]_vars PROVE Room'
  OBVIOUS
<1>1. SUFFICES ASSUME ~\E r \in Requests : UploadLimit(r) \/ UploadInsert(r)
               PROVE  Rows' \subseteq Rows /\ Counted' \subseteq Counted
  BY RoomCounts, RoomInserts, RoomShrinks
<1>2. CASE UNCHANGED vars
  BY <1>2 DEF vars, reqVars, Rows, Counted
<1>3. ASSUME NEW r \in Requests, Start(r) PROVE row' = row /\ Counted' \subseteq Counted
  <2>1. row' = row
    BY <1>3 DEF Start, UploadStart, DeleteStart, LinkStart, ForgetStart, tables
  <2>2. PICK s \in {"dedupe", "check", "bill", "collect"} : rpc' = [rpc EXCEPT ![r] = s]
    BY <1>3 DEF Start, UploadStart, DeleteStart, LinkStart, ForgetStart, Begin, Hold
  <2> QED
    BY <2>1, <2>2 DEF Counted, Inv, TypeOK
<1>4. ASSUME NEW r \in Requests, Step(r), ~UploadLimit(r), ~UploadInsert(r)
      PROVE  Rows' \subseteq Rows /\ Counted' \subseteq Counted
  <2>1. PICK s : rpc' = [rpc EXCEPT ![r] = s] /\ (s \in {"put", "insert"} => r \in Counted)
    BY <1>4 DEF Step, UploadDedupe, UploadPut, UploadRecover, DeleteCheck, DeleteRow,
       ForgetCollect, ForgetCascade, Purge, PurgeFails, PurgeDone, LinkInsert, Die, Purging,
       Goto, Respond, Hold, Counted
  <2>2. Counted' \subseteq Counted
    BY <2>1 DEF Counted, Inv, TypeOK
  <2>3. Rows' \subseteq Rows
    BY <1>4 DEF Step, UploadDedupe, UploadPut, UploadRecover, DeleteCheck, DeleteRow,
       ForgetCollect, ForgetCascade, Purge, PurgeFails, PurgeDone, LinkInsert, Die,
       tables, Rows
  <2> QED
    BY <2>2, <2>3
<1>5. ASSUME NEW b \in Bills, DeleteBill(b) PROVE Rows' = Rows /\ Counted' = Counted
  BY <1>5 DEF DeleteBill, reqVars, Rows, Counted
<1> QED
  BY <1>1, <1>2, <1>3, <1>4, <1>5 DEF Next, Rows

\* Uploads that count at the same time overshoot the daily limit by no more
\* than there are of them (bill_documents.py, _enforce_rate_limit).
THEOREM OvershootIsBounded == Spec => []LimitOvershoot
<1>1. Room => LimitOvershoot
  BY Sizes, StoreAssumption DEF Room, LimitOvershoot
<1>2. Spec => []Room
  BY RoomInit, RoomNext, Invariant, PTL DEF Spec
<1> QED
  BY <1>1, <1>2, PTL
==============================================================================
