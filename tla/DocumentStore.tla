---------------------------- MODULE DocumentStore ----------------------------
(***************************************************************************)
(* Bill documents: rows in Postgres, bytes in object storage, and nothing  *)
(* that commits both.  backend/app/routers/bill_documents.py (upload and   *)
(* delete), backend/app/services/documents.py (purge), the deletion of a   *)
(* place or an account (routers/places.py, routers/account.py) and the     *)
(* link a bill holds to its document (routers/bills.py).                   *)
(*                                                                         *)
(* One place is enough: the key of an object is {place_id}/{sha256}.pdf    *)
(* and every request works inside one place, so a file of that place       *)
(* stands for a key.  A request is a process with one step per await       *)
(* between which others may run.                                           *)
(***************************************************************************)
EXTENDS Integers, FiniteSets

CONSTANTS
  Files,        \* contents, that is digests, that is storage keys
  NoFile,       \* what a request that works on no file works on
  Bills,        \* bills that may be created with a link to a document
  Requests,     \* requests in flight, each doing one operation at a time
  Operations,   \* what requests do: subset of AllOperations
  DailyLimit,   \* upload_daily_limit
  MaxIds,       \* bound: document rows ever inserted
  MaxFaults     \* bound: failed storage and database calls, dead requests

AllOperations == {"upload", "delete", "forget", "link"}

ASSUME StoreAssumption ==
  /\ NoFile \notin Files
  /\ Operations \subseteq AllOperations
  /\ IsFiniteSet(Files) /\ IsFiniteSet(Requests) /\ Requests # {}
  /\ DailyLimit \in Nat /\ MaxIds \in Nat /\ MaxFaults \in Nat

Ids  == 1 .. MaxIds     \* bill_documents.id, in the order of insertion
NoId == 0

VARIABLES
  alive,    \* the place and its owner exist
  row,      \* row[f]: the id of the document row with sha256 f, or NoId
  used,     \* ids handed out
  stored,   \* the keys that have an object
  link,     \* link[b]: bills.document_id; b is in the table iff b \in bills
  bills,
  rpc,      \* where each request is
  file,     \* the file it uploads or deletes
  doc,      \* the document row it holds
  keys,     \* the keys it is going to purge
  faults,   \* calls that failed so far
  raced     \* history: the ways to delete that overlapped another request

reqVars == <<rpc, file, doc, keys>>
vars == <<alive, row, used, stored, link, bills, reqVars, faults, raced>>

\* The states of a request that deletes a document, or a place or account.
Deleting == [delete |-> {"check", "delete", "purge"},
             forget |-> {"collect", "cascade", "purgeAll"}]

RequestStates == {"idle", "dedupe", "limit", "put", "insert", "recover", "bill"}
                   \cup Deleting.delete \cup Deleting.forget

Rows == {f \in Files : row[f] # NoId}

Init ==
  /\ alive = TRUE
  /\ row = [f \in Files |-> NoId]
  /\ used = 0
  /\ stored = {}
  /\ link = [b \in Bills |-> NoId]
  /\ bills = {}
  /\ rpc = [r \in Requests |-> "idle"]
  /\ file = [r \in Requests |-> NoFile]
  /\ doc = [r \in Requests |-> NoId]
  /\ keys = [r \in Requests |-> {}]
  /\ faults = 0
  /\ raced = {}

Goto(r, s) == rpc' = [rpc EXCEPT ![r] = s] /\ UNCHANGED <<file, doc, keys>>

\* The response is sent: the request holds nothing any more.
Respond(r) ==
  /\ rpc' = [rpc EXCEPT ![r] = "idle"]
  /\ file' = [file EXCEPT ![r] = NoFile]
  /\ doc' = [doc EXCEPT ![r] = NoId]
  /\ keys' = [keys EXCEPT ![r] = {}]

\* The request goes on to step s holding file f, document d and keys K.
Hold(r, s, f, d, K) ==
  /\ rpc' = [rpc EXCEPT ![r] = s]
  /\ file' = [file EXCEPT ![r] = f]
  /\ doc' = [doc EXCEPT ![r] = d]
  /\ keys' = [keys EXCEPT ![r] = K]

\* The request begins in step s, beside whatever else is under way.
Begin(r, s, f, d) ==
  /\ Hold(r, s, f, d, {})
  /\ LET Others == {rpc[q] : q \in Requests \ {r}} \ {"idle"}
     IN  raced' = raced \cup
           {o \in DOMAIN Deleting :
              \/ Others \cap Deleting[o] # {}
              \/ Others # {} /\ s \in Deleting[o]}

tables == <<alive, row, used, link, bills>>

-----------------------------------------------------------------------------
(* upload_document.                                                        *)

\* get_owned_place has found the place; the body is read and hashed.
UploadStart(r, f) ==
  /\ rpc[r] = "idle" /\ "upload" \in Operations
  /\ alive
  /\ Begin(r, "dedupe", f, NoId)
  /\ UNCHANGED <<tables, stored, faults>>

\* SELECT by digest: a hit is answered 200.
UploadDedupe(r) ==
  /\ rpc[r] = "dedupe"
  /\ IF file[r] \in Rows THEN Respond(r) ELSE Goto(r, "limit")
  /\ UNCHANGED <<tables, stored, faults, raced>>

\* _enforce_rate_limit counts the rows of the day, or answers 429.
LimitOffByOne(n) == n > DailyLimit    \* mutant: > for >=
LimitReached(n) == n >= DailyLimit

UploadLimit(r) ==
  /\ rpc[r] = "limit"
  /\ IF LimitReached(Cardinality(Rows)) THEN Respond(r) ELSE Goto(r, "put")
  /\ UNCHANGED <<tables, stored, faults, raced>>

\* The object is stored before the row is inserted.
PutSwallowed(r) ==    \* mutant: a put that fails does not stop the upload
  /\ rpc[r] = "put"
  /\ \E S \in {{}, {file[r]}} : stored' = stored \cup S
  /\ Goto(r, "insert")
  /\ UNCHANGED <<tables, faults, raced>>
UploadPut(r) ==
  /\ rpc[r] = "put"
  /\ stored' = stored \cup {file[r]}
  /\ Goto(r, "insert")
  /\ UNCHANGED <<tables, faults, raced>>

\* INSERT, COMMIT.  An IntegrityError says that the row is there already or
\* that the place is there no more.
UploadInsert(r) ==
  /\ rpc[r] = "insert"
  /\ IF alive /\ file[r] \notin Rows
     THEN /\ used < MaxIds
          /\ used' = used + 1
          /\ row' = [row EXCEPT ![file[r]] = used + 1]
          /\ Respond(r)
     ELSE /\ Goto(r, "recover")
          /\ UNCHANGED <<used, row>>
  /\ UNCHANGED <<alive, link, bills, stored, faults, raced>>

\* SELECT the winner of the race: 200 with it, or the error is raised again.
UploadRecover(r) ==
  /\ rpc[r] = "recover"
  /\ Respond(r)
  /\ UNCHANGED <<tables, stored, faults, raced>>

-----------------------------------------------------------------------------
(* delete_document.                                                        *)

\* get_owned_document has loaded the row.
DeleteStart(r, f) ==
  /\ rpc[r] = "idle" /\ "delete" \in Operations
  /\ f \in Rows
  /\ Begin(r, "check", f, row[f])
  /\ UNCHANGED <<tables, stored, faults>>

Referenced(d) == \E b \in bills : link[b] = d
NeverReferenced(d) == FALSE    \* mutant: no check for bills
RefusesDelete(d) == Referenced(d)

\* A bill that points at it refuses the request with 409.
DeleteCheck(r) ==
  /\ rpc[r] = "check"
  /\ IF RefusesDelete(doc[r]) THEN Respond(r) ELSE Goto(r, "delete")
  /\ UNCHANGED <<tables, stored, faults, raced>>

\* DELETE by id, COMMIT; bills.document_id is ON DELETE SET NULL.  That the
\* row has gone meanwhile makes no difference to what follows.
DeleteRow(r) ==
  /\ rpc[r] = "delete"
  /\ row' = [f \in Files |-> IF row[f] = doc[r] THEN NoId ELSE row[f]]
  /\ link' = [b \in Bills |-> IF link[b] = doc[r] THEN NoId ELSE link[b]]
  /\ Hold(r, "purge", file[r], doc[r], {file[r]})
  /\ UNCHANGED <<alive, used, bills, stored, faults, raced>>

-----------------------------------------------------------------------------
(* delete_place and delete_own_account.                                    *)

ForgetStart(r) ==
  /\ rpc[r] = "idle" /\ "forget" \in Operations
  /\ alive
  /\ Begin(r, "collect", NoFile, NoId)
  /\ UNCHANGED <<tables, stored, faults>>

\* storage_keys_for_place, storage_keys_for_user: the keys of the rows, read
\* while the rows exist.
NoKeys == {}         \* mutant: the keys are read after the cascade
DocumentIds == {row[f] : f \in Rows}    \* mutant: ids selected, not keys
KeysOfRows == Rows

ForgetCollect(r) ==
  /\ rpc[r] = "collect"
  /\ Hold(r, "cascade", NoFile, NoId, KeysOfRows)
  /\ UNCHANGED <<tables, stored, faults, raced>>

\* DELETE of the place or the user, COMMIT: documents and bills cascade.
ForgetCascade(r) ==
  /\ rpc[r] = "cascade"
  /\ alive' = FALSE
  /\ row' = [f \in Files |-> NoId]
  /\ bills' = {}
  /\ link' = [b \in Bills |-> NoId]
  /\ Goto(r, "purgeAll")
  /\ UNCHANGED <<used, stored, faults, raced>>

-----------------------------------------------------------------------------
(* purge_objects: best effort, one key after the other.                    *)

Purging(r) == rpc[r] \in {"purge", "purgeAll"}

Purge(r) ==
  /\ Purging(r)
  /\ \E k \in keys[r] :
       /\ stored' = stored \ {k}
       /\ Hold(r, rpc[r], file[r], doc[r], keys[r] \ {k})
  /\ UNCHANGED <<tables, faults, raced>>

\* storage.delete raises: logged and swallowed, and on to the next key.
PurgeFails(r) ==
  /\ Purging(r)
  /\ faults < MaxFaults
  /\ faults' = faults + 1
  /\ \E k \in keys[r] : Hold(r, rpc[r], file[r], doc[r], keys[r] \ {k})
  /\ UNCHANGED <<tables, stored, raced>>

PurgeDone(r) ==
  /\ Purging(r) /\ keys[r] = {}
  /\ Respond(r)
  /\ UNCHANGED <<tables, stored, faults, raced>>

-----------------------------------------------------------------------------
(* create_bill with a document_id, and delete_bill.                        *)

\* _check_document has found the document on this place.
LinkStart(r, f) ==
  /\ rpc[r] = "idle" /\ "link" \in Operations
  /\ f \in Rows
  /\ Begin(r, "bill", NoFile, row[f])
  /\ UNCHANGED <<tables, stored, faults>>

\* INSERT, COMMIT.  With the document gone the foreign key fails, and the
\* client is told of a duplicate invoice (409).
LinkInsert(r) ==
  /\ rpc[r] = "bill"
  /\ IF \E f \in Files : row[f] = doc[r]
     THEN \E b \in Bills \ bills : /\ bills' = bills \cup {b}
                                   /\ link' = [link EXCEPT ![b] = doc[r]]
     ELSE UNCHANGED <<bills, link>>
  /\ Respond(r)
  /\ UNCHANGED <<alive, row, used, stored, faults, raced>>

DeleteBill(b) ==
  /\ b \in bills
  /\ bills' = bills \ {b}
  /\ link' = [link EXCEPT ![b] = NoId]
  /\ UNCHANGED <<alive, row, used, stored, reqVars, faults, raced>>

-----------------------------------------------------------------------------
\* The process dies, the client disconnects, or a call raises before it took
\* effect: the request ends where it is.
Die(r) ==
  /\ rpc[r] # "idle"
  /\ faults < MaxFaults
  /\ faults' = faults + 1
  /\ Respond(r)
  /\ UNCHANGED <<tables, stored, raced>>

Start(r) ==
  \/ \E f \in Files : UploadStart(r, f) \/ DeleteStart(r, f) \/ LinkStart(r, f)
  \/ ForgetStart(r)

Step(r) ==
  \/ UploadDedupe(r) \/ UploadLimit(r) \/ UploadPut(r)
  \/ UploadInsert(r) \/ UploadRecover(r)
  \/ DeleteCheck(r) \/ DeleteRow(r)
  \/ ForgetCollect(r) \/ ForgetCascade(r)
  \/ Purge(r) \/ PurgeFails(r) \/ PurgeDone(r)
  \/ LinkInsert(r)
  \/ Die(r)

Next ==
  \/ \E r \in Requests : Start(r) \/ Step(r)
  \/ \E b \in Bills : DeleteBill(b)

Spec == Init /\ [][Next]_vars

-----------------------------------------------------------------------------
(* Properties.                                                             *)

\* Every variable ranges over what the tables, the store and requests hold.
TypeOK ==
  /\ alive \in BOOLEAN
  /\ row \in [Files -> Ids \cup {NoId}]
  /\ used \in 0 .. MaxIds
  /\ stored \subseteq Files
  /\ bills \subseteq Bills
  /\ link \in [Bills -> Ids \cup {NoId}]
  /\ rpc \in [Requests -> RequestStates]
  /\ file \in [Requests -> Files \cup {NoFile}]
  /\ doc \in [Requests -> Ids \cup {NoId}]
  /\ keys \in [Requests -> SUBSET Files]
  /\ faults \in 0 .. MaxFaults
  /\ raced \subseteq DOMAIN Deleting

\* A document row never points at nothing (bill_documents.py:231), whatever
\* dies between the object and the row, or between the row and the purge,
\* unless a document is deleted while another request is under way.
RowKeepsItsObject == "delete" \notin raced => Rows \subseteq stored

\* Counting first and inserting later overshoots the daily limit by no more
\* than the other uploads that were past the count at the time.
LimitOvershoot == Cardinality(Rows) < DailyLimit + Cardinality(Requests)

\* Nothing is in flight and no call has failed.
Quiet == faults = 0 /\ \A r \in Requests : rpc[r] = "idle"

\* Then the objects in storage are exactly those of the rows, however uploads
\* and links overlapped: nothing is lost and nothing is left behind.
QuietIsConsistent == Quiet /\ raced = {} => stored = Rows

\* Once a place or an account is deleted and every request is answered, none
\* of its PDFs is left in storage (documents.py:6, account.py:29) ...
ForgottenLeavesNothing == Quiet /\ ~alive => stored = {}
\* ... unless another request was under way at the time.
ForgetIsComplete == "forget" \notin raced => ForgottenLeavesNothing

\* Deleting a document never nulls the link of a bill (bill_documents.py:337),
\* unless the deletion overlaps another request.
LinkSurvives ==
  [][\A b \in bills : b \in bills' /\ "delete" \notin raced' => link'[b] = link[b]]_vars
=============================================================================
