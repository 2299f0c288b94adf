------------------------------ MODULE JobQueue ------------------------------
(***************************************************************************)
(* The Postgres job queue of energlens and the workers that drain it:      *)
(* backend/app/services/jobs.py, backend/app/worker.py, the sweep endpoint *)
(* of backend/app/routers/internal.py and the row of                       *)
(* backend/app/models/bill_job.py.                                         *)
(*                                                                         *)
(* One action is one committed statement or transaction, except where a    *)
(* transaction holds a row lock across two statements: enqueue_job (lock   *)
(* the document, then check and insert) and reap_stale_jobs (bury, then    *)
(* requeue) are two actions each, and what the first locks stays locked    *)
(* until the second.  An API process that runs a worker may crash and      *)
(* boot again at any point, and a statement may fail before or after it    *)
(* took effect.                                                            *)
(*                                                                         *)
(* Time is relative: a row carries the age of its heartbeat and the time   *)
(* it still has to wait, in ticks of one minute.  Only Tick moves them.    *)
(***************************************************************************)
EXTENDS Integers, FiniteSets

CONSTANTS
  Docs, NoDoc,     \* bill documents; the document of a row never inserted
  MaxJobs,         \* bound: rows ever inserted
  Clients,         \* requests that call enqueue_job
  Workers,         \* API processes, each with one in-process worker
  Sweeps,          \* requests to POST /internal/jobs/sweep
  MaxAttempts,     \* bill_jobs.max_attempts
  StaleAfter,      \* STALE_AFTER, in ticks
  ReapInterval,    \* REAP_INTERVAL, in ticks
  BeatWithin,      \* the oldest heartbeat of a worker that is on time
  Punctual,        \* TRUE: no live worker is ever late with its heartbeat
  MaxFaults        \* bound: process crashes, failed reaps and polls

Jobs    == 1 .. MaxJobs    \* in created_at order
NoJob   == 0
Reapers == Workers \cup Sweeps

ASSUME BoundsAssumption ==
  /\ MaxJobs \in Nat /\ MaxAttempts \in Nat \ {0} /\ MaxFaults \in Nat
  /\ StaleAfter \in Nat /\ ReapInterval \in Nat /\ BeatWithin \in Nat
  /\ BeatWithin <= StaleAfter
  /\ Punctual \in BOOLEAN
ASSUME NoDocAssumption == NoDoc \notin Docs
ASSUME ProcessAssumption == Workers \cap Sweeps = {}
\* Arithmetic the provers do not know.
ASSUME BackoffAssumption == \A a \in 1 .. MaxAttempts : 2 ^ a \in Nat

VARIABLES
  docs,      \* the documents that exist
  docOf,     \* docOf[j]: bill_jobs.document_id
  status,    \* bill_jobs.status; "absent" before insert, "gone" after cascade
  attempts,  \* bill_jobs.attempts
  hbAge,     \* ticks since bill_jobs.heartbeat_at, no further than Stale needs
  wait,      \* ticks until bill_jobs.run_after
  cpc, cdoc, \* a client inside enqueue_job, and the document it has locked
  pc,        \* what each worker and each sweep is doing
  job, token, \* the worker's BillJob object: its id and its attempts
  outcome,   \* how the handler ended
  reapAge,   \* ticks since the worker's last_reap
  dying,     \* dying[p]: rows reaper p set dead, not committed
  reached,   \* history: the verdicts handlers reached
  faults     \* crashes and failed reaps and polls so far

rowVars    == <<status, attempts, hbAge, wait>>
clientVars == <<cpc, cdoc>>
docVars    == <<docs, docOf>>
claimVars  == <<job, token, outcome>>
logVars    == <<reached, faults>>
vars == <<docVars, rowVars, clientVars, pc, claimVars, reapAge, dying, logVars>>

Active   == {"queued", "claimed", "running"}
InFlight == {"claimed", "running"}
Terminal == {"succeeded", "failed", "dead"}
Statuses == {"absent", "gone"} \cup Active \cup Terminal
Verdicts == {"succeeded", "failed"}

Busy(w) == pc[w] \in {"claimed", "handling", "finishing"}

-----------------------------------------------------------------------------
(* Locks and predicates the statements evaluate.                           *)

NeverLocked(d) == FALSE    \* mutant: enqueue_job without with_for_update()
DocLocked(d) == \E c \in Clients : cpc[c] # "idle" /\ cdoc[c] = d

\* Other transactions wait for a row that an open reap has already updated.
Writable(j) == \A p \in Reapers : j \notin dying[p]

\* _still_ours: the fence on every write a worker makes after claiming.
OursByStatus(w) == status[job[w]] \in InFlight    \* mutant: no claim token
Ours(w) ==
  /\ status[job[w]] \in InFlight
  /\ attempts[job[w]] = token[w]

StaleInAnyStatus(j) ==     \* mutant: the age alone
  status[j] # "absent" /\ status[j] # "gone" /\ hbAge[j] > StaleAfter
Stale(j) == status[j] \in InFlight /\ hbAge[j] > StaleAfter

ExhaustedTooLate(n) == n > MaxAttempts    \* mutant: > for >=
Exhausted(n) == n >= MaxAttempts

Claimable == {j \in Jobs : status[j] = "queued" /\ wait[j] = 0}

Backoff(a) == 2 ^ a

\* A worker reaps when it boots and whenever the interval has passed.
ReapDue(w) == reapAge[w] >= ReapInterval

-----------------------------------------------------------------------------
Init ==
  /\ docs = Docs
  /\ docOf = [j \in Jobs |-> NoDoc]
  /\ status = [j \in Jobs |-> "absent"]
  /\ attempts = [j \in Jobs |-> 0]
  /\ hbAge = [j \in Jobs |-> 0]
  /\ wait = [j \in Jobs |-> 0]
  /\ cpc = [c \in Clients |-> "idle"]
  /\ cdoc = [c \in Clients |-> NoDoc]
  /\ pc = [p \in Reapers |-> IF p \in Workers THEN "down" ELSE "top"]
  /\ job = [w \in Workers |-> NoJob]
  /\ token = [w \in Workers |-> 0]
  /\ outcome = [w \in Workers |-> "none"]
  /\ reapAge = [w \in Workers |-> ReapInterval]
  /\ dying = [p \in Reapers |-> {}]
  /\ reached = {}
  /\ faults = 0

-----------------------------------------------------------------------------
(* enqueue_job, and the deletion of a document.                            *)

\* SELECT ... FOR UPDATE on the document row.  (With no such row there is
\* nothing to lock and the insert fails its foreign key: no step.)
EnqueueLock(c, d) ==
  /\ cpc[c] = "idle"
  /\ d \in docs
  /\ ~DocLocked(d)
  /\ cpc' = [cpc EXCEPT ![c] = "locked"]
  /\ cdoc' = [cdoc EXCEPT ![c] = d]
  /\ UNCHANGED <<docVars, rowVars, pc, claimVars, reapAge, dying, logVars>>

\* SELECT the active job of the document; if there is one, COMMIT and
\* return it, else go on to the insert.
EnqueueCheck(c) ==
  /\ cpc[c] = "locked"
  /\ IF \E j \in Jobs : docOf[j] = cdoc[c] /\ status[j] \in Active
     THEN /\ cpc' = [cpc EXCEPT ![c] = "idle"]
          /\ cdoc' = [cdoc EXCEPT ![c] = NoDoc]
     ELSE /\ cpc' = [cpc EXCEPT ![c] = "inserting"]
          /\ UNCHANGED cdoc
  /\ UNCHANGED <<docVars, rowVars, pc, claimVars, reapAge, dying, logVars>>

\* INSERT with the column defaults, COMMIT.  j is the next created_at.
EnqueueInsert(c) ==
  /\ cpc[c] = "inserting"
  /\ \E j \in Jobs :
       /\ status[j] = "absent"
       /\ \A k \in Jobs : k < j => status[k] # "absent"
       /\ status' = [status EXCEPT ![j] = "queued"]
       /\ docOf' = [docOf EXCEPT ![j] = cdoc[c]]
  /\ cpc' = [cpc EXCEPT ![c] = "idle"]
  /\ cdoc' = [cdoc EXCEPT ![c] = NoDoc]
  /\ UNCHANGED <<docs, attempts, hbAge, wait, pc, claimVars, reapAge, dying,
                 logVars>>

\* The request dies between its statements: the transaction rolls back.
EnqueueAbort(c) ==
  /\ cpc[c] # "idle"
  /\ cpc' = [cpc EXCEPT ![c] = "idle"]
  /\ cdoc' = [cdoc EXCEPT ![c] = NoDoc]
  /\ UNCHANGED <<docVars, rowVars, pc, claimVars, reapAge, dying, logVars>>

\* DELETE of the document (or of its place or owner): ON DELETE CASCADE takes
\* its job rows along.  It waits for every lock on them.
DeleteDocument(d) ==
  /\ d \in docs
  /\ ~DocLocked(d)
  /\ \A j \in Jobs : docOf[j] = d => Writable(j)
  /\ docs' = docs \ {d}
  /\ status' = [j \in Jobs |-> IF docOf[j] = d THEN "gone" ELSE status[j]]
  /\ UNCHANGED <<docOf, attempts, hbAge, wait, clientVars, pc, claimVars,
                 reapAge, dying, logVars>>

-----------------------------------------------------------------------------
(* reap_stale_jobs, by a worker or by a sweep request.                     *)

\* BEGIN; the first UPDATE: stale rows with no attempt left become dead.
ReapBury(p) ==
  /\ pc[p] = "top"
  /\ p \in Workers => ReapDue(p)
  /\ LET buried == {j \in Jobs : Stale(j) /\ Exhausted(attempts[j])}
     IN  /\ \A j \in buried : Writable(j)
         /\ dying' = [dying EXCEPT ![p] = buried]
  /\ pc' = [pc EXCEPT ![p] = "reaping"]
  /\ UNCHANGED <<docVars, rowVars, clientVars, claimVars, reapAge, logVars>>

\* The second UPDATE: rows still stale go back to the queue, to run at once;
\* COMMIT publishes both.  now() is the transaction's start in both, which is
\* why Tick leaves open reaps alone.  A worker goes on to poll for a job.
ReapRequeue(p) ==
  /\ pc[p] = "reaping"
  /\ LET requeued == {j \in Jobs : Stale(j)} \ dying[p]
     IN  /\ \A j \in requeued : Writable(j)
         /\ status' = [j \in Jobs |-> IF j \in dying[p] THEN "dead"
                                      ELSE IF j \in requeued THEN "queued"
                                      ELSE status[j]]
         /\ wait' = [j \in Jobs |-> IF j \in requeued THEN 0 ELSE wait[j]]
  /\ dying' = [dying EXCEPT ![p] = {}]
  /\ pc' = [pc EXCEPT ![p] = IF p \in Workers THEN "polling" ELSE "top"]
  /\ reapAge' = [w \in Workers |-> IF w = p THEN 0 ELSE reapAge[w]]
  /\ UNCHANGED <<docVars, attempts, hbAge, clientVars, claimVars, logVars>>

\* The reap, or the claim after it, fails and rolls back; Worker.run logs that
\* and starts over, with last_reap as it was.
StatementFails(p) ==
  /\ pc[p] \in {"reaping", "polling"}
  /\ faults < MaxFaults
  /\ faults' = faults + 1
  /\ dying' = [dying EXCEPT ![p] = {}]
  /\ pc' = [pc EXCEPT ![p] = "top"]
  /\ UNCHANGED <<docVars, rowVars, clientVars, claimVars, reapAge, reached>>

-----------------------------------------------------------------------------
(* Worker.run and Worker.run_once.                                         *)

Boot(w) ==
  /\ pc[w] = "down"
  /\ pc' = [pc EXCEPT ![w] = "top"]
  /\ reapAge' = [reapAge EXCEPT ![w] = ReapInterval]
  /\ UNCHANGED <<docVars, rowVars, clientVars, claimVars, dying, logVars>>

\* The row update of claim_statement.
TakeRowForFree(j) ==       \* mutant: the attempt is not spent on claim
  /\ status' = [status EXCEPT ![j] = "claimed"]
  /\ hbAge' = [hbAge EXCEPT ![j] = 0]
  /\ UNCHANGED attempts
TakeRowKeepingAge(j) ==    \* mutant: heartbeat_at is not set on claim
  /\ status' = [status EXCEPT ![j] = "claimed"]
  /\ attempts' = [attempts EXCEPT ![j] = @ + 1]
  /\ UNCHANGED hbAge
TakeRow(j) ==
  /\ status' = [status EXCEPT ![j] = "claimed"]
  /\ hbAge' = [hbAge EXCEPT ![j] = 0]
  /\ attempts' = [attempts EXCEPT ![j] = @ + 1]

\* Where Worker.run claims: right after a reap, or with none due.
Polls(w) == pc[w] = "polling" \/ (pc[w] = "top" /\ ~ReapDue(w))

\* claim_job: the oldest runnable row, which the worker then holds as an
\* object that keeps the attempts the claim returned.
Claim(w) ==
  /\ Polls(w)
  /\ \E j \in Claimable :
       /\ \A k \in Claimable : j <= k
       /\ TakeRow(j)
       /\ job' = [job EXCEPT ![w] = j]
       /\ token' = [token EXCEPT ![w] = attempts'[j]]
  /\ pc' = [pc EXCEPT ![w] = "claimed"]
  /\ UNCHANGED <<docVars, wait, clientVars, outcome, reapAge, dying, logVars>>

\* The claim commits but its answer is lost: the row is claimed by nobody.
ClaimLost(w) ==
  /\ Polls(w)
  /\ \E j \in Claimable :
       /\ \A k \in Claimable : j <= k
       /\ TakeRow(j)
  /\ pc' = [pc EXCEPT ![w] = "top"]
  /\ UNCHANGED <<docVars, wait, clientVars, claimVars, reapAge, dying, logVars>>

\* Nothing to claim: run_once returns False and the loop sleeps.
PollEmpty(w) ==
  /\ pc[w] = "polling"
  /\ Claimable = {}
  /\ pc' = [pc EXCEPT ![w] = "top"]
  /\ UNCHANGED <<docVars, rowVars, clientVars, claimVars, reapAge, dying,
                 logVars>>

\* The row update of mark_running.  Its row count is never looked at.
SetRunning(w) ==
  IF Ours(w) /\ status[job[w]] = "claimed"
  THEN /\ status' = [status EXCEPT ![job[w]] = "running"]
       /\ hbAge' = [hbAge EXCEPT ![job[w]] = 0]
  ELSE UNCHANGED <<status, hbAge>>

MarkRunning(w) ==
  /\ pc[w] = "claimed"
  /\ Writable(job[w])
  /\ SetRunning(w)
  /\ pc' = [pc EXCEPT ![w] = "handling"]
  /\ UNCHANGED <<docVars, attempts, wait, clientVars, claimVars, reapAge,
                 dying, logVars>>

\* mark_running raises, having taken effect or not: as if the handler had.
MarkRunningFails(w) ==
  /\ pc[w] = "claimed"
  /\ \/ Writable(job[w]) /\ SetRunning(w)
     \/ UNCHANGED <<status, hbAge>>
  /\ outcome' = [outcome EXCEPT ![w] = "raised"]
  /\ pc' = [pc EXCEPT ![w] = "finishing"]
  /\ UNCHANGED <<docVars, attempts, wait, clientVars, job, token, reapAge,
                 dying, logVars>>

\* The handler returns, raises JobFailed (a verdict too), or raises anything
\* else; an unknown kind raises LookupError here.
Handle(w) ==
  /\ pc[w] = "handling"
  /\ \E o \in Verdicts \cup {"raised"} :
       /\ outcome' = [outcome EXCEPT ![w] = o]
       /\ reached' = IF o = "raised" THEN reached
                     ELSE reached \cup {<<job[w], token[w], o>>}
  /\ pc' = [pc EXCEPT ![w] = "finishing"]
  /\ UNCHANGED <<docVars, rowVars, clientVars, job, token, reapAge, dying,
                 faults>>

\* The worker lets go of its BillJob object and goes on to state s.
LetGo(w, s) ==
  /\ pc' = [pc EXCEPT ![w] = s]
  /\ job' = [job EXCEPT ![w] = NoJob]
  /\ token' = [token EXCEPT ![w] = 0]
  /\ outcome' = [outcome EXCEPT ![w] = "none"]

\* The status mark_succeeded, mark_failed or retry_or_bury writes.
FinalStatus(w) ==
  IF outcome[w] \in Verdicts THEN outcome[w]
  ELSE IF Exhausted(token[w]) THEN "dead" ELSE "queued"

Finish(w) ==
  /\ pc[w] = "finishing"
  /\ Writable(job[w])
  /\ IF Ours(w)
     THEN /\ status' = [status EXCEPT ![job[w]] = FinalStatus(w)]
          /\ wait' = IF FinalStatus(w) = "queued"
                     THEN [wait EXCEPT ![job[w]] = Backoff(token[w])]
                     ELSE wait
     ELSE UNCHANGED <<status, wait>>
  /\ LetGo(w, "top")
  /\ UNCHANGED <<docVars, attempts, hbAge, clientVars, reapAge, dying,
                 logVars>>

\* The finishing write raises before it took effect: the exception leaves
\* run_once, Worker.run logs it, and the row stays in flight.
FinishFails(w) ==
  /\ pc[w] = "finishing"
  /\ LetGo(w, "top")
  /\ UNCHANGED <<docVars, rowVars, clientVars, reapAge, dying, logVars>>

\* One successful beat of Worker._heartbeat.  A failed one changes nothing.
Heartbeat(w) ==
  /\ Busy(w)
  /\ Ours(w)
  /\ Writable(job[w])
  /\ hbAge[job[w]] > 0
  /\ hbAge' = [hbAge EXCEPT ![job[w]] = 0]
  /\ UNCHANGED <<docVars, status, attempts, wait, clientVars, pc, claimVars,
                 reapAge, dying, logVars>>

\* The process is killed, or stop_worker cancels the task: open transactions
\* roll back and the claimed row stays as it is.
Crash(w) ==
  /\ pc[w] # "down"
  /\ faults < MaxFaults
  /\ faults' = faults + 1
  /\ LetGo(w, "down")
  /\ dying' = [dying EXCEPT ![w] = {}]
  /\ UNCHANGED <<docVars, rowVars, clientVars, reapAge, reached>>

-----------------------------------------------------------------------------
Down(n) == IF n > 0 THEN n - 1 ELSE 0
Up(n, top) == IF n < top THEN n + 1 ELSE top

\* A minute passes.  A transaction is short against it.  Terminal rows keep
\* their age: nothing reads it again.  When Punctual, no beat is overdue.
Tick ==
  /\ \A p \in Reapers : pc[p] # "reaping"
  /\ Punctual => \A w \in Workers :
                   Busy(w) /\ Ours(w) => hbAge[job[w]] < BeatWithin
  /\ hbAge' = [j \in Jobs |-> IF status[j] \in Active
                              THEN Up(hbAge[j], StaleAfter + 1) ELSE hbAge[j]]
  /\ wait' = [j \in Jobs |-> IF status[j] = "queued"
                             THEN Down(wait[j]) ELSE wait[j]]
  /\ reapAge' = [w \in Workers |-> Up(reapAge[w], ReapInterval)]
  /\ UNCHANGED <<docVars, status, attempts, clientVars, pc, claimVars, dying,
                 logVars>>

ClientStep(c) ==
  \/ \E d \in Docs : EnqueueLock(c, d)
  \/ EnqueueCheck(c)
  \/ EnqueueInsert(c)
  \/ EnqueueAbort(c)

ReapStep(p) == ReapBury(p) \/ ReapRequeue(p) \/ StatementFails(p)

WorkerStep(w) ==
  \/ Boot(w)
  \/ Claim(w)
  \/ ClaimLost(w)
  \/ PollEmpty(w)
  \/ MarkRunning(w)
  \/ MarkRunningFails(w)
  \/ Handle(w)
  \/ Finish(w)
  \/ FinishFails(w)
  \/ Heartbeat(w)
  \/ Crash(w)

Next ==
  \/ \E c \in Clients : ClientStep(c)
  \/ \E d \in Docs : DeleteDocument(d)
  \/ \E p \in Reapers : ReapStep(p)
  \/ \E w \in Workers : WorkerStep(w)
  \/ Tick

Spec == Init /\ [][Next]_vars

\* Time passes (strongly: no run of transactions, each of them short, holds it
\* back for ever), a process that is down is started again (by Render, or by the
\* cron request that wakes it), its event loop keeps running the worker, every
\* handler call ends, and a statement under way ends.  Nothing is assumed of
\* clients or heartbeats, nor that a sweep ever comes.
Fairness ==
  /\ SF_vars(Tick)
  /\ \A p \in Reapers : WF_vars(ReapRequeue(p))
  /\ \A w \in Workers :
       /\ WF_vars(Boot(w))
       /\ WF_vars(ReapBury(w))
       /\ WF_vars(Claim(w))
       /\ WF_vars(PollEmpty(w))
       /\ WF_vars(MarkRunning(w))
       /\ WF_vars(Handle(w))
       /\ WF_vars(Finish(w))

FairSpec == Spec /\ Fairness

-----------------------------------------------------------------------------
(* Properties.                                                             *)

\* Every variable ranges over what the columns and the Python objects hold.
TypeOK ==
  /\ docs \subseteq Docs
  /\ docOf \in [Jobs -> Docs \cup {NoDoc}]
  /\ status \in [Jobs -> Statuses]
  /\ attempts \in [Jobs -> 0 .. MaxAttempts]
  /\ hbAge \in [Jobs -> 0 .. StaleAfter + 1]
  /\ wait \in [Jobs -> Nat]
  /\ cpc \in [Clients -> {"idle", "locked", "inserting"}]
  /\ cdoc \in [Clients -> Docs \cup {NoDoc}]
  /\ pc \in [Reapers -> {"down", "top", "reaping", "polling", "claimed",
                         "handling", "finishing"}]
  /\ job \in [Workers -> Jobs \cup {NoJob}]
  /\ token \in [Workers -> 0 .. MaxAttempts]
  /\ outcome \in [Workers -> Verdicts \cup {"none", "raised"}]
  /\ reapAge \in [Workers -> 0 .. ReapInterval]
  /\ dying \in [Reapers -> SUBSET Jobs]
  /\ reached \subseteq Jobs \X (1 .. MaxAttempts) \X Verdicts
  /\ faults \in 0 .. MaxFaults

\* At most one active job per document (bill_job.py:57), whatever clients,
\* workers and reapers interleave with the two statements of enqueue_job.
OneActivePerDocument ==
  \A i, j \in Jobs :
    i # j /\ status[i] \in Active /\ status[j] \in Active => docOf[i] # docOf[j]

\* Every queued row has an attempt left, though the second UPDATE of the
\* reaper requeues without looking at attempts: the first one, the locks it
\* holds and the transaction's one now() see to that.
QueuedHasAttemptLeft ==
  \A j \in Jobs : status[j] = "queued" => attempts[j] < MaxAttempts

\* attempts is a claim token (jobs.py:112): two workers that believe they
\* hold the same job never hold the same token, so one fence at most lets
\* them write.
ClaimTokensDistinct ==
  \A v, w \in Workers :
    v # w /\ Busy(v) /\ Busy(w) /\ job[v] = job[w] => token[v] # token[w]

\* A row that says succeeded or failed says what the handler of its latest
\* claim concluded, never what a claim taken back concluded too late.
VerdictIsOfLastClaim ==
  \A j \in Jobs : status[j] \in Verdicts => <<j, attempts[j], status[j]>> \in reached

\* While no live worker is late with its heartbeat, no worker loses the job
\* it is running to a reaper, so no handler runs the same job twice at once.
PunctualKeepsClaim ==
  Punctual => \A w \in Workers : Busy(w) => Ours(w) \/ status[job[w]] = "gone"

\* A verdict is final: nothing a late worker, a reaper or a client does moves
\* a row out of succeeded, failed or dead, short of its document's deletion.
TerminalIsFinal ==
  [][\A j \in Jobs : status[j] \in Terminal => status'[j] \in {status[j], "gone"}]_vars

\* Only the latest claimant keeps a row alive: a stray beat of a process the
\* reaper gave up on never makes a row look younger.
OnlyClaimantKeepsAlive ==
  [][\A j \in Jobs : hbAge'[j] < hbAge[j] =>
        \/ attempts'[j] = attempts[j] + 1
        \/ \E w \in Workers : Busy(w) /\ job[w] = j /\ token[w] = attempts[j]]_vars

\* The contract, with workers, time, locks and transactions hidden.
Phase(s) == CASE s = "queued"    -> "waiting"
              [] s \in InFlight  -> "leased"
              [] s = "gone"      -> "removed"
              [] OTHER           -> s

Contract == INSTANCE JobContract
              WITH phase <- [j \in Jobs |-> Phase(status[j])],
                   tries <- attempts, subject <- docOf

\* Every step of the queue is a step of the contract, or none.
ImplementsContract == Contract!Spec

\* Every job enqueued is settled one day, whatever crashes, stalls, lost
\* answers and failed writes come first: it succeeds, fails, is buried, or is
\* deleted with its document.
EveryJobSettles == Contract!Settles
=============================================================================
