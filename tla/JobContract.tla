---------------------------- MODULE JobContract ----------------------------
(***************************************************************************)
(* What energlens promises about a background job, with no worker, clock,  *)
(* heartbeat or transaction in sight: a job is submitted for a document    *)
(* that has no other open job, is leased a bounded number of times, and    *)
(* ends in exactly one outcome that nothing changes afterwards, unless its *)
(* document is removed and the job goes with it.  JobQueue implements it.  *)
(* The promise is that of backend/app/models/bill_job.py (the lifecycle    *)
(* and the docstring of BillJob).                                          *)
(***************************************************************************)
EXTENDS Integers

CONSTANTS Jobs,         \* job ids
          Docs,         \* bill documents
          NoDoc,        \* the subject of a job that does not exist yet
          MaxAttempts   \* how many leases one job may use up

VARIABLES phase,    \* phase[j]: where job j is in its life
          tries,    \* tries[j]: leases handed out so far
          subject   \* subject[j]: the document j is about

cvars == <<phase, tries, subject>>

Outcomes == {"succeeded", "failed", "dead"}
Phases   == {"absent", "waiting", "leased", "removed"} \cup Outcomes

Open(j) == phase[j] \in {"waiting", "leased"}

Init ==
  /\ phase = [j \in Jobs |-> "absent"]
  /\ tries = [j \in Jobs |-> 0]
  /\ subject = [j \in Jobs |-> NoDoc]

Submit(j, d) ==
  /\ phase[j] = "absent"
  /\ \A k \in Jobs : Open(k) => subject[k] # d
  /\ phase' = [phase EXCEPT ![j] = "waiting"]
  /\ subject' = [subject EXCEPT ![j] = d]
  /\ UNCHANGED tries

Lease(j) ==
  /\ phase[j] = "waiting"
  /\ tries[j] < MaxAttempts
  /\ phase' = [phase EXCEPT ![j] = "leased"]
  /\ tries' = [tries EXCEPT ![j] = @ + 1]
  /\ UNCHANGED subject

\* The lease holder reaches a verdict.
Settle(j) ==
  /\ phase[j] = "leased"
  /\ \E v \in {"succeeded", "failed"} : phase' = [phase EXCEPT ![j] = v]
  /\ UNCHANGED <<tries, subject>>

\* Leases end without a verdict, several at once when a reaper takes them
\* back: a job with a lease left waits for it, one with none left is dead.
Revoke(S) ==
  /\ \A j \in S : phase[j] = "leased"
  /\ phase' = [j \in Jobs |->
                 IF j \notin S THEN phase[j]
                 ELSE IF tries[j] < MaxAttempts THEN "waiting" ELSE "dead"]
  /\ UNCHANGED <<tries, subject>>

Remove(d) ==
  /\ phase' = [j \in Jobs |-> IF subject[j] = d THEN "removed" ELSE phase[j]]
  /\ UNCHANGED <<tries, subject>>

Next ==
  \/ \E j \in Jobs, d \in Docs : Submit(j, d)
  \/ \E j \in Jobs : Lease(j) \/ Settle(j)
  \/ \E S \in SUBSET Jobs : Revoke(S)
  \/ \E d \in Docs : Remove(d)

Spec == Init /\ [][Next]_cvars

\* Every open job is one day open no more.  (JobQueue is checked against it
\* under the fairness of its workers.)
Settles == \A j \in Jobs : Open(j) ~> ~Open(j)
=============================================================================
