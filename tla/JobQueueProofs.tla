--------------------------- MODULE JobQueueProofs ---------------------------
(***************************************************************************)
(* Theorems about JobQueue, for every number of documents, clients,        *)
(* workers, sweeps and attempts.                                           *)
(***************************************************************************)
EXTENDS JobQueue, TLAPS

\* A worker between its claim and its finishing write holds a row's id and a
\* token that a claim handed out.
BusyHoldsJob ==
  \A w \in Workers : Busy(w) => job[w] \in Jobs /\ token[w] \in 1 .. MaxAttempts

\* What an open reap has buried is exactly what it had to bury: the stale rows
\* with no attempt left.  No two reaps bury the same row.
ReapIsComplete ==
  \A p \in Reapers :
    /\ pc[p] # "reaping" => dying[p] = {}
    /\ \A j \in dying[p] : Stale(j) /\ Exhausted(attempts[j])
    /\ pc[p] = "reaping" =>
         \A j \in Jobs : Stale(j) /\ Exhausted(attempts[j]) => j \in dying[p]
    /\ \A q \in Reapers : p # q => dying[p] \cap dying[q] = {}

\* A row not inserted yet has the column defaults.
AbsentIsFresh == \A j \in Jobs : status[j] = "absent" => attempts[j] = 0

Core == /\ TypeOK /\ BusyHoldsJob /\ AbsentIsFresh
        /\ ReapIsComplete /\ QueuedHasAttemptLeft

LEMMA InitCore == Init => Core
  BY BoundsAssumption, ProcessAssumption
  DEF Init, Core, TypeOK, BusyHoldsJob, AbsentIsFresh, ReapIsComplete, 
      QueuedHasAttemptLeft, Busy, Stale, Jobs, NoJob, Reapers, Statuses, Active, InFlight, Terminal

-----------------------------------------------------------------------------
(* TypeOK, action by action.                                               *)

LEMMA TypeStep == Core /\ [Next]_vars => TypeOK'
<1> SUFFICES ASSUME Core, [Next]_vars PROVE TypeOK'
  OBVIOUS
<1> USE BoundsAssumption, ProcessAssumption
    DEF Core, TypeOK, Reapers, NoJob, Statuses, Active, InFlight, Terminal,
        docVars, rowVars, clientVars, claimVars, logVars
<1>1. ASSUME NEW c \in Clients, NEW d \in Docs, EnqueueLock(c, d)
      PROVE  TypeOK'
  BY <1>1 DEF EnqueueLock
<1>2. ASSUME NEW c \in Clients, EnqueueCheck(c) PROVE TypeOK'
  BY <1>2 DEF EnqueueCheck
<1>3. ASSUME NEW c \in Clients, EnqueueInsert(c) PROVE TypeOK'
  BY <1>3 DEF EnqueueInsert
<1>4. ASSUME NEW c \in Clients, EnqueueAbort(c) PROVE TypeOK'
  BY <1>4 DEF EnqueueAbort
<1>5. ASSUME NEW d \in Docs, DeleteDocument(d) PROVE TypeOK'
  BY <1>5 DEF DeleteDocument
<1>6. ASSUME NEW p \in Reapers, ReapBury(p) PROVE TypeOK'
  BY <1>6 DEF ReapBury
<1>7. ASSUME NEW p \in Reapers, ReapRequeue(p) PROVE TypeOK'
  BY <1>7 DEF ReapRequeue
<1>8. ASSUME NEW p \in Reapers, StatementFails(p) PROVE TypeOK'
  BY <1>8 DEF StatementFails
<1>9. ASSUME NEW w \in Workers, Boot(w) PROVE TypeOK'
  BY <1>9 DEF Boot
<1>10. ASSUME NEW w \in Workers, Claim(w) PROVE TypeOK'
  BY <1>10 DEF Claim, TakeRow, Claimable, QueuedHasAttemptLeft
<1>11. ASSUME NEW w \in Workers, ClaimLost(w) PROVE TypeOK'
  BY <1>11 DEF ClaimLost, TakeRow, Claimable, QueuedHasAttemptLeft
<1>12. ASSUME NEW w \in Workers, PollEmpty(w) PROVE TypeOK'
  BY <1>12 DEF PollEmpty
<1>13. ASSUME NEW w \in Workers, MarkRunning(w) PROVE TypeOK'
  BY <1>13 DEF MarkRunning, SetRunning
<1>14. ASSUME NEW w \in Workers, MarkRunningFails(w) PROVE TypeOK'
  BY <1>14 DEF MarkRunningFails, SetRunning
<1>15. ASSUME NEW w \in Workers, Handle(w) PROVE TypeOK'
  BY <1>15 DEF Handle, BusyHoldsJob, Busy, Verdicts
<1>16. ASSUME NEW w \in Workers, Finish(w) PROVE TypeOK'
  BY <1>16, BackoffAssumption
     DEF Finish, LetGo, FinalStatus, Backoff, BusyHoldsJob, Busy, Verdicts
<1>17. ASSUME NEW w \in Workers, FinishFails(w) PROVE TypeOK'
  BY <1>17 DEF FinishFails, LetGo
<1>18. ASSUME NEW w \in Workers, Heartbeat(w) PROVE TypeOK'
  BY <1>18 DEF Heartbeat, BusyHoldsJob, Busy, Ours
<1>19. ASSUME NEW w \in Workers, Crash(w) PROVE TypeOK'
  BY <1>19 DEF Crash, LetGo
<1>20. CASE Tick
  BY <1>20 DEF Tick, Up, Down
<1>21. CASE UNCHANGED vars
  BY <1>21 DEF vars
<1>22. QED
  BY <1>1, <1>2, <1>3, <1>4, <1>5, <1>6, <1>7, <1>8, <1>9, <1>10, <1>11,
     <1>12, <1>13, <1>14, <1>15, <1>16, <1>17, <1>18, <1>19, <1>20, <1>21
  DEF Next, ClientStep, ReapStep, WorkerStep
-----------------------------------------------------------------------------
(* The parts of the core that are not about types.                         *)

LEMMA BusyStep == Core /\ [Next]_vars => BusyHoldsJob'
<1> SUFFICES ASSUME Core, [Next]_vars PROVE BusyHoldsJob'
  OBVIOUS
<1> USE BoundsAssumption, ProcessAssumption
    DEF Core, TypeOK, BusyHoldsJob, Busy, Reapers, NoJob, docVars, rowVars,
        clientVars, claimVars, logVars
<1>1. ASSUME NEW c \in Clients, NEW d \in Docs, EnqueueLock(c, d) PROVE BusyHoldsJob'
  BY <1>1 DEF EnqueueLock
<1>2. ASSUME NEW c \in Clients, EnqueueCheck(c) PROVE BusyHoldsJob'
  BY <1>2 DEF EnqueueCheck
<1>3. ASSUME NEW c \in Clients, EnqueueInsert(c) PROVE BusyHoldsJob'
  BY <1>3 DEF EnqueueInsert
<1>4. ASSUME NEW c \in Clients, EnqueueAbort(c) PROVE BusyHoldsJob'
  BY <1>4 DEF EnqueueAbort
<1>5. ASSUME NEW d \in Docs, DeleteDocument(d) PROVE BusyHoldsJob'
  BY <1>5 DEF DeleteDocument
<1>6. ASSUME NEW p \in Reapers, ReapBury(p) PROVE BusyHoldsJob'
  BY <1>6 DEF ReapBury
<1>7. ASSUME NEW p \in Reapers, ReapRequeue(p) PROVE BusyHoldsJob'
  BY <1>7 DEF ReapRequeue
<1>8. ASSUME NEW p \in Reapers, StatementFails(p) PROVE BusyHoldsJob'
  BY <1>8 DEF StatementFails
<1>9. ASSUME NEW w \in Workers, Boot(w) PROVE BusyHoldsJob'
  BY <1>9 DEF Boot
<1>10. ASSUME NEW w \in Workers, Claim(w) PROVE BusyHoldsJob'
  BY <1>10 DEF Claim, TakeRow, Claimable, QueuedHasAttemptLeft
<1>11. ASSUME NEW w \in Workers, ClaimLost(w) PROVE BusyHoldsJob'
  BY <1>11 DEF ClaimLost, TakeRow, Claimable, Polls
<1>12. ASSUME NEW w \in Workers, PollEmpty(w) PROVE BusyHoldsJob'
  BY <1>12 DEF PollEmpty
<1>13. ASSUME NEW w \in Workers, MarkRunning(w) PROVE BusyHoldsJob'
  BY <1>13 DEF MarkRunning, SetRunning
<1>14. ASSUME NEW w \in Workers, MarkRunningFails(w) PROVE BusyHoldsJob'
  BY <1>14 DEF MarkRunningFails, SetRunning
<1>15. ASSUME NEW w \in Workers, Handle(w) PROVE BusyHoldsJob'
  BY <1>15 DEF Handle
<1>16. ASSUME NEW w \in Workers, Finish(w) PROVE BusyHoldsJob'
  BY <1>16 DEF Finish, LetGo, FinalStatus
<1>17. ASSUME NEW w \in Workers, FinishFails(w) PROVE BusyHoldsJob'
  BY <1>17 DEF FinishFails, LetGo
<1>18. ASSUME NEW w \in Workers, Heartbeat(w) PROVE BusyHoldsJob'
  BY <1>18 DEF Heartbeat
<1>19. ASSUME NEW w \in Workers, Crash(w) PROVE BusyHoldsJob'
  BY <1>19 DEF Crash, LetGo
<1>20. CASE Tick
  BY <1>20 DEF Tick, Up, Down
<1>21. CASE UNCHANGED vars
  BY <1>21 DEF vars
<1>22. QED
  BY <1>1, <1>2, <1>3, <1>4, <1>5, <1>6, <1>7, <1>8, <1>9, <1>10, <1>11,
     <1>12, <1>13, <1>14, <1>15, <1>16, <1>17, <1>18, <1>19, <1>20, <1>21
  DEF Next, ClientStep, ReapStep, WorkerStep

LEMMA QueuedStep == Core /\ [Next]_vars => QueuedHasAttemptLeft'
<1> SUFFICES ASSUME Core, [Next]_vars PROVE QueuedHasAttemptLeft'
  OBVIOUS
<1> USE BoundsAssumption
    DEF Core, TypeOK, QueuedHasAttemptLeft, BusyHoldsJob, Busy, ReapIsComplete,
        Stale, Exhausted, InFlight, Reapers, docVars, rowVars, clientVars,
        claimVars, logVars
<1>1. ASSUME NEW c \in Clients, NEW d \in Docs, EnqueueLock(c, d) PROVE QueuedHasAttemptLeft'
  BY <1>1 DEF EnqueueLock
<1>2. ASSUME NEW c \in Clients, EnqueueCheck(c) PROVE QueuedHasAttemptLeft'
  BY <1>2 DEF EnqueueCheck
<1>3. ASSUME NEW c \in Clients, EnqueueInsert(c) PROVE QueuedHasAttemptLeft'
  BY <1>3 DEF EnqueueInsert, AbsentIsFresh
<1>4. ASSUME NEW c \in Clients, EnqueueAbort(c) PROVE QueuedHasAttemptLeft'
  BY <1>4 DEF EnqueueAbort
<1>5. ASSUME NEW d \in Docs, DeleteDocument(d) PROVE QueuedHasAttemptLeft'
  BY <1>5 DEF DeleteDocument
<1>6. ASSUME NEW p \in Reapers, ReapBury(p) PROVE QueuedHasAttemptLeft'
  BY <1>6 DEF ReapBury
<1>7. ASSUME NEW p \in Reapers, ReapRequeue(p) PROVE QueuedHasAttemptLeft'
  BY <1>7 DEF ReapRequeue
<1>8. ASSUME NEW p \in Reapers, StatementFails(p) PROVE QueuedHasAttemptLeft'
  BY <1>8 DEF StatementFails
<1>9. ASSUME NEW w \in Workers, Boot(w) PROVE QueuedHasAttemptLeft'
  BY <1>9 DEF Boot
<1>10. ASSUME NEW w \in Workers, Claim(w) PROVE QueuedHasAttemptLeft'
  BY <1>10 DEF Claim, TakeRow, Claimable, Polls
<1>11. ASSUME NEW w \in Workers, ClaimLost(w) PROVE QueuedHasAttemptLeft'
  BY <1>11 DEF ClaimLost, TakeRow, Claimable, Polls
<1>12. ASSUME NEW w \in Workers, PollEmpty(w) PROVE QueuedHasAttemptLeft'
  BY <1>12 DEF PollEmpty
<1>13. ASSUME NEW w \in Workers, MarkRunning(w) PROVE QueuedHasAttemptLeft'
  BY <1>13 DEF MarkRunning, SetRunning
<1>14. ASSUME NEW w \in Workers, MarkRunningFails(w) PROVE QueuedHasAttemptLeft'
  BY <1>14 DEF MarkRunningFails, SetRunning
<1>15. ASSUME NEW w \in Workers, Handle(w) PROVE QueuedHasAttemptLeft'
  BY <1>15 DEF Handle
<1>16. ASSUME NEW w \in Workers, Finish(w) PROVE QueuedHasAttemptLeft'
  <2>1. CASE Ours(w)
    <3>1. FinalStatus(w) = "queued" => attempts[job[w]] < MaxAttempts
      BY <1>16, <2>1 DEF Finish, FinalStatus, Verdicts, Ours
    <3>2. QED
      BY <1>16, <2>1, <3>1 DEF Finish
  <2>2. CASE ~Ours(w)
    BY <1>16, <2>2 DEF Finish, LetGo
  <2>3. QED BY <2>1, <2>2
<1>17. ASSUME NEW w \in Workers, FinishFails(w) PROVE QueuedHasAttemptLeft'
  BY <1>17 DEF FinishFails, LetGo
<1>18. ASSUME NEW w \in Workers, Heartbeat(w) PROVE QueuedHasAttemptLeft'
  BY <1>18 DEF Heartbeat
<1>19. ASSUME NEW w \in Workers, Crash(w) PROVE QueuedHasAttemptLeft'
  BY <1>19 DEF Crash, LetGo
<1>20. CASE Tick
  BY <1>20 DEF Tick, Up, Down
<1>21. CASE UNCHANGED vars
  BY <1>21 DEF vars
<1>22. QED
  BY <1>1, <1>2, <1>3, <1>4, <1>5, <1>6, <1>7, <1>8, <1>9, <1>10, <1>11,
     <1>12, <1>13, <1>14, <1>15, <1>16, <1>17, <1>18, <1>19, <1>20, <1>21
  DEF Next, ClientStep, ReapStep, WorkerStep

LEMMA ReapStepKeeps == Core /\ [Next]_vars => ReapIsComplete'
<1> SUFFICES ASSUME Core, [Next]_vars PROVE ReapIsComplete'
  OBVIOUS
<1> USE BoundsAssumption, ProcessAssumption
    DEF Core, TypeOK, BusyHoldsJob, Busy, ReapIsComplete, Stale, Exhausted,
        InFlight, Reapers, Writable, Ours, docVars, rowVars, clientVars,
        claimVars, logVars
<1>1. ASSUME NEW c \in Clients, NEW d \in Docs, EnqueueLock(c, d) PROVE ReapIsComplete'
  BY <1>1 DEF EnqueueLock
<1>2. ASSUME NEW c \in Clients, EnqueueCheck(c) PROVE ReapIsComplete'
  BY <1>2 DEF EnqueueCheck
<1>3. ASSUME NEW c \in Clients, EnqueueInsert(c) PROVE ReapIsComplete'
  BY <1>3 DEF EnqueueInsert
<1>4. ASSUME NEW c \in Clients, EnqueueAbort(c) PROVE ReapIsComplete'
  BY <1>4 DEF EnqueueAbort
<1>5. ASSUME NEW d \in Docs, DeleteDocument(d) PROVE ReapIsComplete'
  BY <1>5 DEF DeleteDocument
<1>6. ASSUME NEW p \in Reapers, ReapBury(p) PROVE ReapIsComplete'
  BY <1>6 DEF ReapBury
<1>7. ASSUME NEW p \in Reapers, ReapRequeue(p) PROVE ReapIsComplete'
  BY <1>7 DEF ReapRequeue
<1>8. ASSUME NEW p \in Reapers, StatementFails(p) PROVE ReapIsComplete'
  BY <1>8 DEF StatementFails
<1>9. ASSUME NEW w \in Workers, Boot(w) PROVE ReapIsComplete'
  BY <1>9 DEF Boot
<1>10. ASSUME NEW w \in Workers, Claim(w) PROVE ReapIsComplete'
  BY <1>10 DEF Claim, TakeRow, Claimable, Polls
<1>11. ASSUME NEW w \in Workers, ClaimLost(w) PROVE ReapIsComplete'
  BY <1>11 DEF ClaimLost, TakeRow, Claimable, Polls
<1>12. ASSUME NEW w \in Workers, PollEmpty(w) PROVE ReapIsComplete'
  BY <1>12 DEF PollEmpty
<1>13. ASSUME NEW w \in Workers, MarkRunning(w) PROVE ReapIsComplete'
  <2>1. CASE UNCHANGED <<status, hbAge>>
    BY <1>13, <2>1 DEF MarkRunning
  <2>2. CASE status' = [status EXCEPT ![job[w]] = "running"]
             /\ hbAge' = [hbAge EXCEPT ![job[w]] = 0]
    BY <1>13, <2>2 DEF MarkRunning
  <2>3. QED BY <1>13, <2>1, <2>2 DEF MarkRunning, SetRunning
<1>14. ASSUME NEW w \in Workers, MarkRunningFails(w) PROVE ReapIsComplete'
  <2>1. CASE UNCHANGED <<status, hbAge>>
    BY <1>14, <2>1 DEF MarkRunningFails
  <2>2. CASE /\ Writable(job[w])
             /\ status' = [status EXCEPT ![job[w]] = "running"]
             /\ hbAge' = [hbAge EXCEPT ![job[w]] = 0]
    BY <1>14, <2>2 DEF MarkRunningFails
  <2>3. QED BY <1>14, <2>1, <2>2 DEF MarkRunningFails, SetRunning
<1>15. ASSUME NEW w \in Workers, Handle(w) PROVE ReapIsComplete'
  BY <1>15 DEF Handle
<1>16. ASSUME NEW w \in Workers, Finish(w) PROVE ReapIsComplete'
  <2>1. CASE Ours(w)
    BY <1>16, <2>1 DEF Finish, LetGo, FinalStatus, Verdicts
  <2>2. CASE ~Ours(w)
    BY <1>16, <2>2 DEF Finish, LetGo
  <2>3. QED BY <2>1, <2>2
<1>17. ASSUME NEW w \in Workers, FinishFails(w) PROVE ReapIsComplete'
  BY <1>17 DEF FinishFails, LetGo
<1>18. ASSUME NEW w \in Workers, Heartbeat(w) PROVE ReapIsComplete'
  BY <1>18 DEF Heartbeat
<1>19. ASSUME NEW w \in Workers, Crash(w) PROVE ReapIsComplete'
  BY <1>19 DEF Crash, LetGo
<1>20. CASE Tick
  BY <1>20 DEF Tick, Up, Down
<1>21. CASE UNCHANGED vars
  BY <1>21 DEF vars
<1>22. QED
  BY <1>1, <1>2, <1>3, <1>4, <1>5, <1>6, <1>7, <1>8, <1>9, <1>10, <1>11,
     <1>12, <1>13, <1>14, <1>15, <1>16, <1>17, <1>18, <1>19, <1>20, <1>21
  DEF Next, ClientStep, ReapStep, WorkerStep

LEMMA AbsentStep == Core /\ [Next]_vars => AbsentIsFresh'
<1> SUFFICES ASSUME Core, [Next]_vars PROVE AbsentIsFresh'
  OBVIOUS
<1> USE DEF Core, TypeOK, AbsentIsFresh, BusyHoldsJob, Busy, Ours, InFlight,
        Active, Verdicts, docVars, rowVars, clientVars, claimVars, logVars
<1>1. ASSUME NEW c \in Clients, NEW d \in Docs, EnqueueLock(c, d) PROVE AbsentIsFresh'
  BY <1>1 DEF EnqueueLock
<1>2. ASSUME NEW c \in Clients, EnqueueCheck(c) PROVE AbsentIsFresh'
  BY <1>2 DEF EnqueueCheck
<1>3. ASSUME NEW c \in Clients, EnqueueInsert(c) PROVE AbsentIsFresh'
  BY <1>3 DEF EnqueueInsert
<1>4. ASSUME NEW c \in Clients, EnqueueAbort(c) PROVE AbsentIsFresh'
  BY <1>4 DEF EnqueueAbort
<1>5. ASSUME NEW d \in Docs, DeleteDocument(d) PROVE AbsentIsFresh'
  BY <1>5 DEF DeleteDocument
<1>6. ASSUME NEW p \in Reapers, ReapBury(p) PROVE AbsentIsFresh'
  BY <1>6 DEF ReapBury
<1>7. ASSUME NEW p \in Reapers, ReapRequeue(p) PROVE AbsentIsFresh'
  BY <1>7 DEF ReapRequeue
<1>8. ASSUME NEW p \in Reapers, StatementFails(p) PROVE AbsentIsFresh'
  BY <1>8 DEF StatementFails
<1>9. ASSUME NEW w \in Workers, Boot(w) PROVE AbsentIsFresh'
  BY <1>9 DEF Boot
<1>10. ASSUME NEW w \in Workers, Claim(w) PROVE AbsentIsFresh'
  BY <1>10 DEF Claim, TakeRow, Claimable, Polls
<1>11. ASSUME NEW w \in Workers, ClaimLost(w) PROVE AbsentIsFresh'
  BY <1>11 DEF ClaimLost, TakeRow, Claimable, Polls
<1>12. ASSUME NEW w \in Workers, PollEmpty(w) PROVE AbsentIsFresh'
  BY <1>12 DEF PollEmpty
<1>13. ASSUME NEW w \in Workers, MarkRunning(w) PROVE AbsentIsFresh'
  BY <1>13 DEF MarkRunning, SetRunning
<1>14. ASSUME NEW w \in Workers, MarkRunningFails(w) PROVE AbsentIsFresh'
  BY <1>14 DEF MarkRunningFails, SetRunning
<1>15. ASSUME NEW w \in Workers, Handle(w) PROVE AbsentIsFresh'
  BY <1>15 DEF Handle
<1>16. ASSUME NEW w \in Workers, Finish(w) PROVE AbsentIsFresh'
  BY <1>16 DEF Finish, LetGo, FinalStatus
<1>17. ASSUME NEW w \in Workers, FinishFails(w) PROVE AbsentIsFresh'
  BY <1>17 DEF FinishFails, LetGo
<1>18. ASSUME NEW w \in Workers, Heartbeat(w) PROVE AbsentIsFresh'
  BY <1>18 DEF Heartbeat
<1>19. ASSUME NEW w \in Workers, Crash(w) PROVE AbsentIsFresh'
  BY <1>19 DEF Crash, LetGo
<1>20. CASE Tick
  BY <1>20 DEF Tick, Up, Down
<1>21. CASE UNCHANGED vars
  BY <1>21 DEF vars
<1>22. QED
  BY <1>1, <1>2, <1>3, <1>4, <1>5, <1>6, <1>7, <1>8, <1>9, <1>10, <1>11,
     <1>12, <1>13, <1>14, <1>15, <1>16, <1>17, <1>18, <1>19, <1>20, <1>21
  DEF Next, ClientStep, ReapStep, WorkerStep

\* Types, and that a queued row has an attempt left, in every behaviour.
THEOREM CoreInvariant == Spec => []Core
<1>1. Init => Core
  BY InitCore
<1>2. Core /\ [Next]_vars => Core'
  BY TypeStep, BusyStep, QueuedStep, ReapStepKeeps, AbsentStep DEF Core
<1>3. QED
  BY <1>1, <1>2, PTL DEF Spec

\* The columns and the worker's objects hold what their types say.
THEOREM TypeCorrect == Spec => []TypeOK
<1>1. Core => TypeOK
  BY DEF Core
<1>2. QED
  BY <1>1, CoreInvariant, PTL

\* No reaper and no retry queues a row that has used up its attempts.
THEOREM QueuedRowsCanRun == Spec => []QueuedHasAttemptLeft
<1>1. Core => QueuedHasAttemptLeft
  BY DEF Core
<1>2. QED
  BY <1>1, CoreInvariant, PTL

-----------------------------------------------------------------------------
(* One active job per document: the document lock of enqueue_job.          *)

\* A client inside enqueue_job has its document to itself, and once it has
\* found no active job none appears before it inserts its own.
EnqueueIsExclusive ==
  /\ \A c \in Clients : cpc[c] # "idle" => cdoc[c] \in Docs
  /\ \A c, e \in Clients :
       c # e /\ cpc[c] # "idle" /\ cpc[e] # "idle" => cdoc[c] # cdoc[e]
  /\ \A c \in Clients : cpc[c] = "inserting" =>
       \A j \in Jobs : status[j] \in Active => docOf[j] # cdoc[c]

OneActiveInv == Core /\ EnqueueIsExclusive /\ OneActivePerDocument

LEMMA ExclusiveStep == OneActiveInv /\ [Next]_vars => EnqueueIsExclusive'
<1> SUFFICES ASSUME OneActiveInv, [Next]_vars PROVE EnqueueIsExclusive'
  OBVIOUS
<1> USE NoDocAssumption
    DEF OneActiveInv, Core, TypeOK, EnqueueIsExclusive, DocLocked, BusyHoldsJob,
        Busy, Ours, InFlight, Active, Verdicts, ReapIsComplete, Stale, docVars, rowVars,
        clientVars, claimVars, logVars
<1>1. ASSUME NEW c \in Clients, NEW d \in Docs, EnqueueLock(c, d) PROVE EnqueueIsExclusive'
  BY <1>1 DEF EnqueueLock
<1>2. ASSUME NEW c \in Clients, EnqueueCheck(c) PROVE EnqueueIsExclusive'
  BY <1>2 DEF EnqueueCheck
<1>3. ASSUME NEW c \in Clients, EnqueueInsert(c) PROVE EnqueueIsExclusive'
  BY <1>3 DEF EnqueueInsert
<1>4. ASSUME NEW c \in Clients, EnqueueAbort(c) PROVE EnqueueIsExclusive'
  BY <1>4 DEF EnqueueAbort
<1>5. ASSUME NEW d \in Docs, DeleteDocument(d) PROVE EnqueueIsExclusive'
  BY <1>5 DEF DeleteDocument
<1>6. ASSUME NEW p \in Reapers, ReapBury(p) PROVE EnqueueIsExclusive'
  BY <1>6 DEF ReapBury
<1>7. ASSUME NEW p \in Reapers, ReapRequeue(p) PROVE EnqueueIsExclusive'
  BY <1>7 DEF ReapRequeue
<1>8. ASSUME NEW p \in Reapers, StatementFails(p) PROVE EnqueueIsExclusive'
  BY <1>8 DEF StatementFails
<1>9. ASSUME NEW w \in Workers, Boot(w) PROVE EnqueueIsExclusive'
  BY <1>9 DEF Boot
<1>10. ASSUME NEW w \in Workers, Claim(w) PROVE EnqueueIsExclusive'
  BY <1>10 DEF Claim, TakeRow, Claimable, Polls
<1>11. ASSUME NEW w \in Workers, ClaimLost(w) PROVE EnqueueIsExclusive'
  BY <1>11 DEF ClaimLost, TakeRow, Claimable, Polls
<1>12. ASSUME NEW w \in Workers, PollEmpty(w) PROVE EnqueueIsExclusive'
  BY <1>12 DEF PollEmpty
<1>13. ASSUME NEW w \in Workers, MarkRunning(w) PROVE EnqueueIsExclusive'
  BY <1>13 DEF MarkRunning, SetRunning
<1>14. ASSUME NEW w \in Workers, MarkRunningFails(w) PROVE EnqueueIsExclusive'
  BY <1>14 DEF MarkRunningFails, SetRunning
<1>15. ASSUME NEW w \in Workers, Handle(w) PROVE EnqueueIsExclusive'
  BY <1>15 DEF Handle
<1>16. ASSUME NEW w \in Workers, Finish(w) PROVE EnqueueIsExclusive'
  BY <1>16 DEF Finish, LetGo, FinalStatus
<1>17. ASSUME NEW w \in Workers, FinishFails(w) PROVE EnqueueIsExclusive'
  BY <1>17 DEF FinishFails, LetGo
<1>18. ASSUME NEW w \in Workers, Heartbeat(w) PROVE EnqueueIsExclusive'
  BY <1>18 DEF Heartbeat
<1>19. ASSUME NEW w \in Workers, Crash(w) PROVE EnqueueIsExclusive'
  BY <1>19 DEF Crash, LetGo
<1>20. CASE Tick
  BY <1>20 DEF Tick, Up, Down
<1>21. CASE UNCHANGED vars
  BY <1>21 DEF vars
<1>22. QED
  BY <1>1, <1>2, <1>3, <1>4, <1>5, <1>6, <1>7, <1>8, <1>9, <1>10, <1>11,
     <1>12, <1>13, <1>14, <1>15, <1>16, <1>17, <1>18, <1>19, <1>20, <1>21
  DEF Next, ClientStep, ReapStep, WorkerStep

LEMMA OneActiveStep == OneActiveInv /\ [Next]_vars => OneActivePerDocument'
<1> SUFFICES ASSUME OneActiveInv, [Next]_vars PROVE OneActivePerDocument'
  OBVIOUS
<1> USE NoDocAssumption
    DEF OneActiveInv, Core, TypeOK, EnqueueIsExclusive, OneActivePerDocument,
        BusyHoldsJob, Busy, Ours, InFlight, Active, Verdicts, ReapIsComplete, Stale, docVars,
        rowVars, clientVars, claimVars, logVars
<1>1. ASSUME NEW c \in Clients, NEW d \in Docs, EnqueueLock(c, d) PROVE OneActivePerDocument'
  BY <1>1 DEF EnqueueLock
<1>2. ASSUME NEW c \in Clients, EnqueueCheck(c) PROVE OneActivePerDocument'
  BY <1>2 DEF EnqueueCheck
<1>3. ASSUME NEW c \in Clients, EnqueueInsert(c) PROVE OneActivePerDocument'
  BY <1>3 DEF EnqueueInsert
<1>4. ASSUME NEW c \in Clients, EnqueueAbort(c) PROVE OneActivePerDocument'
  BY <1>4 DEF EnqueueAbort
<1>5. ASSUME NEW d \in Docs, DeleteDocument(d) PROVE OneActivePerDocument'
  BY <1>5 DEF DeleteDocument
<1>6. ASSUME NEW p \in Reapers, ReapBury(p) PROVE OneActivePerDocument'
  BY <1>6 DEF ReapBury
<1>7. ASSUME NEW p \in Reapers, ReapRequeue(p) PROVE OneActivePerDocument'
  BY <1>7 DEF ReapRequeue
<1>8. ASSUME NEW p \in Reapers, StatementFails(p) PROVE OneActivePerDocument'
  BY <1>8 DEF StatementFails
<1>9. ASSUME NEW w \in Workers, Boot(w) PROVE OneActivePerDocument'
  BY <1>9 DEF Boot
<1>10. ASSUME NEW w \in Workers, Claim(w) PROVE OneActivePerDocument'
  BY <1>10 DEF Claim, TakeRow, Claimable, Polls
<1>11. ASSUME NEW w \in Workers, ClaimLost(w) PROVE OneActivePerDocument'
  BY <1>11 DEF ClaimLost, TakeRow, Claimable, Polls
<1>12. ASSUME NEW w \in Workers, PollEmpty(w) PROVE OneActivePerDocument'
  BY <1>12 DEF PollEmpty
<1>13. ASSUME NEW w \in Workers, MarkRunning(w) PROVE OneActivePerDocument'
  BY <1>13 DEF MarkRunning, SetRunning
<1>14. ASSUME NEW w \in Workers, MarkRunningFails(w) PROVE OneActivePerDocument'
  BY <1>14 DEF MarkRunningFails, SetRunning
<1>15. ASSUME NEW w \in Workers, Handle(w) PROVE OneActivePerDocument'
  BY <1>15 DEF Handle
<1>16. ASSUME NEW w \in Workers, Finish(w) PROVE OneActivePerDocument'
  BY <1>16 DEF Finish, LetGo, FinalStatus
<1>17. ASSUME NEW w \in Workers, FinishFails(w) PROVE OneActivePerDocument'
  BY <1>17 DEF FinishFails, LetGo
<1>18. ASSUME NEW w \in Workers, Heartbeat(w) PROVE OneActivePerDocument'
  BY <1>18 DEF Heartbeat
<1>19. ASSUME NEW w \in Workers, Crash(w) PROVE OneActivePerDocument'
  BY <1>19 DEF Crash, LetGo
<1>20. CASE Tick
  BY <1>20 DEF Tick, Up, Down
<1>21. CASE UNCHANGED vars
  BY <1>21 DEF vars
<1>22. QED
  BY <1>1, <1>2, <1>3, <1>4, <1>5, <1>6, <1>7, <1>8, <1>9, <1>10, <1>11,
     <1>12, <1>13, <1>14, <1>15, <1>16, <1>17, <1>18, <1>19, <1>20, <1>21
  DEF Next, ClientStep, ReapStep, WorkerStep

LEMMA OneActiveInvariant == Spec => []OneActiveInv
<1>1. Init => OneActiveInv
  BY InitCore DEF Init, OneActiveInv, EnqueueIsExclusive, OneActivePerDocument,
                  Active
<1>2. OneActiveInv /\ [Next]_vars => OneActiveInv'
  BY ExclusiveStep, OneActiveStep, TypeStep, BusyStep, QueuedStep,
     ReapStepKeeps, AbsentStep DEF OneActiveInv, Core
<1>3. QED
  BY <1>1, <1>2, PTL DEF Spec

\* However clients, workers, reapers and deletions interleave, a document
\* never has two active jobs (bill_job.py:57).
THEOREM OneActive == Spec => []OneActivePerDocument
<1>1. OneActiveInv => OneActivePerDocument
  BY DEF OneActiveInv
<1>2. QED
  BY <1>1, OneActiveInvariant, PTL

-----------------------------------------------------------------------------
(* Fencing: attempts is a claim token.                                     *)

\* A token never runs ahead of the row it was taken from.
TokenNotAhead == \A w \in Workers : Busy(w) => token[w] <= attempts[job[w]]

\* A verdict a worker is about to write is one its own claim's handler reached.
VerdictInHand ==
  \A w \in Workers : pc[w] = "finishing" /\ outcome[w] \in Verdicts
                       => <<job[w], token[w], outcome[w]>> \in reached

FenceInv == /\ Core /\ TokenNotAhead /\ ClaimTokensDistinct
            /\ VerdictInHand /\ VerdictIsOfLastClaim

LEMMA TokenStep == FenceInv /\ [Next]_vars => TokenNotAhead'
<1> SUFFICES ASSUME FenceInv, [Next]_vars PROVE TokenNotAhead'
  OBVIOUS
<1> USE DEF FenceInv, Core, TypeOK, TokenNotAhead, BusyHoldsJob, Busy, NoJob,
        Reapers, docVars, rowVars, clientVars, claimVars, logVars
<1>1. ASSUME NEW c \in Clients, NEW d \in Docs, EnqueueLock(c, d) PROVE TokenNotAhead'
  BY <1>1 DEF EnqueueLock
<1>2. ASSUME NEW c \in Clients, EnqueueCheck(c) PROVE TokenNotAhead'
  BY <1>2 DEF EnqueueCheck
<1>3. ASSUME NEW c \in Clients, EnqueueInsert(c) PROVE TokenNotAhead'
  BY <1>3 DEF EnqueueInsert
<1>4. ASSUME NEW c \in Clients, EnqueueAbort(c) PROVE TokenNotAhead'
  BY <1>4 DEF EnqueueAbort
<1>5. ASSUME NEW d \in Docs, DeleteDocument(d) PROVE TokenNotAhead'
  BY <1>5 DEF DeleteDocument
<1>6. ASSUME NEW p \in Reapers, ReapBury(p) PROVE TokenNotAhead'
  BY <1>6 DEF ReapBury
<1>7. ASSUME NEW p \in Reapers, ReapRequeue(p) PROVE TokenNotAhead'
  BY <1>7 DEF ReapRequeue
<1>8. ASSUME NEW p \in Reapers, StatementFails(p) PROVE TokenNotAhead'
  BY <1>8 DEF StatementFails
<1>9. ASSUME NEW w \in Workers, Boot(w) PROVE TokenNotAhead'
  BY <1>9 DEF Boot
<1>10. ASSUME NEW w \in Workers, Claim(w) PROVE TokenNotAhead'
  BY <1>10 DEF Claim, TakeRow, Claimable, Polls
<1>11. ASSUME NEW w \in Workers, ClaimLost(w) PROVE TokenNotAhead'
  BY <1>11 DEF ClaimLost, TakeRow, Claimable, Polls
<1>12. ASSUME NEW w \in Workers, PollEmpty(w) PROVE TokenNotAhead'
  BY <1>12 DEF PollEmpty
<1>13. ASSUME NEW w \in Workers, MarkRunning(w) PROVE TokenNotAhead'
  BY <1>13 DEF MarkRunning, SetRunning
<1>14. ASSUME NEW w \in Workers, MarkRunningFails(w) PROVE TokenNotAhead'
  BY <1>14 DEF MarkRunningFails, SetRunning
<1>15. ASSUME NEW w \in Workers, Handle(w) PROVE TokenNotAhead'
  BY <1>15 DEF Handle
<1>16. ASSUME NEW w \in Workers, Finish(w) PROVE TokenNotAhead'
  BY <1>16 DEF Finish, LetGo, FinalStatus
<1>17. ASSUME NEW w \in Workers, FinishFails(w) PROVE TokenNotAhead'
  BY <1>17 DEF FinishFails, LetGo
<1>18. ASSUME NEW w \in Workers, Heartbeat(w) PROVE TokenNotAhead'
  BY <1>18 DEF Heartbeat
<1>19. ASSUME NEW w \in Workers, Crash(w) PROVE TokenNotAhead'
  BY <1>19 DEF Crash, LetGo
<1>20. CASE Tick
  BY <1>20 DEF Tick, Up, Down
<1>21. CASE UNCHANGED vars
  BY <1>21 DEF vars
<1>22. QED
  BY <1>1, <1>2, <1>3, <1>4, <1>5, <1>6, <1>7, <1>8, <1>9, <1>10, <1>11,
     <1>12, <1>13, <1>14, <1>15, <1>16, <1>17, <1>18, <1>19, <1>20, <1>21
  DEF Next, ClientStep, ReapStep, WorkerStep

LEMMA DistinctStep == FenceInv /\ [Next]_vars => ClaimTokensDistinct'
<1> SUFFICES ASSUME FenceInv, [Next]_vars PROVE ClaimTokensDistinct'
  OBVIOUS
<1> USE ProcessAssumption
    DEF FenceInv, Core, TypeOK, TokenNotAhead, ClaimTokensDistinct,
        BusyHoldsJob, Busy, NoJob, Reapers, docVars, rowVars, clientVars,
        claimVars, logVars
<1>1. ASSUME NEW c \in Clients, NEW d \in Docs, EnqueueLock(c, d) PROVE ClaimTokensDistinct'
  BY <1>1 DEF EnqueueLock
<1>2. ASSUME NEW c \in Clients, EnqueueCheck(c) PROVE ClaimTokensDistinct'
  BY <1>2 DEF EnqueueCheck
<1>3. ASSUME NEW c \in Clients, EnqueueInsert(c) PROVE ClaimTokensDistinct'
  BY <1>3 DEF EnqueueInsert
<1>4. ASSUME NEW c \in Clients, EnqueueAbort(c) PROVE ClaimTokensDistinct'
  BY <1>4 DEF EnqueueAbort
<1>5. ASSUME NEW d \in Docs, DeleteDocument(d) PROVE ClaimTokensDistinct'
  BY <1>5 DEF DeleteDocument
<1>6. ASSUME NEW p \in Reapers, ReapBury(p) PROVE ClaimTokensDistinct'
  BY <1>6 DEF ReapBury
<1>7. ASSUME NEW p \in Reapers, ReapRequeue(p) PROVE ClaimTokensDistinct'
  BY <1>7 DEF ReapRequeue
<1>8. ASSUME NEW p \in Reapers, StatementFails(p) PROVE ClaimTokensDistinct'
  BY <1>8 DEF StatementFails
<1>9. ASSUME NEW w \in Workers, Boot(w) PROVE ClaimTokensDistinct'
  BY <1>9 DEF Boot
<1>10. ASSUME NEW w \in Workers, Claim(w) PROVE ClaimTokensDistinct'
  BY <1>10 DEF Claim, TakeRow, Claimable, Polls
<1>11. ASSUME NEW w \in Workers, ClaimLost(w) PROVE ClaimTokensDistinct'
  BY <1>11 DEF ClaimLost, TakeRow, Claimable, Polls
<1>12. ASSUME NEW w \in Workers, PollEmpty(w) PROVE ClaimTokensDistinct'
  BY <1>12 DEF PollEmpty
<1>13. ASSUME NEW w \in Workers, MarkRunning(w) PROVE ClaimTokensDistinct'
  BY <1>13 DEF MarkRunning, SetRunning
<1>14. ASSUME NEW w \in Workers, MarkRunningFails(w) PROVE ClaimTokensDistinct'
  BY <1>14 DEF MarkRunningFails, SetRunning
<1>15. ASSUME NEW w \in Workers, Handle(w) PROVE ClaimTokensDistinct'
  BY <1>15 DEF Handle
<1>16. ASSUME NEW w \in Workers, Finish(w) PROVE ClaimTokensDistinct'
  BY <1>16 DEF Finish, LetGo, FinalStatus
<1>17. ASSUME NEW w \in Workers, FinishFails(w) PROVE ClaimTokensDistinct'
  BY <1>17 DEF FinishFails, LetGo
<1>18. ASSUME NEW w \in Workers, Heartbeat(w) PROVE ClaimTokensDistinct'
  BY <1>18 DEF Heartbeat
<1>19. ASSUME NEW w \in Workers, Crash(w) PROVE ClaimTokensDistinct'
  BY <1>19 DEF Crash, LetGo
<1>20. CASE Tick
  BY <1>20 DEF Tick, Up, Down
<1>21. CASE UNCHANGED vars
  BY <1>21 DEF vars
<1>22. QED
  BY <1>1, <1>2, <1>3, <1>4, <1>5, <1>6, <1>7, <1>8, <1>9, <1>10, <1>11,
     <1>12, <1>13, <1>14, <1>15, <1>16, <1>17, <1>18, <1>19, <1>20, <1>21
  DEF Next, ClientStep, ReapStep, WorkerStep

LEMMA InHandStep == FenceInv /\ [Next]_vars => VerdictInHand'
<1> SUFFICES ASSUME FenceInv, [Next]_vars PROVE VerdictInHand'
  OBVIOUS
<1> USE DEF FenceInv, Core, TypeOK, VerdictInHand, BusyHoldsJob, Busy, NoJob,
        Verdicts, Reapers, docVars, rowVars, clientVars, claimVars, logVars
<1>1. ASSUME NEW c \in Clients, NEW d \in Docs, EnqueueLock(c, d) PROVE VerdictInHand'
  BY <1>1 DEF EnqueueLock
<1>2. ASSUME NEW c \in Clients, EnqueueCheck(c) PROVE VerdictInHand'
  BY <1>2 DEF EnqueueCheck
<1>3. ASSUME NEW c \in Clients, EnqueueInsert(c) PROVE VerdictInHand'
  BY <1>3 DEF EnqueueInsert
<1>4. ASSUME NEW c \in Clients, EnqueueAbort(c) PROVE VerdictInHand'
  BY <1>4 DEF EnqueueAbort
<1>5. ASSUME NEW d \in Docs, DeleteDocument(d) PROVE VerdictInHand'
  BY <1>5 DEF DeleteDocument
<1>6. ASSUME NEW p \in Reapers, ReapBury(p) PROVE VerdictInHand'
  BY <1>6 DEF ReapBury
<1>7. ASSUME NEW p \in Reapers, ReapRequeue(p) PROVE VerdictInHand'
  BY <1>7 DEF ReapRequeue
<1>8. ASSUME NEW p \in Reapers, StatementFails(p) PROVE VerdictInHand'
  BY <1>8 DEF StatementFails
<1>9. ASSUME NEW w \in Workers, Boot(w) PROVE VerdictInHand'
  BY <1>9 DEF Boot
<1>10. ASSUME NEW w \in Workers, Claim(w) PROVE VerdictInHand'
  BY <1>10 DEF Claim, TakeRow, Claimable, Polls
<1>11. ASSUME NEW w \in Workers, ClaimLost(w) PROVE VerdictInHand'
  BY <1>11 DEF ClaimLost, TakeRow, Claimable, Polls
<1>12. ASSUME NEW w \in Workers, PollEmpty(w) PROVE VerdictInHand'
  BY <1>12 DEF PollEmpty
<1>13. ASSUME NEW w \in Workers, MarkRunning(w) PROVE VerdictInHand'
  BY <1>13 DEF MarkRunning, SetRunning
<1>14. ASSUME NEW w \in Workers, MarkRunningFails(w) PROVE VerdictInHand'
  BY <1>14 DEF MarkRunningFails, SetRunning
<1>15. ASSUME NEW w \in Workers, Handle(w) PROVE VerdictInHand'
  BY <1>15 DEF Handle
<1>16. ASSUME NEW w \in Workers, Finish(w) PROVE VerdictInHand'
  BY <1>16 DEF Finish, LetGo, FinalStatus
<1>17. ASSUME NEW w \in Workers, FinishFails(w) PROVE VerdictInHand'
  BY <1>17 DEF FinishFails, LetGo
<1>18. ASSUME NEW w \in Workers, Heartbeat(w) PROVE VerdictInHand'
  BY <1>18 DEF Heartbeat
<1>19. ASSUME NEW w \in Workers, Crash(w) PROVE VerdictInHand'
  BY <1>19 DEF Crash, LetGo
<1>20. CASE Tick
  BY <1>20 DEF Tick, Up, Down
<1>21. CASE UNCHANGED vars
  BY <1>21 DEF vars
<1>22. QED
  BY <1>1, <1>2, <1>3, <1>4, <1>5, <1>6, <1>7, <1>8, <1>9, <1>10, <1>11,
     <1>12, <1>13, <1>14, <1>15, <1>16, <1>17, <1>18, <1>19, <1>20, <1>21
  DEF Next, ClientStep, ReapStep, WorkerStep

LEMMA VerdictStep == FenceInv /\ [Next]_vars => VerdictIsOfLastClaim'
<1> SUFFICES ASSUME FenceInv, [Next]_vars PROVE VerdictIsOfLastClaim'
  OBVIOUS
<1> USE DEF FenceInv, Core, TypeOK, VerdictInHand, VerdictIsOfLastClaim,
        BusyHoldsJob, Busy, Ours, InFlight, NoJob, Verdicts, Reapers, docVars,
        rowVars, clientVars, claimVars, logVars
<1>1. ASSUME NEW c \in Clients, NEW d \in Docs, EnqueueLock(c, d) PROVE VerdictIsOfLastClaim'
  BY <1>1 DEF EnqueueLock
<1>2. ASSUME NEW c \in Clients, EnqueueCheck(c) PROVE VerdictIsOfLastClaim'
  BY <1>2 DEF EnqueueCheck
<1>3. ASSUME NEW c \in Clients, EnqueueInsert(c) PROVE VerdictIsOfLastClaim'
  BY <1>3 DEF EnqueueInsert
<1>4. ASSUME NEW c \in Clients, EnqueueAbort(c) PROVE VerdictIsOfLastClaim'
  BY <1>4 DEF EnqueueAbort
<1>5. ASSUME NEW d \in Docs, DeleteDocument(d) PROVE VerdictIsOfLastClaim'
  BY <1>5 DEF DeleteDocument
<1>6. ASSUME NEW p \in Reapers, ReapBury(p) PROVE VerdictIsOfLastClaim'
  BY <1>6 DEF ReapBury
<1>7. ASSUME NEW p \in Reapers, ReapRequeue(p) PROVE VerdictIsOfLastClaim'
  BY <1>7 DEF ReapRequeue
<1>8. ASSUME NEW p \in Reapers, StatementFails(p) PROVE VerdictIsOfLastClaim'
  BY <1>8 DEF StatementFails
<1>9. ASSUME NEW w \in Workers, Boot(w) PROVE VerdictIsOfLastClaim'
  BY <1>9 DEF Boot
<1>10. ASSUME NEW w \in Workers, Claim(w) PROVE VerdictIsOfLastClaim'
  BY <1>10 DEF Claim, TakeRow, Claimable, Polls
<1>11. ASSUME NEW w \in Workers, ClaimLost(w) PROVE VerdictIsOfLastClaim'
  BY <1>11 DEF ClaimLost, TakeRow, Claimable, Polls
<1>12. ASSUME NEW w \in Workers, PollEmpty(w) PROVE VerdictIsOfLastClaim'
  BY <1>12 DEF PollEmpty
<1>13. ASSUME NEW w \in Workers, MarkRunning(w) PROVE VerdictIsOfLastClaim'
  BY <1>13 DEF MarkRunning, SetRunning
<1>14. ASSUME NEW w \in Workers, MarkRunningFails(w) PROVE VerdictIsOfLastClaim'
  BY <1>14 DEF MarkRunningFails, SetRunning
<1>15. ASSUME NEW w \in Workers, Handle(w) PROVE VerdictIsOfLastClaim'
  BY <1>15 DEF Handle
<1>16. ASSUME NEW w \in Workers, Finish(w) PROVE VerdictIsOfLastClaim'
  BY <1>16 DEF Finish, LetGo, FinalStatus
<1>17. ASSUME NEW w \in Workers, FinishFails(w) PROVE VerdictIsOfLastClaim'
  BY <1>17 DEF FinishFails, LetGo
<1>18. ASSUME NEW w \in Workers, Heartbeat(w) PROVE VerdictIsOfLastClaim'
  BY <1>18 DEF Heartbeat
<1>19. ASSUME NEW w \in Workers, Crash(w) PROVE VerdictIsOfLastClaim'
  BY <1>19 DEF Crash, LetGo
<1>20. CASE Tick
  BY <1>20 DEF Tick, Up, Down
<1>21. CASE UNCHANGED vars
  BY <1>21 DEF vars
<1>22. QED
  BY <1>1, <1>2, <1>3, <1>4, <1>5, <1>6, <1>7, <1>8, <1>9, <1>10, <1>11,
     <1>12, <1>13, <1>14, <1>15, <1>16, <1>17, <1>18, <1>19, <1>20, <1>21
  DEF Next, ClientStep, ReapStep, WorkerStep

LEMMA FenceInvariant == Spec => []FenceInv
<1>1. Init => FenceInv
  BY InitCore, ProcessAssumption
  DEF Init, FenceInv, TokenNotAhead, ClaimTokensDistinct, VerdictInHand,
      VerdictIsOfLastClaim, Busy, Reapers, Verdicts
<1>2. FenceInv /\ [Next]_vars => FenceInv'
  BY TokenStep, DistinctStep, InHandStep, VerdictStep, TypeStep, BusyStep,
     QueuedStep, ReapStepKeeps, AbsentStep DEF FenceInv, Core
<1>3. QED
  BY <1>1, <1>2, PTL DEF Spec

\* Two workers that hold the same job never hold the same token, so at most
\* one of them gets past the fence.
THEOREM TokensDistinct == Spec => []ClaimTokensDistinct
<1>1. FenceInv => ClaimTokensDistinct
  BY DEF FenceInv
<1>2. QED
  BY <1>1, FenceInvariant, PTL

\* What a succeeded or failed row says is the verdict of its latest claim: no
\* late finish of a claim that was taken back is ever recorded.
THEOREM VerdictFenced == Spec => []VerdictIsOfLastClaim
<1>1. FenceInv => VerdictIsOfLastClaim
  BY DEF FenceInv
<1>2. QED
  BY <1>1, FenceInvariant, PTL

-----------------------------------------------------------------------------
(* A worker that is on time keeps its job.                                 *)

PunctualIsYoung ==
  Punctual => \A w \in Workers :
                Busy(w) /\ Ours(w) => hbAge[job[w]] <= BeatWithin

PunctualInv == FenceInv /\ PunctualIsYoung /\ PunctualKeepsClaim

LEMMA YoungStep == PunctualInv /\ [Next]_vars => PunctualIsYoung'
<1> SUFFICES ASSUME PunctualInv, [Next]_vars PROVE PunctualIsYoung'
  OBVIOUS
<1> USE BoundsAssumption, ProcessAssumption
    DEF PunctualInv, FenceInv, Core, TypeOK, PunctualIsYoung,
        PunctualKeepsClaim, ClaimTokensDistinct, ReapIsComplete, Stale,
        TokenNotAhead, BusyHoldsJob, Busy, Ours, InFlight, Writable, NoJob,
        Reapers, docVars, rowVars, clientVars, claimVars, logVars
<1>1. ASSUME NEW c \in Clients, NEW d \in Docs, EnqueueLock(c, d) PROVE PunctualIsYoung'
  BY <1>1 DEF EnqueueLock
<1>2. ASSUME NEW c \in Clients, EnqueueCheck(c) PROVE PunctualIsYoung'
  BY <1>2 DEF EnqueueCheck
<1>3. ASSUME NEW c \in Clients, EnqueueInsert(c) PROVE PunctualIsYoung'
  BY <1>3 DEF EnqueueInsert
<1>4. ASSUME NEW c \in Clients, EnqueueAbort(c) PROVE PunctualIsYoung'
  BY <1>4 DEF EnqueueAbort
<1>5. ASSUME NEW d \in Docs, DeleteDocument(d) PROVE PunctualIsYoung'
  BY <1>5 DEF DeleteDocument
<1>6. ASSUME NEW p \in Reapers, ReapBury(p) PROVE PunctualIsYoung'
  BY <1>6 DEF ReapBury
<1>7. ASSUME NEW p \in Reapers, ReapRequeue(p) PROVE PunctualIsYoung'
  BY <1>7 DEF ReapRequeue
<1>8. ASSUME NEW p \in Reapers, StatementFails(p) PROVE PunctualIsYoung'
  BY <1>8 DEF StatementFails
<1>9. ASSUME NEW w \in Workers, Boot(w) PROVE PunctualIsYoung'
  BY <1>9 DEF Boot
<1>10. ASSUME NEW w \in Workers, Claim(w) PROVE PunctualIsYoung'
  BY <1>10 DEF Claim, TakeRow, Claimable, Polls
<1>11. ASSUME NEW w \in Workers, ClaimLost(w) PROVE PunctualIsYoung'
  BY <1>11 DEF ClaimLost, TakeRow, Claimable, Polls
<1>12. ASSUME NEW w \in Workers, PollEmpty(w) PROVE PunctualIsYoung'
  BY <1>12 DEF PollEmpty
<1>13. ASSUME NEW w \in Workers, MarkRunning(w) PROVE PunctualIsYoung'
  BY <1>13 DEF MarkRunning, SetRunning
<1>14. ASSUME NEW w \in Workers, MarkRunningFails(w) PROVE PunctualIsYoung'
  BY <1>14 DEF MarkRunningFails, SetRunning
<1>15. ASSUME NEW w \in Workers, Handle(w) PROVE PunctualIsYoung'
  BY <1>15 DEF Handle
<1>16. ASSUME NEW w \in Workers, Finish(w) PROVE PunctualIsYoung'
  BY <1>16 DEF Finish, LetGo, FinalStatus
<1>17. ASSUME NEW w \in Workers, FinishFails(w) PROVE PunctualIsYoung'
  BY <1>17 DEF FinishFails, LetGo
<1>18. ASSUME NEW w \in Workers, Heartbeat(w) PROVE PunctualIsYoung'
  BY <1>18 DEF Heartbeat
<1>19. ASSUME NEW w \in Workers, Crash(w) PROVE PunctualIsYoung'
  BY <1>19 DEF Crash, LetGo
<1>20. CASE Tick
  BY <1>20 DEF Tick, Up, Down
<1>21. CASE UNCHANGED vars
  BY <1>21 DEF vars
<1>22. QED
  BY <1>1, <1>2, <1>3, <1>4, <1>5, <1>6, <1>7, <1>8, <1>9, <1>10, <1>11,
     <1>12, <1>13, <1>14, <1>15, <1>16, <1>17, <1>18, <1>19, <1>20, <1>21
  DEF Next, ClientStep, ReapStep, WorkerStep

LEMMA KeepsStep == PunctualInv /\ [Next]_vars => PunctualKeepsClaim'
<1> SUFFICES ASSUME PunctualInv, [Next]_vars PROVE PunctualKeepsClaim'
  OBVIOUS
<1> USE BoundsAssumption, ProcessAssumption
    DEF PunctualInv, FenceInv, Core, TypeOK, PunctualIsYoung,
        PunctualKeepsClaim, ClaimTokensDistinct, ReapIsComplete, Stale,
        TokenNotAhead, BusyHoldsJob, Busy, Ours, InFlight, Writable, NoJob,
        Reapers, docVars, rowVars, clientVars, claimVars, logVars
<1>1. ASSUME NEW c \in Clients, NEW d \in Docs, EnqueueLock(c, d) PROVE PunctualKeepsClaim'
  BY <1>1 DEF EnqueueLock
<1>2. ASSUME NEW c \in Clients, EnqueueCheck(c) PROVE PunctualKeepsClaim'
  BY <1>2 DEF EnqueueCheck
<1>3. ASSUME NEW c \in Clients, EnqueueInsert(c) PROVE PunctualKeepsClaim'
  BY <1>3 DEF EnqueueInsert
<1>4. ASSUME NEW c \in Clients, EnqueueAbort(c) PROVE PunctualKeepsClaim'
  BY <1>4 DEF EnqueueAbort
<1>5. ASSUME NEW d \in Docs, DeleteDocument(d) PROVE PunctualKeepsClaim'
  BY <1>5 DEF DeleteDocument
<1>6. ASSUME NEW p \in Reapers, ReapBury(p) PROVE PunctualKeepsClaim'
  BY <1>6 DEF ReapBury
<1>7. ASSUME NEW p \in Reapers, ReapRequeue(p) PROVE PunctualKeepsClaim'
  BY <1>7 DEF ReapRequeue
<1>8. ASSUME NEW p \in Reapers, StatementFails(p) PROVE PunctualKeepsClaim'
  BY <1>8 DEF StatementFails
<1>9. ASSUME NEW w \in Workers, Boot(w) PROVE PunctualKeepsClaim'
  BY <1>9 DEF Boot
<1>10. ASSUME NEW w \in Workers, Claim(w) PROVE PunctualKeepsClaim'
  BY <1>10 DEF Claim, TakeRow, Claimable, Polls
<1>11. ASSUME NEW w \in Workers, ClaimLost(w) PROVE PunctualKeepsClaim'
  BY <1>11 DEF ClaimLost, TakeRow, Claimable, Polls
<1>12. ASSUME NEW w \in Workers, PollEmpty(w) PROVE PunctualKeepsClaim'
  BY <1>12 DEF PollEmpty
<1>13. ASSUME NEW w \in Workers, MarkRunning(w) PROVE PunctualKeepsClaim'
  BY <1>13 DEF MarkRunning, SetRunning
<1>14. ASSUME NEW w \in Workers, MarkRunningFails(w) PROVE PunctualKeepsClaim'
  BY <1>14 DEF MarkRunningFails, SetRunning
<1>15. ASSUME NEW w \in Workers, Handle(w) PROVE PunctualKeepsClaim'
  BY <1>15 DEF Handle
<1>16. ASSUME NEW w \in Workers, Finish(w) PROVE PunctualKeepsClaim'
  BY <1>16 DEF Finish, LetGo, FinalStatus
<1>17. ASSUME NEW w \in Workers, FinishFails(w) PROVE PunctualKeepsClaim'
  BY <1>17 DEF FinishFails, LetGo
<1>18. ASSUME NEW w \in Workers, Heartbeat(w) PROVE PunctualKeepsClaim'
  BY <1>18 DEF Heartbeat
<1>19. ASSUME NEW w \in Workers, Crash(w) PROVE PunctualKeepsClaim'
  BY <1>19 DEF Crash, LetGo
<1>20. CASE Tick
  BY <1>20 DEF Tick, Up, Down
<1>21. CASE UNCHANGED vars
  BY <1>21 DEF vars
<1>22. QED
  BY <1>1, <1>2, <1>3, <1>4, <1>5, <1>6, <1>7, <1>8, <1>9, <1>10, <1>11,
     <1>12, <1>13, <1>14, <1>15, <1>16, <1>17, <1>18, <1>19, <1>20, <1>21
  DEF Next, ClientStep, ReapStep, WorkerStep

\* As long as no live worker is late with its heartbeat, none loses the row it
\* is working on, except to the deletion of the document.
THEOREM OnTimeKeepsClaim == Spec => []PunctualKeepsClaim
<1>1. Init => PunctualInv
  BY InitCore, ProcessAssumption
  DEF Init, PunctualInv, FenceInv, TokenNotAhead, ClaimTokensDistinct,
      VerdictInHand, VerdictIsOfLastClaim, PunctualIsYoung, PunctualKeepsClaim,
      Busy, Reapers, Verdicts
<1>2. PunctualInv /\ [Next]_vars => PunctualInv'
  BY YoungStep, KeepsStep, TokenStep, DistinctStep, InHandStep, VerdictStep,
     TypeStep, BusyStep, QueuedStep, ReapStepKeeps, AbsentStep
  DEF PunctualInv, FenceInv, Core
<1>3. PunctualInv => PunctualKeepsClaim
  BY DEF PunctualInv
<1>4. QED
  BY <1>1, <1>2, <1>3, PTL DEF Spec

-----------------------------------------------------------------------------
(* What a step may never do.                                               *)

FinalStays ==
  \A j \in Jobs : status[j] \in Terminal => status'[j] \in {status[j], "gone"}

LEMMA FinalStep == Core /\ [Next]_vars => FinalStays
<1> SUFFICES ASSUME Core, [Next]_vars PROVE FinalStays
  OBVIOUS
<1> USE DEF Core, TypeOK, FinalStays, BusyHoldsJob, Busy, ReapIsComplete, Stale, Ours,
        InFlight, Active, Terminal, NoJob, docVars, rowVars, clientVars,
        claimVars, logVars
<1>1. ASSUME NEW c \in Clients, NEW d \in Docs, EnqueueLock(c, d) PROVE FinalStays
  BY <1>1 DEF EnqueueLock
<1>2. ASSUME NEW c \in Clients, EnqueueCheck(c) PROVE FinalStays
  BY <1>2 DEF EnqueueCheck
<1>3. ASSUME NEW c \in Clients, EnqueueInsert(c) PROVE FinalStays
  BY <1>3 DEF EnqueueInsert
<1>4. ASSUME NEW c \in Clients, EnqueueAbort(c) PROVE FinalStays
  BY <1>4 DEF EnqueueAbort
<1>5. ASSUME NEW d \in Docs, DeleteDocument(d) PROVE FinalStays
  BY <1>5 DEF DeleteDocument
<1>6. ASSUME NEW p \in Reapers, ReapBury(p) PROVE FinalStays
  BY <1>6 DEF ReapBury
<1>7. ASSUME NEW p \in Reapers, ReapRequeue(p) PROVE FinalStays
  BY <1>7 DEF ReapRequeue
<1>8. ASSUME NEW p \in Reapers, StatementFails(p) PROVE FinalStays
  BY <1>8 DEF StatementFails
<1>9. ASSUME NEW w \in Workers, Boot(w) PROVE FinalStays
  BY <1>9 DEF Boot
<1>10. ASSUME NEW w \in Workers, Claim(w) PROVE FinalStays
  BY <1>10 DEF Claim, TakeRow, Claimable, Polls
<1>11. ASSUME NEW w \in Workers, ClaimLost(w) PROVE FinalStays
  BY <1>11 DEF ClaimLost, TakeRow, Claimable, Polls
<1>12. ASSUME NEW w \in Workers, PollEmpty(w) PROVE FinalStays
  BY <1>12 DEF PollEmpty
<1>13. ASSUME NEW w \in Workers, MarkRunning(w) PROVE FinalStays
  BY <1>13 DEF MarkRunning, SetRunning
<1>14. ASSUME NEW w \in Workers, MarkRunningFails(w) PROVE FinalStays
  BY <1>14 DEF MarkRunningFails, SetRunning
<1>15. ASSUME NEW w \in Workers, Handle(w) PROVE FinalStays
  BY <1>15 DEF Handle
<1>16. ASSUME NEW w \in Workers, Finish(w) PROVE FinalStays
  BY <1>16 DEF Finish, LetGo, FinalStatus
<1>17. ASSUME NEW w \in Workers, FinishFails(w) PROVE FinalStays
  BY <1>17 DEF FinishFails, LetGo
<1>18. ASSUME NEW w \in Workers, Heartbeat(w) PROVE FinalStays
  BY <1>18 DEF Heartbeat
<1>19. ASSUME NEW w \in Workers, Crash(w) PROVE FinalStays
  BY <1>19 DEF Crash, LetGo
<1>20. CASE Tick
  BY <1>20 DEF Tick, Up, Down
<1>21. CASE UNCHANGED vars
  BY <1>21 DEF vars
<1>22. QED
  BY <1>1, <1>2, <1>3, <1>4, <1>5, <1>6, <1>7, <1>8, <1>9, <1>10, <1>11,
     <1>12, <1>13, <1>14, <1>15, <1>16, <1>17, <1>18, <1>19, <1>20, <1>21
  DEF Next, ClientStep, ReapStep, WorkerStep

\* No late worker, reaper or client moves a row out of a terminal status.
THEOREM TerminalStays == Spec => TerminalIsFinal
<1>1. Core /\ [Next]_vars => [FinalStays]_vars
  BY FinalStep
<1>2. QED
  BY <1>1, CoreInvariant, PTL DEF Spec, TerminalIsFinal, FinalStays

-----------------------------------------------------------------------------
(* OnlyClaimantKeepsAlive.                                                 *)

\* What one step does to the age of a row.
KeptAliveByClaimant ==
  \A j \in Jobs : hbAge'[j] < hbAge[j] =>
    \/ attempts'[j] = attempts[j] + 1
    \/ \E w \in Workers : Busy(w) /\ job[w] = j /\ token[w] = attempts[j]

LEMMA AliveStep == Core /\ [Next]_vars => KeptAliveByClaimant
<1> SUFFICES ASSUME Core, [Next]_vars PROVE KeptAliveByClaimant
  OBVIOUS
<1> USE BoundsAssumption
    DEF Core, TypeOK, KeptAliveByClaimant, BusyHoldsJob, Busy, Ours, Active, NoJob, docVars, rowVars, clientVars,
        claimVars, logVars
<1>1. ASSUME NEW c \in Clients, NEW d \in Docs, EnqueueLock(c, d) PROVE KeptAliveByClaimant
  BY <1>1 DEF EnqueueLock
<1>2. ASSUME NEW c \in Clients, EnqueueCheck(c) PROVE KeptAliveByClaimant
  BY <1>2 DEF EnqueueCheck
<1>3. ASSUME NEW c \in Clients, EnqueueInsert(c) PROVE KeptAliveByClaimant
  BY <1>3 DEF EnqueueInsert
<1>4. ASSUME NEW c \in Clients, EnqueueAbort(c) PROVE KeptAliveByClaimant
  BY <1>4 DEF EnqueueAbort
<1>5. ASSUME NEW d \in Docs, DeleteDocument(d) PROVE KeptAliveByClaimant
  BY <1>5 DEF DeleteDocument
<1>6. ASSUME NEW p \in Reapers, ReapBury(p) PROVE KeptAliveByClaimant
  BY <1>6 DEF ReapBury
<1>7. ASSUME NEW p \in Reapers, ReapRequeue(p) PROVE KeptAliveByClaimant
  BY <1>7 DEF ReapRequeue
<1>8. ASSUME NEW p \in Reapers, StatementFails(p) PROVE KeptAliveByClaimant
  BY <1>8 DEF StatementFails
<1>9. ASSUME NEW w \in Workers, Boot(w) PROVE KeptAliveByClaimant
  BY <1>9 DEF Boot
<1>10. ASSUME NEW w \in Workers, Claim(w) PROVE KeptAliveByClaimant
  BY <1>10 DEF Claim, TakeRow, Claimable, Polls
<1>11. ASSUME NEW w \in Workers, ClaimLost(w) PROVE KeptAliveByClaimant
  BY <1>11 DEF ClaimLost, TakeRow, Claimable, Polls
<1>12. ASSUME NEW w \in Workers, PollEmpty(w) PROVE KeptAliveByClaimant
  BY <1>12 DEF PollEmpty
<1>13. ASSUME NEW w \in Workers, MarkRunning(w) PROVE KeptAliveByClaimant
  BY <1>13 DEF MarkRunning, SetRunning
<1>14. ASSUME NEW w \in Workers, MarkRunningFails(w) PROVE KeptAliveByClaimant
  BY <1>14 DEF MarkRunningFails, SetRunning
<1>15. ASSUME NEW w \in Workers, Handle(w) PROVE KeptAliveByClaimant
  BY <1>15 DEF Handle
<1>16. ASSUME NEW w \in Workers, Finish(w) PROVE KeptAliveByClaimant
  BY <1>16 DEF Finish, LetGo, FinalStatus
<1>17. ASSUME NEW w \in Workers, FinishFails(w) PROVE KeptAliveByClaimant
  BY <1>17 DEF FinishFails, LetGo
<1>18. ASSUME NEW w \in Workers, Heartbeat(w) PROVE KeptAliveByClaimant
  BY <1>18 DEF Heartbeat
<1>19. ASSUME NEW w \in Workers, Crash(w) PROVE KeptAliveByClaimant
  BY <1>19 DEF Crash, LetGo
<1>20. CASE Tick
  BY <1>20 DEF Tick, Up, Down
<1>21. CASE UNCHANGED vars
  BY <1>21 DEF vars
<1>22. QED
  BY <1>1, <1>2, <1>3, <1>4, <1>5, <1>6, <1>7, <1>8, <1>9, <1>10, <1>11,
     <1>12, <1>13, <1>14, <1>15, <1>16, <1>17, <1>18, <1>19, <1>20, <1>21
  DEF Next, ClientStep, ReapStep, WorkerStep

\* No stray heartbeat of a worker that lost its claim makes a row look younger.
THEOREM ClaimantKeepsAlive == Spec => OnlyClaimantKeepsAlive
<1>1. Core /\ [Next]_vars => [KeptAliveByClaimant]_vars
  BY AliveStep
<1>2. QED
  BY <1>1, CoreInvariant, PTL DEF Spec, OnlyClaimantKeepsAlive, KeptAliveByClaimant

-----------------------------------------------------------------------------
(***************************************************************************)
(* JobQueue implements JobContract, for every value of the constants: each *)
(* step of workers, reapers, clients and time is one step of the contract  *)
(* or leaves its variables alone.                                          *)
(***************************************************************************)
phases == [j \in Jobs |-> Phase(status[j])]

\* The rows the contract calls open are the rows enqueue_job calls active.
LEMMA OpenIsActive ==
  ASSUME TypeOK, NEW j \in Jobs
  PROVE  Contract!Open(j) <=> status[j] \in Active
  BY DEF TypeOK, Contract!Open, Phase, Statuses, Active, InFlight, Terminal

\* One row changing status changes one phase.
LEMMA PhaseOfOne ==
  ASSUME TypeOK, NEW j \in Jobs, NEW s,
         status' = [status EXCEPT ![j] = s]
  PROVE  phases' = [phases EXCEPT ![j] = Phase(s)]
  BY DEF TypeOK, phases

LEMMA InitRefines == Init => Contract!Init
  BY DEF Init, Contract!Init, Phase, InFlight

LEMMA InsertRefines ==
  ASSUME OneActiveInv, NEW c \in Clients, EnqueueInsert(c)
  PROVE  \E j \in Jobs, d \in Docs : Contract!Submit(j, d)
<1>1. PICK j \in Jobs : /\ status[j] = "absent"
                        /\ status' = [status EXCEPT ![j] = "queued"]
                        /\ docOf' = [docOf EXCEPT ![j] = cdoc[c]]
  BY DEF EnqueueInsert
<1>2. cdoc[c] \in Docs /\ cpc[c] = "inserting"
  BY DEF OneActiveInv, EnqueueIsExclusive, EnqueueInsert
<1>3. phases' = [phases EXCEPT ![j] = "waiting"]
  BY <1>1, PhaseOfOne DEF Phase, InFlight, OneActiveInv, Core
<1>4. \A k \in Jobs : Contract!Open(k) => docOf[k] # cdoc[c]
  BY <1>2, OpenIsActive DEF OneActiveInv, Core, EnqueueIsExclusive
<1>5. Contract!Submit(j, cdoc[c])
  BY <1>1, <1>3, <1>4
  DEF Contract!Submit, phases, Phase, InFlight, EnqueueInsert
<1>6. QED
  BY <1>2, <1>5

LEMMA TakeRefines ==
  ASSUME Core, NEW j \in Claimable, TakeRow(j), UNCHANGED docOf
  PROVE  Contract!Lease(j)
<1>1. j \in Jobs /\ status[j] = "queued" /\ attempts[j] < MaxAttempts
  BY DEF Claimable, Core, QueuedHasAttemptLeft
<1>2. phases' = [phases EXCEPT ![j] = "leased"]
  BY <1>1, PhaseOfOne DEF TakeRow, Phase, InFlight, Core
<1>3. phases[j] = "waiting"
  BY <1>1 DEF phases, Phase, InFlight
<1>4. QED
  BY <1>1, <1>2, <1>3 DEF Contract!Lease, phases, TakeRow

\* A row put back or buried without a verdict is a revoked lease.
LEMMA FinishRefines ==
  ASSUME Core, NEW w \in Workers, Finish(w), Ours(w)
  PROVE  \E j \in Jobs : Contract!Settle(j) \/ Contract!Revoke({j})
<1>0. PICK j \in Jobs : j = job[w]
  BY DEF Core, BusyHoldsJob, Busy, Finish
<1>1. /\ status[j] \in InFlight
      /\ attempts[j] = token[w] /\ token[w] \in Nat
  BY <1>0, BoundsAssumption DEF Core, BusyHoldsJob, Busy, Finish, Ours
<1>2. status' = [status EXCEPT ![j] = FinalStatus(w)]
      /\ UNCHANGED <<attempts, docOf>>
  BY <1>0 DEF Finish, docVars
<1>3. phases' = [phases EXCEPT ![j] = Phase(FinalStatus(w))]
  BY <1>1, <1>2, PhaseOfOne DEF Core
<1>4. phases[j] = "leased"
  BY <1>1 DEF phases, Phase, InFlight
<1>5. CASE outcome[w] \in Verdicts
  <2>1. Phase(FinalStatus(w)) = outcome[w]
    BY <1>5 DEF FinalStatus, Phase, Verdicts, InFlight
  <2>2. QED
    BY <1>2, <1>3, <1>4, <1>5, <2>1 DEF Contract!Settle, phases, Verdicts
<1>6. CASE outcome[w] \notin Verdicts
  <2>1. Phase(FinalStatus(w)) =
          IF attempts[j] < MaxAttempts THEN "waiting" ELSE "dead"
    BY <1>1, <1>6, BoundsAssumption
    DEF FinalStatus, Phase, Exhausted, InFlight
  <2>2. QED
    BY <1>1, <1>2, <1>3, <1>4, <2>1 DEF Contract!Revoke, phases
<1>7. QED
  BY <1>5, <1>6

LEMMA RequeueRefines ==
  ASSUME Core, NEW p \in Reapers, ReapRequeue(p)
  PROVE  \E S \in SUBSET Jobs : Contract!Revoke(S)
<1> DEFINE S == {j \in Jobs : Stale(j)} \cup dying[p]
<1>1. dying[p] \subseteq Jobs
  BY DEF Core, TypeOK
<1>2. \A j \in S : j \in Jobs /\ Stale(j) /\ phases[j] = "leased"
  BY <1>1 DEF Core, ReapIsComplete, Stale, phases, Phase, InFlight
<1>3. \A j \in S : attempts[j] < MaxAttempts <=> j \notin dying[p]
  BY <1>1, BoundsAssumption
  DEF Core, TypeOK, ReapIsComplete, ReapRequeue, Exhausted
<1>4. \A j \in Jobs : status'[j] = IF j \in dying[p] THEN "dead"
                                   ELSE IF j \in S THEN "queued" ELSE status[j]
  BY DEF ReapRequeue
<1>5. phases' = [j \in Jobs |->
                   IF j \notin S THEN phases[j]
                   ELSE IF attempts[j] < MaxAttempts THEN "waiting" ELSE "dead"]
  <2>1. \A j \in Jobs : Phase(status'[j]) =
                   IF j \notin S THEN phases[j]
                   ELSE IF attempts[j] < MaxAttempts THEN "waiting" ELSE "dead"
    BY <1>3, <1>4 DEF Phase, InFlight, phases
  <2>2. QED
    BY <2>1 DEF phases
<1>6. UNCHANGED <<attempts, docOf>>
  BY DEF ReapRequeue, docVars
<1>7. Contract!Revoke(S)
  BY <1>2, <1>5, <1>6 DEF Contract!Revoke, phases
<1>8. QED
  BY <1>1, <1>7

LEMMA DeleteRefines ==
  ASSUME Core, NEW d \in Docs, DeleteDocument(d)
  PROVE  Contract!Remove(d)
  BY DEF DeleteDocument, Contract!Remove, Phase, InFlight

LEMMA StepRefines ==
  OneActiveInv /\ [Next]_vars => [Contract!Next]_(Contract!cvars)
<1> SUFFICES ASSUME OneActiveInv, [Next]_vars
             PROVE  [Contract!Next]_(Contract!cvars)
  OBVIOUS
<1>core. Core
  BY DEF OneActiveInv
<1> USE DEF Contract!cvars, docVars, rowVars, Phase, InFlight
<1>1. ASSUME NEW c \in Clients, NEW d \in Docs, EnqueueLock(c, d)
      PROVE  [Contract!Next]_(Contract!cvars)
  BY <1>1 DEF EnqueueLock
<1>2. ASSUME NEW c \in Clients, EnqueueCheck(c)
      PROVE  [Contract!Next]_(Contract!cvars)
  BY <1>2 DEF EnqueueCheck
<1>3. ASSUME NEW c \in Clients, EnqueueInsert(c)
      PROVE  [Contract!Next]_(Contract!cvars)
  BY <1>3, InsertRefines DEF Contract!Next
<1>4. ASSUME NEW c \in Clients, EnqueueAbort(c)
      PROVE  [Contract!Next]_(Contract!cvars)
  BY <1>4 DEF EnqueueAbort
<1>5. ASSUME NEW d \in Docs, DeleteDocument(d)
      PROVE  [Contract!Next]_(Contract!cvars)
  BY <1>5, <1>core, DeleteRefines DEF Contract!Next
<1>6. ASSUME NEW p \in Reapers, ReapBury(p)
      PROVE  [Contract!Next]_(Contract!cvars)
  BY <1>6 DEF ReapBury
<1>7. ASSUME NEW p \in Reapers, ReapRequeue(p)
      PROVE  [Contract!Next]_(Contract!cvars)
  BY <1>7, <1>core, RequeueRefines DEF Contract!Next
<1>8. ASSUME NEW p \in Reapers, StatementFails(p)
      PROVE  [Contract!Next]_(Contract!cvars)
  BY <1>8 DEF StatementFails
<1>9. ASSUME NEW w \in Workers, Boot(w)
      PROVE  [Contract!Next]_(Contract!cvars)
  BY <1>9 DEF Boot
<1>10. ASSUME NEW w \in Workers, Claim(w)
      PROVE  [Contract!Next]_(Contract!cvars)
  <2>1. PICK j \in Claimable : TakeRow(j) /\ UNCHANGED docOf
    BY <1>10 DEF Claim
  <2>2. QED
    BY <1>core, <2>1, TakeRefines DEF Contract!Next, Claimable
<1>11. ASSUME NEW w \in Workers, ClaimLost(w)
      PROVE  [Contract!Next]_(Contract!cvars)
  <2>1. PICK j \in Claimable : TakeRow(j) /\ UNCHANGED docOf
    BY <1>11 DEF ClaimLost
  <2>2. QED
    BY <1>core, <2>1, TakeRefines DEF Contract!Next, Claimable
<1>12. ASSUME NEW w \in Workers, PollEmpty(w)
      PROVE  [Contract!Next]_(Contract!cvars)
  BY <1>12 DEF PollEmpty
<1>13. ASSUME NEW w \in Workers, MarkRunning(w)
      PROVE  [Contract!Next]_(Contract!cvars)
  BY <1>13, <1>core DEF MarkRunning, SetRunning, Core, TypeOK
<1>14. ASSUME NEW w \in Workers, MarkRunningFails(w)
      PROVE  [Contract!Next]_(Contract!cvars)
  BY <1>14, <1>core DEF MarkRunningFails, SetRunning, Core, TypeOK
<1>15. ASSUME NEW w \in Workers, Handle(w)
      PROVE  [Contract!Next]_(Contract!cvars)
  BY <1>15 DEF Handle
<1>16. ASSUME NEW w \in Workers, Finish(w)
      PROVE  [Contract!Next]_(Contract!cvars)
  <2>1. CASE Ours(w)
    <3>1. PICK j \in Jobs : Contract!Settle(j) \/ Contract!Revoke({j})
      BY <1>16, <1>core, <2>1, FinishRefines
    <3>2. {j} \in SUBSET Jobs
      OBVIOUS
    <3>3. QED BY <3>1, <3>2 DEF Contract!Next
  <2>2. CASE ~Ours(w)
    BY <1>16, <2>2 DEF Finish
  <2>3. QED BY <2>1, <2>2
<1>17. ASSUME NEW w \in Workers, FinishFails(w)
      PROVE  [Contract!Next]_(Contract!cvars)
  BY <1>17 DEF FinishFails
<1>18. ASSUME NEW w \in Workers, Heartbeat(w)
      PROVE  [Contract!Next]_(Contract!cvars)
  BY <1>18 DEF Heartbeat
<1>19. ASSUME NEW w \in Workers, Crash(w)
      PROVE  [Contract!Next]_(Contract!cvars)
  BY <1>19 DEF Crash
<1>20. CASE Tick
  BY <1>20 DEF Tick
<1>21. CASE UNCHANGED vars
  BY <1>21 DEF vars
<1>22. QED
  BY <1>1, <1>2, <1>3, <1>4, <1>5, <1>6, <1>7, <1>8, <1>9, <1>10, <1>11,
     <1>12, <1>13, <1>14, <1>15, <1>16, <1>17, <1>18, <1>19, <1>20, <1>21
  DEF Next, ClientStep, ReapStep, WorkerStep

\* Everything the queue does, a job's submitter sees as the contract: one open
\* job per document, a bounded number of leases, one final outcome.
THEOREM Refinement == Spec => ImplementsContract
<1>1. Init => Contract!Init
  BY InitRefines
<1>2. OneActiveInv /\ [Next]_vars => [Contract!Next]_(Contract!cvars)
  BY StepRefines
<1>3. QED
  BY <1>1, <1>2, OneActiveInvariant, PTL
  DEF Spec, ImplementsContract, Contract!Spec
=============================================================================
