------------------------- MODULE JobExecutionProofs -------------------------
(***************************************************************************)
(* Theorems about JobExecution, for every set of jobs, with or without     *)
(* expiry and for any number of crashes.                                   *)
(***************************************************************************)
EXTENDS JobExecution, TLAPS

\* _ALLOWED, status by status.
LEMMA AllowedTable ==
  /\ Allowed("PENDING") = {"RUNNING"} /\ Allowed("RUNNING") = {"DONE", "FAILED"}
  /\ Allowed("DONE") = {} /\ Allowed("FAILED") = {}
BY DEF Allowed

-----------------------------------------------------------------------------
(* Type correctness *)

\* Entering _run once more keeps the counters natural numbers.
LEMMA RunsType ==
  ASSUME NEW f \in [Jobs -> Nat], NEW j
  PROVE  [f EXCEPT ![j] = @ + 1] \in [Jobs -> Nat]
<1>1. CASE j \in Jobs
  BY <1>1
<1>2. CASE j \notin Jobs
  BY <1>2
<1> QED  BY <1>1, <1>2

\* Nothing submitted and a stopped worker have their types.
LEMMA TypeOKInit == Init => TypeOK
BY ExpiryBoolean DEF Init, TypeOK, Statuses

\* No call of the API, of Redis or of the worker breaks a type.
LEMMA TypeOKStep == TypeOK /\ [Next]_vars => TypeOK'
<1> SUFFICES ASSUME TypeOK, [Next]_vars PROVE TypeOK'
  OBVIOUS
<1> USE AllowedTable DEF Go, redis, worker, Messages, Statuses
<1>1. ASSUME NEW j \in Jobs, SubmitSave(j) PROVE TypeOK'
  BY <1>1 DEF SubmitSave, Save, TypeOK
<1>2. ASSUME NEW j \in Jobs, SubmitEnqueue(j) PROVE TypeOK'
  BY <1>2 DEF SubmitEnqueue, TypeOK
<1>3. ASSUME NEW j \in Jobs, SubmitCut(j) PROVE TypeOK'
  BY <1>3 DEF SubmitCut, TypeOK
<1>4. ASSUME NEW j \in Jobs, Expire(j) PROVE TypeOK'
  BY <1>4 DEF Expire, Save, TypeOK
<1>5. ASSUME NEW m \in pel, Ripen(m) PROVE TypeOK'
  BY <1>5 DEF Ripen, TypeOK
<1>6. CASE Boot
  BY <1>6 DEF Boot, TypeOK
<1>7. ASSUME NEW m \in ripe, ClaimAbandoned(m) PROVE TypeOK'
  BY <1>7 DEF ClaimAbandoned, TypeOK
<1>8. CASE NothingToClaim
  BY <1>8 DEF NothingToClaim, TypeOK
<1>9. CASE ReadNew
  BY <1>9 DEF ReadNew, TypeOK
<1>10. CASE ReadTimesOut
  BY <1>10 DEF ReadTimesOut, TypeOK
<1>11. CASE LoadUnknown
  BY <1>11 DEF LoadUnknown, TypeOK
<1>12. CASE LoadStart
  BY <1>12 DEF LoadStart, TypeOK
<1>13. CASE LoadRefused
  BY <1>13 DEF LoadRefused, TypeOK
<1>14. CASE SaveRunning
  BY <1>14 DEF SaveRunning, Save, TypeOK
<1>15. ASSUME NEW result \in {"DONE", "FAILED"}, Run(result) PROVE TypeOK'
  <2>1. runs' \in [Jobs -> Nat]
    BY <1>15, RunsType DEF Run, TypeOK
  <2> QED  BY <1>15, <2>1 DEF Run, TypeOK
<1>16. CASE SaveOutcome
  BY <1>16 DEF SaveOutcome, Save, TypeOK
<1>17. CASE Ack
  BY <1>17 DEF Ack, TypeOK
<1>18. CASE CrashInRun
  <2>1. runs' \in [Jobs -> Nat]
    BY <1>18, RunsType DEF CrashInRun, TypeOK
  <2> QED  BY <1>18, <2>1 DEF CrashInRun, TypeOK
<1>19. CASE Crash
  BY <1>19 DEF Crash, TypeOK
<1>20. CASE UNCHANGED vars
  BY <1>20 DEF vars, TypeOK
<1> QED
  BY <1>1, <1>2, <1>3, <1>4, <1>5, <1>6, <1>7, <1>8, <1>9, <1>10,
     <1>11, <1>12, <1>13, <1>14, <1>15, <1>16, <1>17, <1>18, <1>19, <1>20
     DEF Next, Submission, Time, WorkerStep

\* The job states in Redis, the stream and its group, and the worker keep
\* their types.
THEOREM TypeCorrect == Spec => []TypeOK
BY TypeOKInit, TypeOKStep, PTL DEF Spec

-----------------------------------------------------------------------------
(* What the worker may rely on *)

\* The worker knows nothing yet, and no job has run.
LEMMA InHandInit == Init => InHand
BY DEF Init, InHand, Messages

\* Every call keeps what the worker knows of the job in hand: the key may
\* expire under it, but nobody else writes the status.
LEMMA InHandStep == TypeOK /\ TypeOK' /\ InHand /\ [Next]_vars => InHand'
<1> SUFFICES ASSUME TypeOK, TypeOK', InHand, [Next]_vars PROVE InHand'
  OBVIOUS
<1> USE AllowedTable DEF Go, redis, worker, Messages, job, TypeOK
<1>1. ASSUME NEW j \in Jobs, SubmitSave(j) PROVE InHand'
  BY <1>1 DEF SubmitSave, Save, InHand
<1>2. ASSUME NEW j \in Jobs, SubmitEnqueue(j) PROVE InHand'
  BY <1>2 DEF SubmitEnqueue, InHand
<1>3. ASSUME NEW j \in Jobs, SubmitCut(j) PROVE InHand'
  BY <1>3 DEF SubmitCut, InHand
<1>4. ASSUME NEW j \in Jobs, Expire(j) PROVE InHand'
  BY <1>4 DEF Expire, Save, InHand
<1>5. ASSUME NEW m \in pel, Ripen(m) PROVE InHand'
  BY <1>5 DEF Ripen, InHand
<1>6. CASE Boot
  BY <1>6 DEF Boot, InHand
<1>7. ASSUME NEW m \in ripe, ClaimAbandoned(m) PROVE InHand'
  BY <1>7 DEF ClaimAbandoned, InHand
<1>8. CASE NothingToClaim
  BY <1>8 DEF NothingToClaim, InHand
<1>9. CASE ReadNew
  BY <1>9 DEF ReadNew, InHand
<1>10. CASE ReadTimesOut
  BY <1>10 DEF ReadTimesOut, InHand
<1>11. CASE LoadUnknown
  BY <1>11 DEF LoadUnknown, InHand
<1>12. CASE LoadStart
  <2>1. msg \in 1..Len(stream) /\ job \in Jobs
    BY <1>12 DEF LoadStart, InHand
  <2>2. status[job] \in Statuses
    BY <2>1
  <2>3. status[job] = "PENDING" /\ runs[job] = 0
    BY <1>12, <2>1, <2>2 DEF LoadStart, InHand, Statuses
  <2> QED  BY <1>12, <2>1, <2>3 DEF LoadStart, InHand
<1>13. CASE LoadRefused
  BY <1>13 DEF LoadRefused, InHand
<1>14. CASE SaveRunning
  BY <1>14 DEF SaveRunning, Save, InHand
<1>15. ASSUME NEW result \in {"DONE", "FAILED"}, Run(result) PROVE InHand'
  BY <1>15 DEF Run, InHand
<1>16. CASE SaveOutcome
  BY <1>16 DEF SaveOutcome, Save, InHand
<1>17. CASE Ack
  BY <1>17 DEF Ack, InHand
<1>18. CASE CrashInRun
  BY <1>18 DEF CrashInRun, InHand
<1>19. CASE Crash
  BY <1>19 DEF Crash, InHand
<1>20. CASE UNCHANGED vars
  BY <1>20 DEF vars, InHand
<1> QED
  BY <1>1, <1>2, <1>3, <1>4, <1>5, <1>6, <1>7, <1>8, <1>9, <1>10,
     <1>11, <1>12, <1>13, <1>14, <1>15, <1>16, <1>17, <1>18, <1>19, <1>20
     DEF Next, Submission, Time, WorkerStep

\* The two invariants together are inductive.
LEMMA Invariance == Spec => [](TypeOK /\ InHand)
BY TypeOKInit, TypeOKStep, InHandInit, InHandStep, PTL DEF Spec

-----------------------------------------------------------------------------
(* The properties *)

\* The side effects of a job happen at most once.
THEOREM AtMostOnce == Spec => []RunsOnce
<1>1. Init => RunsOnce
  BY DEF Init, RunsOnce
<1>2. TypeOK /\ InHand /\ RunsOnce /\ [Next]_vars => RunsOnce'
  <2> SUFFICES ASSUME TypeOK, InHand, RunsOnce, [Next]_vars PROVE RunsOnce'
    OBVIOUS
  <2>1. \/ runs' = runs
        \/ pc = "run" /\ runs' = [runs EXCEPT ![job] = @ + 1]
    BY DEF Next, Submission, Time, WorkerStep, SubmitSave, SubmitEnqueue, SubmitCut,
       Expire, Ripen, Boot, ClaimAbandoned, NothingToClaim, ReadNew, ReadTimesOut,
       LoadUnknown, LoadStart, LoadRefused, SaveRunning, Run, CrashInRun,
       SaveOutcome, Ack, Crash, vars
  <2>2. CASE runs' = runs
    BY <2>2 DEF RunsOnce
  <2>3. CASE pc = "run" /\ runs' = [runs EXCEPT ![job] = @ + 1]
    <3>1. runs[job] = 0
      BY <2>3 DEF InHand
    <3> QED  BY <2>3, <3>1 DEF RunsOnce, TypeOK
  <2> QED  BY <2>1, <2>2, <2>3
<1> QED  BY <1>1, <1>2, Invariance, PTL DEF Spec

\* A job whose message is acknowledged is settled, whatever happens next.
LEMMA SettledStays ==
  ASSUME TypeOK, InHand, [Next]_vars, NEW m \in 1..delivered, m # msg,
         \/ stream[m] \in expired
         \/ runs[stream[m]] = 1 /\ status[stream[m]] \in {"DONE", "FAILED"}
  PROVE  /\ m \in 1..delivered' /\ stream'[m] = stream[m]
         /\ \/ stream'[m] \in expired'
            \/ runs'[stream'[m]] = 1 /\ status'[stream'[m]] \in {"DONE", "FAILED"}
<1> USE DEF Go, redis, worker, Messages, Save, TypeOK
<1>1. m \in 1..Len(stream) /\ stream[m] \in Jobs
  OBVIOUS
<1>2. stream'[m] = stream[m] /\ m \in 1..delivered' /\ expired \subseteq expired'
  <2>1. /\ stream' = stream \/ \E j \in Jobs : stream' = Append(stream, j)
        /\ delivered' = delivered \/ delivered' = delivered + 1
        /\ expired' = expired \/ \E j \in Jobs : expired' = expired \cup {j}
    BY DEF Next, Submission, Time, WorkerStep, SubmitSave, SubmitEnqueue,
       SubmitCut, Expire, Ripen, Boot, ClaimAbandoned, NothingToClaim, ReadNew,
       ReadTimesOut, LoadUnknown, LoadStart, LoadRefused, SaveRunning, Run,
       CrashInRun, SaveOutcome, Ack, Crash, vars
  <2>2. \A j \in Jobs : Append(stream, j)[m] = stream[m]
    BY <1>1
  <2>3. stream'[m] = stream[m]
    BY <2>1, <2>2
  <2>4. m \in 1..delivered'
    BY <2>1
  <2>5. expired \subseteq expired'
    BY <2>1
  <2> QED  BY <2>3, <2>4, <2>5
<1>3. pc \in {"save_running", "run", "save_outcome"} => job # stream[m]
  <2>1. msg # 0 => msg \in 1..Len(stream)
    OBVIOUS
  <2> QED  BY <1>1, <2>1 DEF InHand, job
<1>4. submitted[stream[m]] = "queued"
  BY <1>1 DEF InHand
<1>5. \/ runs'[stream[m]] = runs[stream[m]] /\ status'[stream[m]] = status[stream[m]]
      \/ stream[m] \in expired'
  BY <1>1, <1>3, <1>4 DEF Next, Submission, Time, WorkerStep, SubmitSave,
     SubmitEnqueue, SubmitCut, Expire, Ripen, Boot, ClaimAbandoned, NothingToClaim,
     ReadNew, ReadTimesOut, LoadUnknown, LoadStart, LoadRefused, SaveRunning, Run,
     CrashInRun, SaveOutcome, Ack, Crash, vars
<1> QED  BY <1>2, <1>5

\* No job is dropped: an acknowledged message's job ran and its outcome is
\* recorded, or its key expired.
THEOREM NothingDropped == Spec => []AckedIsSettled
<1>1. Init => AckedIsSettled
  BY DEF Init, AckedIsSettled, Acked
<1>2. TypeOK /\ InHand /\ AckedIsSettled /\ [Next]_vars => AckedIsSettled'
  <2> SUFFICES ASSUME TypeOK, InHand, AckedIsSettled, [Next]_vars, NEW m \in Acked'
               PROVE  \/ stream'[m] \in expired'
                      \/ /\ runs'[stream'[m]] = 1
                         /\ status'[stream'[m]] \in {"DONE", "FAILED"}
    BY DEF AckedIsSettled
  <2>1. m \in Acked \/ (Ack /\ m = msg)
    BY DEF Acked, Next, Submission, Time, WorkerStep, SubmitSave, SubmitEnqueue,
       SubmitCut, Expire, Ripen, Boot, ClaimAbandoned, NothingToClaim, ReadNew,
       ReadTimesOut, LoadUnknown, LoadStart, LoadRefused, SaveRunning, Run,
       CrashInRun, SaveOutcome, Ack, Crash, vars, redis, worker, Go, TypeOK
  <2>2. CASE m \in Acked
    <3>1. m \in 1..delivered /\ m # msg
      BY <2>2 DEF Acked, InHand, TypeOK
    <3> QED  BY <2>2, <3>1, SettledStays DEF AckedIsSettled
  <2>3. CASE Ack /\ m = msg
    BY <2>3 DEF Ack, Go, InHand, job
  <2> QED  BY <2>1, <2>2, <2>3
<1> QED  BY <1>1, <1>2, Invariance, PTL DEF Spec

\* A stored status only follows the transitions of the Job entity.
THEOREM Lifecycle == Spec => NoResurrection
<1>1. ASSUME TypeOK, InHand, [Next]_vars, NEW j \in Jobs, status'[j] # status[j]
      PROVE  \/ status'[j] = "ABSENT"
             \/ status[j] # "ABSENT" /\ status'[j] \in Allowed(status[j])
             \/ status[j] = "ABSENT" /\ (submitted[j] = "no" \/ j \in expired)
  <2>1. \/ status' = [status EXCEPT ![j] = "ABSENT"]
        \/ status[j] = "ABSENT"
        \/ \E i \in Jobs : SubmitSave(i)
        \/ j = job /\ (SaveRunning \/ SaveOutcome)
    BY <1>1 DEF Next, Submission, Time, WorkerStep, SubmitSave, SubmitEnqueue,
       SubmitCut, Expire, Ripen, Boot, ClaimAbandoned, NothingToClaim, ReadNew,
       ReadTimesOut, LoadUnknown, LoadStart, LoadRefused, SaveRunning, Run,
       CrashInRun, SaveOutcome, Ack, Crash, vars, redis, Save, TypeOK
  <2>2. CASE status' = [status EXCEPT ![j] = "ABSENT"]
    BY <1>1, <2>2 DEF TypeOK
  <2>3. CASE status[j] = "ABSENT"
    BY <1>1, <2>3 DEF InHand
  <2>4. ASSUME NEW i \in Jobs, SubmitSave(i), status[j] # "ABSENT"
        PROVE  FALSE
    <3>1. i = j
      BY <1>1, <2>4 DEF SubmitSave, Save, TypeOK
    <3> QED  BY <1>1, <2>4, <3>1 DEF SubmitSave, InHand
  <2>5. CASE j = job /\ (SaveRunning \/ SaveOutcome)
    BY <1>1, <2>5, AllowedTable DEF SaveRunning, SaveOutcome, Save, Go, InHand, TypeOK
  <2> QED  BY <2>1, <2>2, <2>3, <2>4, <2>5
<1>2. TypeOK /\ InHand /\ [Next]_vars =>
        [\A j \in Jobs :
           status'[j] # status[j] =>
             \/ status'[j] = "ABSENT"
             \/ status[j] # "ABSENT" /\ status'[j] \in Allowed(status[j])
             \/ status[j] = "ABSENT" /\ (submitted[j] = "no" \/ j \in expired)]_vars
  BY <1>1
<1> QED  BY <1>2, Invariance, PTL DEF Spec, NoResurrection
=============================================================================
