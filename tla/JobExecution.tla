---------------------------- MODULE JobExecution ----------------------------
(***************************************************************************)
(* Asynchronous jobs on the Redis backend: JobService (_submit, execute),  *)
(* the Job entity's state machine, RedisJobRepository (a status under a    *)
(* TTL), RedisStreamJobQueue and the one consumer of its group, driven by  *)
(* run_worker_loop.                                                        *)
(*                                                                         *)
(* One message per job, so a message is named by its place in the stream.  *)
(* What a job does when it runs is left out here: it ends DONE or FAILED.  *)
(***************************************************************************)
EXTENDS Integers, Sequences, FiniteSets

CONSTANTS
  Jobs,
  Expiry,      \* TRUE when the TTL of job keys is in play
  MaxCrashes   \* bound: times the worker is killed from outside

ASSUME ExpiryBoolean == Expiry \in BOOLEAN
ASSUME MaxCrashesNat == MaxCrashes \in Nat

VARIABLES
  \* Redis
  status,     \* job |-> status stored under its key, "ABSENT" without the key
  stream,     \* the jobs of the messages, in the order of XADD; never trimmed
  delivered,  \* the group's last-delivered-id
  pel,        \* messages delivered and not acknowledged
  ripe,       \* those of them idle for min_idle_ms
  \* the API process
  submitted,  \* job |-> how far _submit got: "no", "saved", "queued", "cut"
  \* the worker
  pc,         \* "down", or the call it makes next
  msg,        \* the message in hand, 0 when none
  outcome,    \* the status execute() computed and has not saved yet
  crashes,
  \* history
  runs,       \* job |-> times _run was entered
  expired     \* jobs whose key expired at least once

redis == <<status, stream, delivered, pel, ripe>>
worker == <<pc, msg, outcome, crashes>>
vars == <<redis, submitted, worker, runs, expired>>

Statuses == {"ABSENT", "PENDING", "RUNNING", "DONE", "FAILED"}

\* Mistake: a redelivered job may start again.
AllowedAgain(from) ==
  [PENDING |-> {"RUNNING"}, RUNNING |-> {"RUNNING", "DONE", "FAILED"},
   DONE |-> {}, FAILED |-> {}][from]

\* _ALLOWED: the transitions of the Job entity.
Allowed(from) ==
  [PENDING |-> {"RUNNING"}, RUNNING |-> {"DONE", "FAILED"},
   DONE |-> {}, FAILED |-> {}][from]

Messages == 1..Len(stream)
Acked == {m \in 1..delivered : m \notin pel}

Init ==
  /\ status = [j \in Jobs |-> "ABSENT"]
  /\ stream = <<>> /\ delivered = 0 /\ pel = {} /\ ripe = {}
  /\ submitted = [j \in Jobs |-> "no"]
  /\ pc = "down" /\ msg = 0 /\ outcome = "none" /\ crashes = 0
  /\ runs = [j \in Jobs |-> 0] /\ expired = {}

-----------------------------------------------------------------------------
(* The API process: _submit saves the job, then enqueues its id *)

Save(j, s) == status' = [status EXCEPT ![j] = s]

SubmitSave(j) ==
  /\ submitted[j] = "no"
  /\ Save(j, "PENDING")
  /\ submitted' = [submitted EXCEPT ![j] = "saved"]
  /\ UNCHANGED <<stream, delivered, pel, ripe, worker, runs, expired>>

SubmitEnqueue(j) ==
  /\ submitted[j] = "saved"
  /\ stream' = Append(stream, j)
  /\ submitted' = [submitted EXCEPT ![j] = "queued"]
  /\ UNCHANGED <<status, delivered, pel, ripe, worker, runs, expired>>

\* The process dies, or XADD raises, after the save.
SubmitCut(j) ==
  /\ submitted[j] = "saved"
  /\ submitted' = [submitted EXCEPT ![j] = "cut"]
  /\ UNCHANGED <<redis, worker, runs, expired>>

-----------------------------------------------------------------------------
(* Redis: time passes *)

Expire(j) ==
  /\ Expiry /\ status[j] # "ABSENT"
  /\ Save(j, "ABSENT")
  /\ expired' = expired \cup {j}
  /\ UNCHANGED <<stream, delivered, pel, ripe, submitted, worker, runs>>

Ripen(m) ==
  /\ m \in pel \ ripe
  /\ ripe' = ripe \cup {m}
  /\ UNCHANGED <<status, stream, delivered, pel, submitted, worker, runs, expired>>

-----------------------------------------------------------------------------
(* The worker: run_worker_loop, read_one, execute and ack, call by call *)

Go(from, to) ==
  /\ pc = from /\ pc' = to
  /\ UNCHANGED <<submitted, crashes>>

\* The container is restarted; ensure_group accepts that the group exists.
Boot ==
  /\ Go("down", "claim")
  /\ UNCHANGED <<redis, msg, outcome, runs, expired>>

\* XAUTOCLAIM: the oldest message idle long enough, and its clock restarts.
ClaimAbandoned(m) ==
  /\ m \in ripe /\ \A other \in ripe : m <= other
  /\ msg' = m /\ ripe' = ripe \ {m}
  /\ Go("claim", "load")
  /\ UNCHANGED <<status, stream, delivered, pel, outcome, runs, expired>>

NothingToClaim ==
  /\ ripe = {}
  /\ Go("claim", "read")
  /\ UNCHANGED <<redis, msg, outcome, runs, expired>>

\* XREADGROUP with ">".
ReadNew ==
  /\ delivered < Len(stream)
  /\ delivered' = delivered + 1 /\ msg' = delivered + 1
  /\ pel' = pel \cup {delivered + 1}
  /\ Go("read", "load")
  /\ UNCHANGED <<status, stream, ripe, outcome, runs, expired>>

ReadTimesOut ==
  /\ delivered = Len(stream)
  /\ Go("read", "claim")
  /\ UNCHANGED <<redis, msg, outcome, runs, expired>>

job == stream[msg]

\* Mistake: the loop goes on without the acknowledgement.
LoadUnknownSkips ==
  /\ pc = "load" /\ status[job] = "ABSENT"
  /\ msg' = 0
  /\ Go("load", "claim")
  /\ UNCHANGED <<redis, outcome, runs, expired>>

\* execute: by_id finds nothing, UnknownJobError, the message is dropped.
LoadUnknown ==
  /\ pc = "load" /\ status[job] = "ABSENT"
  /\ Go("load", "ack")
  /\ UNCHANGED <<redis, msg, outcome, runs, expired>>

\* execute: the job as loaded may start.
LoadStart ==
  /\ pc = "load" /\ status[job] # "ABSENT" /\ "RUNNING" \in Allowed(status[job])
  /\ Go("load", "save_running")
  /\ UNCHANGED <<redis, msg, outcome, runs, expired>>

\* Mistake: a job that cannot start is reset and started.
LoadReset ==
  /\ pc = "load" /\ status[job] # "ABSENT" /\ "RUNNING" \notin Allowed(status[job])
  /\ Save(job, "PENDING")
  /\ Go("load", "save_running")
  /\ UNCHANGED <<stream, delivered, pel, ripe, msg, outcome, runs, expired>>

\* job.start() raises InvalidJobTransition outside the try of execute and of
\* the loop's except: the worker process ends, the message unacknowledged.
LoadRefused ==
  /\ pc = "load" /\ status[job] # "ABSENT" /\ "RUNNING" \notin Allowed(status[job])
  /\ Go("load", "down")
  /\ msg' = 0
  /\ UNCHANGED <<redis, outcome, runs, expired>>

\* Mistake: the message is acknowledged when the job starts.
SaveRunningAcks ==
  /\ pc = "save_running" /\ Save(job, "RUNNING")
  /\ pel' = pel \ {msg} /\ ripe' = ripe \ {msg}
  /\ Go("save_running", "run")
  /\ UNCHANGED <<stream, delivered, msg, outcome, runs, expired>>

SaveRunning ==
  /\ pc = "save_running" /\ Save(job, "RUNNING")
  /\ Go("save_running", "run")
  /\ UNCHANGED <<stream, delivered, pel, ripe, msg, outcome, runs, expired>>

\* _run returns or raises; either way execute has a terminal status to save.
Run(result) ==
  /\ pc = "run" /\ result \in Allowed("RUNNING")
  /\ runs' = [runs EXCEPT ![job] = @ + 1]
  /\ outcome' = result
  /\ Go("run", "save_outcome")
  /\ UNCHANGED <<redis, msg, expired>>

\* The process dies inside _run, its side effects done in part.
CrashInRun ==
  /\ pc = "run" /\ crashes < MaxCrashes
  /\ runs' = [runs EXCEPT ![job] = @ + 1]
  /\ pc' = "down" /\ msg' = 0 /\ crashes' = crashes + 1
  /\ UNCHANGED <<redis, submitted, outcome, expired>>

SaveOutcome ==
  /\ pc = "save_outcome" /\ Save(job, outcome)
  /\ outcome' = "none"
  /\ Go("save_outcome", "ack")
  /\ UNCHANGED <<stream, delivered, pel, ripe, msg, runs, expired>>

\* Mistake: the acknowledged message can still be claimed.
AckClaimable ==
  /\ pel' = pel \ {msg} /\ msg' = 0
  /\ Go("ack", "claim")
  /\ UNCHANGED <<status, stream, delivered, ripe, outcome, runs, expired>>

Ack ==
  /\ pel' = pel \ {msg} /\ ripe' = ripe \ {msg}
  /\ msg' = 0
  /\ Go("ack", "claim")
  /\ UNCHANGED <<status, stream, delivered, outcome, runs, expired>>

\* The process dies, or a Redis call raises, before the next call.
Crash ==
  /\ pc # "down" /\ crashes < MaxCrashes
  /\ pc' = "down" /\ msg' = 0 /\ outcome' = "none" /\ crashes' = crashes + 1
  /\ UNCHANGED <<redis, submitted, runs, expired>>

-----------------------------------------------------------------------------
Submission == \E j \in Jobs : SubmitSave(j) \/ SubmitEnqueue(j) \/ SubmitCut(j)

Time == (\E j \in Jobs : Expire(j)) \/ (\E m \in pel : Ripen(m))

WorkerStep ==
  \/ Boot \/ (\E m \in ripe : ClaimAbandoned(m)) \/ NothingToClaim \/ ReadNew \/ ReadTimesOut
  \/ LoadUnknown \/ LoadStart \/ LoadRefused \/ SaveRunning
  \/ \E result \in {"DONE", "FAILED"} : Run(result)
  \/ SaveOutcome \/ Ack

Next == Submission \/ Time \/ WorkerStep \/ CrashInRun \/ Crash

Spec == Init /\ [][Next]_vars

\* The worker container is restarted whenever it stops and each of its calls
\* returns; an idle message ripens; a key under a TTL expires. A client need
\* not submit, and nothing has to crash.
Fairness ==
  /\ WF_vars(WorkerStep)
  /\ \A m \in 1..Cardinality(Jobs) : WF_vars(Ripen(m))
  /\ \A j \in Jobs : WF_vars(Expire(j))

FairSpec == Spec /\ Fairness

-----------------------------------------------------------------------------
(* Properties *)

TypeOK ==
  /\ status \in [Jobs -> Statuses]
  /\ stream \in Seq(Jobs) /\ delivered \in 0..Len(stream)
  /\ pel \subseteq 1..delivered /\ ripe \subseteq pel
  /\ submitted \in [Jobs -> {"no", "saved", "queued", "cut"}]
  /\ pc \in {"down", "claim", "read", "load", "save_running", "run",
             "save_outcome", "ack"}
  /\ msg \in 0..Len(stream)
  /\ outcome \in IF pc = "save_outcome" THEN {"DONE", "FAILED"} ELSE {"none"}
  /\ crashes \in Nat
  /\ runs \in [Jobs -> Nat] /\ expired \subseteq Jobs

\* A job's side effects happen at most once, however often its message is
\* delivered again after a crash (indexer_worker.py:8-12).
RunsOnce == \A j \in Jobs : runs[j] <= 1

\* A message is acknowledged only once its job ran and recorded how it ended,
\* or its key was gone (indexer_worker.py:8-10): a job is never dropped
\* because the worker was quicker than its submission.
AckedIsSettled ==
  \A m \in Acked :
    \/ stream[m] \in expired
    \/ runs[stream[m]] = 1 /\ status[stream[m]] \in {"DONE", "FAILED"}

\* What the worker knows of the job in hand at each of its calls, and what a
\* job that has not run looks like: the invariant the theorems rest on.
InHand ==
  /\ \A m, n \in Messages : stream[m] = stream[n] => m = n
  /\ \A j \in Jobs : submitted[j] = "queued" <=> \E m \in Messages : stream[m] = j
  /\ \A j \in Jobs : submitted[j] # "queued" => runs[j] = 0
  /\ \A j \in Jobs : submitted[j] = "no" => status[j] = "ABSENT"
  /\ \A j \in Jobs : status[j] = "ABSENT" /\ submitted[j] # "no" => j \in expired
  /\ \A j \in Jobs : status[j] = "PENDING" => runs[j] = 0
  /\ pc \in {"down", "claim", "read"} <=> msg = 0
  /\ msg # 0 => msg \in pel
  /\ pc = "save_running" => status[job] \in {"PENDING", "ABSENT"} /\ runs[job] = 0
  /\ pc = "run" => status[job] \in {"RUNNING", "ABSENT"} /\ runs[job] = 0
  /\ pc = "save_outcome" => status[job] \in {"RUNNING", "ABSENT"} /\ runs[job] = 1
  /\ pc = "ack" =>
       job \in expired \/ (runs[job] = 1 /\ status[job] \in {"DONE", "FAILED"})

\* No step resurrects a job (job.py:3-6): a stored status moves along the
\* entity's transitions or expires. A save may also bring back a key that
\* expired under it.
NoResurrection ==
  [][\A j \in Jobs :
       status'[j] # status[j] =>
         \/ status'[j] = "ABSENT"
         \/ status[j] # "ABSENT" /\ status'[j] \in Allowed(status[j])
         \/ status[j] = "ABSENT" /\ (submitted[j] = "no" \/ j \in expired)]_vars

\* Every job that reaches the stream ends DONE or FAILED: a crash before the
\* acknowledgement only delays it (indexer_worker.py:10-13).
QueuedSettles ==
  \A j \in Jobs : submitted[j] = "queued" ~> status[j] \in {"DONE", "FAILED"}

\* Whatever crashes, no message stays pending for ever and no job blocks the
\* ones behind it for ever: the TTL ends the deadlock of a job that cannot be
\* started again.
QueuedAcked ==
  \A m \in 1..Cardinality(Jobs) : m \in Messages ~> m \in Acked
=============================================================================
