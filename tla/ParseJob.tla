------------------------------ MODULE ParseJob ------------------------------
(***************************************************************************)
(* How an uploaded file comes to be parsed: the upload request, the        *)
(* pg-boss queue 'item-master-parse', the runs of processBatchJob, the     *)
(* retry of a batch that is stuck or failed, and the two steward actions   *)
(* that change the same status column meanwhile.                           *)
(*                                                                         *)
(* A batch stands for one file: item_master_batch.file_sha256 is unique.   *)
(* Rows are abstracted to whether a parse of the batch is committed; what  *)
(* the rows are, and what publishing does with them, is Catalog.           *)
(*                                                                         *)
(* A run is one call of processBatchJob, and its steps are the places      *)
(* where other transactions can fall: after it has read the batch, after   *)
(* it has written rows and read the status again, after its commit, and    *)
(* between its rollback and the transaction that rejects the batch.        *)
(*                                                                         *)
(* The backend is one process with one pg-boss worker, which hands out the *)
(* next job when the handler returns or when the job has expired; an       *)
(* expired or crashed job is delivered again (at least once).              *)
(*                                                                         *)
(* An operator whose comment begins with WRONG is a deliberately broken    *)
(* variant of the definition that follows it.                              *)
(***************************************************************************)
EXTENDS Naturals, FiniteSets

CONSTANTS
  Batches,    \* uploaded files
  Runs,       \* calls of processBatchJob that may be under way at once
  Retries,    \* retry requests that may be under way at once
  Idle,       \* a run or a retry that is not in use
  MaxJobs,    \* bound: jobs waiting for one batch
  MaxFaults   \* bound: crashes, expired jobs, failed sends and rejections

ASSUME ParseJobAssumption ==
  /\ MaxJobs \in Nat
  /\ MaxFaults \in Nat

Status == {"none", "processing", "held", "published", "rejected"}

(***************************************************************************)
(* A run: the batch it parses; where it is; the status it read first, which*)
(* is what its copy of the batch still says at the end; the status it read *)
(* again before saving; whether the queue still waits for it.              *)
(***************************************************************************)
Run == [batch : Batches, step : {"parsing", "written", "done", "failing"},
        seen : Status, again : Status, active : BOOLEAN]

ASSUME IdleAssumption == Idle \notin Run /\ Idle \notin Batches

VARIABLES
  status,    \* item_master_batch.status
  parsed,    \* batches with a committed parse
  sending,   \* committed requests per batch that have yet to queue a job
  jobs,      \* jobs waiting per batch
  run,       \* the runs
  retry,     \* the batch each retry request has read and not yet saved
  again,     \* batches that were retried or had a job delivered twice (history)
  faults     \* how many of those there have been

vars == <<status, parsed, sending, jobs, run, retry, again, faults>>

TypeOK ==
  /\ status \in [Batches -> Status]
  /\ parsed \subseteq Batches
  /\ sending \in [Batches -> Nat]
  /\ jobs \in [Batches -> Nat]
  /\ run \in [Runs -> Run \cup {Idle}]
  /\ retry \in [Retries -> Batches \cup {Idle}]
  /\ again \subseteq Batches
  /\ faults \in 0..MaxFaults

Init ==
  /\ status = [b \in Batches |-> "none"]
  /\ parsed = {}
  /\ sending = [b \in Batches |-> 0]
  /\ jobs = [b \in Batches |-> 0]
  /\ run = [w \in Runs |-> Idle]
  /\ retry = [q \in Retries |-> Idle]
  /\ again = {}
  /\ faults = 0

-----------------------------------------------------------------------------
At(w, step) == run[w] # Idle /\ run[w].step = step
RunsOf(b) == {w \in Runs : run[w] # Idle /\ run[w].batch = b}

\* WRONG (breaks OneWriter): the lock is taken for the first writes only
WritersUntilWritten(b) == {w \in RunsOf(b) : At(w, "parsing")}

\* The runs inside their transaction: each holds the advisory lock of its batch.
Writers(b) == {w \in RunsOf(b) : At(w, "parsing") \/ At(w, "written")}

\* A run that has inserted rows holds a key-share lock on its batch row, for
\* which publishBatch and holdBatch wait (SELECT ... FOR UPDATE).
RowLocked(b) == \E w \in RunsOf(b) : At(w, "written")

\* The worker awaits its handler unless the job has expired.
WorkerFree == \A w \in Runs : run[w] # Idle => ~run[w].active

Fault == faults < MaxFaults /\ faults' = faults + 1

-----------------------------------------------------------------------------
(* Requests.                                                                 *)

\* WRONG (breaks ParsedOnceUnlessRepeated): a second upload of a file that is
\* still being parsed is taken for a new one
UploadAgain(b) ==
  /\ status[b] \in {"none", "processing"}
  /\ sending[b] < MaxJobs
  /\ status' = [status EXCEPT ![b] = "processing"]
  /\ sending' = [sending EXCEPT ![b] = @ + 1]
  /\ UNCHANGED <<parsed, jobs, run, retry, again, faults>>

\* processUpload up to its commit.
Upload(b) ==
  /\ status[b] = "none"
  /\ status' = [status EXCEPT ![b] = "processing"]
  /\ sending' = [sending EXCEPT ![b] = @ + 1]
  /\ UNCHANGED <<parsed, jobs, run, retry, again, faults>>

\* WRONG (breaks TypeOK): a request may queue its job twice
SendJobTwice(b) ==
  /\ jobs[b] < MaxJobs
  /\ sending' = [sending EXCEPT ![b] = @ - 1]
  /\ jobs' = [jobs EXCEPT ![b] = @ + 1]
  /\ UNCHANGED <<status, parsed, run, retry, again, faults>>

\* The request queues the job after its commit.
SendJob(b) ==
  /\ sending[b] > 0
  /\ sending' = [sending EXCEPT ![b] = @ - 1]
  /\ jobs' = [jobs EXCEPT ![b] = @ + 1]
  /\ UNCHANGED <<status, parsed, run, retry, again, faults>>

\* The queue cannot be reached: the request fails, the batch stays.
SendFails(b) ==
  /\ Fault
  /\ sending[b] > 0
  /\ sending' = [sending EXCEPT ![b] = @ - 1]
  /\ UNCHANGED <<status, parsed, jobs, run, retry, again>>

\* WRONG (breaks Settles): only a rejected batch can be retried
RetryableRejected == {"rejected"}

Retryable == {"processing", "rejected"}

Outstanding(b) == sending[b] + jobs[b] + Cardinality({q \in Retries : retry[q] = b})

\* retryBatch, or a second upload of the same file: reads the batch outside of
\* any transaction and checks its status.  Bounded by MaxJobs.
RetryRead(q, b) ==
  /\ retry[q] = Idle
  /\ status[b] \in Retryable
  /\ Outstanding(b) < MaxJobs
  /\ retry' = [retry EXCEPT ![q] = b]
  /\ again' = again \cup {b}
  /\ UNCHANGED <<status, parsed, sending, jobs, run, faults>>

\* It then saves the copy it read, with status 'processing', over whatever the
\* row says by now.
RetrySave(q) ==
  /\ retry[q] # Idle
  /\ status' = [status EXCEPT ![retry[q]] = "processing"]
  /\ sending' = [sending EXCEPT ![retry[q]] = @ + 1]
  /\ retry' = [retry EXCEPT ![q] = Idle]
  /\ UNCHANGED <<parsed, jobs, run, again, faults>>

PublishBatch(b) ==
  /\ status[b] = "held"
  /\ ~RowLocked(b)
  /\ status' = [status EXCEPT ![b] = "published"]
  /\ UNCHANGED <<parsed, sending, jobs, run, retry, again, faults>>

HoldBatch(b) ==
  /\ status[b] = "published"
  /\ ~RowLocked(b)
  /\ status' = [status EXCEPT ![b] = "held"]
  /\ UNCHANGED <<parsed, sending, jobs, run, retry, again, faults>>

-----------------------------------------------------------------------------
(* processBatchJob.                                                          *)

TakeJob(b) ==
  /\ WorkerFree
  /\ jobs[b] > 0
  /\ jobs' = [jobs EXCEPT ![b] = @ - 1]

\* The advisory lock is free: the run reads the batch, whatever its status,
\* and parses the file.
StartRun(w, b) ==
  /\ run[w] = Idle
  /\ TakeJob(b)
  /\ Writers(b) = {}
  /\ run' = [run EXCEPT ![w] = [batch |-> b, step |-> "parsing", seen |-> status[b],
                                again |-> status[b], active |-> TRUE]]
  /\ UNCHANGED <<status, parsed, sending, retry, again, faults>>

\* Another run holds the lock: this one returns and its job counts as done.
SkipRun(b) ==
  /\ TakeJob(b)
  /\ Writers(b) # {}
  /\ UNCHANGED <<status, parsed, sending, run, retry, again, faults>>

\* The old rows are deleted and the new ones inserted; the status is read again.
WriteRows(w) ==
  /\ At(w, "parsing")
  /\ run' = [run EXCEPT ![w].step = "written", ![w].again = status[run[w].batch]]
  /\ UNCHANGED <<status, parsed, sending, jobs, retry, again, faults>>

\* WRONG (breaks HeldIsParsed): the batch is held as soon as rows are written
SaveBatchEarly(w) ==
  /\ At(w, "parsing")
  /\ status' = [status EXCEPT ![run[w].batch] = "held"]
  /\ run' = [run EXCEPT ![w].step = "written"]
  /\ UNCHANGED <<parsed, sending, jobs, retry, again, faults>>

\* The batch is saved and the transaction commits.  When the status was not
\* 'processing', save still writes the one read at the start.
SaveBatch(w) ==
  /\ At(w, "written")
  /\ status' = [status EXCEPT ![run[w].batch] =
                  IF run[w].again = "processing" THEN "held" ELSE run[w].seen]
  /\ parsed' = parsed \cup {run[w].batch}
  /\ run' = [run EXCEPT ![w].step = "done"]
  /\ UNCHANGED <<sending, jobs, retry, again, faults>>

\* The file cannot be read or parsed, or a statement fails: rollback.
FailRun(w) ==
  /\ At(w, "parsing") \/ At(w, "written")
  /\ run' = [run EXCEPT ![w].step = "failing"]
  /\ UNCHANGED <<status, parsed, sending, jobs, retry, again, faults>>

\* A second transaction rejects the batch, whatever its status is by then.
RejectBatch(w) ==
  /\ At(w, "failing")
  /\ status' = [status EXCEPT ![run[w].batch] = "rejected"]
  /\ run' = [run EXCEPT ![w].step = "done"]
  /\ UNCHANGED <<parsed, sending, jobs, retry, again, faults>>

\* That transaction fails too; the handler swallows both errors.
RejectFails(w) ==
  /\ Fault
  /\ At(w, "failing")
  /\ run' = [run EXCEPT ![w].step = "done"]
  /\ UNCHANGED <<status, parsed, sending, jobs, retry, again>>

\* The handler returns, and the queue completes the job.
CompleteJob(w) ==
  /\ At(w, "done")
  /\ run' = [run EXCEPT ![w] = Idle]
  /\ UNCHANGED <<status, parsed, sending, jobs, retry, again, faults>>

-----------------------------------------------------------------------------
(* Failures.                                                                 *)

\* The queue gives a job up that takes too long, and delivers it again; the
\* handler goes on.
ExpireJob(w) ==
  /\ Fault
  /\ run[w] # Idle
  /\ run[w].active
  /\ run' = [run EXCEPT ![w].active = FALSE]
  /\ jobs' = [jobs EXCEPT ![run[w].batch] = @ + 1]
  /\ again' = again \cup {run[w].batch}
  /\ UNCHANGED <<status, parsed, sending, retry>>

\* The process stops: open transactions are rolled back, requests that have
\* not queued their job are gone, the job being handled is delivered again.
Crash ==
  LET lost == {b \in Batches : \E w \in RunsOf(b) : run[w].active} IN
  /\ Fault
  /\ run' = [w \in Runs |-> Idle]
  /\ retry' = [q \in Retries |-> Idle]
  /\ sending' = [b \in Batches |-> 0]
  /\ jobs' = [b \in Batches |-> IF b \in lost THEN jobs[b] + 1 ELSE jobs[b]]
  /\ again' = again \cup lost
  /\ UNCHANGED <<status, parsed>>

-----------------------------------------------------------------------------
Next ==
  \/ \E b \in Batches : \/ Upload(b) \/ SendJob(b) \/ SendFails(b) \/ SkipRun(b)
                        \/ PublishBatch(b) \/ HoldBatch(b)
  \/ \E q \in Retries : RetrySave(q) \/ \E b \in Batches : RetryRead(q, b)
  \/ \E w \in Runs : \/ WriteRows(w) \/ SaveBatch(w) \/ FailRun(w)
                     \/ RejectBatch(w) \/ RejectFails(w) \/ CompleteJob(w)
                     \/ ExpireJob(w)
  \/ \E w \in Runs, b \in Batches : StartRun(w, b)
  \/ Crash

(***************************************************************************)
(* Fairness.  A request that has committed goes on to queue its job, the   *)
(* worker polls, and a run goes on, as long as the process is up; nothing  *)
(* makes them fail or crash.  SF on the worker: the queue hands jobs out   *)
(* in order of creation, so none is passed over for ever.  SF on a retry   *)
(* says that users keep retrying a batch they see stuck or failed: the     *)
(* code has no other recovery.                                             *)
(***************************************************************************)
Fairness ==
  /\ \A b \in Batches : WF_vars(SendJob(b)) /\ SF_vars(SkipRun(b))
  /\ \A b \in Batches : SF_vars(\E w \in Runs : StartRun(w, b))
  /\ \A w \in Runs : /\ WF_vars(WriteRows(w)) /\ WF_vars(SaveBatch(w))
                     /\ WF_vars(RejectBatch(w)) /\ WF_vars(CompleteJob(w))
  /\ \A b \in Batches : SF_vars(\E q \in Retries : RetryRead(q, b))
  /\ \A q \in Retries : WF_vars(RetrySave(q))

Spec == Init /\ [][Next]_vars
FairSpec == Spec /\ Fairness

-----------------------------------------------------------------------------
(* Properties.                                                               *)

(***************************************************************************)
(* No two runs are inside their transaction for the same batch, through    *)
(* retries, redeliveries, expired jobs that go on running, and crashes:    *)
(* pg_try_advisory_xact_lock in processBatchJob.                           *)
(***************************************************************************)
OneWriter == \A b \in Batches : \A v, w \in RunsOf(b) :
  (At(v, "parsing") \/ At(v, "written")) /\ (At(w, "parsing") \/ At(w, "written")) => v = w

(***************************************************************************)
(* A batch that a steward can publish, or has published, has a committed   *)
(* parse, however its status came about: first run, re-run, stale save.    *)
(***************************************************************************)
HeldIsParsed == \A b \in Batches : status[b] \in {"held", "published"} => b \in parsed

(***************************************************************************)
(* Unless a batch is retried or its job is delivered again, it has one job *)
(* in all, and that job finds the batch 'processing' and nothing else      *)
(* moves it.                                                               *)
(***************************************************************************)
ParsedOnceUnlessRepeated == \A b \in Batches : b \notin again =>
  /\ sending[b] + jobs[b] + Cardinality(RunsOf(b)) <= 1
  /\ sending[b] + jobs[b] > 0 => status[b] = "processing" /\ b \notin parsed
  /\ \A w \in Writers(b) : run[w].seen = "processing" /\ status[b] = "processing"

(***************************************************************************)
(* A batch does not stay in 'processing' for ever: its job ends it, or a   *)
(* retry does when the job was lost (a crash or an error between the       *)
(* upload's commit and the send) or its failure could not be recorded.     *)
(***************************************************************************)
Settles == \A b \in Batches : status[b] = "processing" ~> status[b] # "processing"

(***************************************************************************)
(* "Only save counts and row stats, but don't overwrite status"            *)
(* (item-master.service.ts:567): a run that finds the batch no longer      *)
(* 'processing' leaves its status alone.  The code breaks it: the saved    *)
(* copy carries the status read at the start of the run.                   *)
(***************************************************************************)
SaveKeepsStatus ==
  [][\A w \in Runs :
       /\ At(w, "written")
       /\ run[w].again # "processing"
       /\ run'[w] # Idle
       /\ run'[w].step = "done"
       => status'[run[w].batch] = status[run[w].batch]]_vars
=============================================================================
