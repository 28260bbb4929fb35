--------------------------- MODULE ParseJobProofs ---------------------------
(***************************************************************************)
(* What holds of ParseJob for every set of batches, runs and retries, and  *)
(* every number of jobs and faults.                                        *)
(*                                                                         *)
(* OneWriter and HeldIsParsed are inductive with the types.  For a batch   *)
(* that is not repeated one has to know where its one job is: with the     *)
(* request, in the queue, or in the hands of the only run it ever has.     *)
(***************************************************************************)
EXTENDS ParseJob, FiniteSetTheorems, TLAPS

\* Where the one job of a batch is, and what its status is meanwhile.
OneJob(b) ==
  /\ sending[b] + jobs[b] <= 1
  /\ sending[b] + jobs[b] > 0 =>
       RunsOf(b) = {} /\ status[b] = "processing" /\ b \notin parsed
  /\ status[b] = "none" =>
       sending[b] + jobs[b] = 0 /\ RunsOf(b) = {} /\ b \notin parsed
  /\ \A v, w \in RunsOf(b) : v = w
  /\ \A w \in Writers(b) : run[w].seen = "processing" /\ status[b] = "processing"

JobsInv ==
  /\ \A b \in Batches : b \notin again => OneJob(b)
  /\ \A q \in Retries : retry[q] # Idle => retry[q] \in again

IInv == TypeOK /\ OneWriter /\ HeldIsParsed /\ JobsInv

-----------------------------------------------------------------------------
(* What a step does to the runs.                                             *)

\* A run that goes on stays with its batch.
LEMMA RunGoesOn ==
  ASSUME TypeOK, NEW w \in Runs, run[w] # Idle, NEW r \in Run,
         r.batch = run[w].batch, run' = [run EXCEPT ![w] = r]
  PROVE  /\ \A b \in Batches : RunsOf(b)' = RunsOf(b)
         /\ \A b \in Batches : w \notin RunsOf(b) => Writers(b)' = Writers(b)
         /\ \A v \in Runs \ {w} : run'[v] = run[v]
         /\ run'[w] = r
  BY IdleAssumption DEF TypeOK, RunsOf, Writers, At

\* A run is of one batch.
LEMMA RunHasBatch ==
  ASSUME TypeOK, NEW w \in Runs, run[w] # Idle
  PROVE  run[w] \in Run /\ run[w].batch \in Batches /\ w \in RunsOf(run[w].batch)
  BY DEF TypeOK, Run, RunsOf

-----------------------------------------------------------------------------
LEMMA InitIInv == Init => IInv
  BY ParseJobAssumption DEF Init, IInv, TypeOK, OneWriter, HeldIsParsed, JobsInv, OneJob,
     RunsOf, Writers, Status

LEMMA TypeStep == TypeOK /\ [Next]_vars => TypeOK'
<1> SUFFICES ASSUME TypeOK, [Next]_vars PROVE TypeOK'
  OBVIOUS
<1> USE DEF TypeOK
<1>1. ASSUME NEW b \in Batches, Upload(b) \/ SendJob(b) PROVE TypeOK'
  BY <1>1 DEF Upload, SendJob, Status
<1>2. ASSUME NEW b \in Batches, SendFails(b) PROVE TypeOK'
  BY <1>2, ParseJobAssumption DEF SendFails, Fault
<1>3. ASSUME NEW b \in Batches, SkipRun(b) PROVE TypeOK'
  BY <1>3 DEF SkipRun, TakeJob
<1>4. ASSUME NEW b \in Batches, PublishBatch(b) \/ HoldBatch(b) PROVE TypeOK'
  BY <1>4 DEF PublishBatch, HoldBatch, Status
<1>5. ASSUME NEW q \in Retries, RetrySave(q) PROVE TypeOK'
  BY <1>5 DEF RetrySave, Status
<1>6. ASSUME NEW q \in Retries, NEW b \in Batches, RetryRead(q, b) PROVE TypeOK'
  BY <1>6 DEF RetryRead
<1>7. ASSUME NEW w \in Runs, WriteRows(w) PROVE TypeOK'
  BY <1>7 DEF WriteRows, At, Run
<1>8. ASSUME NEW w \in Runs, SaveBatch(w) PROVE TypeOK'
  BY <1>8 DEF SaveBatch, At, Run, Status
<1>9. ASSUME NEW w \in Runs, FailRun(w) \/ CompleteJob(w) PROVE TypeOK'
  BY <1>9 DEF FailRun, CompleteJob, At, Run
<1>10. ASSUME NEW w \in Runs, RejectBatch(w) PROVE TypeOK'
  BY <1>10 DEF RejectBatch, At, Run, Status
<1>11. ASSUME NEW w \in Runs, RejectFails(w) PROVE TypeOK'
  BY <1>11, ParseJobAssumption DEF RejectFails, Fault, At, Run
<1>12. ASSUME NEW w \in Runs, ExpireJob(w) PROVE TypeOK'
  <2>1. run[w] \in Run /\ run[w].batch \in Batches
    BY <1>12 DEF ExpireJob, Run
  <2>2. [run[w] EXCEPT !.active = FALSE] \in Run
    BY <2>1 DEF Run
  <2>3. run' \in [Runs -> Run \cup {Idle}] /\ jobs' \in [Batches -> Nat]
    BY <1>12, <2>1, <2>2 DEF ExpireJob
  <2>4. again' \subseteq Batches /\ faults' \in 0..MaxFaults
    BY <1>12, <2>1, ParseJobAssumption DEF ExpireJob, Fault
  <2> QED
    BY <1>12, <2>3, <2>4 DEF ExpireJob
<1>13. ASSUME NEW w \in Runs, NEW b \in Batches, StartRun(w, b) PROVE TypeOK'
  BY <1>13 DEF StartRun, TakeJob, Run
<1>14. CASE Crash
  BY <1>14, ParseJobAssumption DEF Crash, Fault
<1>15. CASE UNCHANGED vars
  BY <1>15 DEF vars
<1> QED
  BY <1>1, <1>2, <1>3, <1>4, <1>5, <1>6, <1>7, <1>8, <1>9, <1>10, <1>11, <1>12, <1>13,
     <1>14, <1>15 DEF Next
-----------------------------------------------------------------------------
(* OneWriter and HeldIsParsed.                                               *)

\* The writers of a batch, one at most, stay or leave, unless a run starts.
LEMMA WriterStep == TypeOK /\ OneWriter /\ [Next]_vars => OneWriter'
<1> SUFFICES ASSUME TypeOK, OneWriter, [Next]_vars PROVE OneWriter'
  OBVIOUS
<1> DEFINE Writing(v) == At(v, "parsing") \/ At(v, "written")
<1>1. ASSUME \A v \in Runs : Writing(v)' => Writing(v) /\ run'[v].batch = run[v].batch
      PROVE  OneWriter'
  BY <1>1 DEF OneWriter, RunsOf, At
<1>2. ASSUME NEW w \in Runs, NEW b \in Batches, StartRun(w, b) PROVE OneWriter'
  <2> DEFINE r == [batch |-> b, step |-> "parsing", seen |-> status[b],
                   again |-> status[b], active |-> TRUE]
  <2>1. run' = [run EXCEPT ![w] = r] /\ Writers(b) = {} /\ r.batch = b
    BY <1>2 DEF StartRun
  <2> HIDE DEF r
  <2>2. \A v \in Runs \ {w} : run'[v] = run[v] /\ run'[w] = r
    BY <2>1 DEF TypeOK
  <2> QED
    BY <2>1, <2>2 DEF OneWriter, RunsOf, Writers, At, TypeOK
<1>3. ASSUME NEW w \in Runs, NEW r \in Run, run[w] # Idle, r.batch = run[w].batch,
             r.step \in {"parsing", "written"} => Writing(w),
             run' = [run EXCEPT ![w] = r]
      PROVE  OneWriter'
  BY <1>1, <1>3 DEF TypeOK, At
<1>4. ASSUME NEW w \in Runs, WriteRows(w) PROVE OneWriter'
  <2> DEFINE r == [run[w] EXCEPT !.step = "written", !.again = status[run[w].batch]]
  <2>1. /\ run[w] # Idle /\ Writing(w) /\ run' = [run EXCEPT ![w] = r]
        /\ r \in Run /\ r.batch = run[w].batch
    BY <1>4 DEF WriteRows, At, TypeOK, Run
  <2> HIDE DEF r
  <2> QED
    BY <1>3, <2>1
<1>5. ASSUME NEW w \in Runs, SaveBatch(w) \/ RejectBatch(w) \/ RejectFails(w)
      PROVE  OneWriter'
  <2> DEFINE r == [run[w] EXCEPT !.step = "done"]
  <2>1. /\ run[w] # Idle /\ run' = [run EXCEPT ![w] = r]
        /\ r \in Run /\ r.batch = run[w].batch /\ r.step = "done"
    BY <1>5 DEF SaveBatch, RejectBatch, RejectFails, At, TypeOK, Run
  <2> HIDE DEF r
  <2> QED
    BY <1>3, <2>1
<1>6. ASSUME NEW w \in Runs, FailRun(w) PROVE OneWriter'
  <2> DEFINE r == [run[w] EXCEPT !.step = "failing"]
  <2>1. /\ run[w] # Idle /\ run' = [run EXCEPT ![w] = r]
        /\ r \in Run /\ r.batch = run[w].batch /\ r.step = "failing"
    BY <1>6 DEF FailRun, At, TypeOK, Run
  <2> HIDE DEF r
  <2> QED
    BY <1>3, <2>1
<1>7. ASSUME NEW w \in Runs, ExpireJob(w) PROVE OneWriter'
  <2> DEFINE r == [run[w] EXCEPT !.active = FALSE]
  <2>1. /\ run[w] # Idle /\ run' = [run EXCEPT ![w] = r]
        /\ r \in Run /\ r.batch = run[w].batch /\ r.step = run[w].step
    BY <1>7 DEF ExpireJob, TypeOK, Run
  <2> HIDE DEF r
  <2> QED
    BY <1>3, <2>1 DEF At
<1>8. CASE Crash \/ \E w \in Runs : CompleteJob(w)
  BY <1>1, <1>8 DEF Crash, CompleteJob, At, TypeOK
<1>9. CASE UNCHANGED run
  BY <1>1, <1>9 DEF At
<1> QED
  BY <1>2, <1>4, <1>5, <1>6, <1>7, <1>8, <1>9
     DEF Next, vars, Upload, SendJob, SendFails, SkipRun, PublishBatch, HoldBatch,
         RetrySave, RetryRead

\* What is held or published was held before, or has just been parsed.
LEMMA ParsedStep == TypeOK /\ HeldIsParsed /\ [Next]_vars => HeldIsParsed'
<1> SUFFICES ASSUME TypeOK, HeldIsParsed, [Next]_vars PROVE HeldIsParsed'
  OBVIOUS
<1>1. ASSUME NEW w \in Runs, SaveBatch(w) PROVE HeldIsParsed'
  <2>1. run[w].batch \in Batches
    BY <1>1 DEF SaveBatch, At, TypeOK, Run
  <2> QED
    BY <1>1, <2>1 DEF SaveBatch, HeldIsParsed, TypeOK
<1>2. ASSUME NEW w \in Runs, RejectBatch(w) PROVE HeldIsParsed'
  BY <1>2 DEF RejectBatch, HeldIsParsed, TypeOK
<1>3. ASSUME NEW b \in Batches, Upload(b) \/ PublishBatch(b) \/ HoldBatch(b)
      PROVE  HeldIsParsed'
  BY <1>3 DEF Upload, PublishBatch, HoldBatch, HeldIsParsed, TypeOK
<1>4. ASSUME NEW q \in Retries, RetrySave(q) PROVE HeldIsParsed'
  BY <1>4 DEF RetrySave, HeldIsParsed, TypeOK
<1>5. CASE UNCHANGED <<status, parsed>>
  BY <1>5 DEF HeldIsParsed
<1> QED
  BY <1>1, <1>2, <1>3, <1>4, <1>5
     DEF Next, vars, SendJob, SendFails, SkipRun, RetryRead, WriteRows, FailRun,
         RejectFails, CompleteJob, ExpireJob, StartRun, Crash

-----------------------------------------------------------------------------
(* JobsInv.                                                                  *)

\* Nothing about the batch changes.
SameRuns(c) == RunsOf(c)' = RunsOf(c) /\ \A w \in RunsOf(c) : run'[w] = run[w]

LEMMA Untouched ==
  ASSUME NEW c \in Batches, OneJob(c), SameRuns(c),
         status'[c] = status[c], sending'[c] = sending[c], jobs'[c] = jobs[c],
         c \in parsed' <=> c \in parsed
  PROVE  OneJob(c)'
  BY DEF OneJob, SameRuns, Writers, At, RunsOf

\* A step of a run, which leaves the other batches alone.
LEMMA OtherRuns ==
  ASSUME TypeOK, NEW w \in Runs, run[w] # Idle, NEW r \in Run,
         r.batch = run[w].batch, run' = [run EXCEPT ![w] = r],
         NEW c \in Batches, c # run[w].batch
  PROVE  SameRuns(c)
<1>1. w \notin RunsOf(c)
  BY DEF RunsOf
<1> QED
  BY <1>1, RunGoesOn DEF SameRuns, RunsOf

LEMMA RequestStep ==
  ASSUME IInv, NEW b \in Batches,
         Upload(b) \/ SendJob(b) \/ SendFails(b) \/ SkipRun(b)
           \/ PublishBatch(b) \/ HoldBatch(b)
  PROVE  JobsInv'
<1>1. UNCHANGED <<run, retry, again, parsed>>
  BY DEF Upload, SendJob, SendFails, SkipRun, PublishBatch, HoldBatch
<1>2. \A c \in Batches : RunsOf(c)' = RunsOf(c) /\ Writers(c)' = Writers(c) /\ SameRuns(c)
  BY <1>1 DEF RunsOf, Writers, At, SameRuns
<1>3. ASSUME NEW c \in Batches, c # b, OneJob(c) PROVE OneJob(c)'
  <2>1. status'[c] = status[c] /\ sending'[c] = sending[c] /\ jobs'[c] = jobs[c]
    BY <1>3 DEF Upload, SendJob, SendFails, SkipRun, TakeJob, PublishBatch, HoldBatch,
       IInv, TypeOK
  <2> QED
    BY <1>1, <1>2, <1>3, <2>1, Untouched
<1>4. ASSUME OneJob(b) PROVE OneJob(b)'
  <2>1. sending[b] \in Nat /\ jobs[b] \in Nat /\ status \in [Batches -> Status]
        /\ sending \in [Batches -> Nat] /\ jobs \in [Batches -> Nat]
    BY DEF IInv, TypeOK
  <2>2. CASE Upload(b)
    BY <1>1, <1>2, <1>4, <2>1, <2>2 DEF Upload, OneJob, Writers
  <2>3. CASE SendJob(b)
    BY <1>1, <1>2, <1>4, <2>1, <2>3 DEF SendJob, OneJob
  <2>4. CASE SendFails(b)
    BY <1>1, <1>2, <1>4, <2>1, <2>4 DEF SendFails, OneJob
  <2>5. CASE SkipRun(b)
    BY <1>1, <1>2, <1>4, <2>1, <2>5 DEF SkipRun, TakeJob, OneJob
  <2>6. CASE PublishBatch(b)
    BY <1>1, <1>2, <1>4, <2>1, <2>6 DEF PublishBatch, OneJob
  <2>7. CASE HoldBatch(b)
    BY <1>1, <1>2, <1>4, <2>1, <2>7 DEF HoldBatch, OneJob
  <2> QED
    BY <2>2, <2>3, <2>4, <2>5, <2>6, <2>7
<1> QED
  BY <1>1, <1>3, <1>4 DEF IInv, JobsInv

\* Only batches that are repeated are touched.
LEMMA RetryStep ==
  ASSUME IInv, NEW q \in Retries, RetrySave(q) \/ \E b \in Batches : RetryRead(q, b)
  PROVE  JobsInv'
<1>1. UNCHANGED <<run, parsed, jobs>>
  BY DEF RetrySave, RetryRead
<1>2. \A c \in Batches : SameRuns(c)
  BY <1>1 DEF RunsOf, SameRuns
<1>3. CASE RetrySave(q)
  <2>1. retry[q] \in again /\ again' = again
    BY <1>3 DEF RetrySave, IInv, JobsInv
  <2>2. \A c \in Batches \ again : status'[c] = status[c] /\ sending'[c] = sending[c]
    BY <1>3, <2>1 DEF RetrySave, IInv, TypeOK
  <2>3. \A p \in Retries : retry'[p] # Idle => retry'[p] \in again'
    BY <1>3, <2>1 DEF RetrySave, IInv, TypeOK, JobsInv
  <2> QED
    BY <1>1, <1>2, <2>1, <2>2, <2>3, Untouched DEF IInv, JobsInv
<1>4. ASSUME NEW b \in Batches, RetryRead(q, b) PROVE JobsInv'
  <2>1. again' = again \cup {b} /\ UNCHANGED <<status, sending>>
    BY <1>4 DEF RetryRead
  <2>2. \A p \in Retries : retry'[p] # Idle => retry'[p] \in again'
    BY <1>4, <2>1 DEF RetryRead, IInv, TypeOK, JobsInv
  <2> QED
    BY <1>1, <1>2, <2>1, <2>2, Untouched DEF IInv, JobsInv
<1> QED
  BY <1>3, <1>4

\* The job of a batch that is not repeated finds it processing, and no run of it.
LEMMA StartStep ==
  ASSUME IInv, NEW w \in Runs, NEW b \in Batches, StartRun(w, b)
  PROVE  JobsInv'
<1> DEFINE r == [batch |-> b, step |-> "parsing", seen |-> status[b],
                 again |-> status[b], active |-> TRUE]
<1>1. /\ run[w] = Idle /\ run' = [run EXCEPT ![w] = r]
      /\ r \in Run /\ r.batch = b /\ r.seen = status[b]
      /\ jobs[b] > 0 /\ jobs' = [jobs EXCEPT ![b] = @ - 1]
      /\ UNCHANGED <<status, parsed, sending, retry, again>>
  BY DEF StartRun, TakeJob, IInv, TypeOK, Run
<1> HIDE DEF r
<1>2. /\ run'[w] = r /\ r # Idle /\ \A v \in Runs \ {w} : run'[v] = run[v]
      /\ jobs'[b] = jobs[b] - 1 /\ \A c \in Batches \ {b} : jobs'[c] = jobs[c]
      /\ sending[b] \in Nat /\ jobs[b] \in Nat
  BY <1>1, IdleAssumption DEF IInv, TypeOK
<1>3. ASSUME NEW c \in Batches, c # b, OneJob(c) PROVE OneJob(c)'
  <2>1. SameRuns(c)
    BY <1>1, <1>2, <1>3 DEF SameRuns, RunsOf
  <2> QED
    BY <1>1, <1>2, <1>3, <2>1, Untouched
<1>4. ASSUME OneJob(b) PROVE OneJob(b)'
  <2>1. RunsOf(b) = {} /\ status[b] = "processing" /\ sending[b] + jobs[b] = 1
    BY <1>1, <1>2, <1>4 DEF OneJob
  <2>2. RunsOf(b)' = {w}
    BY <1>1, <1>2, <2>1 DEF RunsOf
  <2>3. Writers(b)' \subseteq {w}
    BY <2>2 DEF Writers
  <2> QED
    BY <1>1, <1>2, <2>1, <2>2, <2>3 DEF OneJob
<1> QED
  BY <1>1, <1>3, <1>4 DEF IInv, JobsInv

\* The only run of a batch goes on.
LEMMA RunStep ==
  ASSUME IInv, NEW w \in Runs,
         WriteRows(w) \/ SaveBatch(w) \/ FailRun(w) \/ RejectBatch(w) \/ RejectFails(w)
  PROVE  JobsInv'
<1> DEFINE r == run'[w]
<1>0. run[w] # Idle /\ run[w] \in Run /\ run[w].batch \in Batches
  BY RunHasBatch DEF WriteRows, SaveBatch, FailRun, RejectBatch, RejectFails, At, IInv
<1> PICK b \in Batches : b = run[w].batch
  BY <1>0
<1>1. run[w] # Idle /\ w \in RunsOf(b) /\ run[w] \in Run
  BY <1>0 DEF RunsOf
<1>2. /\ r \in Run /\ r.batch = b /\ r.seen = run[w].seen /\ run' = [run EXCEPT ![w] = r]
      /\ r.step \in {"parsing", "written"} => w \in Writers(b) /\ UNCHANGED status
  <2>1. CASE WriteRows(w)
    BY <1>1, <2>1 DEF WriteRows, At, IInv, TypeOK, Run, Writers
  <2>2. CASE ~WriteRows(w)
    BY <1>1, <2>2 DEF SaveBatch, FailRun, RejectBatch, RejectFails, At, IInv, TypeOK, Run
  <2> QED
    BY <2>1, <2>2
<1>3. UNCHANGED <<sending, jobs, retry, again>>
  BY DEF WriteRows, SaveBatch, FailRun, RejectBatch, RejectFails
<1>4. \A c \in Batches \ {b} : status'[c] = status[c] /\ (c \in parsed' <=> c \in parsed)
  BY <1>1 DEF WriteRows, SaveBatch, FailRun, RejectBatch, RejectFails, IInv, TypeOK
<1> HIDE DEF r
<1>5. ASSUME NEW c \in Batches, c # b, OneJob(c) PROVE OneJob(c)'
  BY <1>1, <1>2, <1>3, <1>4, <1>5, OtherRuns, Untouched DEF IInv
<1>6. ASSUME OneJob(b) PROVE OneJob(b)'
  <2>1. RunsOf(b)' = RunsOf(b) /\ RunsOf(b) = {w} /\ run'[w] = r
    <3>1. RunsOf(b) = {w}
      BY <1>1, <1>6 DEF OneJob
    <3> QED
      BY <1>1, <1>2, <3>1, RunGoesOn DEF IInv
  <2>2. sending[b] + jobs[b] = 0 /\ status[b] # "none"
    BY <1>1, <1>6 DEF IInv, TypeOK, OneJob
  <2>3. status'[b] # "none"
    <3>1. CASE SaveBatch(w)
      <4>1. run[w].seen = "processing"
        BY <1>1, <1>6, <3>1 DEF SaveBatch, OneJob, Writers
      <4> QED
        BY <1>1, <3>1, <4>1 DEF SaveBatch, IInv, TypeOK
    <3>2. CASE RejectBatch(w)
      BY <1>1, <3>2 DEF RejectBatch, IInv, TypeOK
    <3>3. CASE UNCHANGED status
      BY <2>2, <3>3
    <3> QED
      BY <3>1, <3>2, <3>3 DEF WriteRows, FailRun, RejectFails
  <2>4. ASSUME NEW v \in Writers(b)'
        PROVE  run'[v].seen = "processing" /\ status'[b] = "processing"
    <3>1. v = w /\ r.step \in {"parsing", "written"}
      BY <2>1, <2>4 DEF Writers, At
    <3> QED
      BY <1>2, <1>6, <2>1, <3>1 DEF OneJob
  <2> QED
    BY <1>3, <2>1, <2>2, <2>3, <2>4 DEF OneJob
<1> QED
  BY <1>3, <1>5, <1>6 DEF IInv, JobsInv

LEMMA CompleteStep ==
  ASSUME IInv, NEW w \in Runs, CompleteJob(w)
  PROVE  JobsInv'
<1>1. /\ run'[w] = Idle /\ \A v \in Runs \ {w} : run'[v] = run[v]
      /\ UNCHANGED <<status, parsed, sending, jobs, retry, again>>
  BY DEF CompleteJob, IInv, TypeOK
<1>2. ASSUME NEW c \in Batches
      PROVE  /\ RunsOf(c)' \subseteq RunsOf(c) /\ Writers(c)' \subseteq Writers(c)
             /\ \A v \in RunsOf(c)' : run'[v] = run[v]
  BY <1>1 DEF RunsOf, Writers, At
<1> QED
  BY <1>1, <1>2 DEF IInv, JobsInv, OneJob, Writers

LEMMA ExpireStep ==
  ASSUME IInv, NEW w \in Runs, ExpireJob(w)
  PROVE  JobsInv'
<1> DEFINE b == run[w].batch
           r == [run[w] EXCEPT !.active = FALSE]
<1>1. /\ run[w] # Idle /\ b \in Batches /\ run[w] \in Run
      /\ r \in Run /\ r.batch = b /\ run' = [run EXCEPT ![w] = r]
  BY RunHasBatch DEF ExpireJob, IInv, Run
<1>2. /\ UNCHANGED <<status, parsed, sending, retry>> /\ again' = again \cup {b}
      /\ \A c \in Batches \ {b} : jobs'[c] = jobs[c]
  BY <1>1 DEF ExpireJob, IInv, TypeOK
<1> HIDE DEF r
<1>3. ASSUME NEW c \in Batches, c # b, OneJob(c) PROVE OneJob(c)'
  BY <1>1, <1>2, <1>3, OtherRuns, Untouched DEF IInv
<1> QED
  BY <1>2, <1>3 DEF IInv, JobsInv

\* A job is delivered again only if a run had it in hand.
LEMMA CrashStep ==
  ASSUME IInv, Crash
  PROVE  JobsInv'
<1>1. /\ UNCHANGED <<status, parsed>>
      /\ \A w \in Runs : run'[w] = Idle
      /\ \A q \in Retries : retry'[q] = Idle
      /\ again \subseteq again'
      /\ \A b \in Batches : sending'[b] = 0
      /\ \A b \in Batches : b \notin again' => jobs'[b] = jobs[b]
  BY DEF Crash
<1>2. \A b \in Batches : RunsOf(b)' = {} /\ Writers(b)' = {}
  BY <1>1 DEF RunsOf, Writers
<1>3. ASSUME NEW b \in Batches, b \notin again' PROVE OneJob(b)'
  <2>1. OneJob(b) /\ sending[b] \in Nat /\ jobs[b] \in Nat
    BY <1>1, <1>3 DEF IInv, JobsInv, TypeOK
  <2> QED
    BY <1>1, <1>2, <1>3, <2>1 DEF OneJob
<1> QED
  BY <1>1, <1>3 DEF JobsInv

LEMMA NextIInv == IInv /\ [Next]_vars => IInv'
<1> SUFFICES ASSUME IInv, [Next]_vars PROVE IInv'
  OBVIOUS
<1>1. TypeOK' /\ OneWriter' /\ HeldIsParsed'
  BY TypeStep, WriterStep, ParsedStep DEF IInv
<1>2. ASSUME UNCHANGED vars PROVE JobsInv'
  <2>1. \A c \in Batches : SameRuns(c)
    BY <1>2 DEF vars, SameRuns, RunsOf
  <2> QED
    BY <1>2, <2>1, Untouched DEF vars, IInv, JobsInv
<1>3. ASSUME NEW b \in Batches,
             Upload(b) \/ SendJob(b) \/ SendFails(b) \/ SkipRun(b)
               \/ PublishBatch(b) \/ HoldBatch(b)
      PROVE  JobsInv'
  BY <1>3, RequestStep
<1>4. ASSUME NEW q \in Retries, RetrySave(q) \/ \E b \in Batches : RetryRead(q, b)
      PROVE  JobsInv'
  BY <1>4, RetryStep
<1>5. ASSUME NEW w \in Runs,
             WriteRows(w) \/ SaveBatch(w) \/ FailRun(w) \/ RejectBatch(w) \/ RejectFails(w)
      PROVE  JobsInv'
  BY <1>5, RunStep
<1>6. ASSUME NEW w \in Runs, CompleteJob(w) \/ ExpireJob(w) PROVE JobsInv'
  BY <1>6, CompleteStep, ExpireStep
<1>7. ASSUME NEW w \in Runs, NEW b \in Batches, StartRun(w, b) PROVE JobsInv'
  BY <1>7, StartStep
<1>8. ASSUME Crash PROVE JobsInv'
  BY <1>8, CrashStep
<1> QED
  BY <1>1, <1>2, <1>3, <1>4, <1>5, <1>6, <1>7, <1>8 DEF Next, IInv

-----------------------------------------------------------------------------
(***************************************************************************)
(* Every variable of ParseJob keeps its type, whatever overlaps, fails or  *)
(* is delivered again.                                                     *)
(***************************************************************************)
THEOREM TypeCorrect == Spec => []TypeOK
<1>1. IInv => TypeOK
  BY DEF IInv
<1> QED
  BY <1>1, InitIInv, NextIInv, PTL DEF Spec

(***************************************************************************)
(* The advisory lock of processBatchJob keeps the runs of a batch apart.   *)
(***************************************************************************)
THEOREM RunsExclude == Spec => []OneWriter
<1>1. IInv => OneWriter
  BY DEF IInv
<1> QED
  BY <1>1, InitIInv, NextIInv, PTL DEF Spec

(***************************************************************************)
(* A batch that can be published, or is, has a committed parse.            *)
(***************************************************************************)
THEOREM PublishableIsParsed == Spec => []HeldIsParsed
<1>1. IInv => HeldIsParsed
  BY DEF IInv
<1> QED
  BY <1>1, InitIInv, NextIInv, PTL DEF Spec

(***************************************************************************)
(* A batch nobody retries and whose job is delivered once is parsed once,  *)
(* while it is processing: what the theorems about Catalog ask of the      *)
(* queue.                                                                  *)
(***************************************************************************)
THEOREM OneParseUnlessRepeated == Spec => []ParsedOnceUnlessRepeated
<1>1. IInv => ParsedOnceUnlessRepeated
  <2> SUFFICES ASSUME IInv, NEW b \in Batches, b \notin again
      PROVE  /\ sending[b] + jobs[b] + Cardinality(RunsOf(b)) <= 1
             /\ sending[b] + jobs[b] > 0 => status[b] = "processing" /\ b \notin parsed
             /\ \A w \in Writers(b) : run[w].seen = "processing" /\ status[b] = "processing"
    BY DEF ParsedOnceUnlessRepeated
  <2>1. OneJob(b) /\ sending[b] \in Nat /\ jobs[b] \in Nat
    BY DEF IInv, JobsInv, TypeOK
  <2>2. CASE RunsOf(b) = {}
    BY <2>1, <2>2, FS_EmptySet DEF OneJob
  <2>3. CASE RunsOf(b) # {}
    <3>1. PICK w \in RunsOf(b) : TRUE
      BY <2>3
    <3>2. RunsOf(b) = {w} /\ sending[b] + jobs[b] = 0
      BY <2>1, <2>3, <3>1 DEF OneJob
    <3>3. Cardinality(RunsOf(b)) = 1
      BY <3>2, FS_Singleton
    <3> QED
      BY <2>1, <3>2, <3>3 DEF OneJob
  <2> QED
    BY <2>2, <2>3
<1> QED
  BY <1>1, InitIInv, NextIInv, PTL DEF Spec
=============================================================================
