------------------------------ MODULE JobQueue ------------------------------
(***************************************************************************)
(* The durable job queue: the jobs and job_events tables as PgJobRepository *)
(* changes them (crates/persistence), and the worker processes that claim  *)
(* and carry out jobs (apps/worker).                                       *)
(*                                                                         *)
(* A transaction of the repository is one step, except claim_next: the row *)
(* it has locked is skipped by every other claim until it commits or rolls *)
(* back, so the lock and the commit are two steps.                         *)
(*                                                                         *)
(* A call of the repository has three outcomes for the worker: applied and *)
(* acknowledged, not applied (an error, or a guarded UPDATE that matched   *)
(* no row), and applied without the acknowledgement reaching the worker,   *)
(* which then sees an error for a change that was made.                    *)
(*                                                                         *)
(* Not modelled: available_at (never set after the insert), the lease and  *)
(* heartbeat timestamps (written, read by no statement), and the texts of  *)
(* messages, results and errors.                                           *)
(***************************************************************************)
EXTENDS Naturals, Sequences, FiniteSets

CONSTANTS Jobs,       \* identities of jobs, the only bound on the queue
          Times,      \* values of created_at
          Workers,    \* worker processes, each with a WORKER_ID of its own
          Queues,     \* Queues[w]: the kinds in WORKER_QUEUES of w
          OneShot,    \* the workers started with WORKER_RUN_ONCE
          None        \* the NULL of lease_owner, and of "no job"

Kinds == {"system_probe", "transcribe"}

ASSUME TimesAssumption   == Times \subseteq Nat
ASSUME QueuesAssumption  == Queues \in [Workers -> SUBSET Kinds]
ASSUME OneShotAssumption == OneShot \subseteq Workers
ASSUME NoneAssumption    == None \notin Workers /\ None \notin Jobs

VARIABLES jobs,    \* the rows of the jobs table
          events,  \* events[j]: rows of job_events of j in sequence order
          worker   \* the control state of each worker process

vars == <<jobs, events, worker>>

Terminal == {"succeeded", "failed"}
Statuses == {"absent", "queued", "running"} \cup Terminal

-----------------------------------------------------------------------------
(***************************************************************************)
(* The progress calls a handler makes, in order, as percentages.           *)
(***************************************************************************)
Call(phase, progress) == [phase |-> phase, progress |-> progress]

ProbeCalls ==
  << Call("validating", 15), Call("checking_infrastructure", 55),
     Call("finalizing", 90) >>

TranscribeCalls ==
  << Call("normalizing", 15), Call("transcribing", 45),
     Call("post_processing", 78), Call("finalizing", 95) >>

Calls(kind) == IF kind = "transcribe" THEN TranscribeCalls ELSE ProbeCalls

Phases == {"", "queued", "validating", "checking_infrastructure",
           "normalizing", "transcribing", "post_processing", "finalizing",
           "complete", "failed"}

(***************************************************************************)
(* A row of jobs, an event, and a worker's control state.  pc is "poll"    *)
(* while claim_next is in flight or slept on, "claim" while its            *)
(* transaction holds a row lock, "handle" inside handle_job, "report" when *)
(* the handler has returned an error, "down" when no process runs.         *)
(***************************************************************************)
Job == [kind : Kinds, status : Statuses, phase : Phases, progress : Nat,
        attempt : Nat, owner : Workers \cup {None}, created : Nat]

Event == [status : Statuses, phase : Phases, progress : Nat]

Worker == [pc : {"poll", "claim", "handle", "report", "down"},
           job : Jobs \cup {None}, step : Nat]

TypeOK ==
  /\ jobs \in [Jobs -> Job]
  /\ events \in [Jobs -> Seq(Event)]
  /\ worker \in [Workers -> Worker]

Absent == [kind |-> "system_probe", status |-> "absent", phase |-> "",
           progress |-> 0, attempt |-> 0, owner |-> None, created |-> 0]

Down == [pc |-> "down", job |-> None, step |-> 0]
Poll == [pc |-> "poll", job |-> None, step |-> 0]

Init ==
  /\ jobs = [j \in Jobs |-> Absent]
  /\ events = [j \in Jobs |-> <<>>]
  /\ worker = [w \in Workers |-> Down]

-----------------------------------------------------------------------------
(***************************************************************************)
(* append_event: the event copies status, phase and progress of the row,   *)
(* and its sequence number is the next one of the job.                     *)
(***************************************************************************)
EventOf(row) ==
  [status |-> row.status, phase |-> row.phase, progress |-> row.progress]

(* Variant: the event is written from the row read before the update. *)
StoreStaleEvent(j, row) ==
  /\ jobs' = [jobs EXCEPT ![j] = row]
  /\ events' = [events EXCEPT ![j] = Append(@, EventOf(jobs[j]))]

Store(j, row) ==
  /\ jobs' = [jobs EXCEPT ![j] = row]
  /\ events' = [events EXCEPT ![j] = Append(@, EventOf(row))]

Inserted == {j \in Jobs : jobs[j].status # "absent"}

QueuedRow(kind, stamp) ==
  [kind |-> kind, status |-> "queued", phase |-> "queued", progress |-> 0,
   attempt |-> 0, owner |-> None, created |-> stamp]

(***************************************************************************)
(* enqueue_probe, and the insert of enqueue for a transcription.  The row  *)
(* carries the time at which its transaction started: rows of concurrent   *)
(* transactions may have equal stamps, or become visible in another order. *)
(***************************************************************************)
Enqueue(j, kind) ==
  /\ jobs[j].status = "absent"
  /\ \E stamp \in Times : Store(j, QueuedRow(kind, stamp))
  /\ UNCHANGED worker

-----------------------------------------------------------------------------
(* claim_next *)

Locked == {worker[w].job : w \in {v \in Workers : worker[v].pc = "claim"}}

(* Variant: running rows are candidates too, as if every lease had expired. *)
ClaimableRunning(w) ==
  {j \in Jobs \ Locked :
     jobs[j].status \in {"queued", "running"} /\ jobs[j].kind \in Queues[w]}

(* Variant: the kind is looked at after ORDER BY and LIMIT 1. *)
ClaimableHead(w) ==
  {j \in Jobs \ Locked :
     /\ jobs[j].status = "queued" /\ jobs[j].kind \in Queues[w]
     /\ \A i \in Inserted :
          jobs[i].status = "queued" => jobs[j].created <= jobs[i].created}

Claimable(w) ==
  {j \in Jobs \ Locked :
     jobs[j].status = "queued" /\ jobs[j].kind \in Queues[w]}

ClaimLock(w) ==
  /\ worker[w].pc = "poll"
  /\ \E j \in Claimable(w) :
       /\ \A i \in Claimable(w) : jobs[j].created <= jobs[i].created
       /\ worker' = [worker EXCEPT ![w] = [pc |-> "claim", job |-> j, step |-> 0]]
  /\ UNCHANGED <<jobs, events>>

(* No candidate row: a run-once worker ends, any other sleeps and polls.   *)
ClaimNothing(w) ==
  /\ worker[w].pc = "poll"
  /\ Claimable(w) = {}
  /\ w \in OneShot
  /\ worker' = [worker EXCEPT ![w] = Down]
  /\ UNCHANGED <<jobs, events>>

ClaimedRow(row, w) ==
  [row EXCEPT !.status = "running", !.phase = "validating",
              !.attempt = @ + 1, !.owner = w]

(***************************************************************************)
(* The claim commits.  Without the acknowledgement the worker warns and    *)
(* polls again: the row stays running, and no process knows that it owns   *)
(* it.                                                                     *)
(***************************************************************************)
ClaimCommit(w) ==
  /\ worker[w].pc = "claim"
  /\ Store(worker[w].job, ClaimedRow(jobs[worker[w].job], w))
  /\ \/ worker' = [worker EXCEPT ![w].pc = "handle"]
     \/ worker' = [worker EXCEPT ![w] = Poll]

ClaimRollback(w) ==
  /\ worker[w].pc = "claim"
  /\ worker' = [worker EXCEPT ![w] = Poll]
  /\ UNCHANGED <<jobs, events>>

-----------------------------------------------------------------------------
(* update_progress, complete, fail: all guarded by owner and status. *)

(* Variant: the UPDATEs look for the id only. *)
OwnsAnything(w, j) == jobs[j].status # "absent"

Owns(w, j) == jobs[j].owner = w /\ jobs[j].status = "running"

ProgressRow(row, call) ==
  [row EXCEPT !.phase = call.phase,
              !.progress = IF call.progress > @ THEN call.progress ELSE @]

CompleteRow(row) ==
  [row EXCEPT !.status = "succeeded", !.phase = "complete",
              !.progress = 100, !.owner = None]

FailRow(row) ==
  [row EXCEPT !.status = "failed", !.phase = "failed", !.owner = None]

(* The worker once the loop body of a claimed job is over. *)
Finished(w) == IF w \in OneShot THEN Down ELSE Poll

Handling(w) == worker[w].pc = "handle"
Pending(w)  == worker[w].step < Len(Calls(jobs[worker[w].job].kind))

(* Variant: a call whose acknowledgement was lost is made again. *)
ProgressRetried(w) ==
  LET j == worker[w].job IN
  /\ Handling(w)
  /\ Pending(w)
  /\ Owns(w, j)
  /\ Store(j, ProgressRow(jobs[j], Calls(jobs[j].kind)[worker[w].step + 1]))
  /\ \/ worker' = [worker EXCEPT ![w].step = @ + 1]
     \/ UNCHANGED worker

Progress(w) ==
  LET j == worker[w].job IN
  /\ Handling(w)
  /\ Pending(w)
  /\ Owns(w, j)
  /\ Store(j, ProgressRow(jobs[j], Calls(jobs[j].kind)[worker[w].step + 1]))
  /\ \/ worker' = [worker EXCEPT ![w].step = @ + 1]
     \/ worker' = [worker EXCEPT ![w].pc = "report"]

Complete(w) ==
  LET j == worker[w].job IN
  /\ Handling(w)
  /\ ~ Pending(w)
  /\ Owns(w, j)
  /\ Store(j, CompleteRow(jobs[j]))
  /\ \/ worker' = [worker EXCEPT ![w] = Finished(w)]
     \/ worker' = [worker EXCEPT ![w].pc = "report"]

(***************************************************************************)
(* The handler returns an error with nothing applied: its next call is     *)
(* refused or fails, or the work between two calls does (payload, ffmpeg,  *)
(* transcriber, result file, activation of the transcript).                *)
(***************************************************************************)
HandlerError(w) ==
  /\ Handling(w)
  /\ worker' = [worker EXCEPT ![w].pc = "report"]
  /\ UNCHANGED <<jobs, events>>

(* The loop calls fail once; what becomes of the call is ignored. *)
ReportFailure(w) ==
  LET j == worker[w].job IN
  /\ worker[w].pc = "report"
  /\ Owns(w, j)
  /\ Store(j, FailRow(jobs[j]))
  /\ worker' = [worker EXCEPT ![w] = Finished(w)]

(* Variant: the job is handled again when its failure cannot be reported. *)
ReportLostRetried(w) ==
  /\ worker[w].pc = "report"
  /\ worker' = [worker EXCEPT ![w].pc = "handle"]
  /\ UNCHANGED <<jobs, events>>

ReportLost(w) ==
  /\ worker[w].pc = "report"
  /\ worker' = [worker EXCEPT ![w] = Finished(w)]
  /\ UNCHANGED <<jobs, events>>

-----------------------------------------------------------------------------
(***************************************************************************)
(* The process ends at any point: Ctrl-C while a claim is in flight, a     *)
(* kill, a crash.  An open claim rolls back.  Started again, it polls and  *)
(* remembers nothing of the job it had.                                    *)
(***************************************************************************)
Stop(w) ==
  /\ worker[w].pc # "down"
  /\ worker' = [worker EXCEPT ![w] = Down]
  /\ UNCHANGED <<jobs, events>>

Start(w) ==
  /\ worker[w].pc = "down"
  /\ worker' = [worker EXCEPT ![w] = Poll]
  /\ UNCHANGED <<jobs, events>>

Handle(w) == Progress(w) \/ Complete(w) \/ HandlerError(w)
Report(w) == ReportFailure(w) \/ ReportLost(w)

WorkerStep(w) ==
  \/ ClaimLock(w) \/ ClaimNothing(w) \/ ClaimCommit(w) \/ ClaimRollback(w)
  \/ Progress(w) \/ Complete(w) \/ HandlerError(w)
  \/ ReportFailure(w) \/ ReportLost(w)
  \/ Stop(w) \/ Start(w)

Next ==
  \/ \E j \in Jobs, kind \in Kinds : Enqueue(j, kind)
  \/ \E w \in Workers : WorkerStep(w)

Spec == Init /\ [][Next]_vars
-----------------------------------------------------------------------------
(***************************************************************************)
(* Fairness.  A worker process that is not killed goes on: claim_next is   *)
(* polled for ever and a rolled back claim is tried again, so a claim that *)
(* could be made or committed again and again eventually is (strong        *)
(* fairness: the database does not refuse every attempt); a handler ends,  *)
(* since ffmpeg and the transcriber run under a timeout and every call of  *)
(* the database returns (weak fairness of Handle and Report, which does    *)
(* not say that it ends well).  Nothing makes a process start or stop.     *)
(***************************************************************************)
WorkerFairness(w) ==
  /\ SF_vars(ClaimLock(w))
  /\ SF_vars(ClaimCommit(w))
  /\ WF_vars(Handle(w))
  /\ WF_vars(Report(w))

FairSpec == Spec /\ \A w \in Workers : WorkerFairness(w)

(* As FairSpec, under a supervisor that starts a stopped process again. *)
SupervisedSpec == FairSpec /\ \A w \in Workers : WF_vars(Start(w))

-----------------------------------------------------------------------------
(***************************************************************************)
(* The events of a job that runs through its handler to the end: inserted, *)
(* claimed, one per progress call, completed.                              *)
(***************************************************************************)
Milestone(kind, i) ==
  LET calls == Calls(kind) IN
  CASE i = 1 -> [status |-> "queued", phase |-> "queued", progress |-> 0]
    [] i = 2 -> [status |-> "running", phase |-> "validating", progress |-> 0]
    [] i \in 3..Len(calls) + 2 ->
         [status |-> "running", phase |-> calls[i - 2].phase,
          progress |-> calls[i - 2].progress]
    [] OTHER ->
         [status |-> "succeeded", phase |-> "complete", progress |-> 100]

(***************************************************************************)
(* The event log of a job is a prefix of its pipeline, closed by a failure *)
(* event that keeps the progress reached, if it failed.  Whatever worker   *)
(* wrote it, and whatever acknowledgements were lost, no call is recorded  *)
(* twice, out of order or after the end, and a job is succeeded exactly    *)
(* when every call of its handler is recorded (crates/persistence          *)
(* append_event and its callers; the handlers of apps/worker).             *)
(***************************************************************************)
LogFollowsPipeline ==
  \A j \in Jobs :
    LET log == events[j] IN
    \A i \in DOMAIN log :
      \/ /\ i <= Len(Calls(jobs[j].kind)) + 3
         /\ log[i] = Milestone(jobs[j].kind, i)
      \/ /\ i = Len(log) /\ i > 2
         /\ log[i] = [status |-> "failed", phase |-> "failed",
                      progress |-> log[i - 1].progress]

(***************************************************************************)
(* The last event shows the row as it is: who replays the events of a job  *)
(* and who reads the row agree on status, phase and progress.              *)
(***************************************************************************)
LastEventIsRow ==
  \A j \in Inserted :
    /\ events[j] # <<>>
    /\ events[j][Len(events[j])] = EventOf(jobs[j])

(***************************************************************************)
(* No two processes carry out the same job, and a process that does is the *)
(* recorded owner unless the job has already reached a terminal status (a  *)
(* completion whose acknowledgement was lost).                             *)
(***************************************************************************)
Busy(w) == worker[w].pc \in {"handle", "report"}

OneWorkerPerJob ==
  \A w \in Workers : Busy(w) =>
    /\ \/ Owns(w, worker[w].job)
       \/ /\ worker[w].pc = "report"
          /\ jobs[worker[w].job].status = "succeeded"
    /\ \A v \in Workers \ {w} :
         worker[v].pc # "down" => worker[v].job # worker[w].job

(***************************************************************************)
(* Every attempt took a job out of the queue: the counter that claim_next  *)
(* increments is the number of times the log says that the job was queued  *)
(* and then something else, and the job is owned exactly while it runs.    *)
(* Two claims never take a job for one time it was queued, whatever is     *)
(* lost or rolled back.                                                    *)
(***************************************************************************)
QueuedBefore(log) == {i \in DOMAIN log : i < Len(log) /\ log[i].status = "queued"}

AttemptsWereQueued ==
  \A j \in Jobs :
    /\ (jobs[j].owner # None) <=> (jobs[j].status = "running")
    /\ jobs[j].attempt = Cardinality(QueuedBefore(events[j]))

(***************************************************************************)
(* A terminal job never changes again, neither its row nor its events: a   *)
(* late or repeated call of a worker leaves it as it is.                   *)
(***************************************************************************)
TerminalIsFinal ==
  [][\A j \in Jobs : jobs[j].status \in Terminal =>
       jobs'[j] = jobs[j] /\ events'[j] = events[j]]_vars

(* The job is running and no process is at work on it. *)
Abandoned(j) ==
  /\ jobs[j].status = "running"
  /\ \A w \in Workers : ~ (Busy(w) /\ worker[w].job = j)

(***************************************************************************)
(* Every claimed job is settled, or abandoned by the process that had it:  *)
(* a handler never keeps a job running for ever (its subprocesses are      *)
(* killed by a timeout and every error leads to the one call of fail).     *)
(***************************************************************************)
SettledOrAbandoned ==
  \A j \in Jobs :
    (jobs[j].status = "running") ~> (jobs[j].status \in Terminal \/ Abandoned(j))

(***************************************************************************)
(* A queued job is claimed, if some worker of its kind runs on for ever:   *)
(* locks of other claims, rollbacks and younger jobs do not starve it.     *)
(***************************************************************************)
Serves(w, j) ==
  /\ worker[w].pc # "down"
  /\ jobs[j].status # "absent" => jobs[j].kind \in Queues[w]

QueuedIsClaimed ==
  \A j \in Jobs :
    (\E w \in Workers : <>[] Serves(w, j)) =>
      ((jobs[j].status = "queued") ~> (jobs[j].status # "queued"))

(***************************************************************************)
(* "a lease and heartbeat make abandoned work recoverable"                 *)
(* (docs/ARCHITECTURE.md:280): a running job reaches a terminal status     *)
(* when processes that stop are started again.  The code does not do this. *)
(***************************************************************************)
AbandonedWorkIsRecovered ==
  \A j \in Jobs :
    (jobs[j].status = "running") ~> (jobs[j].status \in Terminal)

(***************************************************************************)
(* The watchers' view of the tables.                                       *)
(***************************************************************************)
Feed == INSTANCE JobFeed WITH
  status <- [j \in Jobs |-> jobs[j].status],
  feed   <- [j \in Jobs |-> [i \in DOMAIN events[j] |-> events[j][i].status]]

(***************************************************************************)
(* Every step of the queue is, for a watcher, one step of JobFeed or none. *)
(***************************************************************************)
ImplementsFeed == Feed!Spec
=============================================================================
