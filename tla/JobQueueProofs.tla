--------------------------- MODULE JobQueueProofs ---------------------------
(***************************************************************************)
(* Theorems about JobQueue, for any jobs, workers, queues and stamps.      *)
(*                                                                         *)
(* None of the properties is inductive by itself.  What ties them together *)
(* is the relation of a worker's control state to the row of the job it    *)
(* has at hand: queued and locked while it claims, its own and running     *)
(* while it handles, its own or succeeded while it reports a failure; and  *)
(* that two workers never have the same job at hand.                       *)
(***************************************************************************)
EXTENDS JobQueue, SequenceTheorems, FiniteSetTheorems, TLAPS

JobsAtHand ==
  \A w \in Workers :
    /\ worker[w].job = None <=> worker[w].pc \in {"poll", "down"}
    /\ worker[w].pc = "claim" => jobs[worker[w].job].status = "queued"
    /\ worker[w].pc = "handle" => Owns(w, worker[w].job)
    /\ worker[w].pc = "report" =>
         Owns(w, worker[w].job) \/ jobs[worker[w].job].status = "succeeded"

WorkersApart ==
  \A v, w \in Workers :
    v # w /\ worker[v].job # None => worker[v].job # worker[w].job

NothingYet == \A j \in Jobs \ Inserted : events[j] = <<>>

IInv ==
  /\ TypeOK /\ LastEventIsRow /\ NothingYet /\ AttemptsWereQueued
  /\ JobsAtHand /\ WorkersApart

-----------------------------------------------------------------------------
(* Every progress call of a handler has a phase and a percentage. *)
LEMMA CallFacts ==
  \A kind \in Kinds :
    /\ Len(Calls(kind)) \in Nat
    /\ \A i \in 1..Len(Calls(kind)) :
         Calls(kind)[i].phase \in Phases /\ Calls(kind)[i].progress \in Nat
<1>1. \A phase \in Phases, progress \in Nat :
        /\ Call(phase, progress).phase \in Phases
        /\ Call(phase, progress).progress \in Nat
  BY DEF Call
<1>2. /\ Len(ProbeCalls) = 3
      /\ \A i \in 1..3 :
           ProbeCalls[i].phase \in Phases /\ ProbeCalls[i].progress \in Nat
  <2>1. /\ Len(ProbeCalls) = 3
        /\ ProbeCalls[1] = Call("validating", 15)
        /\ ProbeCalls[2] = Call("checking_infrastructure", 55)
        /\ ProbeCalls[3] = Call("finalizing", 90)
    BY DEF ProbeCalls
  <2>2. {"validating", "checking_infrastructure", "finalizing"} \subseteq Phases
    BY DEF Phases
  <2> QED
    BY <1>1, <2>1, <2>2
<1>3. /\ Len(TranscribeCalls) = 4
      /\ \A i \in 1..4 :
           TranscribeCalls[i].phase \in Phases /\ TranscribeCalls[i].progress \in Nat
  <2>1. /\ Len(TranscribeCalls) = 4
        /\ TranscribeCalls[1] = Call("normalizing", 15)
        /\ TranscribeCalls[2] = Call("transcribing", 45)
        /\ TranscribeCalls[3] = Call("post_processing", 78)
        /\ TranscribeCalls[4] = Call("finalizing", 95)
    BY DEF TranscribeCalls
  <2>2. {"normalizing", "transcribing", "post_processing", "finalizing"} \subseteq Phases
    BY DEF Phases
  <2> QED
    BY <1>1, <2>1, <2>2
<1>4. TAKE kind \in Kinds
<1>5. CASE kind = "transcribe"
  <2>1. Calls(kind) = TranscribeCalls
    BY <1>5 DEF Calls
  <2>2. Len(Calls(kind)) = 4
    BY <1>3, <2>1
  <2>3. \A i \in 1..4 :
          Calls(kind)[i].phase \in Phases /\ Calls(kind)[i].progress \in Nat
    BY <1>3, <2>1
  <2> QED
    BY <2>2, <2>3
<1>6. CASE kind # "transcribe"
  <2>1. Calls(kind) = ProbeCalls
    BY <1>6 DEF Calls
  <2>2. Len(Calls(kind)) = 3
    BY <1>2, <2>1
  <2>3. \A i \in 1..3 :
          Calls(kind)[i].phase \in Phases /\ Calls(kind)[i].progress \in Nat
    BY <1>2, <2>1
  <2> QED
    BY <2>2, <2>3
<1> QED
  BY <1>5, <1>6

(* The rows the repository writes are rows. *)
LEMMA RowTypes ==
  ASSUME NEW row \in Job
  PROVE  /\ \A w \in Workers : ClaimedRow(row, w) \in Job
         /\ CompleteRow(row) \in Job
         /\ FailRow(row) \in Job
         /\ \A call : call.phase \in Phases /\ call.progress \in Nat
                        => ProgressRow(row, call) \in Job
<1>1. ASSUME NEW w \in Workers PROVE ClaimedRow(row, w) \in Job
  <2>1. row.attempt + 1 \in Nat
    BY DEF Job
  <2>2. "running" \in Statuses /\ "validating" \in Phases
    BY DEF Statuses, Phases
  <2> QED
    BY <2>1, <2>2 DEF Job, ClaimedRow
<1>2. CompleteRow(row) \in Job
  BY DEF Job, CompleteRow, Statuses, Terminal, Phases
<1>3. FailRow(row) \in Job
  BY DEF Job, FailRow, Statuses, Terminal, Phases
<1>4. \A call : call.phase \in Phases /\ call.progress \in Nat
                  => ProgressRow(row, call) \in Job
  BY DEF Job, ProgressRow
<1> QED
  BY <1>1, <1>2, <1>3, <1>4

LEMMA QueuedRowType ==
  \A kind \in Kinds, stamp \in Times : QueuedRow(kind, stamp) \in Job
BY TimesAssumption DEF Job, QueuedRow, Statuses, Phases

(* A stored row is a row with its event behind all others of the job, and  *)
(* leaves the other jobs alone.                                            *)
LEMMA StoreFacts ==
  ASSUME TypeOK, NEW j \in Jobs, NEW row \in Job, Store(j, row)
  PROVE  /\ jobs' \in [Jobs -> Job]
         /\ events' \in [Jobs -> Seq(Event)]
         /\ jobs'[j] = row
         /\ \A i \in Jobs \ {j} : jobs'[i] = jobs[i] /\ events'[i] = events[i]
         /\ events'[j] # <<>>
         /\ events'[j][Len(events'[j])] = EventOf(row)
<1>1. EventOf(row) \in Event
  BY DEF EventOf, Event, Job
<1>2. events[j] \in Seq(Event)
  BY DEF TypeOK
<1>3. /\ Append(events[j], EventOf(row)) \in Seq(Event)
      /\ Len(Append(events[j], EventOf(row))) = Len(events[j]) + 1
      /\ Append(events[j], EventOf(row))[Len(events[j]) + 1] = EventOf(row)
      /\ Append(events[j], EventOf(row)) # <<>>
  BY <1>1, <1>2
<1> QED
  BY <1>3 DEF TypeOK, Store

(* So the last event stays the row, whatever row was stored. *)
LEMMA StoreKeepsLastEvent ==
  ASSUME TypeOK, LastEventIsRow, NothingYet, NEW j \in Jobs, NEW row \in Job, Store(j, row),
         row.status # "absent"
  PROVE  LastEventIsRow' /\ NothingYet'
<1>1. /\ jobs'[j] = row /\ events'[j] # <<>>
      /\ events'[j][Len(events'[j])] = EventOf(row)
      /\ \A i \in Jobs \ {j} : jobs'[i] = jobs[i] /\ events'[i] = events[i]
  BY StoreFacts
<1>2. LastEventIsRow'
  BY <1>1 DEF LastEventIsRow, Inserted
<1>3. NothingYet'
  BY <1>1 DEF NothingYet, Inserted
<1> QED
  BY <1>2, <1>3

(* An event puts the one that was last behind it. *)
LEMMA QueuedBeforeAppend ==
  ASSUME NEW log \in Seq(Event), NEW event \in Event
  PROVE  /\ log = <<>> => Cardinality(QueuedBefore(Append(log, event))) = 0
         /\ log # <<>> =>
              Cardinality(QueuedBefore(Append(log, event))) =
                Cardinality(QueuedBefore(log))
                  + (IF log[Len(log)].status = "queued" THEN 1 ELSE 0)
         /\ Cardinality(QueuedBefore(log)) \in Nat
<1> DEFINE longer == Append(log, event)
           n == Len(log)
<1>1. /\ n \in Nat /\ DOMAIN log = 1..n /\ DOMAIN longer = 1..n + 1 /\ Len(longer) = n + 1
      /\ \A i \in 1..n : longer[i] = log[i]
      /\ log = <<>> <=> n = 0
  OBVIOUS
<1>2. QueuedBefore(longer) = {i \in 1..n : log[i].status = "queued"}
  BY <1>1 DEF QueuedBefore
<1>3. QueuedBefore(log) = {i \in 1..n : i < n /\ log[i].status = "queued"}
  BY <1>1 DEF QueuedBefore
<1>4. IsFiniteSet(QueuedBefore(log)) /\ Cardinality(QueuedBefore(log)) \in Nat
  <2>1. IsFiniteSet(1..n)
    BY <1>1, FS_Interval
  <2>2. IsFiniteSet(QueuedBefore(log))
    BY <1>3, <2>1, FS_Subset
  <2> QED
    BY <2>2, FS_CardinalityType
<1> HIDE DEF longer
<1>5. CASE n = 0
  <2>1. QueuedBefore(longer) = {}
    BY <1>2, <1>5
  <2> QED
    BY <1>1, <1>4, <1>5, <2>1, FS_EmptySet DEF longer
<1>6. CASE n > 0 /\ log[n].status = "queued"
  <2>1. QueuedBefore(longer) = QueuedBefore(log) \cup {n} /\ n \notin QueuedBefore(log)
    BY <1>1, <1>2, <1>3, <1>6
  <2>2. Cardinality(QueuedBefore(longer)) = Cardinality(QueuedBefore(log)) + 1
    BY <1>4, <2>1, FS_AddElement
  <2> QED
    BY <1>1, <1>4, <1>6, <2>2 DEF longer
<1>7. CASE n > 0 /\ log[n].status # "queued"
  <2>1. QueuedBefore(longer) = QueuedBefore(log)
    BY <1>1, <1>2, <1>3, <1>7
  <2> QED
    BY <1>1, <1>4, <1>7, <2>1 DEF longer
<1> QED
  BY <1>1, <1>5, <1>6, <1>7

(* The attempts count what was queued if a claim of a queued row adds one. *)
NextAttempt(row) == row.attempt + (IF row.status = "queued" THEN 1 ELSE 0)

LEMMA StoreKeepsAttempts ==
  ASSUME TypeOK, LastEventIsRow, NothingYet, AttemptsWereQueued,
         NEW j \in Jobs, NEW row \in Job, Store(j, row),
         jobs[j].status = "absent" => row.attempt = 0,
         jobs[j].status # "absent" => row.attempt = NextAttempt(jobs[j]),
         row.owner # None <=> row.status = "running"
  PROVE  AttemptsWereQueued'
<1>1. /\ jobs'[j] = row /\ events'[j] = Append(events[j], EventOf(row))
      /\ \A i \in Jobs \ {j} : jobs'[i] = jobs[i] /\ events'[i] = events[i]
  BY DEF Store, TypeOK
<1>2. events[j] \in Seq(Event) /\ EventOf(row) \in Event
  BY DEF TypeOK, EventOf, Event, Job
<1>3. jobs'[j].attempt = Cardinality(QueuedBefore(events'[j]))
  <2>1. CASE jobs[j].status = "absent"
    <3>1. events[j] = <<>>
      BY <2>1 DEF NothingYet, Inserted
    <3> QED
      BY <1>1, <1>2, <2>1, <3>1, QueuedBeforeAppend
  <2>2. CASE jobs[j].status # "absent"
    <3>1. events[j] # <<>> /\ events[j][Len(events[j])] = EventOf(jobs[j])
      BY <2>2 DEF LastEventIsRow, Inserted
    <3>2. events[j][Len(events[j])].status = jobs[j].status
      BY <3>1 DEF EventOf
    <3>3. jobs[j].attempt = Cardinality(QueuedBefore(events[j]))
      BY DEF AttemptsWereQueued
    <3> QED
      BY <1>1, <1>2, <2>2, <3>1, <3>2, <3>3, QueuedBeforeAppend DEF NextAttempt
  <2> QED
    BY <2>1, <2>2
<1> QED
  BY <1>1, <1>3 DEF AttemptsWereQueued

-----------------------------------------------------------------------------
LEMMA InitInv == Init => IInv
<1> SUFFICES ASSUME Init PROVE IInv
  OBVIOUS
<1>1. Absent \in Job /\ Down \in Worker
  BY DEF Absent, Job, Down, Worker, Kinds, Statuses, Phases
<1>2. TypeOK
  BY <1>1 DEF Init, TypeOK
<1>3. LastEventIsRow /\ NothingYet /\ AttemptsWereQueued
  <2>1. QueuedBefore(<<>>) = {}
    BY DEF QueuedBefore
  <2> QED
    BY <2>1, FS_EmptySet
       DEF Init, LastEventIsRow, NothingYet, Inserted, AttemptsWereQueued, Absent
<1>4. JobsAtHand /\ WorkersApart
  BY DEF Init, JobsAtHand, WorkersApart, Down
<1> QED
  BY <1>2, <1>3, <1>4 DEF IInv

(* A new row is nobody's job: jobs at hand have rows already. *)
LEMMA EnqueueInv ==
  ASSUME IInv, NEW j \in Jobs, NEW kind \in Kinds, Enqueue(j, kind)
  PROVE  IInv'
<1> USE DEF IInv
<1>1. PICK stamp \in Times : Store(j, QueuedRow(kind, stamp))
  BY DEF Enqueue
<1> DEFINE row == QueuedRow(kind, stamp)
<1>2. row \in Job
  BY QueuedRowType
<1>3. /\ jobs[j].status = "absent" /\ worker' = worker
      /\ row.status = "queued" /\ row.attempt = 0 /\ row.owner = None
  BY DEF Enqueue, QueuedRow
<1> HIDE DEF row
<1>4. TypeOK'
  BY <1>1, <1>2, <1>3, StoreFacts DEF TypeOK, row
<1>5. LastEventIsRow' /\ NothingYet'
  BY <1>1, <1>2, <1>3, StoreKeepsLastEvent DEF row
<1>6. AttemptsWereQueued'
  BY <1>1, <1>2, <1>3, StoreKeepsAttempts DEF row
<1>7. JobsAtHand' /\ WorkersApart'
  BY <1>1, <1>2, <1>3, StoreFacts DEF JobsAtHand, WorkersApart, Owns, TypeOK, Worker, row
<1> QED
  BY <1>4, <1>5, <1>6, <1>7

(* The locked row is queued and nobody else's. *)
LEMMA ClaimLockInv ==
  ASSUME IInv, NEW w \in Workers, ClaimLock(w)
  PROVE  IInv'
<1> USE DEF IInv
<1>1. PICK j \in Claimable(w) :
        worker' = [worker EXCEPT ![w] = [pc |-> "claim", job |-> j, step |-> 0]]
  BY DEF ClaimLock
<1>2. /\ j \in Jobs /\ j \notin Locked /\ jobs[j].status = "queued"
      /\ jobs' = jobs /\ events' = events
  BY <1>1 DEF Claimable, ClaimLock
<1>3. TypeOK'
  BY <1>1, <1>2 DEF TypeOK, Worker
<1>4. LastEventIsRow' /\ NothingYet' /\ AttemptsWereQueued'
  BY <1>2 DEF LastEventIsRow, NothingYet, Inserted, EventOf, AttemptsWereQueued
<1>5. JobsAtHand'
  BY <1>1, <1>2, NoneAssumption DEF JobsAtHand, Owns, TypeOK, Worker
<1>6. \A v \in Workers : worker[v].job # j
  <2> SUFFICES ASSUME NEW v \in Workers, worker[v].job = j PROVE FALSE
    OBVIOUS
  <2>1. worker[v].pc \in {"poll", "claim", "handle", "report", "down"}
    BY DEF TypeOK, Worker
  <2>2. worker[v].pc \in {"claim", "handle", "report"}
    BY <1>2, <2>1, NoneAssumption DEF JobsAtHand
  <2>3. worker[v].pc # "claim"
    BY <1>2 DEF Locked
  <2> QED
    BY <1>2, <2>2, <2>3 DEF JobsAtHand, Owns
<1>7. WorkersApart'
  BY <1>1, <1>2, <1>6 DEF WorkersApart, TypeOK
<1> QED
  BY <1>3, <1>4, <1>5, <1>7

(***************************************************************************)
(* A worker leaves its job as it is: it drops it, or goes from handling to *)
(* the report of a failure.                                                *)
(***************************************************************************)
LEMMA WorkerMoves ==
  ASSUME IInv, NEW w \in Workers, NEW state \in Worker,
         worker' = [worker EXCEPT ![w] = state],
         UNCHANGED <<jobs, events>>,
         \/ state \in {Poll, Down}
         \/ /\ worker[w].pc = "handle" /\ state.pc = "report"
            /\ state.job = worker[w].job
  PROVE  IInv'
<1> USE DEF IInv
<1>1. TypeOK'
  BY DEF TypeOK
<1>2. LastEventIsRow' /\ NothingYet' /\ AttemptsWereQueued'
  BY DEF LastEventIsRow, NothingYet, Inserted, EventOf, AttemptsWereQueued
<1>3. JobsAtHand'
  <2> SUFFICES ASSUME NEW v \in Workers PROVE JobsAtHand!(v)'
    BY DEF JobsAtHand
  <2>1. CASE v # w
    BY <2>1 DEF JobsAtHand, Owns, TypeOK
  <2>2. CASE v = w
    BY <2>2 DEF JobsAtHand, Owns, TypeOK, Poll, Down
  <2> QED
    BY <2>1, <2>2
<1>4. WorkersApart'
  BY DEF WorkersApart, TypeOK, Poll, Down
<1> QED
  BY <1>1, <1>2, <1>3, <1>4

(***************************************************************************)
(* A worker stores a row of its job, and then handles it as its owner,     *)
(* reports on it, or drops it.                                             *)
(***************************************************************************)
LEMMA WorkerStores ==
  ASSUME IInv, NEW w \in Workers, NEW row \in Job, NEW state \in Worker,
         worker[w].job \in Jobs,
         Store(worker[w].job, row),
         worker' = [worker EXCEPT ![w] = state],
         row.status \notin {"absent", "queued"},
         jobs[worker[w].job].status # "absent",
         row.attempt = NextAttempt(jobs[worker[w].job]),
         row.owner # None <=> row.status = "running",
         \/ state \in {Poll, Down}
         \/ /\ state.job = worker[w].job
            /\ row.owner = w /\ row.status = "running"
            /\ state.pc \in {"handle", "report"}
         \/ /\ state.job = worker[w].job
            /\ row.status = "succeeded" /\ state.pc = "report"
  PROVE  IInv'
<1> USE DEF IInv
<1> DEFINE j == worker[w].job
<1>0. j \in Jobs
  OBVIOUS
<1>1. /\ jobs' \in [Jobs -> Job] /\ events' \in [Jobs -> Seq(Event)]
      /\ jobs'[j] = row
      /\ \A i \in Jobs \ {j} : jobs'[i] = jobs[i]
  BY StoreFacts
<1>2. TypeOK'
  BY <1>1 DEF TypeOK
<1>3. LastEventIsRow' /\ NothingYet'
  BY StoreKeepsLastEvent
<1>4. AttemptsWereQueued'
  BY StoreKeepsAttempts
<1>5. WorkersApart'
  BY NoneAssumption DEF WorkersApart, TypeOK, Poll, Down
<1>6. JobsAtHand'
  <2> SUFFICES ASSUME NEW v \in Workers PROVE JobsAtHand!(v)'
    BY DEF JobsAtHand
  <2>1. CASE v # w
    <3>1. worker'[v] = worker[v] /\ worker[v].job # j /\ worker[v].job \in Jobs \cup {None}
      BY <2>1, <1>0, NoneAssumption DEF TypeOK, WorkersApart, Worker
    <3>2. CASE worker[v].job = None
      BY <3>1, <3>2 DEF JobsAtHand
    <3>3. CASE worker[v].job \in Jobs
      BY <1>1, <3>1, <3>3 DEF JobsAtHand, Owns
    <3> QED
      BY <3>1, <3>2, <3>3
  <2>2. CASE v = w
    <3>1. worker'[w] = state
      BY DEF TypeOK
    <3>2. CASE state \in {Poll, Down}
      BY <2>2, <3>1, <3>2 DEF JobsAtHand, Poll, Down
    <3>3. CASE state \notin {Poll, Down}
      BY <1>0, <1>1, <2>2, <3>1, <3>3, NoneAssumption DEF JobsAtHand, Owns
    <3> QED
      BY <3>2, <3>3
  <2> QED
    BY <2>1, <2>2
<1> QED
  BY <1>2, <1>3, <1>4, <1>5, <1>6

-----------------------------------------------------------------------------
(* What the invariant says of a worker that has a job at hand. *)
LEMMA AtHand ==
  ASSUME IInv, NEW w \in Workers
  PROVE  /\ worker[w] \in Worker
         /\ worker[w].pc \in {"claim", "handle", "report"} =>
              worker[w].job \in Jobs /\ jobs[worker[w].job] \in Job
         /\ \A pc \in {"handle", "report"} : [worker[w] EXCEPT !.pc = pc] \in Worker
         /\ Poll \in Worker /\ Finished(w) \in {Poll, Down} /\ Finished(w) \in Worker
BY DEF IInv, TypeOK, JobsAtHand, Worker, Poll, Down, Finished

LEMMA ClaimCommitInv ==
  ASSUME IInv, NEW w \in Workers, ClaimCommit(w)
  PROVE  IInv'
<1> DEFINE j == worker[w].job
           row == ClaimedRow(jobs[j], w)
<1>1. /\ worker[w].pc = "claim" /\ j \in Jobs /\ jobs[j] \in Job
      /\ jobs[j].status = "queued"
  BY AtHand DEF ClaimCommit, IInv, JobsAtHand
<1>2. row \in Job
  BY <1>1, RowTypes
<1>3. row.status = "running" /\ row.owner = w /\ row.attempt = NextAttempt(jobs[j])
  BY <1>1 DEF ClaimedRow, Job, NextAttempt
<1>4. Store(j, row) /\ row.owner # None
  BY <1>3, NoneAssumption DEF ClaimCommit
<1> HIDE DEF row
<1>5. CASE worker' = [worker EXCEPT ![w].pc = "handle"]
  <2> DEFINE state == [worker[w] EXCEPT !.pc = "handle"]
  <2>1. worker' = [worker EXCEPT ![w] = state]
    BY <1>5 DEF IInv, TypeOK
  <2>2. state \in Worker /\ state.job = j /\ state.pc = "handle"
    BY AtHand DEF Worker
  <2> HIDE DEF state
  <2> QED
    BY <1>1, <1>2, <1>3, <1>4, <2>1, <2>2, WorkerStores
<1>6. CASE worker' = [worker EXCEPT ![w] = Poll]
  BY <1>1, <1>2, <1>3, <1>4, <1>6, AtHand, WorkerStores
<1> QED
  BY <1>5, <1>6 DEF ClaimCommit

(* The call a handler makes next is one of its calls. *)
LEMMA CallOfStep ==
  ASSUME IInv, NEW w \in Workers, Progress(w)
  PROVE  LET call == Calls(jobs[worker[w].job].kind)[worker[w].step + 1]
         IN  call.phase \in Phases /\ call.progress \in Nat
<1>1. worker[w].job \in Jobs /\ jobs[worker[w].job] \in Job
  BY AtHand DEF Progress, Handling
<1>2. /\ worker[w].step \in Nat
      /\ worker[w].step < Len(Calls(jobs[worker[w].job].kind))
  BY AtHand DEF Progress, Pending, Worker
<1>3. jobs[worker[w].job].kind \in Kinds
  BY <1>1 DEF Job
<1> QED
  BY <1>2, <1>3, CallFacts

LEMMA ProgressInv ==
  ASSUME IInv, NEW w \in Workers, Progress(w)
  PROVE  IInv'
<1> DEFINE j == worker[w].job
           call == Calls(jobs[j].kind)[worker[w].step + 1]
           row == ProgressRow(jobs[j], call)
<1>1. /\ worker[w].pc = "handle" /\ j \in Jobs /\ jobs[j] \in Job
      /\ jobs[j].owner = w /\ jobs[j].status = "running"
  BY AtHand DEF Progress, Handling, Owns
<1>2. call.phase \in Phases /\ call.progress \in Nat
  BY CallOfStep
<1>3. row \in Job
  BY <1>1, <1>2, RowTypes
<1>4. row.status = "running" /\ row.owner = w /\ row.attempt = NextAttempt(jobs[j])
  BY <1>1 DEF ProgressRow, Job, NextAttempt
<1>5. Store(j, row) /\ row.owner # None
  BY <1>4, NoneAssumption DEF Progress
<1> HIDE DEF row, call
<1>6. CASE worker' = [worker EXCEPT ![w].step = @ + 1]
  <2> DEFINE state == [worker[w] EXCEPT !.step = @ + 1]
  <2>1. worker' = [worker EXCEPT ![w] = state]
    BY <1>6 DEF IInv, TypeOK
  <2>2. state \in Worker /\ state.job = j /\ state.pc = "handle"
    <3>1. worker[w] \in Worker
      BY AtHand
    <3>2. worker[w].step + 1 \in Nat
      BY <3>1 DEF Worker
    <3> QED
      BY <1>1, <3>1, <3>2 DEF Worker
  <2> HIDE DEF state
  <2> QED
    BY <1>1, <1>3, <1>4, <1>5, <2>1, <2>2, WorkerStores
<1>7. CASE worker' = [worker EXCEPT ![w].pc = "report"]
  <2> DEFINE state == [worker[w] EXCEPT !.pc = "report"]
  <2>1. worker' = [worker EXCEPT ![w] = state]
    BY <1>7 DEF IInv, TypeOK
  <2>2. state \in Worker /\ state.job = j /\ state.pc = "report"
    BY AtHand DEF Worker
  <2> HIDE DEF state
  <2> QED
    BY <1>1, <1>3, <1>4, <1>5, <2>1, <2>2, WorkerStores
<1> QED
  BY <1>6, <1>7 DEF Progress

LEMMA CompleteInv ==
  ASSUME IInv, NEW w \in Workers, Complete(w)
  PROVE  IInv'
<1> DEFINE j == worker[w].job
           row == CompleteRow(jobs[j])
<1>1. /\ worker[w].pc = "handle" /\ j \in Jobs /\ jobs[j] \in Job
      /\ jobs[j].status = "running"
  BY AtHand DEF Complete, Handling, Owns
<1>2. row \in Job
  BY <1>1, RowTypes
<1>3. /\ row.status = "succeeded" /\ row.owner = None /\ row.attempt = NextAttempt(jobs[j])
      /\ Store(j, row)
  BY <1>1 DEF Complete, CompleteRow, Job, NextAttempt
<1> HIDE DEF row
<1>4. CASE worker' = [worker EXCEPT ![w] = Finished(w)]
  BY <1>1, <1>2, <1>3, <1>4, AtHand, WorkerStores
<1>5. CASE worker' = [worker EXCEPT ![w].pc = "report"]
  <2> DEFINE state == [worker[w] EXCEPT !.pc = "report"]
  <2>1. worker' = [worker EXCEPT ![w] = state]
    BY <1>5 DEF IInv, TypeOK
  <2>2. state \in Worker /\ state.job = j /\ state.pc = "report"
    BY AtHand DEF Worker
  <2> HIDE DEF state
  <2> QED
    BY <1>1, <1>2, <1>3, <2>1, <2>2, WorkerStores
<1> QED
  BY <1>4, <1>5 DEF Complete

LEMMA ReportFailureInv ==
  ASSUME IInv, NEW w \in Workers, ReportFailure(w)
  PROVE  IInv'
<1> DEFINE j == worker[w].job
           row == FailRow(jobs[j])
<1>1. /\ j \in Jobs /\ jobs[j] \in Job
      /\ jobs[j].status = "running"
  BY AtHand DEF ReportFailure, Owns
<1>2. row \in Job
  BY <1>1, RowTypes
<1>3. /\ row.status = "failed" /\ row.owner = None /\ row.attempt = NextAttempt(jobs[j])
      /\ Store(j, row)
  BY <1>1 DEF ReportFailure, FailRow, Job, NextAttempt
<1> HIDE DEF row
<1> QED
  BY <1>1, <1>2, <1>3, AtHand, WorkerStores DEF ReportFailure

(* The steps of a worker that store nothing. *)
LEMMA QuietInv ==
  ASSUME IInv, NEW w \in Workers,
         \/ ClaimNothing(w) \/ ClaimRollback(w) \/ HandlerError(w)
         \/ ReportLost(w) \/ Stop(w) \/ Start(w)
  PROVE  IInv'
<1>1. CASE HandlerError(w)
  <2> DEFINE state == [worker[w] EXCEPT !.pc = "report"]
  <2>1. worker' = [worker EXCEPT ![w] = state]
    BY <1>1 DEF HandlerError, IInv, TypeOK
  <2>2. state \in Worker /\ state.job = worker[w].job /\ state.pc = "report"
    BY AtHand DEF Worker
  <2> HIDE DEF state
  <2> QED
    BY <1>1, <2>1, <2>2, WorkerMoves DEF HandlerError, Handling
<1>2. CASE ~ HandlerError(w)
  <2>1. PICK state \in {Poll, Down} :
          worker' = [worker EXCEPT ![w] = state] /\ UNCHANGED <<jobs, events>>
    BY <1>2, AtHand DEF ClaimNothing, ClaimRollback, ReportLost, Stop, Start
  <2>2. state \in Worker
    BY <2>1 DEF Poll, Down, Worker
  <2> QED
    BY <2>1, <2>2, WorkerMoves
<1> QED
  BY <1>1, <1>2

LEMMA NextInv == IInv /\ [Next]_vars => IInv'
<1> SUFFICES ASSUME IInv, [Next]_vars PROVE IInv'
  OBVIOUS
<1>1. CASE UNCHANGED vars
  BY <1>1 DEF vars, IInv, TypeOK, LastEventIsRow, NothingYet, Inserted, EventOf,
              AttemptsWereQueued, JobsAtHand, WorkersApart, Owns
<1>2. ASSUME NEW j \in Jobs, NEW kind \in Kinds, Enqueue(j, kind) PROVE IInv'
  BY <1>2, EnqueueInv
<1>3. ASSUME NEW w \in Workers, WorkerStep(w) PROVE IInv'
  BY <1>3, ClaimLockInv, ClaimCommitInv, ProgressInv, CompleteInv,
     ReportFailureInv, QuietInv DEF WorkerStep
<1> QED
  BY <1>1, <1>2, <1>3 DEF Next

-----------------------------------------------------------------------------
(***************************************************************************)
(* The rows, the events, the workers and their jobs fit together in every  *)
(* reachable state.                                                        *)
(***************************************************************************)
THEOREM Invariance == Spec => []IInv
BY InitInv, NextInv, PTL DEF Spec

(***************************************************************************)
(* Type correctness: rows, events and worker states have the shapes the    *)
(* repository and the worker give them, whatever happens.                  *)
(***************************************************************************)
THEOREM TypeCorrect == Spec => []TypeOK
<1>1. IInv => TypeOK
  BY DEF IInv
<1> QED
  BY <1>1, Invariance, PTL

(***************************************************************************)
(* Replaying the events of a job (events_after) and reading its row (get)  *)
(* give the same status, phase and progress.                               *)
(***************************************************************************)
THEOREM RowsMatchEvents == Spec => []LastEventIsRow
<1>1. IInv => LastEventIsRow
  BY DEF IInv
<1> QED
  BY <1>1, Invariance, PTL

(***************************************************************************)
(* claim_next counts as attempts the times a job was taken out of the      *)
(* queue, one for each time it was queued, and a job has an owner exactly  *)
(* while it runs.                                                          *)
(***************************************************************************)
THEOREM ClaimsTakeQueuedJobs == Spec => []AttemptsWereQueued
<1>1. IInv => AttemptsWereQueued
  BY DEF IInv
<1> QED
  BY <1>1, Invariance, PTL

(***************************************************************************)
(* Mutual exclusion: no job is carried out by two processes, and the one   *)
(* that carries it out is its recorded owner unless the job has succeeded. *)
(***************************************************************************)
THEOREM MutualExclusion == Spec => []OneWorkerPerJob
<1>1. IInv => OneWorkerPerJob
  <2> SUFFICES ASSUME IInv, NEW w \in Workers, Busy(w)
               PROVE  OneWorkerPerJob!(w)!2
    BY DEF OneWorkerPerJob
  <2>1. \/ Owns(w, worker[w].job)
        \/ worker[w].pc = "report" /\ jobs[worker[w].job].status = "succeeded"
    BY DEF IInv, JobsAtHand, Busy
  <2>2. worker[w].job # None
    BY DEF IInv, JobsAtHand, Busy
  <2>3. \A v \in Workers \ {w} : worker[v].job # worker[w].job
    BY <2>2 DEF IInv, WorkersApart
  <2> QED
    BY <2>1, <2>3
<1> QED
  BY <1>1, Invariance, PTL

(***************************************************************************)
(* A job that has ended is left alone by every later call of a worker, by  *)
(* its retries and by its report of a failure.                             *)
(***************************************************************************)
THEOREM TerminalStays == Spec => TerminalIsFinal
<1> DEFINE Final == \A j \in Jobs : jobs[j].status \in Terminal =>
                       jobs'[j] = jobs[j] /\ events'[j] = events[j]
<1>1. ASSUME TypeOK, NEW j \in Jobs, NEW row, Store(j, row),
             jobs[j].status \notin Terminal
      PROVE  Final
  BY <1>1 DEF Store, TypeOK
<1>2. ASSUME IInv, [Next]_vars PROVE [Final]_vars
  <2>1. CASE UNCHANGED vars
    BY <2>1
  <2>2. ASSUME NEW j \in Jobs, NEW kind \in Kinds, Enqueue(j, kind) PROVE Final
    BY <1>1, <1>2, <2>2 DEF Enqueue, IInv, Terminal
  <2>3. ASSUME NEW w \in Workers, WorkerStep(w) PROVE Final
    <3>1. CASE UNCHANGED <<jobs, events>>
      BY <3>1
    <3>2. CASE ClaimCommit(w)
      BY <1>1, <1>2, <3>2, AtHand DEF ClaimCommit, IInv, JobsAtHand, Terminal
    <3>3. CASE Progress(w) \/ Complete(w) \/ ReportFailure(w)
      BY <1>1, <1>2, <3>3, AtHand
         DEF Progress, Complete, ReportFailure, Handling, Owns, IInv, Terminal
    <3> QED
      BY <2>3, <3>1, <3>2, <3>3
         DEF WorkerStep, ClaimLock, ClaimNothing, ClaimRollback, HandlerError,
             ReportLost, Stop, Start
  <2> QED
    BY <1>2, <2>1, <2>2, <2>3 DEF Next
<1> QED
  BY <1>2, Invariance, PTL DEF Spec, TerminalIsFinal

-----------------------------------------------------------------------------
(* What a watcher sees of a sequence of events. *)
Shown(log) == [i \in DOMAIN log |-> log[i].status]

LEMMA ShownType ==
  ASSUME NEW log \in Seq(Event)
  PROVE  /\ Shown(log) \in Seq(Statuses)
         /\ Len(Shown(log)) = Len(log)
         /\ \A i \in 1..Len(log) : Shown(log)[i] = log[i].status
<1>1. /\ Len(log) \in Nat /\ DOMAIN log = 1..Len(log)
      /\ \A i \in 1..Len(log) : log[i].status \in Statuses
  <2>1. \A i \in 1..Len(log) : log[i] \in Event
    OBVIOUS
  <2> QED
    BY <2>1 DEF Event
<1>2. Shown(log) = [i \in 1..Len(log) |-> log[i].status]
  BY <1>1 DEF Shown
<1> QED
  BY <1>1, <1>2

LEMMA ShownAppend ==
  ASSUME NEW log \in Seq(Event), NEW event \in Event
  PROVE  Shown(Append(log, event)) = Append(Shown(log), event.status)
<1> DEFINE longer == Append(log, event)
           shown  == Append(Shown(log), event.status)
<1>1. /\ longer \in Seq(Event) /\ Len(longer) = Len(log) + 1
      /\ \A i \in 1..Len(log) : longer[i] = log[i]
      /\ longer[Len(log) + 1] = event
  OBVIOUS
<1>2. event.status \in Statuses
  BY DEF Event
<1>3. /\ shown \in Seq(Statuses) /\ Len(shown) = Len(log) + 1
      /\ \A i \in 1..Len(log) : shown[i] = log[i].status
      /\ shown[Len(log) + 1] = event.status
  BY <1>2, ShownType
<1> HIDE DEF longer, shown
<1>4. /\ Shown(longer) \in Seq(Statuses) /\ Len(Shown(longer)) = Len(log) + 1
      /\ \A i \in 1..Len(log) + 1 : Shown(longer)[i] = longer[i].status
  BY <1>1, ShownType
<1>5. \A i \in 1..Len(log) + 1 : Shown(longer)[i] = shown[i]
  <2> SUFFICES ASSUME NEW i \in 1..Len(log) + 1 PROVE Shown(longer)[i] = shown[i]
    OBVIOUS
  <2>1. CASE i = Len(log) + 1
    BY <1>1, <1>3, <1>4, <2>1
  <2>2. CASE i \in 1..Len(log)
    BY <1>1, <1>3, <1>4, <2>2
  <2>3. Len(log) \in Nat
    OBVIOUS
  <2> QED
    BY <2>1, <2>2, <2>3
<1>6. Shown(longer) = shown
  BY <1>3, <1>4, <1>5, SeqEqual
<1> QED
  BY <1>6 DEF longer, shown

(* The variables of JobFeed. *)
statusOf == [j \in Jobs |-> jobs[j].status]
feedOf   == [j \in Jobs |-> Shown(events[j])]

(***************************************************************************)
(* A row that is stored is a step of the feed, if its status may follow    *)
(* the one before.                                                         *)
(***************************************************************************)
LEMMA StoreIsStep ==
  ASSUME TypeOK, NEW j \in Jobs, NEW row \in Job, Store(j, row),
         \/ jobs[j].status = "absent" /\ row.status = "queued"
         \/ jobs[j].status = "queued" /\ row.status = "running"
         \/ jobs[j].status = "running" /\ row.status \in {"running"} \cup Terminal
  PROVE  Feed!Next
<1>1. /\ jobs \in [Jobs -> Job] /\ events \in [Jobs -> Seq(Event)]
      /\ jobs' = [jobs EXCEPT ![j] = row]
      /\ events' = [events EXCEPT ![j] = Append(@, EventOf(row))]
  BY DEF TypeOK, Store
<1>2. EventOf(row) \in Event /\ EventOf(row).status = row.status
  BY DEF EventOf, Event, Job
<1>3. Shown(events'[j]) = Append(Shown(events[j]), row.status)
  BY <1>1, <1>2, ShownAppend
<1>4. statusOf' = [statusOf EXCEPT ![j] = row.status]
  BY <1>1 DEF statusOf
<1>5. feedOf' = [feedOf EXCEPT ![j] = Append(@, row.status)]
  BY <1>1, <1>3 DEF feedOf
<1>6. statusOf[j] = jobs[j].status
  BY DEF statusOf
<1>7. ASSUME NEW from, NEW to, from = jobs[j].status, to = row.status
      PROVE  Feed!Record(j, from, to)
  BY <1>4, <1>5, <1>6, <1>7 DEF Feed!Record, statusOf, feedOf, Shown
<1>8. CASE jobs[j].status = "absent" /\ row.status = "queued"
  <2>1. Feed!Submit(j)
    BY <1>7, <1>8 DEF Feed!Submit
  <2> QED
    BY <2>1 DEF Feed!Next
<1>9. CASE jobs[j].status = "queued" /\ row.status = "running"
  <2>1. Feed!Claim(j)
    BY <1>7, <1>9 DEF Feed!Claim
  <2> QED
    BY <2>1 DEF Feed!Next
<1>10. CASE jobs[j].status = "running" /\ row.status = "running"
  <2>1. Feed!Advance(j)
    BY <1>7, <1>10 DEF Feed!Advance
  <2> QED
    BY <2>1 DEF Feed!Next
<1>11. CASE jobs[j].status = "running" /\ row.status \in Terminal
  <2>1. PICK to \in Terminal : to = row.status
    BY <1>11
  <2>2. Feed!Record(j, "running", to)
    BY <1>7, <1>11, <2>1
  <2>3. Feed!Settle(j)
    BY <2>2 DEF Feed!Settle, Feed!Terminal, Terminal
  <2> QED
    BY <2>3 DEF Feed!Next
<1> QED
  BY <1>8, <1>9, <1>10, <1>11

(***************************************************************************)
(* For whoever watches the tables, the queue behaves as JobFeed says: each *)
(* transaction of the repository is one of its steps, and what a worker    *)
(* does between its transactions is none.                                  *)
(***************************************************************************)
THEOREM QueueImplementsFeed == Spec => ImplementsFeed
<1>1. ASSUME Init PROVE Feed!Init
  <2>1. /\ \A j \in Jobs : jobs[j].status = "absent"
        /\ \A j \in Jobs : events[j] = <<>>
    BY <1>1 DEF Init, Absent
  <2>2. [i \in DOMAIN <<>> |-> <<>>[i].status] = <<>>
    OBVIOUS
  <2> QED
    BY <2>1, <2>2 DEF Feed!Init
<1>2. ASSUME IInv, [Next]_vars PROVE [Feed!Next]_Feed!vars
  <2> TypeOK
    BY <1>2 DEF IInv
  <2>1. CASE UNCHANGED <<jobs, events>>
    BY <2>1 DEF Feed!vars
  <2>2. CASE UNCHANGED vars
    BY <2>1, <2>2 DEF vars
  <2>3. ASSUME NEW j \in Jobs, NEW kind \in Kinds, Enqueue(j, kind) PROVE Feed!Next
    <3>1. PICK stamp \in Times : Store(j, QueuedRow(kind, stamp))
      BY <2>3 DEF Enqueue
    <3>2. QueuedRow(kind, stamp) \in Job /\ QueuedRow(kind, stamp).status = "queued"
      BY QueuedRowType DEF QueuedRow
    <3> QED
      BY <2>3, <3>1, <3>2, StoreIsStep DEF Enqueue
  <2>4. ASSUME NEW w \in Workers, WorkerStep(w), ~ UNCHANGED <<jobs, events>>
        PROVE  Feed!Next
    <3> DEFINE j == worker[w].job
    <3>1. CASE ClaimCommit(w)
      <4>1. /\ j \in Jobs /\ jobs[j] \in Job /\ jobs[j].status = "queued"
            /\ Store(j, ClaimedRow(jobs[j], w))
        BY <1>2, <3>1, AtHand DEF ClaimCommit, IInv, JobsAtHand
      <4>2. ClaimedRow(jobs[j], w) \in Job
        BY <4>1, RowTypes
      <4>3. ClaimedRow(jobs[j], w).status = "running"
        BY <4>1 DEF ClaimedRow, Job
      <4> QED
        BY <4>1, <4>2, <4>3, StoreIsStep
    <3>2. CASE Progress(w)
      <4> DEFINE call == Calls(jobs[j].kind)[worker[w].step + 1]
      <4>1. /\ j \in Jobs /\ jobs[j] \in Job /\ jobs[j].status = "running"
            /\ Store(j, ProgressRow(jobs[j], call))
        BY <1>2, <3>2, AtHand DEF Progress, Handling, Owns
      <4>2. call.phase \in Phases /\ call.progress \in Nat
        BY <1>2, <3>2, CallOfStep
      <4> HIDE DEF call
      <4>3. ProgressRow(jobs[j], call) \in Job
        BY <4>1, <4>2, RowTypes
      <4>4. ProgressRow(jobs[j], call).status = "running"
        BY <4>1 DEF ProgressRow, Job
      <4> QED
        BY <4>1, <4>3, <4>4, StoreIsStep
    <3>3. CASE Complete(w)
      <4>1. /\ j \in Jobs /\ jobs[j] \in Job /\ jobs[j].status = "running"
            /\ Store(j, CompleteRow(jobs[j]))
        BY <1>2, <3>3, AtHand DEF Complete, Handling, Owns
      <4>2. CompleteRow(jobs[j]) \in Job
        BY <4>1, RowTypes
      <4>3. CompleteRow(jobs[j]).status \in Terminal
        BY <4>1 DEF CompleteRow, Job, Terminal
      <4> QED
        BY <4>1, <4>2, <4>3, StoreIsStep
    <3>4. CASE ReportFailure(w)
      <4>1. /\ j \in Jobs /\ jobs[j] \in Job /\ jobs[j].status = "running"
            /\ Store(j, FailRow(jobs[j]))
        BY <1>2, <3>4, AtHand DEF ReportFailure, Owns
      <4>2. FailRow(jobs[j]) \in Job
        BY <4>1, RowTypes
      <4>3. FailRow(jobs[j]).status \in Terminal
        BY <4>1 DEF FailRow, Job, Terminal
      <4> QED
        BY <4>1, <4>2, <4>3, StoreIsStep
    <3> QED
      BY <2>4, <3>1, <3>2, <3>3, <3>4
         DEF WorkerStep, ClaimLock, ClaimNothing, ClaimRollback, HandlerError,
             ReportLost, Stop, Start
  <2> QED
    BY <1>2, <2>1, <2>2, <2>3, <2>4 DEF Next
<1> QED
  BY <1>1, <1>2, Invariance, PTL DEF Spec, ImplementsFeed, Feed!Spec
-----------------------------------------------------------------------------
(***************************************************************************)
(* The log.  While a job is open its log is the beginning of its pipeline, *)
(* as long as its status says; and the handler that is about to make call  *)
(* number step + 1 has step + 2 events behind it.                          *)
(***************************************************************************)
Follows(j, i) ==
  LET log == events[j] IN
  \/ /\ i <= Len(Calls(jobs[j].kind)) + 3
     /\ log[i] = Milestone(jobs[j].kind, i)
  \/ /\ i = Len(log) /\ i > 2
     /\ log[i] = [status |-> "failed", phase |-> "failed",
                  progress |-> log[i - 1].progress]

JobLog(j) ==
  /\ \A i \in DOMAIN events[j] : Follows(j, i)
  /\ jobs[j].status \notin Terminal =>
       \A i \in DOMAIN events[j] : events[j][i] = Milestone(jobs[j].kind, i)
  /\ jobs[j].status = "absent" => Len(events[j]) = 0
  /\ jobs[j].status = "queued" => Len(events[j]) = 1
  /\ jobs[j].status = "running" =>
       Len(events[j]) >= 2 /\ Len(events[j]) <= Len(Calls(jobs[j].kind)) + 2

WorkerLog(w) ==
  /\ worker[w].pc = "claim" => worker[w].step = 0
  /\ worker[w].pc = "handle" =>
       /\ worker[w].step <= Len(Calls(jobs[worker[w].job].kind))
       /\ Len(events[worker[w].job]) = worker[w].step + 2

LogInv == (\A j \in Jobs : JobLog(j)) /\ (\A w \in Workers : WorkerLog(w))

LEMMA MilestoneFacts ==
  ASSUME NEW kind \in Kinds
  PROVE  /\ Milestone(kind, 1) = [status |-> "queued", phase |-> "queued", progress |-> 0]
         /\ Milestone(kind, 2) = [status |-> "running", phase |-> "validating", progress |-> 0]
         /\ \A i \in 1..Len(Calls(kind)) :
              Milestone(kind, i + 2) = [status |-> "running", phase |-> Calls(kind)[i].phase,
                                        progress |-> Calls(kind)[i].progress]
         /\ Milestone(kind, Len(Calls(kind)) + 3) =
              [status |-> "succeeded", phase |-> "complete", progress |-> 100]
<1>1. Len(Calls(kind)) \in Nat
  BY CallFacts
<1>2. \A i \in 1..Len(Calls(kind)) :
        /\ i + 2 # 1 /\ i + 2 # 2 /\ i + 2 \in 3..Len(Calls(kind)) + 2
        /\ (i + 2) - 2 = i
  BY <1>1
<1>3. LET n == Len(Calls(kind)) + 3 IN n # 1 /\ n # 2 /\ n \notin 3..Len(Calls(kind)) + 2
  BY <1>1
<1>4. \A i \in 1..Len(Calls(kind)) :
        Milestone(kind, i + 2) = [status |-> "running", phase |-> Calls(kind)[(i + 2) - 2].phase,
                                  progress |-> Calls(kind)[(i + 2) - 2].progress]
  BY <1>2 DEF Milestone
<1>5. Milestone(kind, Len(Calls(kind)) + 3) =
        [status |-> "succeeded", phase |-> "complete", progress |-> 100]
  BY <1>3 DEF Milestone
<1> QED
  BY <1>2, <1>4, <1>5 DEF Milestone

(* Percentages go up from call to call, so that GREATEST changes nothing. *)
LEMMA CallsGoUp ==
  \A kind \in Kinds, i \in Nat :
    i >= 1 /\ i < Len(Calls(kind)) => Calls(kind)[i].progress < Calls(kind)[i + 1].progress
<1>1. /\ Len(ProbeCalls) = 3
      /\ ProbeCalls[1].progress = 15 /\ ProbeCalls[2].progress = 55
      /\ ProbeCalls[3].progress = 90
  BY DEF ProbeCalls, Call
<1>2. /\ Len(TranscribeCalls) = 4
      /\ TranscribeCalls[1].progress = 15 /\ TranscribeCalls[2].progress = 45
      /\ TranscribeCalls[3].progress = 78 /\ TranscribeCalls[4].progress = 95
  BY DEF TranscribeCalls, Call
<1>3. TAKE kind \in Kinds, i \in Nat
<1>4. HAVE i >= 1 /\ i < Len(Calls(kind))
<1>5. CASE kind = "transcribe"
  <2>1. Calls(kind) = TranscribeCalls
    BY <1>5 DEF Calls
  <2>2. Len(Calls(kind)) = 4
    BY <1>2, <2>1
  <2>3. i = 1 \/ i = 2 \/ i = 3
    BY <1>4, <2>2
  <2> QED
    BY <1>2, <2>1, <2>3
<1>6. CASE kind # "transcribe"
  <2>1. Calls(kind) = ProbeCalls
    BY <1>6 DEF Calls
  <2>2. Len(Calls(kind)) = 3
    BY <1>1, <2>1
  <2>3. i = 1 \/ i = 2
    BY <1>4, <2>2
  <2> QED
    BY <1>1, <2>1, <2>3
<1> QED
  BY <1>5, <1>6

(* What Store does to the log: one more event, and those there were. *)
LEMMA StoreAppends ==
  ASSUME TypeOK, NEW j \in Jobs, NEW row \in Job, Store(j, row)
  PROVE  /\ Len(events[j]) \in Nat
         /\ Len(events'[j]) = Len(events[j]) + 1
         /\ DOMAIN events[j] = 1..Len(events[j])
         /\ DOMAIN events'[j] = 1..Len(events[j]) + 1
         /\ \A i \in 1..Len(events[j]) : events'[j][i] = events[j][i]
         /\ events'[j][Len(events[j]) + 1] = EventOf(row)
<1>1. EventOf(row) \in Event /\ events[j] \in Seq(Event)
  BY DEF EventOf, Event, Job, TypeOK
<1>2. events'[j] = Append(events[j], EventOf(row))
  BY DEF Store, TypeOK
<1> QED
  BY <1>1, <1>2

(* The jobs that a step does not write keep their logs. *)
LEMMA OtherLogs ==
  ASSUME IInv, LogInv, NEW j \in Jobs, NEW row \in Job, Store(j, row),
         NEW i \in Jobs, i # j
  PROVE  JobLog(i)'
<1>1. jobs'[i] = jobs[i] /\ events'[i] = events[i]
  BY StoreFacts DEF IInv
<1>2. JobLog(i)
  BY DEF LogInv
<1> QED
  BY <1>1, <1>2 DEF JobLog, Follows

(***************************************************************************)
(* A row whose event is the next milestone of its job, with a status that  *)
(* fits the length of the log.                                             *)
(***************************************************************************)
LEMMA NextMilestone ==
  ASSUME IInv, LogInv, NEW j \in Jobs, NEW row \in Job, Store(j, row),
         jobs[j].status \notin Terminal,
         row.kind = jobs[j].kind \/ jobs[j].status = "absent",
         EventOf(row) = Milestone(row.kind, Len(events[j]) + 1),
         Len(events[j]) <= Len(Calls(row.kind)) + 2,
         row.status # "absent",
         row.status = "queued" => Len(events[j]) = 0,
         row.status = "running" =>
           Len(events[j]) >= 1 /\ Len(events[j]) <= Len(Calls(row.kind)) + 1
  PROVE  \A i \in Jobs : JobLog(i)'
<1>1. /\ jobs'[j] = row
      /\ Len(events[j]) \in Nat
      /\ Len(events'[j]) = Len(events[j]) + 1
      /\ DOMAIN events[j] = 1..Len(events[j])
      /\ DOMAIN events'[j] = 1..Len(events[j]) + 1
      /\ \A i \in 1..Len(events[j]) : events'[j][i] = events[j][i]
      /\ events'[j][Len(events[j]) + 1] = EventOf(row)
  BY StoreFacts, StoreAppends DEF IInv
<1>2. Len(Calls(row.kind)) \in Nat
  BY CallFacts DEF Job
<1>3. JobLog(j)
  BY DEF LogInv
<1>4. \A i \in 1..Len(events[j]) : events[j][i] = Milestone(row.kind, i)
  BY <1>1, <1>3 DEF JobLog
<1>5. \A i \in 1..Len(events[j]) + 1 : events'[j][i] = Milestone(row.kind, i)
  <2> TAKE i \in 1..Len(events[j]) + 1
  <2>1. i \in 1..Len(events[j]) \/ i = Len(events[j]) + 1
    BY <1>1
  <2> QED
    BY <1>1, <1>4, <2>1
<1>6. JobLog(j)'
  <2>1. \A i \in DOMAIN events'[j] : i <= Len(Calls(row.kind)) + 3
    BY <1>1, <1>2
  <2>2. \A i \in DOMAIN events'[j] : Follows(j, i)'
    BY <1>1, <1>5, <2>1 DEF Follows
  <2>3. /\ jobs'[j].status # "absent"
        /\ jobs'[j].status = "queued" => Len(events'[j]) = 1
        /\ jobs'[j].status = "running" =>
             Len(events'[j]) >= 2 /\ Len(events'[j]) <= Len(Calls(jobs'[j].kind)) + 2
    BY <1>1, <1>2
  <2> QED
    BY <1>1, <1>5, <2>2, <2>3 DEF JobLog
<1> QED
  BY <1>6, OtherLogs

(***************************************************************************)
(* The handlers of other jobs: their jobs are not the one that is stored,  *)
(* their state is their own.                                               *)
(***************************************************************************)
LEMMA OtherWorkers ==
  ASSUME IInv, LogInv, NEW j \in Jobs, NEW row \in Job, Store(j, row),
         NEW v \in Workers, worker'[v] = worker[v],
         worker[v].job # j \/ jobs[j].status = "absent"
  PROVE  WorkerLog(v)'
<1>1. WorkerLog(v)
  BY DEF LogInv
<1>2. CASE worker[v].pc = "handle"
  <2>1. worker[v].job \in Jobs /\ jobs[worker[v].job].status = "running"
    BY <1>2, AtHand DEF IInv, JobsAtHand, Owns
  <2>2. worker[v].job # j
    BY <2>1
  <2>3. jobs'[worker[v].job] = jobs[worker[v].job] /\ events'[worker[v].job] = events[worker[v].job]
    BY <2>1, <2>2, StoreFacts DEF IInv
  <2> QED
    BY <1>1, <1>2, <2>3 DEF WorkerLog
<1>3. CASE worker[v].pc # "handle"
  BY <1>1, <1>3 DEF WorkerLog
<1> QED
  BY <1>2, <1>3

LEMMA ApartFrom ==
  ASSUME IInv, NEW w \in Workers, worker[w].job \in Jobs,
         NEW state, worker' = [worker EXCEPT ![w] = state],
         NEW v \in Workers, v # w
  PROVE  worker'[v] = worker[v] /\ worker[v].job # worker[w].job
BY NoneAssumption DEF IInv, TypeOK, WorkersApart

LEMMA EnqueueLog ==
  ASSUME IInv, LogInv, NEW j \in Jobs, NEW kind \in Kinds, Enqueue(j, kind)
  PROVE  LogInv'
<1>1. PICK stamp \in Times : Store(j, QueuedRow(kind, stamp))
  BY DEF Enqueue
<1> DEFINE row == QueuedRow(kind, stamp)
<1>2. row \in Job /\ jobs[j].status = "absent" /\ worker' = worker
  BY QueuedRowType DEF Enqueue
<1>3. /\ row.kind = kind /\ row.status = "queued"
      /\ EventOf(row) = [status |-> "queued", phase |-> "queued", progress |-> 0]
  BY DEF QueuedRow, EventOf
<1>4. JobLog(j) /\ Len(Calls(kind)) \in Nat
  BY CallFacts DEF LogInv
<1>5. Len(events[j]) = 0 /\ EventOf(row) = Milestone(row.kind, Len(events[j]) + 1)
  BY <1>2, <1>3, <1>4, MilestoneFacts DEF JobLog
<1> HIDE DEF row
<1>6. \A i \in Jobs : JobLog(i)'
  <2>1. /\ jobs[j].status \notin Terminal /\ row.status # "absent" /\ row.status # "running"
        /\ Len(events[j]) <= Len(Calls(row.kind)) + 2
    BY <1>2, <1>3, <1>4, <1>5 DEF Terminal
  <2>2. Store(j, row)
    BY <1>1 DEF row
  <2> QED
    BY <1>2, <1>3, <1>5, <2>1, <2>2, NextMilestone
<1>7. \A v \in Workers : WorkerLog(v)'
  BY <1>1, <1>2, OtherWorkers DEF row
<1> QED
  BY <1>6, <1>7 DEF LogInv

LEMMA ClaimCommitLog ==
  ASSUME IInv, LogInv, NEW w \in Workers, ClaimCommit(w)
  PROVE  LogInv'
<1> DEFINE j == worker[w].job
           row == ClaimedRow(jobs[j], w)
<1>1. /\ worker[w].pc = "claim" /\ j \in Jobs /\ jobs[j] \in Job
      /\ jobs[j].status = "queued" /\ Store(j, row)
  BY AtHand DEF ClaimCommit, IInv, JobsAtHand
<1>2. row \in Job
  BY <1>1, RowTypes
<1>3. JobLog(j) /\ WorkerLog(w) /\ jobs[j].kind \in Kinds
  BY <1>1 DEF LogInv, Job
<1>4. Len(events[j]) = 1 /\ worker[w].step = 0 /\ Len(Calls(jobs[j].kind)) \in Nat
  BY <1>1, <1>3, CallFacts DEF JobLog, WorkerLog
<1>5. EventOf(jobs[j]) = Milestone(jobs[j].kind, 1)
  <2>1. events[j][Len(events[j])] = EventOf(jobs[j])
    BY <1>1 DEF IInv, LastEventIsRow, Inserted
  <2>2. 1 \in DOMAIN events[j] /\ jobs[j].status \notin Terminal
    BY <1>1, <1>2, <1>4, StoreAppends DEF IInv, Terminal
  <2> QED
    BY <1>3, <1>4, <2>1, <2>2 DEF JobLog
<1>6. jobs[j].progress = 0
  BY <1>3, <1>5, MilestoneFacts DEF EventOf
<1>7. /\ row.kind = jobs[j].kind /\ row.status = "running"
      /\ EventOf(row) = [status |-> "running", phase |-> "validating", progress |-> 0]
  BY <1>1, <1>6 DEF ClaimedRow, EventOf, Job
<1>8. EventOf(row) = Milestone(row.kind, Len(events[j]) + 1)
  BY <1>3, <1>4, <1>7, MilestoneFacts
<1> HIDE DEF row
<1>9. \A i \in Jobs : JobLog(i)'
  <2>1. /\ jobs[j].status \notin Terminal /\ row.status \notin {"absent", "queued"}
        /\ Len(events[j]) <= Len(Calls(row.kind)) + 2
        /\ Len(events[j]) >= 1 /\ Len(events[j]) <= Len(Calls(row.kind)) + 1
    BY <1>1, <1>4, <1>7 DEF Terminal
  <2> QED
    BY <1>1, <1>2, <1>7, <1>8, <2>1, NextMilestone
<1>10. ASSUME NEW v \in Workers PROVE WorkerLog(v)'
  <2>1. CASE v = w
    <3>1. /\ worker'[w].pc = "handle" /\ worker'[w].job = j /\ worker'[w].step = 0
          \/ worker'[w] = Poll
      BY <1>4 DEF ClaimCommit, IInv, TypeOK, Worker
    <3>2. jobs'[j].kind = jobs[j].kind
      BY <1>1, <1>2, <1>7, StoreFacts DEF IInv
    <3>3. Len(events'[j]) = Len(events[j]) + 1
      BY <1>1, <1>2, StoreAppends DEF IInv
    <3>4. 0 <= Len(Calls(jobs[j].kind)) /\ Len(events'[j]) = 0 + 2
      BY <1>4, <3>3
    <3>5. CASE worker'[w] = Poll
      BY <2>1, <3>5 DEF WorkerLog, Poll
    <3>6. CASE /\ worker'[w].pc = "handle" /\ worker'[w].job = j
               /\ worker'[w].step = 0
      BY <2>1, <3>2, <3>4, <3>6 DEF WorkerLog
    <3> QED
      BY <3>1, <3>5, <3>6
  <2>2. CASE v # w
    <3>1. PICK state : worker' = [worker EXCEPT ![w] = state]
      <4>1. CASE worker' = [worker EXCEPT ![w].pc = "handle"]
        <5>1. worker' = [worker EXCEPT ![w] = [worker[w] EXCEPT !.pc = "handle"]]
          BY <4>1
        <5> QED
          BY <5>1
      <4> QED
        BY <4>1 DEF ClaimCommit
    <3> QED
      BY <1>1, <1>2, <2>2, <3>1, ApartFrom, OtherWorkers
  <2> QED
    BY <2>1, <2>2
<1> QED
  BY <1>9, <1>10 DEF LogInv

(* GREATEST of the progress takes that of the call. *)
LEMMA ProgressEvent ==
  ASSUME IInv, LogInv, NEW w \in Workers, Progress(w)
  PROVE  LET j == worker[w].job
             row == ProgressRow(jobs[j], Calls(jobs[j].kind)[worker[w].step + 1])
         IN  /\ row.kind = jobs[j].kind /\ row.status = "running"
             /\ EventOf(row) = Milestone(row.kind, Len(events[j]) + 1)
             /\ Len(events[j]) = worker[w].step + 2
             /\ worker[w].step \in Nat
             /\ worker[w].step < Len(Calls(jobs[j].kind))
<1> DEFINE j == worker[w].job
           kind == jobs[j].kind
           step == worker[w].step
           call == Calls(kind)[step + 1]
           row == ProgressRow(jobs[j], call)
<1>1. /\ worker[w].pc = "handle" /\ j \in Jobs /\ jobs[j] \in Job
      /\ jobs[j].status = "running" /\ kind \in Kinds
  BY AtHand DEF Progress, Handling, Owns, Job
<1>2. /\ step \in Nat /\ step < Len(Calls(kind)) /\ Len(Calls(kind)) \in Nat
      /\ call.progress \in Nat
  BY <1>1, AtHand, CallFacts, CallOfStep DEF Progress, Pending, Worker
<1>3. WorkerLog(w) /\ JobLog(j)
  BY <1>1 DEF LogInv
<1>4. Len(events[j]) = step + 2
  BY <1>1, <1>3 DEF WorkerLog
<1>5. EventOf(jobs[j]) = Milestone(kind, step + 2)
  <2>1. events[j][Len(events[j])] = EventOf(jobs[j])
    BY <1>1 DEF IInv, LastEventIsRow, Inserted
  <2>2. Len(events[j]) \in DOMAIN events[j]
    BY <1>1, <1>2, <1>4 DEF IInv, LastEventIsRow, Inserted, TypeOK
  <2>3. jobs[j].status \notin Terminal
    BY <1>1 DEF Terminal
  <2> QED
    BY <1>3, <1>4, <2>1, <2>2, <2>3 DEF JobLog
<1>6. jobs[j].progress < call.progress \/ jobs[j].progress = call.progress
  <2>1. CASE step = 0
    <3>1. jobs[j].progress = 0
      BY <1>1, <1>5, <2>1, MilestoneFacts DEF EventOf
    <3> QED
      BY <1>2, <3>1
  <2>2. CASE step # 0
    <3>1. step \in 1..Len(Calls(kind))
      BY <1>2, <2>2
    <3>2. jobs[j].progress = Calls(kind)[step].progress
      <4>1. Milestone(kind, step + 2) =
              [status |-> "running", phase |-> Calls(kind)[step].phase,
               progress |-> Calls(kind)[step].progress]
        BY <1>1, <3>1, MilestoneFacts
      <4> QED
        BY <1>5, <4>1 DEF EventOf
    <3> QED
      BY <1>1, <1>2, <2>2, <3>2, CallsGoUp
  <2> QED
    BY <2>1, <2>2
<1>7. jobs[j].progress \in Nat
  BY <1>1 DEF Job
<1>8. row.kind = kind /\ row.status = "running"
      /\ EventOf(row) = [status |-> "running", phase |-> call.phase, progress |-> call.progress]
  <2> HIDE DEF call
  <2>1. (IF call.progress > jobs[j].progress THEN call.progress ELSE jobs[j].progress)
          = call.progress
    BY <1>2, <1>6, <1>7
  <2> QED
    BY <1>1, <2>1 DEF ProgressRow, EventOf, Job
<1>9. Milestone(kind, (step + 1) + 2) =
        [status |-> "running", phase |-> call.phase, progress |-> call.progress]
  <2>1. step + 1 \in 1..Len(Calls(kind))
    BY <1>2
  <2> QED
    BY <1>1, <2>1, MilestoneFacts
<1>10. (step + 1) + 2 = Len(events[j]) + 1
  BY <1>2, <1>4
<1> QED
  BY <1>2, <1>4, <1>8, <1>9, <1>10

LEMMA ProgressLog ==
  ASSUME IInv, LogInv, NEW w \in Workers, Progress(w)
  PROVE  LogInv'
<1> DEFINE j == worker[w].job
           call == Calls(jobs[j].kind)[worker[w].step + 1]
           row == ProgressRow(jobs[j], call)
<1>1. /\ worker[w].pc = "handle" /\ j \in Jobs /\ jobs[j] \in Job
      /\ jobs[j].status = "running" /\ Store(j, row)
  BY AtHand DEF Progress, Handling, Owns
<1>2. row \in Job
  BY <1>1, RowTypes, CallOfStep
<1>3. /\ row.kind = jobs[j].kind /\ row.status = "running"
      /\ EventOf(row) = Milestone(row.kind, Len(events[j]) + 1)
      /\ Len(events[j]) = worker[w].step + 2
      /\ worker[w].step \in Nat
      /\ worker[w].step < Len(Calls(jobs[j].kind))
  BY ProgressEvent
<1>4. Len(Calls(jobs[j].kind)) \in Nat
  BY <1>1, CallFacts DEF Job
<1> HIDE DEF row, call
<1>5. \A i \in Jobs : JobLog(i)'
  <2>1. /\ jobs[j].status \notin Terminal /\ row.status \notin {"absent", "queued"}
        /\ Len(events[j]) <= Len(Calls(row.kind)) + 2
        /\ Len(events[j]) >= 1 /\ Len(events[j]) <= Len(Calls(row.kind)) + 1
    BY <1>1, <1>3, <1>4 DEF Terminal
  <2> QED
    BY <1>1, <1>2, <1>3, <2>1, NextMilestone
<1>6. ASSUME NEW v \in Workers PROVE WorkerLog(v)'
  <2>1. CASE v = w
    <3>1. \/ /\ worker'[w].pc = "handle" /\ worker'[w].job = j
             /\ worker'[w].step = worker[w].step + 1
          \/ worker'[w].pc = "report"
      BY <1>1 DEF Progress, IInv, TypeOK, Worker
    <3>2. jobs'[j].kind = jobs[j].kind /\ Len(events'[j]) = (worker[w].step + 1) + 2
      BY <1>1, <1>2, <1>3, StoreFacts, StoreAppends DEF IInv
    <3>3. worker[w].step + 1 <= Len(Calls(jobs[j].kind))
      BY <1>3, <1>4
    <3> QED
      BY <2>1, <3>1, <3>2, <3>3 DEF WorkerLog
  <2>2. CASE v # w
    <3>1. worker'[v] = worker[v] /\ worker[v].job # j
      BY <1>1, <2>2, NoneAssumption DEF Progress, IInv, TypeOK, WorkersApart
    <3> QED
      BY <1>1, <1>2, <3>1, OtherWorkers
  <2> QED
    BY <2>1, <2>2
<1> QED
  BY <1>5, <1>6 DEF LogInv

LEMMA CompleteLog ==
  ASSUME IInv, LogInv, NEW w \in Workers, Complete(w)
  PROVE  LogInv'
<1> DEFINE j == worker[w].job
           row == CompleteRow(jobs[j])
<1>1. /\ worker[w].pc = "handle" /\ j \in Jobs /\ jobs[j] \in Job
      /\ jobs[j].status = "running" /\ Store(j, row)
  BY AtHand DEF Complete, Handling, Owns
<1>2. row \in Job
  BY <1>1, RowTypes
<1>3. WorkerLog(w) /\ Len(Calls(jobs[j].kind)) \in Nat /\ worker[w].step \in Nat
      /\ jobs[j].kind \in Kinds
  BY <1>1, AtHand, CallFacts DEF LogInv, Job, Worker
<1>4. Len(events[j]) = Len(Calls(jobs[j].kind)) + 2
  <2>1. ~ (worker[w].step < Len(Calls(jobs[j].kind)))
    BY DEF Complete, Pending
  <2> QED
    BY <1>1, <1>3, <2>1 DEF WorkerLog
<1>5. /\ row.kind = jobs[j].kind /\ row.status = "succeeded"
      /\ EventOf(row) = [status |-> "succeeded", phase |-> "complete", progress |-> 100]
  BY <1>1 DEF CompleteRow, EventOf, Job
<1>6. EventOf(row) = Milestone(row.kind, Len(events[j]) + 1)
  <2>1. Len(events[j]) + 1 = Len(Calls(jobs[j].kind)) + 3
    BY <1>3, <1>4
  <2> QED
    BY <1>3, <1>5, <2>1, MilestoneFacts
<1> HIDE DEF row
<1>7. \A i \in Jobs : JobLog(i)'
  <2>1. /\ jobs[j].status \notin Terminal
        /\ row.status \notin {"absent", "queued", "running"}
        /\ Len(events[j]) <= Len(Calls(row.kind)) + 2
    BY <1>1, <1>3, <1>4, <1>5 DEF Terminal
  <2> QED
    BY <1>1, <1>2, <1>5, <1>6, <2>1, NextMilestone
<1>8. ASSUME NEW v \in Workers PROVE WorkerLog(v)'
  <2>1. CASE v = w
    <3>1. worker'[w].pc \in {"poll", "down", "report"}
      BY <1>1 DEF Complete, Finished, Poll, Down, IInv, TypeOK, Worker
    <3> QED
      BY <2>1, <3>1 DEF WorkerLog
  <2>2. CASE v # w
    <3>1. worker'[v] = worker[v] /\ worker[v].job # j
      BY <1>1, <2>2, NoneAssumption DEF Complete, IInv, TypeOK, WorkersApart
    <3> QED
      BY <1>1, <1>2, <3>1, OtherWorkers
  <2> QED
    BY <2>1, <2>2
<1> QED
  BY <1>7, <1>8 DEF LogInv

(* The failure event stands behind at least two others and keeps their progress. *)
LEMMA FailureStored ==
  ASSUME IInv, LogInv, NEW j \in Jobs, jobs[j].status = "running",
         FailRow(jobs[j]) \in Job, Store(j, FailRow(jobs[j]))
  PROVE  \A i \in Jobs : JobLog(i)'
<1> DEFINE row == FailRow(jobs[j])
<1>1. jobs[j] \in Job /\ JobLog(j)
  BY DEF IInv, TypeOK, LogInv
<1>2. /\ row.kind = jobs[j].kind /\ row.status = "failed"
      /\ EventOf(row) = [status |-> "failed", phase |-> "failed",
                         progress |-> jobs[j].progress]
  BY <1>1 DEF FailRow, EventOf, Job
<1>3. PICK n \in Nat :
      /\ n = Len(events[j])
      /\ jobs'[j] = row
      /\ Len(events'[j]) = n + 1
      /\ DOMAIN events[j] = 1..n
      /\ DOMAIN events'[j] = 1..n + 1
      /\ \A i \in 1..n : events'[j][i] = events[j][i]
      /\ events'[j][n + 1] = EventOf(row)
  BY StoreFacts, StoreAppends DEF IInv
<1>4. n >= 2 /\ n <= Len(Calls(jobs[j].kind)) + 2
  BY <1>1, <1>3 DEF JobLog
<1>5. events[j][n].progress = jobs[j].progress
  <2>1. events[j][n] = EventOf(jobs[j])
    BY <1>3 DEF IInv, LastEventIsRow, Inserted
  <2> QED
    BY <2>1 DEF EventOf
<1> HIDE DEF row
<1>6. Follows(j, n + 1)'
  <2>1. (n + 1) - 1 = n /\ n + 1 > 2 /\ n \in 1..n
    BY <1>4
  <2>2. events'[j][(n + 1) - 1].progress = jobs[j].progress
    BY <1>3, <1>5, <2>1
  <2>3. events'[j][n + 1] = [status |-> "failed", phase |-> "failed",
                             progress |-> events'[j][(n + 1) - 1].progress]
    BY <1>2, <1>3, <2>2
  <2> QED
    BY <1>3, <2>1, <2>3 DEF Follows
<1>7. ASSUME NEW i \in 1..n PROVE Follows(j, i)'
  <2>1. Len(Calls(jobs[j].kind)) \in Nat
    BY <1>1, CallFacts DEF Job
  <2>2. i <= Len(Calls(jobs[j].kind)) + 3
    BY <1>4, <2>1
  <2>3. events'[j][i] = Milestone(jobs[j].kind, i)
    BY <1>1, <1>3 DEF JobLog, Terminal
  <2>4. jobs'[j].kind = jobs[j].kind
    BY <1>2, <1>3
  <2> QED
    BY <2>2, <2>3, <2>4 DEF Follows
<1>8. \A i \in DOMAIN events'[j] : Follows(j, i)'
  <2> TAKE i \in DOMAIN events'[j]
  <2>1. i \in 1..n \/ i = n + 1
    BY <1>3
  <2> QED
    BY <1>6, <1>7, <2>1
<1>9. JobLog(j)'
  <2>1. jobs'[j].status = "failed"
    BY <1>2, <1>3
  <2> QED
    BY <1>8, <2>1 DEF JobLog, Terminal
<1> QED
  BY <1>9, OtherLogs DEF row

LEMMA FailureLog ==
  ASSUME IInv, LogInv, NEW w \in Workers, ReportFailure(w)
  PROVE  LogInv'
<1> DEFINE j == worker[w].job
           row == FailRow(jobs[j])
<1>1. /\ j \in Jobs /\ jobs[j] \in Job
      /\ jobs[j].status = "running" /\ Store(j, row)
  BY AtHand DEF ReportFailure, Owns
<1>2. row \in Job
  BY <1>1, RowTypes
<1>3. \A i \in Jobs : JobLog(i)'
  BY <1>1, <1>2, FailureStored
<1>4. ASSUME NEW v \in Workers PROVE WorkerLog(v)'
  <2>1. CASE v = w
    <3>1. worker'[w].pc \in {"poll", "down"}
      BY DEF ReportFailure, Finished, Poll, Down, IInv, TypeOK
    <3> QED
      BY <2>1, <3>1 DEF WorkerLog
  <2>2. CASE v # w
    <3>1. worker'[v] = worker[v] /\ worker[v].job # j
      BY <1>1, <2>2, NoneAssumption DEF ReportFailure, IInv, TypeOK, WorkersApart
    <3> QED
      BY <1>1, <1>2, <3>1, OtherWorkers
  <2> QED
    BY <2>1, <2>2
<1> QED
  BY <1>3, <1>4 DEF LogInv

(* The steps that store nothing and start no handling. *)
LEMMA QuietLog ==
  ASSUME IInv, LogInv, NEW w \in Workers,
         jobs' = jobs, events' = events,
         \A v \in Workers \ {w} : worker'[v] = worker[v],
         worker'[w].pc # "handle",
         worker'[w].pc = "claim" => worker'[w].step = 0
  PROVE  LogInv'
<1>1. \A j \in Jobs : JobLog(j)'
  BY DEF LogInv, JobLog, Follows
<1>2. \A v \in Workers : WorkerLog(v)'
  BY DEF LogInv, WorkerLog
<1> QED
  BY <1>1, <1>2 DEF LogInv

LEMMA InitLog == Init => LogInv
<1> SUFFICES ASSUME Init PROVE LogInv
  OBVIOUS
<1>1. ASSUME NEW j \in Jobs PROVE JobLog(j)
  <2>1. jobs[j].status = "absent" /\ events[j] = <<>>
    BY DEF Init, Absent
  <2>2. Len(events[j]) = 0 /\ DOMAIN events[j] = {}
    BY <2>1
  <2> QED
    BY <2>1, <2>2 DEF JobLog
<1>2. \A w \in Workers : WorkerLog(w)
  BY DEF Init, WorkerLog, Down
<1> QED
  BY <1>1, <1>2 DEF LogInv

LEMMA NextLog == IInv /\ LogInv /\ [Next]_vars => LogInv'
<1> SUFFICES ASSUME IInv, LogInv, [Next]_vars PROVE LogInv'
  OBVIOUS
<1>1. CASE UNCHANGED vars
  BY <1>1 DEF vars, LogInv, JobLog, Follows, WorkerLog
<1>2. ASSUME NEW j \in Jobs, NEW kind \in Kinds, Enqueue(j, kind) PROVE LogInv'
  BY <1>2, EnqueueLog
<1>3. ASSUME NEW w \in Workers, WorkerStep(w) PROVE LogInv'
  <2>1. CASE ClaimLock(w)
    BY <2>1, QuietLog DEF ClaimLock, IInv, TypeOK
  <2>2. CASE ClaimNothing(w) \/ ClaimRollback(w) \/ ReportLost(w) \/ Stop(w) \/ Start(w)
    BY <2>2, QuietLog DEF ClaimNothing, ClaimRollback, ReportLost, Stop, Start,
       Finished, Poll, Down, IInv, TypeOK
  <2>3. CASE HandlerError(w)
    <3>1. worker[w] \in Worker /\ worker \in [Workers -> Worker]
      BY DEF IInv, TypeOK
    <3>2. /\ worker'[w].pc = "report"
          /\ \A v \in Workers \ {w} : worker'[v] = worker[v]
      BY <2>3, <3>1 DEF HandlerError, Worker
    <3>3. jobs' = jobs /\ events' = events
      BY <2>3 DEF HandlerError
    <3>4. worker'[w].pc # "handle" /\ (worker'[w].pc = "claim" => worker'[w].step = 0)
      BY <3>2
    <3> QED
      BY <3>2, <3>3, <3>4, QuietLog
  <2> QED
    BY <1>3, <2>1, <2>2, <2>3, ClaimCommitLog, ProgressLog, CompleteLog, FailureLog
       DEF WorkerStep
<1> QED
  BY <1>1, <1>2, <1>3 DEF Next

(***************************************************************************)
(* No call of a handler is recorded twice, out of order or after the end,  *)
(* whatever answers are lost and whoever writes: the log is the pipeline   *)
(* of the kind, cut short or closed by one failure.                        *)
(***************************************************************************)
THEOREM LogIsPipeline == Spec => []LogFollowsPipeline
<1>1. LogInv => LogFollowsPipeline
  BY DEF LogInv, JobLog, Follows, LogFollowsPipeline
<1> QED
  BY <1>1, InitInv, InitLog, NextInv, NextLog, PTL DEF Spec
=============================================================================
