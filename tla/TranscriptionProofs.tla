------------------------- MODULE TranscriptionProofs -------------------------
(***************************************************************************)
(* Theorems about Transcription, for any jobs, workers, audio and keys.    *)
(*                                                                         *)
(* The first part shows that every step of the composition is a step of    *)
(* JobQueue or leaves the queue alone, so that the invariant proved in     *)
(* JobQueueProofs holds here.  On top of it stand four facts about the     *)
(* handler: how far its calls are, which jobs have a result, which         *)
(* directories are about to be removed, and that a job has no directory    *)
(* before its handler made one.                                            *)
(***************************************************************************)
EXTENDS Transcription, TLAPS

QP == INSTANCE JobQueueProofs WITH
  Queues <- [w \in Workers |-> {"transcribe"}], OneShot <- {}, Times <- {1}

-----------------------------------------------------------------------------
(* Queue and QP are the same definitions, with and without the theorems. *)
LEMMA SameInit == Queue!Init => QP!Init
BY DEF Queue!Init, QP!Init, Queue!Absent, QP!Absent, Queue!Down, QP!Down

LEMMA SameEnqueue ==
  \A j \in Jobs : Queue!Enqueue(j, "transcribe") => QP!Next
<1>1. "transcribe" \in QP!Kinds
  BY DEF QP!Kinds
<1>2. \A j \in Jobs : Queue!Enqueue(j, "transcribe") => QP!Enqueue(j, "transcribe")
  BY DEF Queue!Enqueue, QP!Enqueue, Queue!Store, QP!Store, Queue!EventOf, QP!EventOf,
         Queue!QueuedRow, QP!QueuedRow
<1> QED
  BY <1>1, <1>2 DEF QP!Next

LEMMA SameClaim ==
  ASSUME NEW w \in Workers,
         Queue!ClaimLock(w) \/ Queue!ClaimCommit(w) \/ Queue!ClaimRollback(w) \/ Queue!Start(w)
  PROVE  QP!Next
<1>1. Queue!ClaimLock(w) => QP!ClaimLock(w)
  BY DEF Queue!ClaimLock, QP!ClaimLock, Queue!Claimable, QP!Claimable, Queue!Locked, QP!Locked
<1>2. Queue!ClaimCommit(w) => QP!ClaimCommit(w)
  BY DEF Queue!ClaimCommit, QP!ClaimCommit, Queue!Store, QP!Store, Queue!EventOf, QP!EventOf,
         Queue!ClaimedRow, QP!ClaimedRow, Queue!Poll, QP!Poll
<1>3. Queue!ClaimRollback(w) => QP!ClaimRollback(w)
  BY DEF Queue!ClaimRollback, QP!ClaimRollback, Queue!Poll, QP!Poll
<1>4. Queue!Start(w) => QP!Start(w)
  BY DEF Queue!Start, QP!Start, Queue!Poll, QP!Poll
<1> QED
  BY <1>1, <1>2, <1>3, <1>4 DEF QP!Next, QP!WorkerStep

LEMMA SameHandle ==
  ASSUME NEW w \in Workers,
         Queue!Progress(w) \/ Queue!Complete(w) \/ Queue!HandlerError(w)
  PROVE  QP!Next
<1> USE DEF Queue!Handling, QP!Handling, Queue!Pending, QP!Pending, Queue!Owns, QP!Owns,
        Queue!Store, QP!Store, Queue!EventOf, QP!EventOf, Queue!Calls, QP!Calls,
        Queue!TranscribeCalls, QP!TranscribeCalls, Queue!ProbeCalls, QP!ProbeCalls,
        Queue!Call, QP!Call
<1>1. Queue!Progress(w) => QP!Progress(w)
  BY DEF Queue!Progress, QP!Progress, Queue!ProgressRow, QP!ProgressRow
<1>2. Queue!Complete(w) => QP!Complete(w)
  BY DEF Queue!Complete, QP!Complete, Queue!CompleteRow, QP!CompleteRow, Queue!Finished,
         QP!Finished, Queue!Poll, QP!Poll
<1>3. Queue!HandlerError(w) => QP!HandlerError(w)
  BY DEF Queue!HandlerError, QP!HandlerError
<1> QED
  BY <1>1, <1>2, <1>3 DEF QP!Next, QP!WorkerStep

LEMMA SameReport ==
  ASSUME NEW w \in Workers,
         Queue!ReportFailure(w) \/ Queue!ReportLost(w) \/ Queue!Stop(w)
  PROVE  QP!Next
<1>1. Queue!ReportFailure(w) => QP!ReportFailure(w)
  BY DEF Queue!ReportFailure, QP!ReportFailure, Queue!Owns, QP!Owns, Queue!Store, QP!Store,
         Queue!EventOf, QP!EventOf, Queue!FailRow, QP!FailRow, Queue!Finished, QP!Finished,
         Queue!Poll, QP!Poll
<1>2. Queue!ReportLost(w) => QP!ReportLost(w)
  BY DEF Queue!ReportLost, QP!ReportLost, Queue!Finished, QP!Finished, Queue!Poll, QP!Poll
<1>3. Queue!Stop(w) => QP!Stop(w)
  BY DEF Queue!Stop, QP!Stop, Queue!Down, QP!Down
<1> QED
  BY <1>1, <1>2, <1>3 DEF QP!Next, QP!WorkerStep

(* Every step is a step of the queue or leaves its variables alone. *)
LEMMA StepIsQueueStep == [Next]_vars => [QP!Next]_QP!vars
<1> SUFFICES ASSUME [Next]_vars PROVE QP!Next \/ UNCHANGED queueVars
  BY DEF QP!vars, queueVars
<1> USE DEF queueVars
<1>1. CASE UNCHANGED vars
  BY <1>1 DEF vars
<1>2. CASE \E a \in AudioAssets : UploadAudio(a)
  BY <1>2 DEF UploadAudio
<1>3. CASE \E b \in Backgrounds : UploadBackground(b)
  BY <1>3 DEF UploadBackground
<1>4. CASE \E j \in Jobs, k \in Keys : StartTranscription(j, k)
  BY <1>4, SameEnqueue DEF StartTranscription
<1>5. CASE \E n \in 1..MaxRevision : SaveTranscript(n)
  BY <1>5 DEF SaveTranscript
<1>6. ASSUME NEW w \in Workers, Claim(w) \/ Report(w) \/ Stop(w) PROVE QP!Next
  BY <1>6, SameClaim, SameReport DEF Claim, Report, Stop
<1>7. ASSUME NEW w \in Workers, Handler(w) PROVE QP!Next \/ UNCHANGED queueVars
  <2>1. CASE Prepare(w) \/ Normalize(w) \/ Transcribe(w) \/ RemoveWorkspace(w)
    BY <2>1 DEF Prepare, Normalize, Transcribe, RemoveWorkspace, WorkDone
  <2>2. CASE PrepareError(w) \/ MakesCall(w) \/ RunError(w)
    BY <2>2, SameHandle DEF PrepareError, MakesCall, RunError
  <2>3. CASE ActivateTranscript(w)
    <3>1. UNCHANGED queueVars \/ Queue!HandlerError(w)
      BY <2>3 DEF ActivateTranscript, WorkDone, Queue!HandlerError, WorksBefore
    <3> QED
      BY <3>1, SameHandle
  <2> QED
    BY <1>7, <2>1, <2>2, <2>3 DEF Handler
<1> QED
  BY <1>1, <1>2, <1>3, <1>4, <1>5, <1>6, <1>7 DEF Next

LEMMA QueueAssumptions ==
  /\ {1} \subseteq Nat
  /\ [w \in Workers |-> {"transcribe"}] \in [Workers -> SUBSET QP!Kinds]
  /\ {} \subseteq Workers
BY DEF QP!Kinds

LEMMA QueueInv ==
  /\ Queue!Init => QP!IInv
  /\ QP!IInv /\ [Next]_vars => QP!IInv'
<1>1. Queue!Init => QP!IInv
  BY QueueAssumptions, NoneAssumption, SameInit, QP!InitInv
<1>2. QP!IInv /\ [Next]_vars => QP!IInv'
  BY QueueAssumptions, NoneAssumption, StepIsQueueStep, QP!NextInv
<1> QED
  BY <1>1, <1>2

-----------------------------------------------------------------------------
(* The queue of this composition holds transcriptions only. *)
JobsTranscribe ==
  \A j \in Jobs : jobs[j].status # "absent" => jobs[j].kind = "transcribe"

(* A handler starts with its first call. *)
ClaimsAtStart ==
  \A w \in Workers : worker[w].pc = "claim" => worker[w].step = 0

(* The jobs with a revision of their own, for the audio of the request. *)
Resulted ==
  {j \in Jobs :
     /\ requests[j] # None
     /\ \E r \in transcripts : Store!RowOfJob(j) = {r} /\ r.audio = requests[j].audio}

(* The workers whose handler is behind the activation of the transcript. *)
BehindActivation ==
  {w \in Workers :
     /\ worker[w].pc = "handle"
     /\ worker[w].step > 3 \/ (worker[w].step = 3 /\ w \in ready)}

(***************************************************************************)
(* The handler does not go on to its last call before the transcript is    *)
(* activated: SucceededHasRevision, and what makes it inductive.           *)
(***************************************************************************)
ResultsAreStored ==
  /\ \A w \in BehindActivation : worker[w].job \in Resulted
  /\ \A j \in Jobs : jobs[j].status = "succeeded" => j \in Resulted

(* A directory is removed after its job, before the next one is claimed. *)
CleaningIsDue ==
  \A w \in Workers : cleaning[w] # None =>
    \/ worker[w].pc = "report" /\ worker[w].job = cleaning[w]
    \/ worker[w].pc = "poll" /\ jobs[cleaning[w]].status = "succeeded"

(* There is no directory before the handler of the job has made one. *)
NoneBefore ==
  /\ \A j \in Jobs : jobs[j].status \in {"absent", "queued"} => workspace[j] = "absent"
  /\ \A w \in Workers : Queue!Handling(w) /\ worker[w].step = 0 /\ w \notin ready
                          => workspace[worker[w].job] = "absent"

Types ==
  /\ TypeOK
  /\ requests = [j \in Jobs |-> requests[j]]

TInv ==
  /\ QP!IInv /\ Types /\ JobsTranscribe /\ ClaimsAtStart /\ ResultsAreStored
  /\ CleaningIsDue /\ NoneBefore /\ WorkspacesAreExplained

-----------------------------------------------------------------------------
(* What the invariant of the queue says of a worker and its job. *)
LEMMA Hand ==
  ASSUME QP!IInv
  PROVE  /\ jobs \in [Jobs -> QP!Job] /\ worker \in [Workers -> QP!Worker]
         /\ \A w \in Workers : worker[w].pc \in {"claim", "handle", "report"} =>
              /\ worker[w].job \in Jobs /\ worker[w].job # None
              /\ worker[w].pc = "claim" => jobs[worker[w].job].status = "queued"
              /\ worker[w].pc = "handle" =>
                   /\ jobs[worker[w].job].status = "running"
                   /\ Queue!Owns(w, worker[w].job)
              /\ worker[w].pc = "report" =>
                   jobs[worker[w].job].status \in {"running", "succeeded"}
              /\ \A v \in Workers \ {w} : worker[v].job # worker[w].job
         /\ \A w \in Workers : worker[w].step \in Nat
<1>1. jobs \in [Jobs -> QP!Job] /\ worker \in [Workers -> QP!Worker]
  BY DEF QP!IInv, QP!TypeOK
<1>2. ASSUME NEW w \in Workers, worker[w].pc \in {"claim", "handle", "report"}
      PROVE  worker[w].job \in Jobs /\ worker[w].job # None
  BY <1>1, <1>2 DEF QP!IInv, QP!JobsAtHand, QP!Worker
<1>3. ASSUME NEW w \in Workers, worker[w].pc \in {"claim", "handle", "report"}
      PROVE  \A v \in Workers \ {w} : worker[v].job # worker[w].job
  BY <1>2, <1>3 DEF QP!IInv, QP!WorkersApart
<1>4. \A w \in Workers :
        /\ worker[w].pc = "claim" => jobs[worker[w].job].status = "queued"
        /\ worker[w].pc = "handle" =>
             jobs[worker[w].job].status = "running" /\ Queue!Owns(w, worker[w].job)
        /\ worker[w].pc = "report" =>
             jobs[worker[w].job].status \in {"running", "succeeded"}
  BY DEF QP!IInv, QP!JobsAtHand, QP!Owns, Queue!Owns
<1>5. \A w \in Workers : worker[w].step \in Nat
  BY <1>1 DEF QP!Worker
<1> QED
  BY <1>1, <1>2, <1>3, <1>4, <1>5

(* A step of worker w changes nobody else, and at most the row of its job. *)
Leaves(w) ==
  /\ \A v \in Workers \ {w} : worker'[v] = worker[v]
  /\ \A j \in Jobs : jobs'[j].kind = jobs[j].kind
  /\ \A j \in Jobs \ {worker[w].job} : jobs'[j].status = jobs[j].status

(* What the steps of the queue do to statuses and to the worker. *)
LEMMA ClaimEffect ==
  ASSUME QP!IInv, NEW w \in Workers,
         Queue!ClaimLock(w) \/ Queue!ClaimCommit(w) \/ Queue!ClaimRollback(w) \/ Queue!Start(w)
  PROVE  /\ Leaves(w)
         /\ worker[w].pc \in {"poll", "claim", "down"}
         /\ \/ /\ jobs' = jobs
               /\ worker'[w].pc \in {"poll", "claim"} /\ worker'[w].step = 0
            \/ /\ worker[w].pc = "claim" /\ jobs'[worker[w].job].status = "running"
               /\ \/ worker'[w].pc = "poll"
                  \/ worker'[w].pc = "handle" /\ worker'[w].job = worker[w].job
                                              /\ worker'[w].step = worker[w].step
<1>1. CASE Queue!ClaimLock(w) \/ Queue!ClaimRollback(w) \/ Queue!Start(w)
  BY <1>1, Hand DEF Queue!ClaimLock, Queue!ClaimRollback, Queue!Start, Queue!Poll, Leaves
<1>2. CASE Queue!ClaimCommit(w)
  BY <1>2, Hand DEF Queue!ClaimCommit, Queue!Store, Queue!ClaimedRow, Queue!Poll, Leaves, QP!Job, QP!Worker
<1> QED
  BY <1>1, <1>2

LEMMA ProgressEffect ==
  ASSUME QP!IInv, NEW w \in Workers, Queue!Progress(w)
  PROVE  /\ Leaves(w)
         /\ \A j \in Jobs : jobs'[j].status = jobs[j].status
         /\ Queue!Pending(w)
         /\ worker[w].pc = "handle" /\ worker'[w].job = worker[w].job
         /\ \/ worker'[w].pc = "handle" /\ worker'[w].step = worker[w].step + 1
            \/ worker'[w].pc = "report"
BY Hand DEF Queue!Progress, Queue!Handling, Queue!Store, Queue!ProgressRow, Leaves, QP!Job, QP!Worker

LEMMA CompleteEffect ==
  ASSUME QP!IInv, NEW w \in Workers, Queue!Complete(w)
  PROVE  /\ Leaves(w)
         /\ jobs'[worker[w].job].status = "succeeded"
         /\ ~ Queue!Pending(w)
         /\ worker[w].pc = "handle"
         /\ \/ worker'[w].pc = "poll"
            \/ worker'[w].pc = "report" /\ worker'[w].job = worker[w].job
BY Hand DEF Queue!Complete, Queue!Handling, Queue!Store, Queue!CompleteRow, Queue!Finished, Queue!Poll,
       Leaves, QP!Job, QP!Worker

LEMMA ErrorEffect ==
  ASSUME QP!IInv, NEW w \in Workers, worker' = [worker EXCEPT ![w].pc = "report"], jobs' = jobs
  PROVE  Leaves(w) /\ worker'[w].pc = "report" /\ worker'[w].job = worker[w].job
BY Hand DEF Leaves, QP!Worker

LEMMA ReportEffect ==
  ASSUME QP!IInv, NEW w \in Workers, Queue!ReportFailure(w) \/ Queue!ReportLost(w)
  PROVE  /\ Leaves(w)
         /\ worker[w].pc = "report" /\ worker'[w].pc = "poll"
         /\ \/ jobs' = jobs
            \/ /\ jobs[worker[w].job].status = "running"
               /\ jobs'[worker[w].job].status = "failed"
<1>1. CASE Queue!ReportFailure(w)
  BY <1>1, Hand DEF Queue!ReportFailure, Queue!Owns, Queue!Store, Queue!FailRow, Queue!Finished,
       Queue!Poll, Leaves, QP!Job, QP!Worker
<1>2. CASE Queue!ReportLost(w)
  BY <1>2, Hand DEF Queue!ReportLost, Queue!Finished, Queue!Poll, Leaves, QP!Job, QP!Worker
<1> QED
  BY <1>1, <1>2

LEMMA StopEffect ==
  ASSUME QP!IInv, NEW w \in Workers, Queue!Stop(w)
  PROVE  Leaves(w) /\ jobs' = jobs /\ worker'[w].pc = "down"
BY Hand DEF Queue!Stop, Queue!Down, Leaves, QP!Worker

LEMMA EnqueueEffect ==
  ASSUME QP!IInv, NEW j \in Jobs, Queue!Enqueue(j, "transcribe")
  PROVE  /\ worker' = worker
         /\ jobs[j].status = "absent" /\ jobs'[j].status = "queued" /\ jobs'[j].kind = "transcribe"
         /\ \A i \in Jobs \ {j} : jobs'[i] = jobs[i]
BY Hand DEF Queue!Enqueue, Queue!Store, Queue!QueuedRow

(* Four calls are pending in a handler that starts. *)
LEMMA PendingCalls ==
  ASSUME QP!IInv, JobsTranscribe, NEW w \in Workers, worker[w].pc = "handle"
  PROVE  Queue!Pending(w) <=> worker[w].step < 4
<1>1. jobs[worker[w].job].kind = "transcribe"
  BY Hand DEF JobsTranscribe
<1>2. Len(Queue!TranscribeCalls) = 4
  BY DEF Queue!TranscribeCalls
<1> QED
  BY <1>1, <1>2 DEF Queue!Pending, Queue!Calls

-----------------------------------------------------------------------------
(* The store: requests stay, rows stay, and a second row of a job is refused. *)
StoreStep ==
  \/ UNCHANGED storeVars
  \/ \E a \in AudioAssets : Store!ActivateAudio(a)
  \/ \E b \in Backgrounds : Store!ActivateBackground(b)
  \/ \E j \in Jobs, k \in Keys : Store!Enqueue(j, k)
  \/ \E n \in 1..MaxRevision : Store!Replace(n)
  \/ \E j \in Jobs : Store!Activate(j)

LEMMA ActivateEffect ==
  ASSUME NEW j \in Jobs, Store!Activate(j)
  PROVE  /\ j \in Resulted' /\ requests' = requests /\ requests[j] # None
         /\ \E row : row.job = j /\ transcripts' = transcripts \cup {row}
         /\ Store!RowOfJob(j) = {}
<1>1. PICK n \in 1..MaxRevision :
        Store!Insert([revision |-> n, audio |-> requests[j].audio, job |-> j,
                      transcriber |-> j, base |-> project.active])
  BY DEF Store!Activate
<1> DEFINE row == [revision |-> n, audio |-> requests[j].audio, job |-> j,
                   transcriber |-> j, base |-> project.active]
<1>2. /\ transcripts' = transcripts \cup {row} /\ requests' = requests
      /\ row.job = j /\ row.audio = requests[j].audio
      /\ Store!RowOfJob(j) = {} /\ requests[j] # None
  BY <1>1 DEF Store!Insert, Store!Activate
<1> HIDE DEF row
<1>3. {r \in transcripts' : r.job = j} = {row}
  BY <1>2 DEF Store!RowOfJob
<1> QED
  BY <1>2, <1>3 DEF Resulted, Store!RowOfJob

LEMMA ReplaceEffect ==
  ASSUME NEW n, Store!Replace(n)
  PROVE  /\ requests' = requests
         /\ \E row : row.job = None /\ transcripts' = transcripts \cup {row}
<1>1. PICK base \in transcripts :
        Store!Insert([revision |-> n + 1, audio |-> project.audio, job |-> None,
                      transcriber |-> base.transcriber, base |-> n])
  BY DEF Store!Replace
<1> DEFINE row == [revision |-> n + 1, audio |-> project.audio, job |-> None,
                   transcriber |-> base.transcriber, base |-> n]
<1>2. transcripts' = transcripts \cup {row} /\ requests' = requests /\ row.job = None
  BY <1>1 DEF Store!Insert
<1> HIDE DEF row
<1> QED
  BY <1>2

LEMMA ResultsStay ==
  ASSUME Types, StoreStep, NEW j \in Jobs, j \in Resulted
  PROVE  j \in Resulted'
<1>1. CASE UNCHANGED <<transcripts, requests>>
  BY <1>1 DEF Resulted, Store!RowOfJob
<1>2. ASSUME requests' = requests,
             NEW row, row.job # j, transcripts' = transcripts \cup {row}
      PROVE  j \in Resulted'
  BY <1>2 DEF Resulted, Store!RowOfJob
<1>3. CASE \E n \in 1..MaxRevision : Store!Replace(n)
  BY <1>2, <1>3, ReplaceEffect, NoneAssumption
<1>4. ASSUME NEW i \in Jobs, Store!Activate(i) PROVE j \in Resulted'
  <2>1. CASE i = j
    BY <1>4, <2>1, ActivateEffect
  <2>2. CASE i # j
    BY <1>2, <1>4, <2>2, ActivateEffect
  <2> QED
    BY <2>1, <2>2
<1>5. ASSUME NEW i \in Jobs, NEW k \in Keys, Store!Enqueue(i, k) PROVE j \in Resulted'
  BY <1>5 DEF Store!Enqueue, Resulted, Store!RowOfJob, Types
<1>6. CASE \/ UNCHANGED storeVars
           \/ \E a \in AudioAssets : Store!ActivateAudio(a)
           \/ \E b \in Backgrounds : Store!ActivateBackground(b)
  BY <1>1, <1>6 DEF storeVars, Store!ActivateAudio, Store!ActivateBackground
<1> QED
  BY <1>3, <1>4, <1>5, <1>6 DEF StoreStep

LEMMA RequestsType ==
  ASSUME Types, StoreStep
  PROVE  requests' = [j \in Jobs |-> requests'[j]]
<1>1. ASSUME NEW i \in Jobs, NEW k \in Keys, Store!Enqueue(i, k)
      PROVE  requests' = [j \in Jobs |-> requests'[j]]
  BY <1>1 DEF Store!Enqueue, Types
<1> QED
  BY <1>1, ActivateEffect, ReplaceEffect
     DEF StoreStep, storeVars, Store!ActivateAudio, Store!ActivateBackground, Types

-----------------------------------------------------------------------------
(* Requests, uploads and saves. *)
LEMMA ApiInv ==
  ASSUME TInv, UNCHANGED <<worker, workVars>>, StoreStep,
         jobs' = jobs \/ \E j \in Jobs : Queue!Enqueue(j, "transcribe")
  PROVE  /\ JobsTranscribe' /\ ClaimsAtStart' /\ ResultsAreStored'
         /\ CleaningIsDue' /\ NoneBefore' /\ WorkspacesAreExplained'
<1> USE DEF TInv, workVars
<1>1. \A j \in Jobs :
        \/ jobs'[j] = jobs[j]
        \/ /\ jobs[j].status = "absent" /\ jobs'[j].status = "queued"
           /\ jobs'[j].kind = "transcribe"
  BY EnqueueEffect
<1>2. JobsTranscribe' /\ ClaimsAtStart'
  BY <1>1 DEF JobsTranscribe, ClaimsAtStart
<1>3. ResultsAreStored'
  BY <1>1, ResultsStay, Hand DEF ResultsAreStored, BehindActivation, Queue!Handling
<1>4. CleaningIsDue'
  BY <1>1 DEF CleaningIsDue, Types, TypeOK
<1>5. NoneBefore'
  BY <1>1 DEF NoneBefore, Queue!Handling
<1>6. WorkspacesAreExplained'
  BY <1>1 DEF WorkspacesAreExplained, InUse, Queue!Handling
<1> QED
  BY <1>2, <1>3, <1>4, <1>5, <1>6

(* The loop of a worker does not touch results and directories. *)
LEMMA ClaimInv ==
  ASSUME TInv, NEW w \in Workers, Claim(w)
  PROVE  /\ JobsTranscribe' /\ ClaimsAtStart' /\ ResultsAreStored'
         /\ CleaningIsDue' /\ NoneBefore' /\ WorkspacesAreExplained'
<1> USE DEF TInv
<1>1. /\ cleaning[w] = None
      /\ UNCHANGED <<project, assets, transcripts, requests, ready, workspace, cleaning, left>>
      /\ StoreStep
  BY DEF Claim, storeVars, workVars, StoreStep
<1>2. /\ Leaves(w)
      /\ worker[w].pc \in {"poll", "claim", "down"}
      /\ \/ /\ jobs' = jobs
            /\ worker'[w].pc \in {"poll", "claim"} /\ worker'[w].step = 0
         \/ /\ worker[w].pc = "claim" /\ jobs'[worker[w].job].status = "running"
            /\ \/ worker'[w].pc = "poll"
               \/ worker'[w].pc = "handle" /\ worker'[w].job = worker[w].job
                                           /\ worker'[w].step = worker[w].step
  BY ClaimEffect DEF Claim
<1>3. JobsTranscribe'
  BY <1>2, Hand DEF JobsTranscribe, Leaves
<1>4. ClaimsAtStart'
  BY <1>2 DEF ClaimsAtStart, Leaves
<1>5. ResultsAreStored'
  <2>1. \A j \in Jobs : j \in Resulted => j \in Resulted'
    BY <1>1, ResultsStay
  <2>2. \A j \in Jobs : jobs'[j].status = "succeeded" => j \in Resulted'
    BY <1>2, <2>1, Hand DEF ResultsAreStored, Leaves
  <2>3. ASSUME NEW v \in Workers, v \in BehindActivation' PROVE v # w
    BY <1>2, <2>3 DEF BehindActivation, ClaimsAtStart
  <2>4. ASSUME NEW v \in Workers, v \in BehindActivation' PROVE worker'[v].job \in Resulted'
    BY <1>1, <1>2, <2>1, <2>3, <2>4, Hand DEF ResultsAreStored, BehindActivation, Queue!Handling, Leaves
  <2>5. BehindActivation' \subseteq Workers
    BY DEF BehindActivation
  <2> QED
    BY <2>2, <2>4, <2>5 DEF ResultsAreStored
<1>6. CleaningIsDue'
  BY <1>1, <1>2, Hand DEF CleaningIsDue, Leaves, Types, TypeOK
<1>7. NoneBefore'
  BY <1>1, <1>2, Hand DEF NoneBefore, Leaves, Queue!Handling
<1>8. WorkspacesAreExplained'
  BY <1>1, <1>2, Hand DEF WorkspacesAreExplained, InUse, Leaves, Queue!Handling
<1> QED
  BY <1>3, <1>4, <1>5, <1>6, <1>7, <1>8

LEMMA ReportInv ==
  ASSUME TInv, NEW w \in Workers, Report(w)
  PROVE  /\ JobsTranscribe' /\ ClaimsAtStart' /\ ResultsAreStored'
         /\ CleaningIsDue' /\ NoneBefore' /\ WorkspacesAreExplained'
<1> USE DEF TInv
<1>1. /\ cleaning[w] = None
      /\ UNCHANGED <<ready, workspace, cleaning, left>>
      /\ StoreStep
  BY DEF Report, storeVars, workVars, StoreStep
<1>2. /\ Leaves(w)
      /\ worker[w].pc = "report" /\ worker'[w].pc = "poll"
      /\ \/ jobs' = jobs
         \/ /\ jobs[worker[w].job].status = "running"
            /\ jobs'[worker[w].job].status = "failed"
  BY ReportEffect DEF Report
<1>3. JobsTranscribe'
  BY <1>2, Hand DEF JobsTranscribe, Leaves
<1>4. ClaimsAtStart'
  BY <1>2 DEF ClaimsAtStart, Leaves
<1>5. ResultsAreStored'
  <2>1. \A j \in Jobs : j \in Resulted => j \in Resulted'
    BY <1>1, ResultsStay
  <2>2. \A j \in Jobs : jobs'[j].status = "succeeded" => j \in Resulted'
    BY <1>1, <1>2, <2>1, Hand DEF ResultsAreStored, Leaves
  <2>3. \A v \in BehindActivation' : worker'[v].job \in Resulted'
    BY <1>1, <1>2, <2>1, Hand DEF ResultsAreStored, BehindActivation, Leaves
  <2> QED
    BY <2>2, <2>3 DEF ResultsAreStored
<1>6. CleaningIsDue'
  BY <1>1, <1>2, Hand DEF CleaningIsDue, Leaves, Types, TypeOK
<1>7. NoneBefore'
  BY <1>1, <1>2, Hand DEF NoneBefore, Leaves, Queue!Handling, Types, TypeOK
<1>8. WorkspacesAreExplained'
  BY <1>1, <1>2, Hand DEF WorkspacesAreExplained, InUse, Leaves, Queue!Handling, Types, TypeOK, CleaningIsDue
<1> QED
  BY <1>3, <1>4, <1>5, <1>6, <1>7, <1>8

(* What a process leaves behind is in left. *)
LEMMA StopInv ==
  ASSUME TInv, NEW w \in Workers, Stop(w)
  PROVE  /\ JobsTranscribe' /\ ClaimsAtStart' /\ ResultsAreStored'
         /\ CleaningIsDue' /\ NoneBefore' /\ WorkspacesAreExplained'
<1> USE DEF TInv
<1>1. /\ ready' = ready \ {w} /\ cleaning' = [cleaning EXCEPT ![w] = None]
      /\ left' = left \cup {j \in {worker[w].job, cleaning[w]} \ {None} : workspace[j] # "absent"}
      /\ workspace' = workspace /\ StoreStep
  BY DEF Stop, storeVars, StoreStep
<1>2. Leaves(w) /\ jobs' = jobs /\ worker'[w].pc = "down"
  BY StopEffect DEF Stop
<1>3. JobsTranscribe'
  BY <1>2, Hand DEF JobsTranscribe, Leaves
<1>4. ClaimsAtStart'
  BY <1>2 DEF ClaimsAtStart, Leaves
<1>5. ResultsAreStored'
  <2>1. \A j \in Jobs : j \in Resulted => j \in Resulted'
    BY <1>1, ResultsStay
  <2>2. \A j \in Jobs : jobs'[j].status = "succeeded" => j \in Resulted'
    BY <1>1, <1>2, <2>1, Hand DEF ResultsAreStored, Leaves
  <2>3. \A v \in BehindActivation' : worker'[v].job \in Resulted'
    BY <1>1, <1>2, <2>1, Hand DEF ResultsAreStored, BehindActivation, Leaves
  <2> QED
    BY <2>2, <2>3 DEF ResultsAreStored
<1>6. CleaningIsDue'
  BY <1>1, <1>2, Hand DEF CleaningIsDue, Leaves, Types, TypeOK
<1>7. NoneBefore'
  BY <1>1, <1>2, Hand DEF NoneBefore, Leaves, Queue!Handling, Types, TypeOK
<1>8. WorkspacesAreExplained'
  BY <1>1, <1>2, Hand DEF WorkspacesAreExplained, InUse, Leaves, Queue!Handling, Types, TypeOK, CleaningIsDue
<1> QED
  BY <1>3, <1>4, <1>5, <1>6, <1>7, <1>8

(* The handler returns before it made a directory. *)
LEMMA PrepareErrorInv ==
  ASSUME TInv, NEW w \in Workers, PrepareError(w)
  PROVE  /\ JobsTranscribe' /\ ClaimsAtStart' /\ ResultsAreStored'
         /\ CleaningIsDue' /\ NoneBefore' /\ WorkspacesAreExplained'
<1> USE DEF TInv
<1>1. /\ worker[w].pc = "handle" /\ worker[w].step = 0 /\ w \notin ready
      /\ UNCHANGED <<ready, workspace, cleaning, left>> /\ StoreStep
  BY DEF PrepareError, storeVars, workVars, StoreStep, WorksBefore, Queue!Handling
<1>2. Leaves(w) /\ jobs' = jobs /\ worker'[w].pc = "report" /\ worker'[w].job = worker[w].job
  BY ErrorEffect DEF PrepareError, Queue!HandlerError
<1>3. JobsTranscribe'
  BY <1>2, Hand DEF JobsTranscribe, Leaves
<1>4. ClaimsAtStart'
  BY <1>2 DEF ClaimsAtStart, Leaves
<1>5. ResultsAreStored'
  <2>1. \A j \in Jobs : j \in Resulted => j \in Resulted'
    BY <1>1, ResultsStay
  <2>2. \A j \in Jobs : jobs'[j].status = "succeeded" => j \in Resulted'
    BY <1>1, <1>2, <2>1, Hand DEF ResultsAreStored, Leaves
  <2>3. \A v \in BehindActivation' : worker'[v].job \in Resulted'
    BY <1>1, <1>2, <2>1, Hand DEF ResultsAreStored, BehindActivation, Leaves
  <2> QED
    BY <2>2, <2>3 DEF ResultsAreStored
<1>6. CleaningIsDue'
  BY <1>1, <1>2, Hand DEF CleaningIsDue, Leaves, Types, TypeOK
<1>7. NoneBefore'
  BY <1>1, <1>2, Hand DEF NoneBefore, Leaves, Queue!Handling, Types, TypeOK
<1>8. WorkspacesAreExplained'
  <2>1. workspace[worker[w].job] = "absent"
    BY <1>1 DEF NoneBefore, Queue!Handling
  <2>2. \A v \in Workers : cleaning'[v] = cleaning[v]
    BY <1>1
  <2>3. ASSUME NEW j \in Jobs, workspace[j] # "absent", j \notin left PROVE InUse(j)'
    BY <1>1, <1>2, <2>1, <2>3 DEF WorkspacesAreExplained, InUse, Leaves, Queue!Handling
  <2> QED
    BY <1>1, <1>2, <2>3 DEF WorkspacesAreExplained
<1> QED
  BY <1>3, <1>4, <1>5, <1>6, <1>7, <1>8

(* The handler returns to its caller, which is about to remove the directory. *)
LEMMA ReturnsInv ==
  ASSUME TInv, NEW w \in Workers, worker[w].pc = "handle", Leaves(w), Returns(w), StoreStep,
         \/ /\ worker'[w].pc = "report" /\ worker'[w].job = worker[w].job
            /\ jobs'[worker[w].job].status \in {"running", "succeeded"}
         \/ worker'[w].pc = "poll" /\ jobs'[worker[w].job].status = "succeeded",
         jobs'[worker[w].job].status = "succeeded" => worker[w].job \in Resulted'
  PROVE  /\ JobsTranscribe' /\ ClaimsAtStart' /\ ResultsAreStored'
         /\ CleaningIsDue' /\ NoneBefore' /\ WorkspacesAreExplained'
<1> USE DEF TInv
<1>1. /\ ready' = ready \ {w} /\ cleaning' = [cleaning EXCEPT ![w] = worker[w].job]
      /\ UNCHANGED <<workspace, left>>
  BY DEF Returns
<1>2. /\ cleaning[w] = None /\ cleaning'[w] = worker[w].job
      /\ \A v \in Workers \ {w} : cleaning'[v] = cleaning[v]
  BY <1>1 DEF CleaningIsDue, Types, TypeOK
<1>3. JobsTranscribe'
  BY Hand DEF JobsTranscribe, Leaves
<1>4. ClaimsAtStart'
  BY DEF ClaimsAtStart, Leaves
<1>5. ResultsAreStored'
  <2>1. \A j \in Jobs : j \in Resulted => j \in Resulted'
    BY ResultsStay
  <2>2. \A j \in Jobs : jobs'[j].status = "succeeded" => j \in Resulted'
    BY <2>1, Hand DEF ResultsAreStored, Leaves
  <2>3. \A v \in BehindActivation' : worker'[v].job \in Resulted'
    BY <1>1, <2>1, Hand DEF ResultsAreStored, BehindActivation, Leaves
  <2> QED
    BY <2>2, <2>3 DEF ResultsAreStored
<1>6. CleaningIsDue'
  BY <1>2, Hand DEF CleaningIsDue, Leaves, Types, TypeOK
<1>7. NoneBefore'
  BY <1>1, Hand DEF NoneBefore, Leaves, Queue!Handling
<1>8. WorkspacesAreExplained'
  <2>1. ASSUME NEW j \in Jobs, workspace[j] # "absent", j \notin left PROVE InUse(j)'
    <3>1. PICK v \in Workers : (Queue!Handling(v) /\ worker[v].job = j) \/ cleaning[v] = j
      BY <2>1 DEF WorkspacesAreExplained, InUse
    <3>2. CASE v = w
      BY <1>2, <3>1, <3>2, NoneAssumption DEF InUse
    <3>3. CASE v # w
      BY <1>2, <3>1, <3>3 DEF InUse, Leaves, Queue!Handling
    <3> QED
      BY <3>2, <3>3
  <2>2. \A j \in Jobs : workspace[j] # "absent" /\ j \notin left => jobs'[j].status # "failed"
    BY Hand DEF WorkspacesAreExplained, Leaves
  <2> QED
    BY <1>1, <2>1, <2>2 DEF WorkspacesAreExplained
<1> QED
  BY <1>3, <1>4, <1>5, <1>6, <1>7, <1>8

LEMMA RunErrorInv ==
  ASSUME TInv, NEW w \in Workers, RunError(w)
  PROVE  /\ JobsTranscribe' /\ ClaimsAtStart' /\ ResultsAreStored'
         /\ CleaningIsDue' /\ NoneBefore' /\ WorkspacesAreExplained'
<1>1. worker[w].pc = "handle" /\ Returns(w) /\ StoreStep /\ jobs' = jobs
  BY DEF RunError, storeVars, StoreStep, Queue!HandlerError, Queue!Handling
<1>2. Leaves(w) /\ worker'[w].pc = "report" /\ worker'[w].job = worker[w].job
  BY ErrorEffect DEF RunError, Queue!HandlerError, TInv
<1>3. jobs'[worker[w].job].status = "running"
  BY <1>1, Hand DEF TInv
<1> QED
  BY <1>1, <1>2, <1>3, ReturnsInv

(* The work before a call is done. *)
LEMMA WorkDoneInv ==
  ASSUME TInv, NEW w \in Workers, worker[w].pc = "handle", WorkDone(w), StoreStep,
         workspace' = workspace \/ Produces(w, {"no result", "valid", "invalid"}),
         worker[w].step < 3 \/ worker[w].job \in Resulted'
  PROVE  /\ JobsTranscribe' /\ ClaimsAtStart' /\ ResultsAreStored'
         /\ CleaningIsDue' /\ NoneBefore' /\ WorkspacesAreExplained'
<1> USE DEF TInv
<1>1. ready' = ready \cup {w} /\ UNCHANGED <<jobs, worker, cleaning, left>>
  BY DEF WorkDone, queueVars
<1>2. \A j \in Jobs \ {worker[w].job} : workspace'[j] = workspace[j]
  BY DEF Produces, Types, TypeOK
<1>3. JobsTranscribe' /\ ClaimsAtStart' /\ CleaningIsDue'
  BY <1>1 DEF JobsTranscribe, ClaimsAtStart, CleaningIsDue
<1>4. ResultsAreStored'
  <2>1. \A j \in Jobs : j \in Resulted => j \in Resulted'
    BY ResultsStay
  <2>2. \A v \in BehindActivation' : worker'[v].job \in Resulted'
    BY <1>1, <2>1, Hand DEF ResultsAreStored, BehindActivation
  <2> QED
    BY <1>1, <2>1, <2>2 DEF ResultsAreStored
<1>5. NoneBefore'
  BY <1>1, <1>2, Hand DEF NoneBefore, Queue!Handling
<1>6. WorkspacesAreExplained'
  <2>1. \A j \in Jobs : InUse(j)' <=> InUse(j)
    BY <1>1 DEF InUse, Queue!Handling
  <2>2. InUse(worker[w].job) /\ jobs[worker[w].job].status # "failed"
    BY Hand DEF InUse, Queue!Handling
  <2> QED
    BY <1>1, <1>2, <2>1, <2>2, Hand DEF WorkspacesAreExplained
<1> QED
  BY <1>3, <1>4, <1>5, <1>6

LEMMA WorkInv ==
  ASSUME TInv, NEW w \in Workers, Prepare(w) \/ Normalize(w) \/ Transcribe(w)
  PROVE  /\ JobsTranscribe' /\ ClaimsAtStart' /\ ResultsAreStored'
         /\ CleaningIsDue' /\ NoneBefore' /\ WorkspacesAreExplained'
<1>1. worker[w].pc = "handle" /\ WorkDone(w) /\ StoreStep /\ worker[w].step < 3
  <2>1. worker[w].pc = "handle" /\ WorkDone(w) /\ UNCHANGED storeVars
    BY DEF Prepare, Normalize, Transcribe, WorksBefore, Queue!Handling
  <2>2. worker[w].step < 3
    <3>1. WorksBefore(w, 1) \/ WorksBefore(w, 2) \/ WorksBefore(w, 3)
      BY DEF Prepare, Normalize, Transcribe
    <3> QED
      BY <3>1 DEF WorksBefore
  <2> QED
    BY <2>1, <2>2 DEF StoreStep
<1>2. workspace' = workspace \/ Produces(w, {"no result", "valid", "invalid"})
  BY DEF Prepare, Normalize, Transcribe, Produces
<1> QED
  BY <1>1, <1>2, WorkDoneInv

LEMMA ActivateTranscriptInv ==
  ASSUME TInv, NEW w \in Workers, ActivateTranscript(w)
  PROVE  /\ JobsTranscribe' /\ ClaimsAtStart' /\ ResultsAreStored'
         /\ CleaningIsDue' /\ NoneBefore' /\ WorkspacesAreExplained'
<1>1. /\ worker[w].pc = "handle" /\ worker[w].job \in Jobs
      /\ jobs[worker[w].job].status = "running"
  BY Hand DEF TInv, ActivateTranscript, WorksBefore, Queue!Handling
<1>2. StoreStep /\ worker[w].job \in Resulted'
  BY <1>1, ActivateEffect DEF ActivateTranscript, StoreStep
<1>3. CASE WorkDone(w) /\ UNCHANGED workspace
  BY <1>1, <1>2, <1>3, WorkDoneInv
<1>4. CASE /\ worker' = [worker EXCEPT ![w].pc = "report"]
           /\ Returns(w) /\ UNCHANGED <<jobs, events>>
  <2>1. Leaves(w) /\ worker'[w].pc = "report" /\ worker'[w].job = worker[w].job
    BY <1>4, ErrorEffect DEF TInv
  <2> QED
    BY <1>1, <1>2, <1>4, <2>1, ReturnsInv
<1> QED
  BY <1>3, <1>4 DEF ActivateTranscript

(* complete is called behind the activation; a lost answer is an error. *)
LEMMA MakesCallInv ==
  ASSUME TInv, NEW w \in Workers, MakesCall(w)
  PROVE  /\ JobsTranscribe' /\ ClaimsAtStart' /\ ResultsAreStored'
         /\ CleaningIsDue' /\ NoneBefore' /\ WorkspacesAreExplained'
<1> USE DEF TInv
<1>1. /\ worker[w].pc = "handle" /\ worker[w].job \in Jobs /\ worker[w].step \in Nat
      /\ jobs[worker[w].job].status = "running"
      /\ Queue!Pending(w) <=> worker[w].step < 4
      /\ StoreStep
  BY Hand, PendingCalls DEF MakesCall, Queue!Handling, storeVars, StoreStep
<1>2. CASE Queue!Complete(w)
  <2>1. worker[w].job \in Resulted
    BY <1>1, <1>2, CompleteEffect DEF ResultsAreStored, BehindActivation
  <2>2. worker[w].job \in Resulted'
    BY <1>1, <2>1, ResultsStay
  <2>3. Returns(w)
    BY <1>2, CompleteEffect DEF MakesCall
  <2> QED
    BY <1>1, <1>2, <2>2, <2>3, CompleteEffect, ReturnsInv
<1>3. CASE Queue!Progress(w) /\ worker'[w].pc = "report"
  <2>1. Returns(w)
    BY <1>3 DEF MakesCall
  <2> QED
    BY <1>1, <1>3, <2>1, ProgressEffect, ReturnsInv
<1>4. CASE Queue!Progress(w) /\ worker'[w].pc = "handle"
  <2>1. ready' = ready \ {w} /\ UNCHANGED <<workspace, cleaning, left>>
    BY <1>4 DEF MakesCall
  <2>2. /\ Leaves(w) /\ w \in ready /\ worker[w].step < 4
        /\ \A j \in Jobs : jobs'[j].status = jobs[j].status
        /\ worker'[w].job = worker[w].job /\ worker'[w].step = worker[w].step + 1
    BY <1>1, <1>4, ProgressEffect DEF MakesCall
  <2>3. JobsTranscribe' /\ ClaimsAtStart'
    BY <1>4, <2>2 DEF JobsTranscribe, ClaimsAtStart, Leaves
  <2>4. ResultsAreStored'
    <3>1. \A j \in Jobs : j \in Resulted => j \in Resulted'
      BY <1>1, ResultsStay
    <3>2. \A v \in BehindActivation' : worker'[v].job \in Resulted'
      BY <1>1, <2>1, <2>2, <3>1, Hand DEF ResultsAreStored, BehindActivation, Leaves
    <3> QED
      BY <2>2, <3>1, <3>2 DEF ResultsAreStored
  <2>5. CleaningIsDue'
    BY <1>1, <2>1, <2>2 DEF CleaningIsDue, Leaves, Types, TypeOK
  <2>6. NoneBefore'
    BY <1>1, <2>1, <2>2 DEF NoneBefore, Leaves, Queue!Handling
  <2>7. WorkspacesAreExplained'
    BY <1>1, <1>4, <2>1, <2>2 DEF WorkspacesAreExplained, InUse, Leaves, Queue!Handling
  <2> QED
    BY <2>3, <2>4, <2>5, <2>6, <2>7
<1> QED
  BY <1>2, <1>3, <1>4, ProgressEffect DEF MakesCall

LEMMA RemoveWorkspaceInv ==
  ASSUME TInv, NEW w \in Workers, RemoveWorkspace(w)
  PROVE  /\ JobsTranscribe' /\ ClaimsAtStart' /\ ResultsAreStored'
         /\ CleaningIsDue' /\ NoneBefore' /\ WorkspacesAreExplained'
<1> USE DEF TInv
<1>1. /\ cleaning[w] # None /\ cleaning[w] \in Jobs
      /\ UNCHANGED <<jobs, worker, transcripts, requests, ready>> /\ StoreStep
  BY DEF RemoveWorkspace, queueVars, storeVars, StoreStep, Types, TypeOK
<1>2. /\ cleaning'[w] = None
      /\ \A v \in Workers \ {w} : cleaning'[v] = cleaning[v]
  BY DEF RemoveWorkspace, Types, TypeOK
<1>3. /\ \A j \in Jobs : workspace'[j] = workspace[j] \/ workspace'[j] = "absent"
      /\ \A j \in Jobs : j \in left => j \in left'
      /\ workspace'[cleaning[w]] = "absent" \/ cleaning[w] \in left'
  BY <1>1 DEF RemoveWorkspace, Types, TypeOK
<1>4. JobsTranscribe' /\ ClaimsAtStart'
  BY <1>1 DEF JobsTranscribe, ClaimsAtStart
<1>5. ResultsAreStored'
  BY <1>1 DEF ResultsAreStored, BehindActivation, Resulted, Store!RowOfJob
<1>6. CleaningIsDue'
  BY <1>1, <1>2 DEF CleaningIsDue
<1>7. NoneBefore'
  BY <1>1, <1>3, Hand DEF NoneBefore, Queue!Handling
<1>8. WorkspacesAreExplained'
  <2>1. ~ Queue!Handling(w)
    BY <1>1 DEF CleaningIsDue, Queue!Handling
  <2>2. ASSUME NEW j \in Jobs, InUse(j), j # cleaning[w] PROVE InUse(j)'
    BY <1>1, <1>2, <2>1, <2>2 DEF InUse, Queue!Handling
  <2> QED
    BY <1>1, <1>3, <2>2 DEF WorkspacesAreExplained
<1> QED
  BY <1>4, <1>5, <1>6, <1>7, <1>8

-----------------------------------------------------------------------------
LEMMA InitTInv == Init => TInv
<1> SUFFICES ASSUME Init PROVE TInv
  OBVIOUS
<1>1. QP!IInv
  BY QueueInv DEF Init
<1>2. /\ \A j \in Jobs : jobs[j].status = "absent"
      /\ \A w \in Workers : worker[w].pc = "down"
      /\ requests = [j \in Jobs |-> None]
  BY DEF Init, Queue!Init, Queue!Absent, Queue!Down, Store!Init
<1>3. Types
  BY <1>2 DEF Init, Types, TypeOK, Workspaces
<1> QED
  BY <1>1, <1>2, <1>3 DEF Init, TInv, JobsTranscribe, ClaimsAtStart, ResultsAreStored,
     BehindActivation, CleaningIsDue, NoneBefore, WorkspacesAreExplained, Queue!Handling

LEMMA StepIsStoreStep == ASSUME TInv, [Next]_vars PROVE StoreStep
<1>1. CASE \/ \E a \in AudioAssets : UploadAudio(a)
           \/ \E b \in Backgrounds : UploadBackground(b)
           \/ \E j \in Jobs, k \in Keys : StartTranscription(j, k)
           \/ \E n \in 1..MaxRevision : SaveTranscript(n)
  BY <1>1 DEF UploadAudio, UploadBackground, StartTranscription, SaveTranscript, StoreStep
<1>2. ASSUME NEW w \in Workers, Claim(w) \/ Handler(w) \/ Report(w) \/ Stop(w) PROVE StoreStep
  <2>1. CASE ActivateTranscript(w)
    <3>1. worker[w].job \in Jobs
      BY <2>1, Hand DEF TInv, ActivateTranscript, WorksBefore, Queue!Handling
    <3> QED
      BY <2>1, <3>1 DEF ActivateTranscript, StoreStep
  <2>2. CASE ~ ActivateTranscript(w)
    BY <1>2, <2>2 DEF Claim, Handler, Report, Stop, Prepare, PrepareError, Normalize, Transcribe,
       MakesCall, RunError, RemoveWorkspace, StoreStep
  <2> QED
    BY <2>1, <2>2
<1>3. CASE UNCHANGED vars
  BY <1>3 DEF vars, StoreStep
<1> QED
  BY <1>1, <1>2, <1>3 DEF Next

LEMMA TypesStay == ASSUME TInv, [Next]_vars PROVE Types'
<1> USE DEF TInv, TypeOK
<1>1. requests' = [j \in Jobs |-> requests'[j]]
  BY StepIsStoreStep, RequestsType
<1>2. CASE UNCHANGED workVars
  BY <1>1, <1>2 DEF workVars, Types
<1>3. CASE UNCHANGED vars
  BY <1>2, <1>3 DEF vars
<1>4. CASE \/ \E a \in AudioAssets : UploadAudio(a)
           \/ \E b \in Backgrounds : UploadBackground(b)
           \/ \E j \in Jobs, k \in Keys : StartTranscription(j, k)
           \/ \E n \in 1..MaxRevision : SaveTranscript(n)
  BY <1>2, <1>4 DEF UploadAudio, UploadBackground, StartTranscription, SaveTranscript
<1>5. ASSUME NEW w \in Workers, Claim(w) \/ Handler(w) \/ Report(w) \/ Stop(w) PROVE Types'
  <2>1. CASE Claim(w) \/ Report(w) \/ PrepareError(w)
    BY <1>2, <2>1 DEF Claim, Report, PrepareError
  <2>2. CASE Stop(w)
    BY <1>1, <2>2, Hand DEF Stop, Types, QP!Worker
  <2>3. ASSUME worker[w].job \in Jobs, Returns(w) PROVE Types'
    BY <1>1, <2>3 DEF Returns, Types
  <2>4. ASSUME WorkDone(w),
               workspace' = workspace \/ Produces(w, {"no result", "valid", "invalid"})
        PROVE  Types'
    BY <1>1, <2>4 DEF WorkDone, Produces, Types, Workspaces
  <2>5. CASE Prepare(w) \/ Normalize(w) \/ Transcribe(w)
    BY <2>4, <2>5 DEF Prepare, Normalize, Transcribe, Produces
  <2>6. CASE ActivateTranscript(w) \/ MakesCall(w) \/ RunError(w)
    <3>1. worker[w].job \in Jobs
      BY <2>6, Hand DEF ActivateTranscript, MakesCall, RunError, WorksBefore, Queue!Handling,
         Queue!HandlerError
    <3>2. \/ Returns(w)
          \/ WorkDone(w) /\ workspace' = workspace
          \/ ready' = ready \ {w} /\ UNCHANGED <<workspace, cleaning, left>>
      BY <2>6 DEF ActivateTranscript, MakesCall, RunError
    <3> QED
      BY <1>1, <2>3, <2>4, <3>1, <3>2 DEF Types
  <2>7. CASE RemoveWorkspace(w)
    BY <1>1, <2>7 DEF RemoveWorkspace, Types, Workspaces
  <2> QED
    BY <1>5, <2>1, <2>2, <2>5, <2>6, <2>7 DEF Handler
<1> QED
  BY <1>3, <1>4, <1>5 DEF Next

LEMMA NextTInv == TInv /\ [Next]_vars => TInv'
<1> SUFFICES ASSUME TInv, [Next]_vars PROVE TInv'
  OBVIOUS
<1>1. QP!IInv' /\ Types' /\ StoreStep
  BY QueueInv, TypesStay, StepIsStoreStep DEF TInv
<1>2. SUFFICES /\ JobsTranscribe' /\ ClaimsAtStart' /\ ResultsAreStored'
               /\ CleaningIsDue' /\ NoneBefore' /\ WorkspacesAreExplained'
  BY <1>1 DEF TInv
<1>3. CASE UNCHANGED vars
  BY <1>1, <1>3, ApiInv DEF vars, queueVars
<1>4. CASE \/ \E a \in AudioAssets : UploadAudio(a)
           \/ \E b \in Backgrounds : UploadBackground(b)
           \/ \E j \in Jobs, k \in Keys : StartTranscription(j, k)
           \/ \E n \in 1..MaxRevision : SaveTranscript(n)
  <2>1. /\ UNCHANGED workVars
        /\ jobs' = jobs \/ \E j \in Jobs : Queue!Enqueue(j, "transcribe")
        /\ worker' = worker
    BY <1>4, EnqueueEffect DEF UploadAudio, UploadBackground, StartTranscription, SaveTranscript,
       queueVars, TInv
  <2> QED
    BY <1>1, <2>1, ApiInv
<1>5. ASSUME NEW w \in Workers, Claim(w) \/ Handler(w) \/ Report(w) \/ Stop(w)
      PROVE  /\ JobsTranscribe' /\ ClaimsAtStart' /\ ResultsAreStored'
             /\ CleaningIsDue' /\ NoneBefore' /\ WorkspacesAreExplained'
  <2>1. CASE Claim(w)
    BY <2>1, ClaimInv
  <2>2. CASE Report(w)
    BY <2>2, ReportInv
  <2>3. CASE Stop(w)
    BY <2>3, StopInv
  <2>4. CASE Prepare(w) \/ Normalize(w) \/ Transcribe(w)
    BY <2>4, WorkInv
  <2>5. CASE PrepareError(w)
    BY <2>5, PrepareErrorInv
  <2>6. CASE ActivateTranscript(w)
    BY <2>6, ActivateTranscriptInv
  <2>7. CASE MakesCall(w)
    BY <2>7, MakesCallInv
  <2>8. CASE RunError(w)
    BY <2>8, RunErrorInv
  <2>9. CASE RemoveWorkspace(w)
    BY <2>9, RemoveWorkspaceInv
  <2> QED
    BY <1>5, <2>1, <2>2, <2>3, <2>4, <2>5, <2>6, <2>7, <2>8, <2>9 DEF Handler
<1> QED
  BY <1>3, <1>4, <1>5 DEF Next

THEOREM PipelineInvariance == Spec => []TInv
<1> QED
  BY InitTInv, NextTInv, PTL DEF Spec

(***************************************************************************)
(* A transcription that is reported as succeeded has its revision, made    *)
(* once, from the audio it was requested for (handle_transcription awaits  *)
(* the activation before it completes the job).                            *)
(***************************************************************************)
THEOREM ResultsExist == Spec => []SucceededHasRevision
<1>1. TInv => SucceededHasRevision
  BY DEF TInv, ResultsAreStored, Resulted, SucceededHasRevision
<1> QED
  BY <1>1, PipelineInvariance, PTL

(***************************************************************************)
(* Only the owner of the running job makes its transcript active, from a   *)
(* result that passed the checks of handle_transcription.                  *)
(***************************************************************************)
THEOREM OwnersActivate == Spec => OnlyOwnersActivate
<1> DEFINE Activation ==
      \A r \in transcripts' \ transcripts : r.job # None =>
        \E w \in Workers : /\ Queue!Owns(w, r.job) /\ worker[w].job = r.job
                           /\ workspace[r.job] = "valid"
<1>1. ASSUME TInv, [Next]_vars PROVE Activation
  <2>1. CASE \E w \in Workers : ActivateTranscript(w)
    <3>1. PICK w \in Workers : ActivateTranscript(w)
      BY <2>1
    <3>2. /\ worker[w].job \in Jobs /\ Queue!Owns(w, worker[w].job)
          /\ workspace[worker[w].job] = "valid" /\ Store!Activate(worker[w].job)
      BY <1>1, <3>1, Hand DEF TInv, ActivateTranscript, WorksBefore, Queue!Handling
    <3>3. \A r \in transcripts' \ transcripts : r.job = worker[w].job
      BY <3>2, ActivateEffect
    <3> QED
      BY <3>2, <3>3
  <2>2. CASE \E n \in 1..MaxRevision : SaveTranscript(n)
    BY <2>2, ReplaceEffect DEF SaveTranscript
  <2>3. CASE UNCHANGED transcripts
    BY <2>3
  <2>4. \/ \E w \in Workers : ActivateTranscript(w)
        \/ \E n \in 1..MaxRevision : SaveTranscript(n)
        \/ UNCHANGED transcripts
    BY <1>1 DEF Next, vars, UploadAudio, UploadBackground, StartTranscription, Claim, Handler,
       Report, Stop, Prepare, PrepareError, Normalize, Transcribe, MakesCall, RunError,
       RemoveWorkspace, storeVars, Store!ActivateAudio, Store!ActivateBackground, Store!Enqueue
  <2> QED
    BY <2>1, <2>2, <2>3, <2>4
<1> QED
  BY <1>1, PipelineInvariance, PTL DEF Spec, OnlyOwnersActivate

(***************************************************************************)
(* Every directory of a job is in use, on its way out, or left behind by a *)
(* process that died or could not remove it; none outlives the report of   *)
(* a failure.                                                              *)
(***************************************************************************)
THEOREM WorkspacesEnd == Spec => []WorkspacesAreExplained
<1>1. TInv => WorkspacesAreExplained
  BY DEF TInv
<1> QED
  BY <1>1, PipelineInvariance, PTL
=============================================================================
