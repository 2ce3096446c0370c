---------------------------- MODULE Transcription ----------------------------
(***************************************************************************)
(* JobQueue and ProjectStore together: the API takes uploads, requests for *)
(* transcriptions and saves of one project, the workers carry the          *)
(* transcriptions out and activate their transcripts.                      *)
(*                                                                         *)
(* The request inserts the row of jobs that both components see in one     *)
(* transaction.  The worker does not: handle_transcription (apps/worker)   *)
(* works in a directory of the job's own between its progress calls, the   *)
(* transcript is activated in a transaction between "post_processing" and  *)
(* "finalizing", whose acknowledgement may be lost like any other, and the *)
(* directory is removed before the outcome is returned to the loop.        *)
(*                                                                         *)
(* ffmpeg and the transcriber (apps/transcriber) are subprocesses: they    *)
(* end well, or with an error, or are killed by a timeout, and the result  *)
(* file of one that ended well need not satisfy the worker's checks.       *)
(***************************************************************************)
EXTENDS Naturals, Sequences

CONSTANTS Jobs, Workers, AudioAssets, Backgrounds, Keys, MaxRevision, None

ASSUME NoneAssumption == None \notin Workers /\ None \notin Jobs

VARIABLES jobs, events, worker,                    \* of JobQueue
          project, assets, transcripts, requests,  \* of ProjectStore
          ready,      \* workers that are done with the work before their next call
          workspace,  \* workspace[j]: the directory of the job and its result file
          cleaning,   \* cleaning[w]: the job whose directory w is removing, or None
          left        \* jobs whose directory nobody will remove any more

queueVars == <<jobs, events, worker>>
storeVars == <<project, assets, transcripts, requests>>
workVars  == <<ready, workspace, cleaning, left>>
vars      == <<queueVars, storeVars, workVars>>

Queue == INSTANCE JobQueue WITH
  Queues <- [w \in Workers |-> {"transcribe"}], OneShot <- {}, Times <- {1}
Store == INSTANCE ProjectStore

(* No directory; one without a result; one with a result that passes the checks or not. *)
Workspaces == {"absent", "no result", "valid", "invalid"}

TypeOK ==
  /\ ready \subseteq Workers
  /\ workspace \in [Jobs -> Workspaces]
  /\ cleaning \in [Workers -> Jobs \cup {None}]
  /\ left \subseteq Jobs

Init ==
  /\ Queue!Init /\ Store!Init
  /\ ready = {} /\ left = {}
  /\ workspace = [j \in Jobs |-> "absent"]
  /\ cleaning = [w \in Workers |-> None]

-----------------------------------------------------------------------------
(* The API. *)

UploadAudio(a) ==
  Store!ActivateAudio(a) /\ UNCHANGED <<queueVars, workVars>>

UploadBackground(b) ==
  Store!ActivateBackground(b) /\ UNCHANGED <<queueVars, workVars>>

StartTranscription(j, k) ==
  /\ Store!Enqueue(j, k)
  /\ Queue!Enqueue(j, "transcribe")
  /\ UNCHANGED workVars

SaveTranscript(expected) ==
  Store!Replace(expected) /\ UNCHANGED <<queueVars, workVars>>

-----------------------------------------------------------------------------
(* The loop of a worker, which goes on when the handler has returned. *)

Claim(w) ==
  /\ cleaning[w] = None
  /\ \/ Queue!ClaimLock(w) \/ Queue!ClaimCommit(w) \/ Queue!ClaimRollback(w)
     \/ Queue!Start(w)
  /\ UNCHANGED <<storeVars, workVars>>

Report(w) ==
  /\ cleaning[w] = None
  /\ Queue!ReportFailure(w) \/ Queue!ReportLost(w)
  /\ UNCHANGED <<storeVars, workVars>>

-----------------------------------------------------------------------------
(* handle_transcription and run_transcription *)

(* The handler of w is at the work that stands before its call number n. *)
WorksBefore(w, n) ==
  Queue!Handling(w) /\ worker[w].step = n - 1 /\ w \notin ready

WorkDone(w) ==
  ready' = ready \cup {w} /\ UNCHANGED <<queueVars, cleaning, left>>

(* The result file after the work before call n. *)
Produces(w, contents) ==
  \E c \in contents : workspace' = [workspace EXCEPT ![worker[w].job] = c]

(* Payload, path of the source, create_dir_all. *)
Prepare(w) ==
  /\ WorksBefore(w, 1)
  /\ Produces(w, {"no result"})
  /\ WorkDone(w) /\ UNCHANGED storeVars

(* One of them fails: the handler returns, there is no directory to remove. *)
PrepareError(w) ==
  /\ WorksBefore(w, 1)
  /\ Queue!HandlerError(w)
  /\ UNCHANGED <<storeVars, workVars>>

(* ffmpeg ends well. *)
Normalize(w) ==
  /\ WorksBefore(w, 2)
  /\ WorkDone(w) /\ UNCHANGED <<storeVars, workspace>>

(* The transcriber ends well. *)
Transcribe(w) ==
  /\ WorksBefore(w, 3)
  /\ Produces(w, {"valid", "invalid"})
  /\ WorkDone(w) /\ UNCHANGED storeVars

(* Variant: an error leaves the handler at once. *)
ReturnsAtOnce(w) ==
  /\ ready' = ready \ {w}
  /\ cleaning' = IF worker'[w].pc = "report" THEN cleaning
                 ELSE [cleaning EXCEPT ![w] = worker[w].job]
  /\ UNCHANGED <<workspace, left>>

(* run_transcription returns: its caller removes the directory. *)
Returns(w) ==
  /\ ready' = ready \ {w}
  /\ cleaning' = [cleaning EXCEPT ![w] = worker[w].job]
  /\ UNCHANGED <<workspace, left>>

(* Variant: a task of its own activates the transcript, at any later time. *)
ActivateDetached(w) ==
  /\ \E j \in Jobs : jobs[j].attempt = 1 /\ Store!Activate(j)
  /\ UNCHANGED <<queueVars, workVars>>

(***************************************************************************)
(* The result is read, passes the checks and is activated, while the audio *)
(* is still the one of the request.  Without the acknowledgement the       *)
(* handler sees an error.                                                  *)
(***************************************************************************)
ActivateTranscript(w) ==
  /\ WorksBefore(w, 4)
  /\ workspace[worker[w].job] = "valid"
  /\ Store!Activate(worker[w].job)
  /\ \/ WorkDone(w) /\ UNCHANGED workspace
     \/ /\ worker' = [worker EXCEPT ![w].pc = "report"]
        /\ Returns(w) /\ UNCHANGED <<jobs, events>>

(* Variant: the handler does not wait for the work before a call. *)
CallUnordered(w) ==
  /\ Queue!Progress(w) \/ Queue!Complete(w)
  /\ IF worker'[w].pc = "handle" THEN ready' = ready \ {w} /\ UNCHANGED <<workspace, cleaning, left>>
                                 ELSE Returns(w)
  /\ UNCHANGED storeVars

(* A progress call, or after the last one complete. *)
MakesCall(w) ==
  /\ Queue!Handling(w)
  /\ w \in ready \/ ~ Queue!Pending(w)
  /\ Queue!Progress(w) \/ Queue!Complete(w)
  /\ IF worker'[w].pc = "handle" THEN ready' = ready \ {w} /\ UNCHANGED <<workspace, cleaning, left>>
                                 ELSE Returns(w)
  /\ UNCHANGED storeVars

(***************************************************************************)
(* A subprocess fails or is killed, the result is refused, the audio has   *)
(* changed, or a call is refused or fails.                                 *)
(***************************************************************************)
RunError(w) ==
  /\ ~ WorksBefore(w, 1)
  /\ Queue!HandlerError(w)
  /\ Returns(w)
  /\ UNCHANGED storeVars

(* remove_dir_all, whose own failure is ignored. *)
RemoveWorkspace(w) ==
  /\ cleaning[w] # None
  /\ \/ workspace' = [workspace EXCEPT ![cleaning[w]] = "absent"] /\ UNCHANGED left
     \/ left' = left \cup {cleaning[w]} /\ UNCHANGED workspace
  /\ cleaning' = [cleaning EXCEPT ![w] = None]
  /\ UNCHANGED <<queueVars, storeVars, ready>>

(* The process ends: the directory it works in or is removing stays. *)
Stop(w) ==
  /\ Queue!Stop(w)
  /\ ready' = ready \ {w}
  /\ cleaning' = [cleaning EXCEPT ![w] = None]
  /\ left' = left \cup {j \in {worker[w].job, cleaning[w]} \ {None} : workspace[j] # "absent"}
  /\ UNCHANGED <<storeVars, workspace>>

Handler(w) ==
  \/ Prepare(w) \/ PrepareError(w) \/ Normalize(w) \/ Transcribe(w)
  \/ ActivateTranscript(w) \/ MakesCall(w) \/ RunError(w) \/ RemoveWorkspace(w)

Next ==
  \/ \E a \in AudioAssets : UploadAudio(a)
  \/ \E b \in Backgrounds : UploadBackground(b)
  \/ \E j \in Jobs, k \in Keys : StartTranscription(j, k)
  \/ \E n \in 1..MaxRevision : SaveTranscript(n)
  \/ \E w \in Workers : Claim(w) \/ Handler(w) \/ Report(w) \/ Stop(w)

Spec == Init /\ [][Next]_vars

-----------------------------------------------------------------------------
(***************************************************************************)
(* The result of a succeeded transcription exists: its revision was made   *)
(* from the audio the job was started for, and it was made by this job     *)
(* only once.                                                              *)
(***************************************************************************)
SucceededHasRevision ==
  \A j \in Jobs : jobs[j].status = "succeeded" =>
    \E r \in transcripts :
      /\ Store!RowOfJob(j) = {r}
      /\ r.audio = requests[j].audio

(***************************************************************************)
(* A transcript becomes active only on behalf of the process that owns the *)
(* running job, from a result in its directory that passed the checks:     *)
(* nobody's late result is shown for a job that has ended, and "invalid    *)
(* output from Python fails safely and does not activate a revision"       *)
(* (docs/DELIVERY_GUIDE.md, exit criteria of milestone 2).                 *)
(***************************************************************************)
OnlyOwnersActivate ==
  [][\A r \in transcripts' \ transcripts : r.job # None =>
       \E w \in Workers : /\ Queue!Owns(w, r.job) /\ worker[w].job = r.job
                          /\ workspace[r.job] = "valid"]_vars

(***************************************************************************)
(* "Its per-job workspace is removed after success or failure"             *)
(* (docs/DEVELOPMENT.md:98): a directory is in use by the one process that *)
(* handles its job, or being removed, or nobody will remove it because its *)
(* process died or could not.  When a job is reported as failed, its       *)
(* directory is gone already.                                              *)
(***************************************************************************)
InUse(j) ==
  \E w \in Workers : (Queue!Handling(w) /\ worker[w].job = j) \/ cleaning[w] = j

WorkspacesAreExplained ==
  \A j \in Jobs : workspace[j] # "absent" /\ j \notin left =>
    InUse(j) /\ jobs[j].status # "failed"

=============================================================================
