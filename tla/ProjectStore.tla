---------------------------- MODULE ProjectStore ----------------------------
(***************************************************************************)
(* What the project, asset and transcript repositories promise about one   *)
(* project: each operation takes effect at one point in time.  The tables  *)
(* are projects (source pointers, status, active revision), transcript_    *)
(* revisions and the transcription rows of jobs.  ProjectTransactions      *)
(* shows that the statements and locks of the code implement this.         *)
(*                                                                         *)
(* Rows of different projects never meet in a statement, so the module     *)
(* models one project that exists; an absent one is only a refusal.  No    *)
(* statement of the program deletes a row.                                 *)
(***************************************************************************)
EXTENDS Naturals

CONSTANTS AudioAssets,   \* identities of uploaded audio
          Backgrounds,   \* identities of uploaded images
          Jobs,          \* identities of transcription jobs
          Keys,          \* values of the Idempotency-Key header
          MaxRevision,   \* the largest revision an INTEGER column holds
          None           \* NULL

ASSUME MaxRevisionAssumption == MaxRevision \in Nat \ {0}
ASSUME NoneAssumption == None \notin AudioAssets \cup Backgrounds \cup Jobs

VARIABLES project,      \* the row of projects
          assets,       \* the rows of assets, by identity
          transcripts,  \* the rows of transcript_revisions
          requests      \* requests[j]: the row of jobs, None before insert

vars == <<project, assets, transcripts, requests>>

(***************************************************************************)
(* A revision number of 0 is the NULL of active_transcript_revision.  A    *)
(* transcript made by a job has source 'whisper'; an edited one has no     *)
(* job.  transcriber is the job whose transcriber metadata the row carries *)
(* (an edit copies it from its base); base, a history field, is the        *)
(* revision that was active before the row became active.                  *)
(***************************************************************************)
Project == [audio : AudioAssets \cup {None}, background : Backgrounds \cup {None},
            status : {"draft", "ready"}, active : 0..MaxRevision]

Transcript == [revision : 1..MaxRevision, audio : AudioAssets,
               job : Jobs \cup {None}, transcriber : Jobs, base : 0..MaxRevision]

Request == [key : Keys, audio : AudioAssets]

TypeOK ==
  /\ project \in Project
  /\ assets \subseteq AudioAssets \cup Backgrounds
  /\ transcripts \subseteq Transcript
  /\ requests \in [Jobs -> Request \cup {None}]

Init ==
  /\ project = [audio |-> None, background |-> None, status |-> "draft", active |-> 0]
  /\ assets = {}
  /\ transcripts = {}
  /\ requests = [j \in Jobs |-> None]

-----------------------------------------------------------------------------
(***************************************************************************)
(* PgAssetRepository::activate, for an asset whose identity is fresh.  New *)
(* audio takes the active transcript away.                                 *)
(***************************************************************************)

(* Variant: an upload makes the project ready. *)
StatusReady(other) == "ready"

StatusIf(other) == IF other # None THEN "ready" ELSE "draft"

WithAudio(row, a) ==
  [row EXCEPT !.audio = a, !.status = StatusIf(row.background), !.active = 0]

WithBackground(row, b) ==
  [row EXCEPT !.background = b, !.status = StatusIf(row.audio)]

ActivateAudio(a) ==
  /\ a \notin assets
  /\ assets' = assets \cup {a}
  /\ project' = WithAudio(project, a)
  /\ UNCHANGED <<transcripts, requests>>

ActivateBackground(b) ==
  /\ b \notin assets
  /\ assets' = assets \cup {b}
  /\ project' = WithBackground(project, b)
  /\ UNCHANGED <<transcripts, requests>>

-----------------------------------------------------------------------------
(***************************************************************************)
(* PgTranscriptRepository::enqueue: the job of an earlier request with the *)
(* same key is returned as it is; a new one takes a snapshot of the audio. *)
(***************************************************************************)
(* Variant: the key is looked up together with the audio. *)
JobsWithKeyOfAudio(k) ==
  {j \in Jobs : requests[j] # None /\ requests[j].key = k
                  /\ requests[j].audio = project.audio}

JobsWithKey(k) == {j \in Jobs : requests[j] # None /\ requests[j].key = k}

Enqueue(j, k) ==
  /\ requests[j] = None
  /\ project.audio # None
  /\ JobsWithKey(k) = {}
  /\ requests' = [requests EXCEPT ![j] = [key |-> k, audio |-> project.audio]]
  /\ UNCHANGED <<project, assets, transcripts>>

-----------------------------------------------------------------------------
(* Variant: revisions are numbered by a sequence that leaves gaps. *)
IsLargerRevision(n) == \A r \in transcripts : r.revision < n

(***************************************************************************)
(* n is COALESCE(MAX(revision), 0) + 1.                                    *)
(***************************************************************************)
IsNextRevision(n) ==
  /\ \A r \in transcripts : r.revision < n
  /\ n = 1 \/ \E r \in transcripts : r.revision = n - 1

RowOfJob(j) == {r \in transcripts : r.job = j}

Insert(row) ==
  /\ transcripts' = transcripts \cup {row}
  /\ project' = [project EXCEPT !.active = row.revision]
  /\ UNCHANGED <<assets, requests>>

(***************************************************************************)
(* PgTranscriptRepository::activate by the worker that carries out j.  A   *)
(* second activation for the same job returns the first row and changes    *)
(* nothing; a project whose audio is no longer the one of the job refuses. *)
(***************************************************************************)
Activate(j) ==
  /\ requests[j] # None
  /\ RowOfJob(j) = {}
  /\ project.audio = requests[j].audio
  /\ \E n \in 1..MaxRevision :
       /\ IsNextRevision(n)
       /\ Insert([revision |-> n, audio |-> requests[j].audio, job |-> j,
                  transcriber |-> j, base |-> project.active])

(***************************************************************************)
(* PgTranscriptRepository::replace: a save with If-Match for revision      *)
(* expected.                                                               *)
(***************************************************************************)
Replace(expected) ==
  /\ project.active = expected
  /\ project.audio # None
  /\ expected + 1 <= MaxRevision
  /\ \E base \in transcripts :
       /\ base.revision = expected
       /\ Insert([revision |-> expected + 1, audio |-> project.audio,
                  job |-> None, transcriber |-> base.transcriber,
                  base |-> expected])

Next ==
  \/ \E a \in AudioAssets : ActivateAudio(a)
  \/ \E b \in Backgrounds : ActivateBackground(b)
  \/ \E j \in Jobs, k \in Keys : Enqueue(j, k)
  \/ \E j \in Jobs : Activate(j)
  \/ \E n \in 1..MaxRevision : Replace(n)

Spec == Init /\ [][Next]_vars

-----------------------------------------------------------------------------
Edited(r) == r.job = None

(***************************************************************************)
(* Every row ever active was the latest when it became active: the active  *)
(* revision exists and is the newest of the project, so the number         *)
(* expected + 1 of a save (persistence replace) is always free, and the    *)
(* ETag of a revision names one content for ever.                          *)
(***************************************************************************)
ActiveIsLatest ==
  project.active # 0 =>
    /\ \E r \in transcripts : r.revision = project.active
    /\ \A r \in transcripts : r.revision <= project.active

(***************************************************************************)
(* A transcript is never shown against audio it was not made for: an       *)
(* upload, a late transcription and a save meet only under the lock of the *)
(* project row.                                                            *)
(***************************************************************************)
ActiveMatchesAudio ==
  project.active # 0 =>
    \A r \in transcripts :
      r.revision = project.active => r.audio = project.audio

(***************************************************************************)
(* Revision numbers have no duplicate and no gap, although activate counts *)
(* from MAX(revision) and replace from the number the client sent.         *)
(***************************************************************************)
RevisionsUnbroken ==
  /\ \A r, q \in transcripts : r.revision = q.revision => r = q
  /\ \A r \in transcripts : r.revision > 1 =>
       \E q \in transcripts : q.revision = r.revision - 1

(***************************************************************************)
(* An edit replaces the revision its author saw, and nothing came between: *)
(* its predecessor is its base, for the same audio, and its transcriber    *)
(* metadata is that of the job which heard this audio.                     *)
(***************************************************************************)
EditsFollowTheirBase ==
  \A r \in transcripts :
    /\ requests[r.transcriber] # None /\ requests[r.transcriber].audio = r.audio
    /\ Edited(r) =>
         /\ r.revision = r.base + 1
         /\ \E q \in transcripts :
              /\ q.revision = r.base
              /\ q.audio = r.audio /\ q.transcriber = r.transcriber

(***************************************************************************)
(* A repeated or concurrent request with the same Idempotency-Key never    *)
(* makes a second job.                                                     *)
(***************************************************************************)
OneJobPerKey ==
  \A i, j \in Jobs :
    requests[i] # None /\ requests[j] # None /\ requests[i].key = requests[j].key
      => i = j

(***************************************************************************)
(* A project that is ready has both sources, as rows of assets, and one    *)
(* that has an active transcript as well is ready, in whatever order the   *)
(* sources are uploaded, replaced and transcribed: activate writes the     *)
(* status in the statement that sets one pointer, from the other pointer.  *)
(* Nothing is said of a project with both sources and no transcript, which *)
(* is ready in the code and not in docs/ARCHITECTURE.md:202.               *)
(***************************************************************************)
ReadyFollowsSources ==
  LET recorded == {project.audio, project.background} \subseteq assets IN
  /\ project.status = "ready" => recorded
  /\ recorded /\ project.active # 0 => project.status = "ready"
=============================================================================
