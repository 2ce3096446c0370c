------------------------------- MODULE Upload -------------------------------
(***************************************************************************)
(* Uploading a source asset: the handler reads the fields of a multipart   *)
(* form (upload_project_asset); the file is streamed to a temporary        *)
(* sibling and renamed (LocalArtifactStore::put), inspected with ffprobe,  *)
(* recorded by the transaction of PgAssetRepository::activate, and deleted *)
(* again if any of this fails (AssetService::upload).  The bytes are on a  *)
(* file system, the row in the database: nothing changes both together.    *)
(*                                                                         *)
(* Each request has an asset identity and storage key of its own.  The     *)
(* future of a request is dropped when its client goes away or the process *)
(* ends: it stops where it is and cleans nothing up.  Only a removal it    *)
(* has begun still goes through, as remove_file is a job of the blocking   *)
(* pool, which a dropped future does not take back.  What a client sends   *)
(* is chosen when the handler asks for it.                                 *)
(***************************************************************************)
EXTENDS Integers, Sequences

CONSTANTS Uploads,      \* requests, and with them storage keys
          MaxBytes,     \* max_upload_bytes, in chunks
          MaxDuration,  \* max_audio_duration_ms
          MaxFields     \* bound: fields of a form

ASSUME SizesAssumption ==
  MaxBytes \in Nat \ {0} /\ MaxDuration \in Nat /\ MaxFields \in Nat

VARIABLES request,  \* request[u]: where the request is
          answer,   \* answer[u]: what the handler returns or is about to
          sent,     \* sent[u]: the fields the handler has read
          kind,     \* kind[u]: its local variable of that name
          body,     \* body[u]: the length of the file the client sends
          found,    \* found[u]: what ffprobe finds in the file
          part,     \* part[u]: bytes in the temporary file, or NoFile
          final,    \* final[u]: bytes under the storage key, or NoFile
          asset     \* asset[u]: the row, or NoRow

form  == <<sent, kind, body>>
files == <<part, final>>
vars  == <<request, answer, form, found, files, asset>>

SourceKinds == {"audio", "background"}
AssetKinds  == SourceKinds \cup {"normalized_audio", "subtitle", "video"}
NoKind      == "none"

(* A kind field by its value, the file, and fields of other or no names. *)
Fields == AssetKinds \cup {"unknown kind", "file", "other"}

(***************************************************************************)
(* What ffprobe tells: for which kinds of stream the first one has a codec *)
(* the code supports and the facts it asks for, and the rounded duration.  *)
(***************************************************************************)
Facts   == [streams : SUBSET {"audio", "video"}, duration : 0..MaxDuration + 1]
Unknown == [streams |-> {}, duration |-> 0]

NoFile == -1
Sizes  == (0..MaxBytes) \cup {NoFile}

NoDuration == -1
Rows  == [kind : SourceKinds, bytes : Sizes, duration : (0..MaxDuration + 1) \cup {NoDuration}]
NoRow == [kind |-> NoKind, bytes |-> NoFile, duration |-> NoDuration]

(***************************************************************************)
(* The ApplicationErrors of an upload ("Repository" for InvalidData too);  *)
(* ApiError gives a status to all there are.                               *)
(***************************************************************************)
Errors == {"Validation", "NotFound", "PayloadTooLarge", "UnsupportedMedia",
           "Repository", "Artifact", "MediaInspection"}

HttpStatus(a) ==
  CASE a = "Created" -> 201
    [] a = "Validation" -> 400
    [] a = "NotFound" -> 404
    [] a = "Conflict" -> 409
    [] a = "RevisionConflict" -> 412
    [] a = "PayloadTooLarge" -> 413
    [] a = "UnsupportedMedia" -> 415
    [] a = "UnprocessableEntity" -> 422
    [] a = "PreconditionRequired" -> 428
    [] OTHER -> 500

(***************************************************************************)
(* Every step up to "deleting" is in flight; there the removal of the file *)
(* is under way and the error to answer is known.  A "leaked" request is   *)
(* answered like an "answered" one, but the removal of a file failed and   *)
(* nobody noticed.                                                         *)
(***************************************************************************)
InFlight == {"reading", "receiving", "inspecting", "activating", "deleting"}
Answered == {"answered", "leaked"}

TypeOK ==
  /\ request \in [Uploads -> InFlight \cup Answered \cup {"dropped"}]
  /\ answer \in [Uploads -> Errors \cup {"none", "Created"}]
  /\ sent \in [Uploads -> Seq(Fields)]
  /\ kind \in [Uploads -> AssetKinds \cup {NoKind}]
  /\ body \in [Uploads -> 0..MaxBytes + 1]
  /\ found \in [Uploads -> Facts]
  /\ part \in [Uploads -> Sizes]
  /\ final \in [Uploads -> Sizes]
  /\ asset \in [Uploads -> Rows \cup {NoRow}]

Init ==
  /\ request = [u \in Uploads |-> "reading"]
  /\ answer = [u \in Uploads |-> "none"]
  /\ sent = [u \in Uploads |-> <<>>]
  /\ kind = [u \in Uploads |-> NoKind]
  /\ body = [u \in Uploads |-> 0]
  /\ found = [u \in Uploads |-> Unknown]
  /\ part = [u \in Uploads |-> NoFile]
  /\ final = [u \in Uploads |-> NoFile]
  /\ asset = [u \in Uploads |-> NoRow]

Move(u, from, to) ==
  /\ request[u] = from
  /\ request' = [request EXCEPT ![u] = to]

(* The step fails with the error e, which the request goes on with to state to. *)
Fail(u, from, to, e) ==
  /\ Move(u, from, to)
  /\ answer' = [answer EXCEPT ![u] = e]

-----------------------------------------------------------------------------
(* upload_project_asset *)

(* multipart.next_field returns a field. *)
Read(u, field) ==
  /\ request[u] = "reading"
  /\ Len(sent[u]) < MaxFields
  /\ sent' = [sent EXCEPT ![u] = Append(@, field)]
  /\ UNCHANGED <<found, final, asset>>

(* Variant: a second kind field replaces the first one. *)
KindFieldAgain(u) ==
  \E field \in AssetKinds :
    /\ Read(u, field)
    /\ kind' = [kind EXCEPT ![u] = field]
    /\ UNCHANGED <<request, answer, body, part>>

KindField(u) ==
  \E field \in AssetKinds :
    /\ Read(u, field)
    /\ kind[u] = NoKind
    /\ kind' = [kind EXCEPT ![u] = field]
    /\ UNCHANGED <<request, answer, body, part>>

(***************************************************************************)
(* A kind field that is the second or unknown, a file before it, any other *)
(* field.                                                                  *)
(***************************************************************************)
BadField(u) ==
  \E field \in Fields :
    /\ Read(u, field)
    /\ \/ field \in AssetKinds /\ kind[u] # NoKind
       \/ field = "file" /\ kind[u] = NoKind
       \/ field \in {"unknown kind", "other"}
    /\ Fail(u, "reading", "answered", "Validation")
    /\ UNCHANGED <<kind, body, part>>

(* The form ends without a file, or cannot be read any further. *)
NoMoreFields(u) ==
  /\ Fail(u, "reading", "answered", "Validation")
  /\ UNCHANGED <<form, found, files, asset>>

(***************************************************************************)
(* The file follows a kind: AssetService::upload checks the kind, asks for *)
(* the project, checks the declared media type and the file name, and put  *)
(* opens a temporary file.  Which of this fails is chosen.                 *)
(***************************************************************************)
RefuseFile(u) ==
  /\ Read(u, "file")
  /\ kind[u] # NoKind
  /\ \E e \in Errors \ {"PayloadTooLarge", "MediaInspection"} :
       /\ kind[u] \notin SourceKinds => e = "Validation"
       /\ Fail(u, "reading", "answered", e)
  /\ UNCHANGED <<kind, body, part>>

FileField(u) ==
  /\ Read(u, "file")
  /\ kind[u] \in SourceKinds
  /\ \E length \in 0..MaxBytes + 1 : body' = [body EXCEPT ![u] = length]
  /\ Move(u, "reading", "receiving")
  /\ part' = [part EXCEPT ![u] = 0]
  /\ UNCHANGED <<answer, kind>>

-----------------------------------------------------------------------------
(* LocalArtifactStore::put *)

Chunk(u) ==
  /\ request[u] = "receiving"
  /\ part[u] < MaxBytes /\ part[u] < body[u]
  /\ part' = [part EXCEPT ![u] = @ + 1]
  /\ UNCHANGED <<request, answer, form, found, final, asset>>

(***************************************************************************)
(* The body is interrupted, empty or too long, or the disk fails: the      *)
(* removal of the temporary file begins.                                   *)
(***************************************************************************)
PutError(u) ==
  /\ \E e \in {"Validation", "PayloadTooLarge", "Artifact"} :
       /\ e = "PayloadTooLarge" => part[u] = MaxBytes /\ body[u] > MaxBytes
       /\ Fail(u, "receiving", "deleting", e)
  /\ UNCHANGED <<form, found, files, asset>>

(* The body has ended: flush, sync, rename to the storage key. *)
Promote(u) ==
  /\ part[u] > 0 /\ part[u] = body[u]
  /\ Move(u, "receiving", "inspecting")
  /\ part' = [part EXCEPT ![u] = NoFile]
  /\ final' = [final EXCEPT ![u] = part[u]]
  /\ UNCHANGED <<answer, form, found, asset>>

-----------------------------------------------------------------------------
(* AssetService::upload *)

(* facts_from_probe and the limit on the duration of audio. *)
Suits(k, facts) ==
  IF k = "audio" THEN "audio" \in facts.streams /\ facts.duration <= MaxDuration
                 ELSE "video" \in facts.streams

Inspect(u) ==
  \E facts \in Facts :
    /\ found' = [found EXCEPT ![u] = facts]
    /\ IF Suits(kind[u], facts)
       THEN Move(u, "inspecting", "activating") /\ UNCHANGED answer
       ELSE Fail(u, "inspecting", "deleting", "UnsupportedMedia")
    /\ UNCHANGED <<form, files, asset>>

(* ffprobe cannot be run, takes too long or answers in another form. *)
InspectError(u) ==
  /\ Fail(u, "inspecting", "deleting", "MediaInspection")
  /\ UNCHANGED <<form, found, files, asset>>

Row(u) == [kind |-> kind[u], bytes |-> final[u],
           duration |-> IF kind[u] = "audio" THEN found[u].duration ELSE NoDuration]

(***************************************************************************)
(* The transaction that inserts the row and moves the project's pointer,   *)
(* committed and acknowledged, or while the request is being dropped, or   *)
(* committed with the answer lost, which upload takes for a failure.       *)
(***************************************************************************)
Activate(u) ==
  /\ \/ Fail(u, "activating", "answered", "Created")
     \/ Move(u, "activating", "dropped") /\ UNCHANGED answer
     \/ Fail(u, "activating", "deleting", "Repository")
  /\ asset' = [asset EXCEPT ![u] = Row(u)]
  /\ UNCHANGED <<form, found, files>>

(* The project is gone, or the transaction failed. *)
ActivateError(u) ==
  /\ \E e \in {"NotFound", "Repository"} : Fail(u, "activating", "deleting", e)
  /\ UNCHANGED <<form, found, files, asset>>

-----------------------------------------------------------------------------
(* LocalArtifactStore::delete, and the removal of the temporary file in put. *)

RemoveFiles(u) ==
  /\ part[u] # NoFile \/ final[u] # NoFile
  /\ part' = [part EXCEPT ![u] = NoFile]
  /\ final' = [final EXCEPT ![u] = NoFile]
  /\ UNCHANGED <<request, answer, form, found, asset>>

(* Variant: a request that is dropped anywhere removes its files. *)
RemoveDropped(u) == request[u] \in {"deleting", "dropped"} /\ RemoveFiles(u)

(***************************************************************************)
(* The blocking pool removes the file, be the request still waiting for it *)
(* or dropped meanwhile: only one that was dropped in "deleting" has an    *)
(* answer.  If the process has ended, this just never happens.             *)
(***************************************************************************)
Remove(u) ==
  /\ request[u] \in {"deleting", "dropped"} /\ answer[u] # "none"
  /\ RemoveFiles(u)

(* Variant: the removal is left to run in the background. *)
AnswerAtOnce(u) ==
  /\ Move(u, "deleting", "answered")
  /\ UNCHANGED <<answer, form, found, files, asset>>

(* The removal is over; that it failed is not looked at. *)
AnswerError(u) ==
  /\ Move(u, "deleting", IF part[u] = NoFile /\ final[u] = NoFile THEN "answered"
                                                                 ELSE "leaked")
  /\ UNCHANGED <<answer, form, found, files, asset>>

-----------------------------------------------------------------------------
(* The client disconnects or the API process ends. *)
Drop(u) ==
  /\ request[u] \in InFlight
  /\ request' = [request EXCEPT ![u] = "dropped"]
  /\ UNCHANGED <<answer, form, found, files, asset>>

Next ==
  \E u \in Uploads :
    \/ KindField(u) \/ BadField(u) \/ NoMoreFields(u) \/ RefuseFile(u) \/ FileField(u)
    \/ Chunk(u) \/ PutError(u) \/ Promote(u)
    \/ Inspect(u) \/ InspectError(u) \/ Activate(u) \/ ActivateError(u)
    \/ Remove(u) \/ AnswerError(u) \/ Drop(u)

Spec == Init /\ [][Next]_vars

-----------------------------------------------------------------------------
(***************************************************************************)
(* Every asset a project can point at has its bytes, as many as its row    *)
(* says: a download never ends "before its persisted byte count"           *)
(* (crates/media open), whatever requests and crashes come in between.     *)
(* One exception is left by the code, against "original uploads: retained  *)
(* while the project exists" (docs/ARCHITECTURE.md:320): a request whose   *)
(* transaction has committed and was reported as failed goes on with the   *)
(* error and removes the bytes, whether or not it gets to answer.          *)
(***************************************************************************)
AssetHasBytes ==
  \A u \in Uploads : asset[u] # NoRow =>
    /\ asset[u].bytes > 0
    /\ \/ final[u] = asset[u].bytes
       \/ final[u] = NoFile /\ answer[u] = "Repository"

(***************************************************************************)
(* A row describes what its client sent: a form that begins with one kind  *)
(* and then the file, the whole of it ("interrupted uploads never become   *)
(* active assets", docs/DELIVERY_GUIDE.md:54), of that kind, audio no      *)
(* longer than the limit.                                                  *)
(***************************************************************************)
RecordedIsWhatWasSent ==
  \A u \in Uploads : asset[u] # NoRow =>
    /\ sent[u] = <<asset[u].kind, "file">>
    /\ asset[u].bytes = body[u]
    /\ asset[u].kind = "audio" =>
         "audio" \in found[u].streams /\ asset[u].duration = found[u].duration
                                      /\ asset[u].duration \in 0..MaxDuration
    /\ asset[u].kind = "background" => "video" \in found[u].streams

(***************************************************************************)
(* Bytes without a row belong to a request that is in flight, was dropped, *)
(* or could not remove them; a request answered with an error has left no  *)
(* file.  The status tells the client what became of its upload: 201 that  *)
(* it is recorded, 4xx that it is not, and only 500 leaves it open.        *)
(***************************************************************************)
OrphansAreExplained ==
  \A u \in Uploads :
    /\ (part[u] # NoFile \/ (final[u] # NoFile /\ asset[u] = NoRow)) =>
         request[u] \in InFlight \cup {"dropped", "leaked"}
    /\ request[u] \in Answered =>
         CASE HttpStatus(answer[u]) = 201 -> asset[u] # NoRow /\ final[u] # NoFile
           [] HttpStatus(answer[u]) \in 400..499 -> asset[u] = NoRow
           [] OTHER -> request[u] = "answered" => part[u] = NoFile /\ final[u] = NoFile
=============================================================================
