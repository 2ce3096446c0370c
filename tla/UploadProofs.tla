----------------------------- MODULE UploadProofs -----------------------------
(***************************************************************************)
(* The properties of Upload for any number of requests, also infinitely    *)
(* many, and any limits.                                                   *)
(***************************************************************************)
EXTENDS Upload, SequenceTheorems, TLAPS

(***************************************************************************)
(* The files, the row and the answer of a request are known from where it  *)
(* is.  Once it is "deleting", and after it was dropped there, the files   *)
(* may go at any time: with a row it is then a commit taken for a failure. *)
(***************************************************************************)
Stored(u)   == final[u] \in 1..MaxBytes /\ part[u] = NoFile
Recorded(u) == asset[u] # NoRow

FilesFollowRequest(u) ==
  /\ request[u] = "reading" => part[u] = NoFile /\ final[u] = NoFile /\ ~ Recorded(u)
  /\ request[u] = "receiving" => part[u] # NoFile /\ final[u] = NoFile /\ ~ Recorded(u)
  /\ request[u] \in {"inspecting", "activating"} => Stored(u) /\ ~ Recorded(u)
  /\ request[u] \in {"reading", "receiving", "inspecting", "activating"} => answer[u] = "none"
  /\ request[u] \in {"deleting", "leaked"} => answer[u] \notin {"none", "Created"}
  /\ request[u] \in {"deleting", "dropped"} /\ answer[u] # "none" /\ Recorded(u) =>
       answer[u] = "Repository"
  /\ request[u] = "answered" => answer[u] # "none"
  /\ request[u] = "answered" /\ answer[u] = "Created" => Stored(u) /\ Recorded(u)
  /\ request[u] = "answered" /\ answer[u] # "Created" => part[u] = NoFile /\ final[u] = NoFile
  /\ request[u] \in Answered /\ Recorded(u) => answer[u] \in {"Created", "Repository"}
  /\ final[u] # NoFile => Stored(u)
  /\ Recorded(u) =>
       /\ asset[u].bytes > 0
       /\ \/ final[u] = asset[u].bytes
          \/ final[u] = NoFile /\ answer[u] = "Repository"

(***************************************************************************)
(* The form was read up to the file when there are bytes, and the bytes    *)
(* are all that was sent once the temporary file is renamed.               *)
(***************************************************************************)
FormFollowsRequest(u) ==
  /\ request[u] = "reading" =>
       IF kind[u] = NoKind THEN sent[u] = <<>> ELSE sent[u] = <<kind[u]>>
  /\ request[u] \in {"receiving", "inspecting", "activating"} =>
       kind[u] \in SourceKinds /\ sent[u] = <<kind[u], "file">>
  /\ request[u] = "receiving" => part[u] <= body[u]
  /\ request[u] \in {"inspecting", "activating"} => final[u] = body[u]
  /\ request[u] = "activating" => Suits(kind[u], found[u])
  /\ Recorded(u) =>
       /\ sent[u] = <<asset[u].kind, "file">> /\ asset[u].bytes = body[u]
       /\ asset[u].kind = "audio" =>
            "audio" \in found[u].streams /\ asset[u].duration = found[u].duration
                                         /\ asset[u].duration \in 0..MaxDuration
       /\ asset[u].kind = "background" => "video" \in found[u].streams

RequestInv(u) == FilesFollowRequest(u) /\ FormFollowsRequest(u)
IInv == TypeOK /\ \A u \in Uploads : RequestInv(u)

Step(u) ==
  \/ KindField(u) \/ BadField(u) \/ NoMoreFields(u) \/ RefuseFile(u) \/ FileField(u)
  \/ Chunk(u) \/ PutError(u) \/ Promote(u)
  \/ Inspect(u) \/ InspectError(u) \/ Activate(u) \/ ActivateError(u)
  \/ Remove(u) \/ AnswerError(u) \/ Drop(u)

LEMMA Constants ==
  /\ MaxBytes \in Nat \ {0} /\ MaxDuration \in Nat
  /\ NoFile = -1 /\ NoFile \in Sizes /\ 0 \in Sizes /\ Sizes \subseteq Int
  /\ NoKind \notin AssetKinds /\ NoRow \notin Rows /\ SourceKinds \subseteq AssetKinds
BY SizesAssumption DEF NoFile, Sizes, NoKind, AssetKinds, SourceKinds, NoRow, Rows

(***************************************************************************)
(* A request touches nothing of another one: it has a form, files and a    *)
(* row of its own.                                                         *)
(***************************************************************************)
LEMMA OthersStay ==
  ASSUME TypeOK, NEW u \in Uploads, Step(u), NEW v \in Uploads, v # u
  PROVE  /\ request'[v] = request[v] /\ answer'[v] = answer[v] /\ sent'[v] = sent[v]
         /\ kind'[v] = kind[v] /\ body'[v] = body[v] /\ found'[v] = found[v]
         /\ part'[v] = part[v] /\ final'[v] = final[v] /\ asset'[v] = asset[v]
<1> USE DEF TypeOK, form, files, Move, Fail, Read
<1>1. CASE KindField(u) \/ BadField(u) \/ NoMoreFields(u) \/ RefuseFile(u) \/ FileField(u)
  BY <1>1 DEF KindField, BadField, NoMoreFields, RefuseFile, FileField
<1>2. CASE Chunk(u) \/ PutError(u) \/ Promote(u)
  BY <1>2 DEF Chunk, PutError, Promote
<1>3. CASE \/ Inspect(u) \/ InspectError(u) \/ Activate(u) \/ ActivateError(u)
           \/ Remove(u) \/ AnswerError(u) \/ Drop(u)
  BY <1>3 DEF Inspect, InspectError, Activate, ActivateError, Remove, RemoveFiles, AnswerError,
              Drop
<1> QED BY <1>1, <1>2, <1>3 DEF Step

(* What is recorded of an inspected file is a row. *)
LEMMA RowFacts ==
  ASSUME TypeOK, NEW u \in Uploads, RequestInv(u), request[u] = "activating"
  PROVE  /\ Row(u) \in Rows /\ Row(u) # NoRow
         /\ Row(u).kind = kind[u] /\ Row(u).bytes = final[u]
         /\ kind[u] = "audio" => Row(u).duration = found[u].duration
<1> USE Constants
<1>1. kind[u] \in SourceKinds /\ final[u] \in Sizes /\ found[u].duration \in 0..MaxDuration + 1
  BY DEF TypeOK, RequestInv, FormFollowsRequest, Facts
<1>2. Row(u) \in Rows
  BY <1>1 DEF Row, Rows, NoDuration
<1>3. Row(u).kind = kind[u] /\ Row(u).bytes = final[u]
      /\ (kind[u] = "audio" => Row(u).duration = found[u].duration)
  BY DEF Row
<1> QED BY <1>2, <1>3

LEMMA TypeStays ==
  ASSUME TypeOK, NEW u \in Uploads, RequestInv(u), Step(u)
  PROVE  TypeOK'
<1> USE Constants
<1>1. /\ request' \in [Uploads -> InFlight \cup Answered \cup {"dropped"}]
      /\ answer' \in [Uploads -> Errors \cup {"none", "Created"}]
  <2> DEFINE States == InFlight \cup Answered \cup {"dropped"}
  <2>1. /\ {"reading", "receiving", "inspecting", "activating", "deleting", "answered",
             "leaked", "dropped"} \subseteq States
        /\ Answered \subseteq States
        /\ {"Validation", "NotFound", "PayloadTooLarge", "UnsupportedMedia", "Repository",
             "Artifact", "MediaInspection"} \subseteq Errors
    BY DEF InFlight, Answered, Errors
  <2> HIDE DEF States
  <2> USE DEF Move, Fail
  <2>2. request' = request \/ \E to \in States : request' = [request EXCEPT ![u] = to]
    <3>1. CASE KindField(u) \/ BadField(u) \/ NoMoreFields(u) \/ RefuseFile(u) \/ FileField(u)
      BY <2>1, <3>1 DEF KindField, BadField, NoMoreFields, RefuseFile, FileField
    <3>2. CASE Chunk(u) \/ PutError(u) \/ Promote(u)
      BY <2>1, <3>2 DEF Chunk, PutError, Promote
    <3>3. CASE Inspect(u) \/ InspectError(u) \/ Activate(u)
      BY <2>1, <3>3 DEF Inspect, InspectError, Activate
    <3>4. CASE ActivateError(u) \/ Remove(u) \/ AnswerError(u) \/ Drop(u)
      BY <2>1, <3>4 DEF ActivateError, Remove, RemoveFiles, AnswerError, Drop
    <3> QED BY <3>1, <3>2, <3>3, <3>4 DEF Step
  <2>3. \/ answer' = answer
        \/ \E e \in Errors \cup {"Created"} : answer' = [answer EXCEPT ![u] = e]
    <3>1. CASE KindField(u) \/ BadField(u) \/ NoMoreFields(u) \/ RefuseFile(u) \/ FileField(u)
      BY <2>1, <3>1 DEF KindField, BadField, NoMoreFields, RefuseFile, FileField
    <3>2. CASE Chunk(u) \/ PutError(u) \/ Promote(u)
      BY <2>1, <3>2 DEF Chunk, PutError, Promote
    <3>3. CASE Inspect(u) \/ InspectError(u) \/ Activate(u)
      BY <2>1, <3>3 DEF Inspect, InspectError, Activate
    <3>4. CASE ActivateError(u) \/ Remove(u) \/ AnswerError(u) \/ Drop(u)
      BY <2>1, <3>4 DEF ActivateError, Remove, RemoveFiles, AnswerError, Drop
    <3> QED BY <3>1, <3>2, <3>3, <3>4 DEF Step
  <2>4. request' \in [Uploads -> States]
    BY <2>2 DEF TypeOK, States
  <2>5. answer' \in [Uploads -> Errors \cup {"none", "Created"}]
    BY <2>3 DEF TypeOK
  <2> QED BY <2>4, <2>5 DEF States
<1>2. /\ sent' \in [Uploads -> Seq(Fields)]
      /\ kind' \in [Uploads -> AssetKinds \cup {NoKind}]
      /\ body' \in [Uploads -> 0..MaxBytes + 1]
  <2>1. \A field \in Fields : Read(u, field) => sent' \in [Uploads -> Seq(Fields)]
    <3> TAKE field \in Fields
    <3> HAVE Read(u, field)
    <3>1. sent[u] \in Seq(Fields)
      BY DEF TypeOK
    <3>2. Append(sent[u], field) \in Seq(Fields)
      BY <3>1
    <3> QED BY <3>2 DEF Read, TypeOK
  <2>2. AssetKinds \subseteq Fields /\ "file" \in Fields
    BY DEF Fields
  <2>3. CASE KindField(u) \/ BadField(u) \/ RefuseFile(u) \/ FileField(u)
    <3>1. sent' \in [Uploads -> Seq(Fields)]
      BY <2>1, <2>2, <2>3 DEF KindField, BadField, RefuseFile, FileField
    <3>2. kind' \in [Uploads -> AssetKinds \cup {NoKind}] /\ body' \in [Uploads -> 0..MaxBytes + 1]
      BY <2>3, ZenonT(60) DEF TypeOK, KindField, BadField, RefuseFile, FileField
    <3> QED BY <3>1, <3>2
  <2>4. CASE ~ (KindField(u) \/ BadField(u) \/ RefuseFile(u) \/ FileField(u))
    BY <2>4 DEF TypeOK, form, Step, NoMoreFields, Chunk, PutError, Promote, Inspect,
                InspectError, Activate, ActivateError, Remove, RemoveFiles,
                AnswerError, Drop
  <2> QED BY <2>3, <2>4
<1>3. found' \in [Uploads -> Facts]
  BY DEF TypeOK, Read, Step, KindField, BadField, NoMoreFields, RefuseFile, FileField,
         Chunk, PutError, Promote, Inspect, InspectError, Activate, ActivateError, Remove, RemoveFiles,
                AnswerError, Drop
<1>4. part' \in [Uploads -> Sizes]
  <2>1. CASE Chunk(u)
    <3>1. part[u] \in Sizes /\ part[u] < MaxBytes
      BY <2>1 DEF Chunk, TypeOK
    <3>2. part[u] + 1 \in Sizes
      BY <3>1 DEF Sizes, NoFile
    <3> QED BY <2>1, <3>2 DEF Chunk, TypeOK
  <2>2. CASE ~ Chunk(u)
    BY <2>2 DEF TypeOK, files, Step, KindField, BadField, NoMoreFields, RefuseFile, FileField,
                PutError, Promote, Inspect, InspectError, Activate, ActivateError, Remove, RemoveFiles,
                AnswerError, Drop
  <2> QED BY <2>1, <2>2
<1>5. final' \in [Uploads -> Sizes]
  BY DEF TypeOK, files, Read, Step, KindField, BadField, NoMoreFields, RefuseFile, FileField,
         Chunk, PutError, Promote, Inspect, InspectError, Activate, ActivateError, Remove, RemoveFiles,
                AnswerError, Drop
<1>6. asset' \in [Uploads -> Rows \cup {NoRow}]
  <2>1. CASE Activate(u)
    <3>1. request[u] = "activating"
      BY <2>1 DEF Activate, Move, Fail
    <3> QED BY <2>1, <3>1, RowFacts DEF Activate, TypeOK
  <2>2. CASE ~ Activate(u)
    BY <2>2 DEF TypeOK, Read, Step, KindField, BadField, NoMoreFields, RefuseFile, FileField,
                Chunk, PutError, Promote, Inspect, InspectError, ActivateError, Remove, RemoveFiles,
                AnswerError, Drop
  <2> QED BY <2>1, <2>2
<1> QED BY <1>1, <1>2, <1>3, <1>4, <1>5, <1>6 DEF TypeOK

LEMMA FilesStay ==
  ASSUME TypeOK, NEW u \in Uploads, RequestInv(u), Step(u)
  PROVE  FilesFollowRequest(u)'
<1> USE Constants DEF FilesFollowRequest, Stored, Recorded, TypeOK, form, files, Move, Fail, Answered
<1>1. CASE KindField(u) \/ BadField(u) \/ NoMoreFields(u) \/ RefuseFile(u)
  BY <1>1 DEF RequestInv, Read, KindField, BadField, NoMoreFields, RefuseFile, Errors
<1>2. CASE FileField(u)
  BY <1>2 DEF RequestInv, Read, FileField
<1>3. CASE Chunk(u)
  BY <1>3 DEF RequestInv, Chunk, Sizes
<1>4. CASE PutError(u)
  BY <1>4 DEF RequestInv, PutError
<1>5. CASE Promote(u)
  BY <1>5 DEF RequestInv, Promote, Sizes
<1>6. CASE Inspect(u) \/ InspectError(u)
  BY <1>6 DEF RequestInv, Inspect, InspectError
<1>7. CASE Activate(u)
  <2>1. request[u] = "activating"
    BY <1>7 DEF Activate
  <2>2. Row(u) # NoRow /\ Row(u).bytes = final[u] /\ asset'[u] = Row(u)
    BY <1>7, <2>1, RowFacts DEF Activate
  <2>3. part'[u] = part[u] /\ final'[u] = final[u] /\ final[u] > 0
    BY <1>7, <2>1 DEF Activate, RequestInv
  <2> QED BY <1>7, <2>1, <2>2, <2>3 DEF Activate, RequestInv
<1>8. CASE ActivateError(u)
  BY <1>8 DEF RequestInv, ActivateError
<1>9. CASE Remove(u)
  BY <1>9 DEF RequestInv, Remove, RemoveFiles
<1>10. CASE AnswerError(u)
  BY <1>10 DEF RequestInv, AnswerError
<1>11. CASE Drop(u)
  BY <1>11 DEF RequestInv, Drop, InFlight
<1> QED BY <1>1, <1>2, <1>3, <1>4, <1>5, <1>6, <1>7, <1>8, <1>9, <1>10, <1>11 DEF Step

LEMMA KindThenFile == ASSUME NEW k PROVE Append(<<k>>, "file") = <<k, "file">>
<1> DEFINE S == {k, "file"}
           s == Append(<<k>>, "file")
           t == <<k, "file">>
<1>1. <<k>> \in Seq(S) /\ Len(<<k>>) = 1 /\ <<k>>[1] = k
  OBVIOUS
<1>2. t \in Seq(S) /\ Len(t) = 2 /\ t[1] = k /\ t[2] = "file"
  OBVIOUS
<1>3. s \in Seq(S) /\ Len(s) = 2 /\ s[1] = k /\ s[2] = "file"
  BY <1>1
<1> HIDE DEF s, t, S
<1>4. s = t
  BY <1>2, <1>3, SeqEqual
<1> QED BY <1>4 DEF s, t

LEMMA FormStays ==
  ASSUME TypeOK, NEW u \in Uploads, RequestInv(u), Step(u)
  PROVE  FormFollowsRequest(u)'
<1> USE Constants DEF TypeOK, form, files, Move, Fail, Answered
<1>1. CASE KindField(u)
  <2>1. PICK field \in AssetKinds :
          /\ Read(u, field) /\ kind[u] = NoKind
          /\ kind' = [kind EXCEPT ![u] = field]
          /\ UNCHANGED <<request, answer, body, part>>
    BY <1>1 DEF KindField
  <2>2. /\ request'[u] = "reading" /\ kind'[u] = field /\ asset'[u] = asset[u]
        /\ sent'[u] = Append(sent[u], field) /\ sent[u] = <<>> /\ ~ Recorded(u)
    BY <2>1 DEF Read, RequestInv, FormFollowsRequest, FilesFollowRequest
  <2>3. sent'[u] = <<kind'[u]>> /\ kind'[u] # NoKind
    BY <2>2
  <2> QED BY <2>2, <2>3 DEF FormFollowsRequest, Recorded
<1>2. CASE BadField(u) \/ NoMoreFields(u) \/ RefuseFile(u)
  <2>1. request'[u] = "answered" /\ asset'[u] = asset[u] /\ request[u] = "reading"
    BY <1>2 DEF BadField, NoMoreFields, RefuseFile, Read
  <2>2. ~ Recorded(u)
    BY <2>1 DEF RequestInv, FilesFollowRequest
  <2> QED BY <2>1, <2>2 DEF FormFollowsRequest, Recorded
<1>3. CASE FileField(u)
  <2>1. /\ request[u] = "reading" /\ request'[u] = "receiving" /\ asset'[u] = asset[u]
        /\ kind'[u] = kind[u] /\ kind[u] \in SourceKinds /\ part'[u] = 0 /\ body'[u] \in Nat
        /\ sent'[u] = Append(sent[u], "file")
    BY <1>3 DEF FileField, Read
  <2>2. sent[u] = <<kind[u]>> /\ ~ Recorded(u)
    BY <2>1 DEF RequestInv, FormFollowsRequest, FilesFollowRequest
  <2>3. sent'[u] = <<kind'[u], "file">>
    <3> QED BY <2>1, <2>2, KindThenFile
  <2>4. ~ Recorded(u)' /\ part'[u] <= body'[u] /\ kind'[u] \in SourceKinds
    BY <2>1, <2>2 DEF Recorded
  <2> QED BY <2>1, <2>3, <2>4 DEF FormFollowsRequest
<1>4. CASE Chunk(u)
  <2>1. /\ request[u] = "receiving" /\ request'[u] = "receiving" /\ UNCHANGED <<form, asset>>
        /\ part'[u] = part[u] + 1 /\ part[u] < body[u]
    BY <1>4 DEF Chunk
  <2>2. part[u] \in Int /\ body[u] \in Int
    <3>1. part[u] \in Sizes /\ body[u] \in 0..MaxBytes + 1
      OBVIOUS
    <3>2. 0..MaxBytes + 1 \subseteq Int
      OBVIOUS
    <3> QED BY <3>1, <3>2, Zenon
  <2>3. /\ kind[u] \in SourceKinds /\ sent[u] = <<kind[u], "file">> /\ ~ Recorded(u)
    BY <2>1 DEF RequestInv, FormFollowsRequest, FilesFollowRequest
  <2>4. ~ Recorded(u)' /\ part'[u] <= body'[u] /\ kind'[u] = kind[u] /\ sent'[u] = sent[u]
    BY <2>1, <2>2, <2>3 DEF Recorded
  <2> QED BY <2>1, <2>3, <2>4 DEF FormFollowsRequest
<1>5. CASE \/ PutError(u) \/ InspectError(u) \/ ActivateError(u)
           \/ Remove(u) \/ AnswerError(u) \/ Drop(u)
  BY <1>5 DEF PutError, Remove, RemoveFiles, AnswerError, Drop, ActivateError, InspectError, RequestInv,
              FormFollowsRequest, Recorded
<1>6. CASE Promote(u)
  BY <1>6 DEF Promote, RequestInv, FormFollowsRequest, FilesFollowRequest, Recorded
<1>7. CASE Inspect(u)
  <2>1. PICK facts \in Facts :
          /\ found'[u] = facts /\ request[u] = "inspecting"
          /\ IF Suits(kind[u], facts) THEN request'[u] = "activating"
                                      ELSE request'[u] = "deleting"
          /\ UNCHANGED <<form, files, asset>>
    BY <1>7 DEF Inspect
  <2> QED BY <2>1 DEF RequestInv, FormFollowsRequest, FilesFollowRequest, Recorded, Suits
<1>8. CASE Activate(u)
  <2>1. /\ request[u] = "activating" /\ asset'[u] = Row(u)
        /\ request'[u] \in {"answered", "dropped", "deleting"}
        /\ UNCHANGED <<form, found, files>>
    BY <1>8 DEF Activate
  <2>2. /\ Row(u).kind = kind[u] /\ Row(u).bytes = final[u]
        /\ kind[u] = "audio" => Row(u).duration = found[u].duration
    BY <2>1, RowFacts
  <2>3. /\ sent[u] = <<kind[u], "file">> /\ final[u] = body[u] /\ Suits(kind[u], found[u])
        /\ kind[u] \in SourceKinds
    BY <2>1 DEF RequestInv, FormFollowsRequest
  <2>4. found[u].duration \in Nat
    BY DEF Facts
  <2> QED BY <2>1, <2>2, <2>3, <2>4 DEF FormFollowsRequest, Suits, SourceKinds
<1> QED BY <1>1, <1>2, <1>3, <1>4, <1>5, <1>6, <1>7, <1>8 DEF Step

LEMMA UploadInvariance == Spec => []IInv
<1>1. Init => IInv
  <2> SUFFICES ASSUME Init PROVE IInv
    OBVIOUS
  <2>1. TypeOK
    BY Constants DEF Init, TypeOK, InFlight, Fields, Facts, Unknown
  <2>2. \A u \in Uploads : RequestInv(u)
    BY Constants DEF Init, RequestInv, FilesFollowRequest, FormFollowsRequest, Stored, Recorded,
                     Answered
  <2> QED BY <2>1, <2>2 DEF IInv
<1>2. ASSUME IInv, NEW u \in Uploads, Step(u) PROVE IInv'
  <2>1. TypeOK'
    BY <1>2, TypeStays DEF IInv
  <2>2. ASSUME NEW v \in Uploads PROVE RequestInv(v)'
    <3>1. CASE v = u
      BY <1>2, <3>1, FilesStay, FormStays DEF IInv, RequestInv
    <3>2. CASE v # u
      <4>1. RequestInv(v)
        BY <1>2 DEF IInv
      <4> QED BY <1>2, <3>2, <4>1, OthersStay
              DEF IInv, RequestInv, FilesFollowRequest, FormFollowsRequest, Stored, Recorded, Suits
    <3> QED BY <3>1, <3>2
  <2> QED BY <2>1, <2>2 DEF IInv
<1>3. ASSUME IInv, UNCHANGED vars PROVE IInv'
  <2>1. TypeOK'
    BY <1>3 DEF vars, form, files, IInv, TypeOK
  <2>2. ASSUME NEW v \in Uploads PROVE RequestInv(v)'
    <3>1. RequestInv(v)
      BY <1>3 DEF IInv
    <3> QED BY <1>3, <3>1 DEF vars, form, files, RequestInv, FilesFollowRequest,
              FormFollowsRequest, Stored, Recorded, Suits
  <2> QED BY <2>1, <2>2 DEF IInv
<1>4. IInv /\ [Next]_vars => IInv'
  BY <1>2, <1>3 DEF Next, Step
<1> QED BY <1>1, <1>4, PTL DEF Spec

(***************************************************************************)
(* Forms, files and rows keep their types, sizes stay within the limit.    *)
(***************************************************************************)
THEOREM TypeCorrect == Spec => []TypeOK
<1>1. IInv => TypeOK
  BY DEF IInv
<1> QED BY <1>1, UploadInvariance, PTL

(***************************************************************************)
(* A recorded asset has its bytes, but for a commit taken for a failure.   *)
(***************************************************************************)
THEOREM RecordedHasBytes == Spec => []AssetHasBytes
<1>1. IInv => AssetHasBytes
  BY DEF IInv, RequestInv, FilesFollowRequest, Recorded, AssetHasBytes
<1> QED BY <1>1, UploadInvariance, PTL

(***************************************************************************)
(* A row describes the whole of what its client sent, of the kind it named *)
(* and within the limits.                                                  *)
(***************************************************************************)
THEOREM RecordedAsSent == Spec => []RecordedIsWhatWasSent
<1>1. IInv => RecordedIsWhatWasSent
  BY DEF IInv, RequestInv, FormFollowsRequest, Recorded, RecordedIsWhatWasSent
<1> QED BY <1>1, UploadInvariance, PTL

(***************************************************************************)
(* Leftovers have a known cause, and answers tell what became of an        *)
(* upload.                                                                 *)
(***************************************************************************)
THEOREM StorageIsClean == Spec => []OrphansAreExplained
<1>1. ASSUME IInv, NEW u \in Uploads
      PROVE  /\ (part[u] # NoFile \/ (final[u] # NoFile /\ asset[u] = NoRow)) =>
                  request[u] \in InFlight \cup {"dropped", "leaked"}
             /\ request[u] \in Answered /\ HttpStatus(answer[u]) = 201 =>
                  asset[u] # NoRow /\ final[u] # NoFile
             /\ request[u] \in Answered /\ HttpStatus(answer[u]) \in 400..499 => asset[u] = NoRow
             /\ request[u] = "answered" /\ HttpStatus(answer[u]) # 201 =>
                  part[u] = NoFile /\ final[u] = NoFile
  <2> USE Constants DEF IInv, RequestInv, FilesFollowRequest, Stored, Recorded, TypeOK, Answered
  <2>1. /\ answer[u] = "Created" <=> HttpStatus(answer[u]) = 201
        /\ answer[u] = "Repository" => HttpStatus(answer[u]) = 500
    BY <1>1 DEF HttpStatus, Errors
  <2>2. request[u] \in InFlight \cup {"dropped", "leaked"} \/ request[u] = "answered"
    BY <1>1 DEF InFlight
  <2>3. request[u] = "answered" /\ asset[u] = NoRow => part[u] = NoFile /\ final[u] = NoFile
    BY <1>1
  <2>4. request[u] = "answered" => part[u] = NoFile
    BY <1>1
  <2>5. request[u] \in Answered /\ asset[u] # NoRow => answer[u] \in {"Created", "Repository"}
    BY <1>1
  <2>6. request[u] \in Answered /\ answer[u] = "Created" => asset[u] # NoRow /\ final[u] # NoFile
    BY <1>1
  <2>7. request[u] = "answered" /\ answer[u] # "Created" => part[u] = NoFile /\ final[u] = NoFile
    BY <1>1
  <2> HIDE DEF IInv, RequestInv, FilesFollowRequest, Stored, Recorded, TypeOK, Answered
  <2> QED BY <2>1, <2>2, <2>3, <2>4, <2>5, <2>6, <2>7
<1>2. IInv => OrphansAreExplained
  <2> SUFFICES ASSUME IInv, NEW u \in Uploads, request[u] \in Answered
               PROVE  CASE HttpStatus(answer[u]) = 201 -> asset[u] # NoRow /\ final[u] # NoFile
                        [] HttpStatus(answer[u]) \in 400..499 -> asset[u] = NoRow
                        [] OTHER -> request[u] = "answered" =>
                                      part[u] = NoFile /\ final[u] = NoFile
    BY <1>1, ZenonT(60) DEF OrphansAreExplained
  <2>1. \/ HttpStatus(answer[u]) = 201
        \/ HttpStatus(answer[u]) \in 400..499
        \/ HttpStatus(answer[u]) # 201 /\ HttpStatus(answer[u]) \notin 400..499
    OBVIOUS
  <2> QED BY <1>1, <2>1
<1> QED BY <1>2, UploadInvariance, PTL
=============================================================================
