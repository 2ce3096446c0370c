--------------------------- MODULE WebEditorProofs ---------------------------
(***************************************************************************)
(* Theorems about the web editor: WebEditor, for any number of requests in *)
(* flight, edits of a draft, jobs and audio, and Timeline, for any         *)
(* transcripts, durations and number of commands.                          *)
(*                                                                         *)
(* WebEditor: a save is sent with the tag known for the project.  That     *)
(* this is the tag of the transcript on the screen, and that the draft was *)
(* made from it once the effect has run (DraftFollowsTag), must survive    *)
(* every order of answers; the server then does the rest, because it takes *)
(* the save only while that revision is still active.  The types of the    *)
(* answers are those of the store, whose invariant is proved in            *)
(* ProjectTransactionsProofs.                                              *)
(*                                                                         *)
(* Timeline: what a command does to the list of cues is told by what it    *)
(* does to the list of all words (Words), which takes the lemmas about     *)
(* FlattenSeq; what the checks say of neighbours holds of any two words    *)
(* and cues by induction (Chain).                                          *)
(***************************************************************************)
EXTENDS WebEditor, Timeline, SequenceTheorems, WellFoundedInduction, TLAPS

SP == INSTANCE ProjectTransactionsProofs WITH Txs <- {}, tx <- <<>>, lock <- None

-----------------------------------------------------------------------------
(* Store and SP are the same definitions, with and without the theorems. *)
LEMMA SameStore ==
  /\ Store!Init => SP!Init
  /\ Store!Next => SP!Next
  /\ \A n \in 1..MaxRevision : Store!Replace(n) => SP!Next
<1>1. Store!Init => SP!Init
  BY DEF Store!Init, SP!Init
<1>2. \A a \in AudioAssets : Store!ActivateAudio(a) => SP!ActivateAudio(a)
  BY DEF Store!ActivateAudio, SP!ActivateAudio, Store!WithAudio, SP!WithAudio,
         Store!StatusIf, SP!StatusIf
<1>3. \A b \in Backgrounds : Store!ActivateBackground(b) => SP!ActivateBackground(b)
  BY DEF Store!ActivateBackground, SP!ActivateBackground, Store!WithBackground,
         SP!WithBackground, Store!StatusIf, SP!StatusIf
<1>4. \A j \in Jobs, k \in Keys : Store!Enqueue(j, k) => SP!Enqueue(j, k)
  BY DEF Store!Enqueue, SP!Enqueue, Store!JobsWithKey, SP!JobsWithKey
<1>5. \A j \in Jobs : Store!Activate(j) => SP!Activate(j)
  BY DEF Store!Activate, SP!Activate, Store!RowOfJob, SP!RowOfJob, Store!IsNextRevision,
         SP!IsNextRevision, Store!Insert, SP!Insert
<1>6. \A n \in 1..MaxRevision : Store!Replace(n) => SP!Replace(n)
  BY DEF Store!Replace, SP!Replace, Store!Insert, SP!Insert
<1> QED
  BY <1>1, <1>2, <1>3, <1>4, <1>5, <1>6 DEF Store!Next, SP!Next

(* The store keeps its invariant in front of which the tab stands. *)
LEMMA StoreInv ==
  /\ Store!Init => SP!IInv
  /\ SP!IInv /\ (Store!Next \/ UNCHANGED serverVars) => SP!IInv'
<1>1. SP!IInv /\ UNCHANGED SP!vars => SP!IInv'
  BY NoneAssumption, MaxRevisionAssumption, SP!NextInv
<1>2. SP!IInv /\ SP!Next => SP!IInv'
  BY NoneAssumption, MaxRevisionAssumption, SP!NextInv
<1>3. SP!Init => SP!IInv
  BY NoneAssumption, MaxRevisionAssumption, SP!InitInv
<1> QED
  BY <1>1, <1>2, <1>3, SameStore DEF serverVars, SP!vars

LEMMA StoreTyped ==
  ASSUME SP!IInv
  PROVE  Store!TypeOK /\ project.active \in Revisions
<1>1. SP!TypeOK
  BY DEF SP!IInv
<1>2. Store!TypeOK
  BY <1>1 DEF SP!TypeOK, Store!TypeOK, SP!Project, Store!Project, SP!Transcript,
              Store!Transcript, SP!Request, Store!Request
<1>3. project.active \in Revisions
  BY <1>2 DEF Store!TypeOK, Store!Project, Revisions
<1> QED
  BY <1>2, <1>3

-----------------------------------------------------------------------------
EditorTypes ==
  /\ shown \in Revisions /\ etag \in Revisions /\ renaming \in BOOLEAN
  /\ review \in Review /\ pending \in BOOLEAN
  /\ ~ Mounted => review = Fresh(0) /\ ~ pending
  /\ call \in [Calls -> {NoCall} \cup Call]
  /\ authored \subseteq Origin

(***************************************************************************)
(* The known tag is that of the transcript shown, from which the draft was *)
(* made once the effect has run.                                           *)
(***************************************************************************)
DraftFollowsTag ==
  /\ shown # 0 => etag = shown
  /\ Mounted => pending \/ review.draft.base = shown

(***************************************************************************)
(* A save carries the tag of the transcript that was shown, and a draft    *)
(* made from it unless it was sent early; only saves and reloads are       *)
(* waited for by the editor.                                               *)
(***************************************************************************)
SaveFollowsDraft(request) ==
  request.kind = "save" =>
    /\ request.ifMatch # 0 /\ request.ifMatch = request.onScreen
    /\ request.draft.base = request.onScreen \/ request.early

CallsFollowEditor ==
  \A c \in Calls :
    /\ SaveFollowsDraft(call[c])
    /\ call[c].kind \in {"load", "refresh"} => ~ call[c].live

TabInv ==
  /\ EditorTypes /\ DraftFollowsTag /\ CallsFollowEditor
  /\ OverwritesAreExplained /\ SavingIsAwaited

WInv == SP!IInv /\ TabInv

LEMMA Initially == 0 \in Revisions /\ Clean(0) \in Draft /\ Fresh(0) \in Review
<1>1. 0 \in Revisions /\ 0 \in 0..MaxEdits
  BY MaxRevisionAssumption, MaxEditsAssumption DEF Revisions
<1> QED
  BY <1>1 DEF Fresh, Clean, Review, Draft

LEMMA InitWInv == Init => WInv
<1> SUFFICES ASSUME Init PROVE WInv
  OBVIOUS
<1>1. SP!IInv
  BY StoreInv DEF Init
<1>2. EditorTypes
  BY Initially DEF Init, EditorTypes
<1> QED
  BY <1>1, <1>2 DEF Init, WInv, TabInv, DraftFollowsTag, CallsFollowEditor, SaveFollowsDraft,
     OverwritesAreExplained, SavingIsAwaited, Awaited, Fresh, NoCall, Mounted

LEMMA CleanType ==
  ASSUME NEW revision \in Revisions
  PROVE  Clean(revision) \in Draft /\ Clean(revision).base = revision
         /\ Fresh(revision) \in Review
BY MaxEditsAssumption DEF Clean, Draft, Fresh, Review

-----------------------------------------------------------------------------
(* An answer is under way: who waits for it still does. *)
LEMMA AnsweredInv ==
  ASSUME TabInv, NEW c \in Calls, Sent(c, {"load", "reload", "refresh", "save"}),
         NEW status \in {"ok", "conflict", "error"}, NEW revision \in Revisions,
         Answered(c, status, revision), UNCHANGED <<appVars, review, pending>>
  PROVE  /\ call' \in [Calls -> {NoCall} \cup Call]
         /\ CallsFollowEditor' /\ SavingIsAwaited' /\ DraftFollowsTag'
<1> USE DEF TabInv, EditorTypes
<1>1. call[c] \in Call
  BY DEF Sent, NoCall
<1>2. /\ call'[c] \in Call /\ call'[c].kind = call[c].kind /\ call'[c].live = call[c].live
      /\ call'[c].ifMatch = call[c].ifMatch /\ call'[c].draft = call[c].draft
      /\ call'[c].onScreen = call[c].onScreen /\ call'[c].early = call[c].early
      /\ \A d \in Calls \ {c} : call'[d] = call[d]
  BY <1>1 DEF Answered, Call
<1>3. call' \in [Calls -> {NoCall} \cup Call]
  BY <1>2 DEF Answered
<1>4. CallsFollowEditor'
  BY <1>2 DEF CallsFollowEditor, SaveFollowsDraft
<1>5. SavingIsAwaited'
  <2>1. call[c] # NoCall /\ call'[c] # NoCall
    BY <1>1, <1>2 DEF NoCall, Call
  <2>2. \A d \in Calls : Awaited(d)' <=> Awaited(d)
    BY <1>2, <2>1 DEF Awaited
  <2> QED
    BY <2>2 DEF SavingIsAwaited
<1> QED
  BY <1>3, <1>4, <1>5 DEF DraftFollowsTag, appVars, Mounted

LEMMA ServeInv ==
  ASSUME WInv, NEW c \in Calls, ServeRead(c) \/ RefuseSave(c) \/ Fail(c)
  PROVE  TabInv'
<1>1. /\ Sent(c, {"load", "reload", "refresh", "save"})
      /\ UNCHANGED <<appVars, review, pending>> /\ UNCHANGED authored
      /\ \E status \in {"ok", "conflict", "error"}, revision \in {0, project.active} :
           Answered(c, status, revision)
  BY DEF ServeRead, RefuseSave, Fail, Sent
<1>2. 0 \in Revisions /\ project.active \in Revisions
  BY StoreTyped, Initially DEF WInv
<1>3. /\ call' \in [Calls -> {NoCall} \cup Call]
      /\ CallsFollowEditor' /\ SavingIsAwaited' /\ DraftFollowsTag'
  BY <1>1, <1>2, AnsweredInv DEF WInv
<1>4. EditorTypes'
  BY <1>1, <1>3 DEF WInv, TabInv, EditorTypes, appVars, Mounted
<1> QED
  BY <1>1, <1>3, <1>4 DEF WInv, TabInv, OverwritesAreExplained

(* The store takes a save only on top of the revision the tag names. *)
LEMMA ServeSaveInv ==
  ASSUME WInv, SP!IInv', NEW c \in Calls, ServeSave(c)
  PROVE  TabInv'
<1> DEFINE row == [revision |-> project'.active, base |-> call[c].draft.base,
                   onScreen |-> call[c].onScreen, early |-> call[c].early]
<1>1. /\ Sent(c, {"load", "reload", "refresh", "save"}) /\ call[c].kind = "save"
      /\ Store!Replace(call[c].ifMatch)
      /\ UNCHANGED <<appVars, review, pending>>
      /\ authored' = authored \cup {row}
      /\ \E status \in {"ok", "conflict", "error"}, revision \in {0, project'.active} :
           Answered(c, status, revision)
  BY DEF ServeSave, Sent
<1>2. 0 \in Revisions /\ project'.active \in Revisions
  BY MaxRevisionAssumption DEF SP!IInv, SP!TypeOK, SP!Project, Revisions
<1>3. /\ call' \in [Calls -> {NoCall} \cup Call]
      /\ CallsFollowEditor' /\ SavingIsAwaited' /\ DraftFollowsTag'
  BY <1>1, <1>2, AnsweredInv DEF WInv
<1>4. /\ call[c] \in Call /\ call[c].draft.base \in Revisions
      /\ call[c].onScreen \in Revisions /\ call[c].early \in BOOLEAN
  BY <1>1 DEF WInv, TabInv, EditorTypes, NoCall, Call, Draft
<1>5. project'.active = call[c].onScreen + 1
  <2>1. project \in Store!Project
    BY StoreTyped DEF WInv, Store!TypeOK
  <2>2. PICK base \in transcripts :
          Store!Insert([revision |-> call[c].ifMatch + 1, audio |-> project.audio,
                        job |-> None, transcriber |-> base.transcriber,
                        base |-> call[c].ifMatch])
    BY <1>1 DEF Store!Replace
  <2>3. project'.active = call[c].ifMatch + 1
    BY <2>1, <2>2 DEF Store!Insert, Store!Project
  <2> QED
    BY <1>1, <2>3 DEF WInv, TabInv, CallsFollowEditor, SaveFollowsDraft
<1>6. row \in Origin
  BY <1>2, <1>4 DEF Origin
<1>7. EditorTypes'
  BY <1>1, <1>3, <1>6 DEF WInv, TabInv, EditorTypes, appVars, Mounted
<1>8. OverwritesAreExplained'
  <2>1. row.revision = row.onScreen + 1 /\ (row.base = row.onScreen \/ row.early)
    BY <1>1, <1>5 DEF WInv, TabInv, CallsFollowEditor, SaveFollowsDraft
  <2> HIDE DEF row
  <2> QED
    BY <1>1, <2>1 DEF WInv, TabInv, OverwritesAreExplained
<1> QED
  BY <1>3, <1>7, <1>8 DEF TabInv

LEMMA ReplaceIsStoreStep ==
  ASSUME SP!IInv, NEW n, Store!Replace(n)
  PROVE  SP!IInv'
<1>1. n \in 1..MaxRevision
  BY StoreTyped DEF Store!Replace, Store!TypeOK, Store!Transcript
<1>2. Store!Next
  BY <1>1 DEF Store!Next
<1> QED
  BY <1>2, StoreInv

-----------------------------------------------------------------------------
(***************************************************************************)
(* An event of the editor: the draft stays one of what is shown, or        *)
(* becomes one when the effect runs.                                       *)
(***************************************************************************)
LEMMA UpdateFacts ==
  ASSUME TabInv, Mounted, NEW r \in Review, Update(r),
         r.draft.base \in {review.draft.base, shown}
  PROVE  /\ review' \in Review /\ ~ pending' /\ review'.saving = r.saving
         /\ review'.draft.base = shown
<1>1. shown \in Revisions /\ pending \in BOOLEAN
  BY DEF TabInv, EditorTypes
<1>2. Clean(shown) \in Draft /\ Clean(shown).base = shown
  BY <1>1, CleanType
<1>3. CASE pending
  BY <1>2, <1>3 DEF Update, Settle, Review
<1>4. CASE ~ pending
  BY <1>4 DEF Update, Settle, TabInv, DraftFollowsTag
<1> QED
  BY <1>3, <1>4

(* What such an event keeps, if the calls go on with it. *)
LEMMA UpdateInv ==
  ASSUME TabInv, Mounted, NEW r \in Review, Update(r),
         r.draft.base \in {review.draft.base, shown},
         UNCHANGED <<appVars, authored>>, SavingIsAwaited', CallsFollowEditor',
         call' \in [Calls -> {NoCall} \cup Call]
  PROVE  TabInv'
<1>1. review' \in Review /\ pending' = FALSE /\ review'.draft.base = shown
  BY UpdateFacts DEF Update
<1>2. EditorTypes'
  BY <1>1 DEF TabInv, EditorTypes, appVars, Mounted
<1>3. DraftFollowsTag'
  BY <1>1 DEF TabInv, DraftFollowsTag, appVars
<1> QED
  BY <1>2, <1>3 DEF TabInv, OverwritesAreExplained

-----------------------------------------------------------------------------
(* Requests of the tab. *)
LEMMA SendFacts ==
  ASSUME TabInv, NEW c \in Calls, NEW request \in Call, Send(c, request)
  PROVE  /\ call' \in [Calls -> {NoCall} \cup Call]
         /\ call[c] = NoCall /\ call'[c] = request
         /\ \A d \in Calls \ {c} : call'[d] = call[d]
BY DEF TabInv, EditorTypes, Send

LEMMA RequestType ==
  \A kind \in {"load", "reload", "refresh", "save"} : Request(kind) \in Call
<1>1. 0 \in Revisions /\ Clean(0) \in Draft
  BY Initially
<1> QED
  BY <1>1 DEF Request, Call

LEMMA LoadInv ==
  ASSUME WInv, NEW c \in Calls, Load(c) \/ Refresh(c)
  PROVE  TabInv'
<1> USE DEF WInv
<1>1. PICK kind \in {"load", "refresh"} :
        Send(c, Request(kind)) /\ UNCHANGED <<appVars, review, pending, authored>>
  BY DEF Load, Refresh
<1>2. /\ call' \in [Calls -> {NoCall} \cup Call]
      /\ call[c] = NoCall /\ call'[c] = Request(kind)
      /\ \A d \in Calls \ {c} : call'[d] = call[d]
  BY <1>1, RequestType, SendFacts
<1>3. call'[c].kind = kind /\ ~ call'[c].live
  <2>1. kind \notin {"save", "reload"}
    BY <1>1
  <2>2. Request(kind).kind = kind
    BY DEF Request
  <2>3. Request(kind).live = (kind \in {"save", "reload"})
    BY Zenon DEF Request
  <2>4. ~ Request(kind).live
    BY <2>1, <2>3, Zenon
  <2> QED
    BY <1>2, <2>2, <2>4, Zenon
<1>4. SavingIsAwaited'
  <2>1. \A d \in Calls : Awaited(d)' <=> Awaited(d)
    BY <1>2, <1>3 DEF Awaited
  <2> QED
    BY <1>1, <2>1 DEF TabInv, SavingIsAwaited
<1>5. CallsFollowEditor'
  BY <1>2, <1>3 DEF TabInv, CallsFollowEditor, SaveFollowsDraft
<1> QED
  BY <1>1, <1>2, <1>4, <1>5
     DEF TabInv, EditorTypes, DraftFollowsTag, OverwritesAreExplained, appVars, Mounted

(* The tab sends a request that the user waits for, one at a time. *)
LEMMA AwaitInv ==
  ASSUME WInv, NEW c \in Calls, Save(c) \/ Reload(c)
  PROVE  TabInv'
<1> USE DEF WInv
<1>1. /\ Mounted /\ ~ review.saving /\ UNCHANGED <<appVars, authored>>
      /\ shown # 0 /\ shown \in Revisions /\ etag = shown /\ pending \in BOOLEAN
      /\ review \in Review /\ review.draft \in Draft
      /\ pending \/ review.draft.base = shown
  BY DEF Save, Reload, Mounted, TabInv, EditorTypes, Review, DraftFollowsTag
<1>2. PICK r \in Review :
        /\ r.saving = TRUE /\ r.draft = review.draft
        /\ Update(r)
  <2>1. CASE Save(c)
    BY <1>1, <2>1 DEF Save, Review
  <2>2. CASE Reload(c)
    BY <1>1, <2>2 DEF Reload, Review
  <2> QED
    BY <2>1, <2>2
<1>3. PICK request \in Call :
        /\ Send(c, request) /\ request.kind \in {"save", "reload"} /\ request.live = TRUE
        /\ SaveFollowsDraft(request)
  <2>1. CASE Reload(c)
    <3>1. Send(c, Request("reload")) /\ Request("reload") \in Call
      BY <2>1, RequestType DEF Reload
    <3> QED
      BY <3>1 DEF Request, SaveFollowsDraft
  <2>2. CASE Save(c)
    <3> DEFINE request == [Request("save") EXCEPT !.draft = review.draft, !.ifMatch = shown,
                                                  !.onScreen = shown, !.early = pending]
    <3>1. Send(c, request)
      BY <1>1, <2>2 DEF Save
    <3>2. request \in Call
      BY <1>1, RequestType DEF Call
    <3>3. /\ request.kind = "save" /\ request.live = TRUE /\ request.ifMatch = shown
          /\ request.draft = review.draft /\ request.onScreen = shown /\ request.early = pending
      BY DEF Request
    <3> HIDE DEF request
    <3> QED
      BY <1>1, <3>1, <3>2, <3>3 DEF SaveFollowsDraft
  <2> QED
    BY <2>1, <2>2
<1>4. /\ call' \in [Calls -> {NoCall} \cup Call]
      /\ call[c] = NoCall /\ call'[c] = request
      /\ \A d \in Calls \ {c} : call'[d] = call[d]
  BY <1>3, SendFacts
<1>5. SavingIsAwaited'
  <2>1. Awaited(c)'
    BY <1>3, <1>4 DEF Awaited, Call, NoCall
  <2>2. \A d \in Calls \ {c} : ~ Awaited(d)'
    BY <1>1, <1>4 DEF Awaited, TabInv, SavingIsAwaited
  <2>3. review'.saving = TRUE
    BY <1>1, <1>2, UpdateFacts
  <2> QED
    BY <2>1, <2>2, <2>3 DEF SavingIsAwaited
<1>6. CallsFollowEditor'
  BY <1>3, <1>4 DEF TabInv, CallsFollowEditor
<1> QED
  BY <1>1, <1>2, <1>4, <1>5, <1>6, UpdateInv

-----------------------------------------------------------------------------
(* The user at the editor, and the effect. *)
LEMMA UserInv ==
  ASSUME WInv, OpenEditor \/ Edit \/ CancelEditing \/ RunEffect
  PROVE  TabInv'
<1> USE DEF WInv
<1>1. /\ Mounted /\ review \in Review /\ shown \in Revisions
      /\ UNCHANGED <<appVars, authored>> /\ UNCHANGED call
  BY DEF OpenEditor, Edit, CancelEditing, RunEffect, TabInv, EditorTypes
<1>2. PICK r \in Review :
        /\ r.saving = review.saving /\ r.draft.base \in {review.draft.base, shown}
        /\ Update(r)
  <2>1. CASE OpenEditor
    BY <1>1, <2>1 DEF OpenEditor, Review
  <2>2. CASE Edit
    <3>1. /\ review.draft \in Draft /\ review.draft.edits + 1 \in 0..MaxEdits
      BY <1>1, <2>2, MaxEditsAssumption DEF Edit, Review, Draft
    <3> QED
      BY <1>1, <2>2, <3>1 DEF Edit, Review, Draft
  <2>3. CASE CancelEditing
    <3>1. Clean(shown) \in Draft /\ Clean(shown).base = shown
      BY <1>1, CleanType
    <3> QED
      BY <1>1, <2>3, <3>1 DEF CancelEditing, Review
  <2>4. CASE RunEffect
    BY <1>1, <2>4 DEF RunEffect
  <2> QED
    BY <2>1, <2>2, <2>3, <2>4
<1>3. review'.saving = review.saving
  BY <1>1, <1>2, UpdateFacts
<1>4. SavingIsAwaited' /\ CallsFollowEditor' /\ call' \in [Calls -> {NoCall} \cup Call]
  BY <1>1, <1>3 DEF TabInv, EditorTypes, SavingIsAwaited, Awaited, CallsFollowEditor
<1> QED
  BY <1>1, <1>2, <1>4, UpdateInv

(* Without the component nobody waits. *)
LEMMA UnmountFacts ==
  ASSUME TabInv, NEW live \in SUBSET Calls, Unmount(live)
  PROVE  /\ call' \in [Calls -> {NoCall} \cup Call]
         /\ CallsFollowEditor' /\ SavingIsAwaited'
         /\ review' = Fresh(0) /\ Fresh(0) \in Review /\ pending' = FALSE
<1> USE DEF TabInv
<1>1. \A d \in Calls :
        \/ call'[d] = NoCall
        \/ /\ call[d] \in Call /\ call'[d] = [call[d] EXCEPT !.live = FALSE]
  BY DEF Unmount, EditorTypes
<1>2. \A d \in Calls :
        \/ call'[d] = NoCall
        \/ /\ call'[d] \in Call /\ call'[d].live = FALSE /\ call'[d].kind = call[d].kind
           /\ call'[d].ifMatch = call[d].ifMatch /\ call'[d].draft = call[d].draft
           /\ call'[d].onScreen = call[d].onScreen /\ call'[d].early = call[d].early
  BY <1>1, ZenonT(60) DEF Call
<1>3. call' \in [Calls -> {NoCall} \cup Call]
  <2>1. DOMAIN call' = Calls /\ call' = [d \in Calls |-> call'[d]]
    BY DEF Unmount
  <2> QED
    BY <1>2, <2>1
<1>4. CallsFollowEditor'
  BY <1>2 DEF CallsFollowEditor, SaveFollowsDraft, NoCall
<1>5. \A d \in Calls : ~ Awaited(d)'
  BY <1>2 DEF Awaited
<1>6. SavingIsAwaited'
  BY <1>5 DEF SavingIsAwaited, Unmount, Fresh
<1> QED
  BY <1>3, <1>4, <1>6, Initially DEF Unmount

(* The form to rename the project. *)
LEMMA RenameInv ==
  ASSUME WInv, OpenRename \/ CloseRename
  PROVE  TabInv'
<1> USE DEF WInv
<1>1. CASE OpenRename
  <2>1. renaming' = TRUE /\ UNCHANGED <<shown, etag, authored>> /\ Unmount(Calls)
    BY <1>1 DEF OpenRename
  <2>2. /\ call' \in [Calls -> {NoCall} \cup Call]
        /\ CallsFollowEditor' /\ SavingIsAwaited'
        /\ review' = Fresh(0) /\ Fresh(0) \in Review /\ pending' = FALSE
    BY <2>1, UnmountFacts
  <2>3. EditorTypes'
    BY <2>1, <2>2 DEF TabInv, EditorTypes
  <2>4. DraftFollowsTag'
    BY <2>1 DEF TabInv, DraftFollowsTag, Mounted
  <2> QED
    BY <2>1, <2>2, <2>3, <2>4 DEF TabInv, OverwritesAreExplained
<1>2. CASE CloseRename
  <2>1. /\ renaming /\ renaming' = FALSE /\ UNCHANGED <<shown, etag, call, authored>>
        /\ review' = Fresh(shown) /\ pending' = (shown # 0)
    BY <1>2 DEF CloseRename
  <2>2. review = Fresh(0) /\ shown \in Revisions /\ Fresh(shown) \in Review
    BY <2>1, CleanType DEF TabInv, EditorTypes, Mounted
  <2>3. pending' \in BOOLEAN /\ (~ Mounted' => shown = 0 /\ ~ pending')
    BY <2>1 DEF Mounted
  <2>4. EditorTypes'
    BY <2>1, <2>2, <2>3 DEF TabInv, EditorTypes
  <2>5. DraftFollowsTag'
    BY <2>1 DEF TabInv, DraftFollowsTag, Mounted
  <2>6. review'.saving = review.saving
    BY <2>1, <2>2 DEF Fresh
  <2>7. SavingIsAwaited' /\ CallsFollowEditor'
    BY <2>1, <2>6 DEF TabInv, SavingIsAwaited, Awaited, CallsFollowEditor
  <2> QED
    BY <2>1, <2>4, <2>5, <2>7 DEF TabInv, OverwritesAreExplained
<1> QED
  BY <1>1, <1>2

-----------------------------------------------------------------------------
(* Answers. *)
LEMMA DoneFacts ==
  ASSUME TabInv, NEW c \in Calls, Done(c)
  PROVE  /\ call' \in [Calls -> {NoCall} \cup Call]
         /\ call'[c] = NoCall /\ ~ Awaited(c)'
         /\ \A d \in Calls \ {c} : call'[d] = call[d]
         /\ \A d \in Calls \ {c} : Awaited(d)' <=> Awaited(d)
         /\ CallsFollowEditor'
BY DEF TabInv, EditorTypes, Done, NoCall, Awaited, CallsFollowEditor, SaveFollowsDraft

(* Nobody waits any more if it was this answer; otherwise as before. *)
LEMMA AnswerEndsWait ==
  ASSUME TabInv, NEW c \in Calls, Done(c),
         Awaited(c) => review'.saving = FALSE,
         ~ Awaited(c) => review'.saving = review.saving
  PROVE  SavingIsAwaited'
<1>1. \A d \in Calls : Awaited(d)' <=> (Awaited(d) /\ d # c)
  BY DoneFacts
<1>2. /\ review.saving <=> \E d \in Calls : Awaited(d)
      /\ \A d, e \in Calls : Awaited(d) /\ Awaited(e) => d = e
  BY DEF TabInv, SavingIsAwaited
<1>3. CASE Awaited(c)
  BY <1>1, <1>2, <1>3 DEF SavingIsAwaited
<1>4. CASE ~ Awaited(c)
  BY <1>1, <1>2, <1>4 DEF SavingIsAwaited
<1> QED
  BY <1>3, <1>4

LEMMA NobodyWaits ==
  ASSUME TabInv, ~ Mounted
  PROVE  review = Fresh(0) /\ ~ pending /\ ~ review.saving
         /\ \A c \in Calls : ~ Awaited(c)
BY DEF TabInv, EditorTypes, SavingIsAwaited, Fresh

LEMMA TranscriptInv ==
  ASSUME WInv, NEW c \in Calls, HandleTranscript(c)
  PROVE  TabInv'
<1> USE DEF WInv
<1> DEFINE revision == call[c].answer
           ends == call[c].live
<1>1. /\ revision # 0 /\ Done(c) /\ authored' = authored /\ renaming' = renaming
      /\ shown' = revision /\ etag' = revision /\ pending' = ~ renaming
      /\ Mounted => review' = [Settle(review) EXCEPT !.editing = @ /\ ~ ends,
                                                     !.saving = @ /\ ~ ends]
      /\ ~ Mounted => review' = Fresh(IF renaming THEN 0 ELSE revision)
      /\ call[c] # NoCall
  BY DEF HandleTranscript, Got, Take, NoCall
<1>2. /\ call[c] \in Call /\ revision \in Revisions /\ ends \in BOOLEAN
      /\ (ends <=> Awaited(c))
      /\ review \in Review /\ renaming \in BOOLEAN /\ shown \in Revisions
  BY <1>1 DEF TabInv, EditorTypes, Call, Awaited
<1> HIDE DEF ends, revision
<1>3. CASE Mounted
  <2>1. Settle(review) \in Review /\ Settle(review).saving = review.saving
    BY <1>2, CleanType DEF Settle, Review
  <2>2. /\ review' \in Review /\ review'.saving = (review.saving /\ ~ ends)
    BY <1>1, <1>2, <1>3, <2>1 DEF Review
  <2>3. review.saving \in BOOLEAN /\ ~ renaming
    BY <1>2, <1>3 DEF Review, Mounted
  <2>4. SavingIsAwaited'
    BY <1>1, <1>2, <2>2, <2>3, AnswerEndsWait
  <2>5. EditorTypes'
    BY <1>1, <1>2, <2>2, <2>3, DoneFacts DEF TabInv, EditorTypes, Mounted
  <2>6. DraftFollowsTag'
    BY <1>1, <2>3 DEF DraftFollowsTag
  <2> QED
    BY <1>1, <2>4, <2>5, <2>6, DoneFacts DEF TabInv, OverwritesAreExplained
<1>4. CASE ~ Mounted
  <2>1. /\ review.saving = FALSE /\ ~ Awaited(c)
    BY <1>4, NobodyWaits DEF Fresh
  <2>2. review' \in Review /\ review'.saving = FALSE
    BY <1>1, <1>2, <1>4, CleanType, Initially DEF Fresh
  <2>3. SavingIsAwaited'
    BY <1>1, <2>1, <2>2, AnswerEndsWait
  <2>4. EditorTypes'
    BY <1>1, <1>2, <1>4, <2>2, DoneFacts DEF TabInv, EditorTypes, Mounted
  <2>5. DraftFollowsTag'
    BY <1>1, <1>2 DEF DraftFollowsTag, Mounted
  <2> QED
    BY <1>1, <2>3, <2>4, <2>5, DoneFacts DEF TabInv, OverwritesAreExplained
<1> QED
  BY <1>3, <1>4

LEMMA NothingInv ==
  ASSUME WInv, NEW c \in Calls, HandleNothing(c) \/ HandleSaveFailure(c)
  PROVE  TabInv'
<1> USE DEF WInv
<1>1. /\ Done(c) /\ UNCHANGED <<appVars, authored>>
      /\ review \in Review /\ call[c] \in Call /\ call[c] # NoCall
      /\ call[c].live <=> Awaited(c)
  BY DEF HandleNothing, HandleSaveFailure, Got, TabInv, EditorTypes, NoCall, Awaited
<1>2. CASE ~ call[c].live
  <2>1. UNCHANGED <<review, pending>>
    BY <1>2 DEF HandleNothing, HandleSaveFailure
  <2>2. SavingIsAwaited'
    BY <1>1, <1>2, <2>1, AnswerEndsWait
  <2>3. EditorTypes' /\ DraftFollowsTag'
    BY <1>1, <2>1, DoneFacts DEF TabInv, EditorTypes, DraftFollowsTag, appVars, Mounted
  <2> QED
    BY <1>1, <2>2, <2>3, DoneFacts DEF TabInv, OverwritesAreExplained
<1>3. CASE call[c].live
  <2>1. Mounted
    BY <1>1, <1>3, NobodyWaits
  <2>2. PICK r \in Review : r.saving = FALSE /\ r.draft = review.draft /\ Update(r)
    <3>1. CASE HandleNothing(c)
      BY <1>1, <1>3, <3>1 DEF HandleNothing, Review
    <3>2. CASE HandleSaveFailure(c)
      <4>1. (call[c].status = "conflict") \in BOOLEAN
        OBVIOUS
      <4> QED
        BY <1>1, <1>3, <3>2, <4>1 DEF HandleSaveFailure, Review
    <3> QED
      BY <3>1, <3>2
  <2>3. review'.saving = FALSE
    BY <2>1, <2>2, UpdateFacts
  <2>4. SavingIsAwaited'
    BY <1>1, <1>3, <2>3, AnswerEndsWait
  <2> QED
    BY <1>1, <2>1, <2>2, <2>4, DoneFacts, UpdateInv
<1> QED
  BY <1>2, <1>3

LEMMA RefreshInv ==
  ASSUME WInv, NEW c \in Calls, HandleRefresh(c)
  PROVE  TabInv'
<1> USE DEF WInv
<1>1. UNCHANGED <<etag, renaming, authored>> /\ call[c].kind = "refresh"
  BY DEF HandleRefresh
<1>2. CASE UNCHANGED <<shown, review, pending>> /\ Done(c)
  <2>1. ~ Awaited(c)
    BY <1>1 DEF Awaited, TabInv, CallsFollowEditor
  <2>2. SavingIsAwaited'
    BY <1>2, <2>1, AnswerEndsWait
  <2>3. EditorTypes' /\ DraftFollowsTag'
    BY <1>1, <1>2, DoneFacts DEF TabInv, EditorTypes, DraftFollowsTag, Mounted
  <2> QED
    BY <1>1, <1>2, <2>2, <2>3, DoneFacts DEF TabInv, OverwritesAreExplained
<1>3. CASE shown' = 0 /\ Unmount(Calls \ {c})
  <2>1. /\ call' \in [Calls -> {NoCall} \cup Call]
        /\ CallsFollowEditor' /\ SavingIsAwaited'
        /\ review' = Fresh(0) /\ Fresh(0) \in Review /\ pending' = FALSE
    BY <1>3, UnmountFacts
  <2>2. EditorTypes' /\ DraftFollowsTag'
    BY <1>1, <1>3, <2>1, Initially DEF TabInv, EditorTypes, DraftFollowsTag, Mounted
  <2> QED
    BY <1>1, <2>1, <2>2 DEF TabInv, OverwritesAreExplained
<1> QED
  BY <1>2, <1>3 DEF HandleRefresh

-----------------------------------------------------------------------------
LEMMA TabStays ==
  ASSUME TabInv, UNCHANGED <<appVars, review, pending, call, authored>>
  PROVE  TabInv'
BY DEF TabInv, EditorTypes, DraftFollowsTag, CallsFollowEditor, OverwritesAreExplained,
       SavingIsAwaited, Awaited, appVars, Mounted

LEMMA NextWInv == WInv /\ [Next]_vars => WInv'
<1> SUFFICES ASSUME WInv, [Next]_vars PROVE WInv'
  OBVIOUS
<1>1. CASE Others
  <2>1. SP!IInv'
    BY <1>1, StoreInv DEF Others, WInv
  <2> QED
    BY <1>1, <2>1, TabStays DEF Others, WInv
<1>2. CASE UNCHANGED vars
  <2>1. SP!IInv'
    BY <1>2, StoreInv DEF vars, WInv
  <2> QED
    BY <1>2, <2>1, TabStays DEF vars, WInv
<1>3. ASSUME NEW c \in Calls, ServeSave(c) PROVE WInv'
  <2>1. SP!IInv'
    BY <1>3, ReplaceIsStoreStep DEF ServeSave, WInv
  <2> QED
    BY <1>3, <2>1, ServeSaveInv DEF WInv
<1>4. CASE OpenEditor \/ Edit \/ CancelEditing \/ RunEffect \/ OpenRename \/ CloseRename
  <2>1. SP!IInv'
    BY <1>4, StoreInv
       DEF OpenEditor, Edit, CancelEditing, RunEffect, OpenRename, CloseRename, WInv
  <2> QED
    BY <1>4, <2>1, UserInv, RenameInv DEF WInv
<1>5. ASSUME NEW c \in Calls,
             \/ Load(c) \/ Refresh(c) \/ Save(c) \/ Reload(c)
             \/ ServeRead(c) \/ RefuseSave(c) \/ Fail(c)
             \/ HandleTranscript(c) \/ HandleNothing(c) \/ HandleRefresh(c)
             \/ HandleSaveFailure(c)
      PROVE  WInv'
  <2>1. UNCHANGED serverVars
    BY <1>5 DEF Load, Refresh, Save, Reload, ServeRead, RefuseSave, Fail, HandleTranscript,
       HandleNothing, HandleRefresh, HandleSaveFailure
  <2>2. SP!IInv'
    BY <2>1, StoreInv DEF WInv
  <2>3. TabInv'
    BY <1>5, LoadInv, AwaitInv, ServeInv, TranscriptInv, NothingInv, RefreshInv
  <2> QED
    BY <2>2, <2>3 DEF WInv
<1> QED
  BY <1>1, <1>2, <1>3, <1>4, <1>5 DEF Next

THEOREM EditorInvariance == Spec => []WInv
<1> QED
  BY InitWInv, NextWInv, PTL DEF Spec

(***************************************************************************)
(* The state of the tab has its type; without a transcript on the card     *)
(* there is no draft (TranscriptReview is mounted with it only).           *)
(***************************************************************************)
THEOREM TypeCorrect == Spec => []TypeOK
<1>1. WInv => TypeOK
  BY StoreTyped DEF WInv, TabInv, EditorTypes, TypeOK
<1> QED
  BY <1>1, EditorInvariance, PTL

(***************************************************************************)
(* What a tab saves replaces the revision that was on the screen, and was  *)
(* edited from it unless the save was sent between the commit of a newer   *)
(* transcript and its effect (saveEditing, App.tsx:645-648), whatever      *)
(* order answers come in.                                                  *)
(***************************************************************************)
THEOREM SavesReplaceWhatWasShown == Spec => []OverwritesAreExplained
<1>1. WInv => OverwritesAreExplained
  BY DEF WInv, TabInv
<1> QED
  BY <1>1, EditorInvariance, PTL

(***************************************************************************)
(* The editor waits exactly as long as there is one answer for it to wait  *)
(* for, although its component may go and come meanwhile.                  *)
(***************************************************************************)
THEOREM WaitsForOneAnswer == Spec => []SavingIsAwaited
<1>1. WInv => SavingIsAwaited
  BY DEF WInv, TabInv
<1> QED
  BY <1>1, EditorInvariance, PTL
-----------------------------------------------------------------------------
(***************************************************************************)
(* The commands of the editor on a draft, and the checks of a draft        *)
(* (Timeline). First the facts about sequences: FlattenSeq joins sequences *)
(* one by one, and its choice of how is unique.                            *)
(***************************************************************************)

(* A set of numbers that is not empty has a least element. *)
LEMMA LeastNumber ==
  ASSUME NEW T, T \subseteq Nat, T # {}
  PROVE  \E m \in T : \A k \in T : m <= k
<1>1. PICK m \in T : \A k \in T : <<k, m>> \notin OpToRel(<, Nat)
  BY NatLessThanWellFounded, WFMin
<1>2. \A k \in T : k < m => <<k, m>> \in OpToRel(<, Nat)
  BY DEF OpToRel
<1>3. \A k \in T : ~ (k < m)
  BY <1>1, <1>2, Zenon
<1>4. T \subseteq Int /\ m \in T
  OBVIOUS
<1> HIDE <1>1, <1>2
<1> QED BY <1>3, <1>4

(* Induction up to n, over a set of numbers instead of a predicate. *)
LEMMA Induction ==
  ASSUME NEW n \in Nat, NEW T, 0 \in T,
         \A k \in 0..n - 1 : k \in T => k + 1 \in T
  PROVE  0..n \subseteq T
<1> SUFFICES ASSUME ~ (0..n \subseteq T) PROVE FALSE
  OBVIOUS
<1>1. PICK m \in (0..n) \ T : \A k \in (0..n) \ T : m <= k
  <2>1. (0..n) \ T # {} /\ (0..n) \ T \subseteq Nat
    OBVIOUS
  <2> QED BY <2>1, LeastNumber
<1>2. m # 0 /\ m - 1 \in 0..n - 1 /\ m - 1 \in T
  BY <1>1
<1> QED BY <1>1, <1>2

(* f joins the first sequences of seqs, one more at each position. *)
Joins(f, seqs, n) ==
  f = [i \in 1..n |-> IF i = 1 THEN seqs[i] ELSE f[i - 1] \o seqs[i]]

(* One more sequence is joined at each position. *)
LEMMA JoinsSteps ==
  ASSUME NEW f, NEW seqs, NEW n \in Nat
  PROVE  Joins(f, seqs, n) <=>
           /\ f = [i \in 1..n |-> f[i]]
           /\ n > 0 => f[1] = seqs[1]
           /\ \A i \in 1..n - 1 : f[i + 1] = f[i] \o seqs[i + 1]
<1> DEFINE g == [i \in 1..n |-> IF i = 1 THEN seqs[i] ELSE f[i - 1] \o seqs[i]]
<1>1. /\ n > 0 => g[1] = seqs[1]
      /\ \A i \in 1..n - 1 : g[i + 1] = f[i] \o seqs[i + 1]
  <2>1. n > 0 => g[1] = seqs[1]
    OBVIOUS
  <2>2. ASSUME NEW i \in 1..n - 1
        PROVE  g[i + 1] = f[i] \o seqs[i + 1]
    <3>1. i + 1 \in 1..n /\ i + 1 # 1 /\ (i + 1) - 1 = i
      OBVIOUS
    <3>2. \A j \in 1..n : j # 1 => g[j] = f[j - 1] \o seqs[j]
      OBVIOUS
    <3> HIDE DEF g
    <3>3. g[i + 1] = f[(i + 1) - 1] \o seqs[i + 1]
      BY <3>1, <3>2, Zenon
    <3> QED BY <3>1, <3>3, Zenon
  <2> QED BY <2>1, <2>2
<1>4. g = [i \in 1..n |-> g[i]]
  OBVIOUS
<1>2. ASSUME Joins(f, seqs, n)
      PROVE  f = g
  BY <1>2, Zenon DEF Joins
<1>3. ASSUME f = [i \in 1..n |-> f[i]], n > 0 => f[1] = seqs[1],
             \A i \in 1..n - 1 : f[i + 1] = f[i] \o seqs[i + 1]
      PROVE  Joins(f, seqs, n)
  <2>1. \A i \in 1..n : f[i] = g[i]
    <3> TAKE i \in 1..n
    <3>1. CASE i = 1
      BY <1>3, <3>1
    <3>2. CASE i # 1
      <4>1. i - 1 \in 1..n - 1 /\ (i - 1) + 1 = i
        BY <3>2
      <4>2. g[i] = f[i - 1] \o seqs[i]
        BY <3>2
      <4>3. f[(i - 1) + 1] = f[i - 1] \o seqs[(i - 1) + 1]
        BY <1>3, <4>1, Zenon
      <4> QED BY <4>1, <4>2, <4>3, Zenon
    <3> QED BY <3>1, <3>2
  <2>2. f = g
    <3> HIDE DEF g
    <3>1. [i \in 1..n |-> f[i]] = [i \in 1..n |-> g[i]]
      BY <2>1, Zenon
    <3> QED BY <1>4, <1>3, <3>1, Zenon
  <2> QED BY <2>2, Zenon DEF Joins
<1> HIDE DEF g
<1> QED BY <1>1, <1>2, <1>3, <1>4, Zenon

(* There is such an f, which is what FlattenSeq chooses ... *)
LEMMA JoinsExists ==
  ASSUME NEW S, NEW seqs \in Seq(Seq(S))
  PROVE  \E f : Joins(f, seqs, Len(seqs))
<1> DEFINE Q(n) == \E f \in [1..n -> Seq(S)] : Joins(f, seqs, n)
           T == {n \in 0..Len(seqs) : Q(n)}
<1>0. Len(seqs) \in Nat
  OBVIOUS
<1>1. Q(0)
  <2> DEFINE f == [i \in 1..0 |-> <<>>]
  <2>1. f \in [1..0 -> Seq(S)] /\ Joins(f, seqs, 0)
    BY DEF Joins
  <2> QED BY <2>1
<1>2. ASSUME NEW n \in 0..Len(seqs) - 1, Q(n)
      PROVE  Q(n + 1)
  <2>1. PICK f \in [1..n -> Seq(S)] : Joins(f, seqs, n)
    BY <1>2
  <2>2. n \in Nat /\ n + 1 \in Nat /\ seqs[n + 1] \in Seq(S)
    BY <1>0
  <2> DEFINE last == IF n = 0 THEN seqs[1] ELSE f[n] \o seqs[n + 1]
             g == [i \in 1..n + 1 |-> IF i <= n THEN f[i] ELSE last]
  <2>3. last \in Seq(S)
    BY <2>2
  <2>4. /\ n > 0 => f[1] = seqs[1]
        /\ \A i \in 1..n - 1 : f[i + 1] = f[i] \o seqs[i + 1]
    BY <2>1, <2>2, JoinsSteps, Zenon
  <2> HIDE DEF last
  <2>5. g \in [1..n + 1 -> Seq(S)] /\ g = [i \in 1..n + 1 |-> g[i]]
    BY <2>2, <2>3
  <2>6. /\ \A i \in 1..n : g[i] = f[i]
        /\ \A i \in 1..n - 1 : g[i + 1] = f[i + 1]
        /\ g[n + 1] = last
    BY <2>2
  <2> HIDE DEF g
  <2>7. n + 1 > 0 => g[1] = seqs[1]
    BY <2>2, <2>4, <2>6 DEF last
  <2>8. \A i \in 1..(n + 1) - 1 : g[i + 1] = g[i] \o seqs[i + 1]
    <3>0. 1..(n + 1) - 1 = 1..n
      BY <2>2
    <3> SUFFICES ASSUME NEW i \in 1..n PROVE g[i + 1] = g[i] \o seqs[i + 1]
      BY <3>0, Zenon
    <3>1. CASE i = n
      <4>1. last = f[n] \o seqs[n + 1]
        BY <2>2, <3>1 DEF last
      <4>2. g[n] = f[n]
        BY <2>2, <2>6, <3>1
      <4> QED BY <2>6, <3>1, <4>1, <4>2, Zenon
    <3>2. CASE i # n
      <4>1. i \in 1..n - 1 /\ i \in 1..n
        BY <2>2, <3>2
      <4> QED BY <2>4, <2>6, <4>1, Zenon
    <3> QED BY <3>1, <3>2
  <2>9. Joins(g, seqs, n + 1)
    <3> DEFINE m == n + 1
    <3>1. m \in Nat /\ g = [i \in 1..m |-> g[i]] /\ (m > 0 => g[1] = seqs[1])
          /\ \A i \in 1..m - 1 : g[i + 1] = g[i] \o seqs[i + 1]
      <4>1. m \in Nat
        BY <2>2
      <4>2. g = [i \in 1..m |-> g[i]]
        BY <2>5, Zenon
      <4>3. m > 0 => g[1] = seqs[1]
        BY <2>7, Zenon
      <4>4. \A i \in 1..m - 1 : g[i + 1] = g[i] \o seqs[i + 1]
        BY <2>8, Zenon
      <4> QED BY <4>1, <4>2, <4>3, <4>4, Zenon
    <3> HIDE DEF m
    <3>2. Joins(g, seqs, m)
      BY <3>1, JoinsSteps, Zenon
    <3> QED BY <3>2 DEF m
  <2> QED BY <2>5, <2>9
<1> HIDE DEF Q
<1>3. 0 \in T /\ \A n \in 0..Len(seqs) - 1 : n \in T => n + 1 \in T
  BY <1>0, <1>1, <1>2
<1>4. Len(seqs) \in T
  <2> HIDE DEF T
  <2>1. 0..Len(seqs) \subseteq T
    BY <1>0, <1>3, Induction
  <2> QED BY <1>0, <2>1
<1> QED BY <1>4 DEF Q

(* ... and all of them end with the same sequence. *)
LEMMA JoinsUnique ==
  ASSUME NEW S, NEW seqs \in Seq(Seq(S)), NEW n \in 1..Len(seqs), NEW f, NEW g,
         NEW m \in n..Len(seqs),
         Joins(f, seqs, n), Joins(g, seqs, m)
  PROVE  f[n] \in Seq(S) /\ f[n] = g[n]
<1> DEFINE Q(k) == f[k] \in Seq(S) /\ f[k] = g[k]
           T == {k \in 0..n : k = 0 \/ Q(k)}
<1>0. n \in Nat /\ n > 0 /\ m \in Nat /\ n <= m /\ Len(seqs) \in Nat
  OBVIOUS
<1>1. /\ f[1] = seqs[1] /\ \A i \in 1..n - 1 : f[i + 1] = f[i] \o seqs[i + 1]
      /\ g[1] = seqs[1] /\ \A i \in 1..m - 1 : g[i + 1] = g[i] \o seqs[i + 1]
  <2>1. m > 0
    BY <1>0
  <2>2. f[1] = seqs[1] /\ \A i \in 1..n - 1 : f[i + 1] = f[i] \o seqs[i + 1]
    BY <1>0, JoinsSteps, Zenon
  <2>3. g[1] = seqs[1] /\ \A i \in 1..m - 1 : g[i + 1] = g[i] \o seqs[i + 1]
    BY <1>0, <2>1, JoinsSteps, Zenon
  <2> QED BY <2>2, <2>3
<1>2. ASSUME NEW k \in 0..n - 1, k = 0 \/ Q(k)
      PROVE  Q(k + 1)
  <2>1. seqs[k + 1] \in Seq(S)
    BY <1>0
  <2>2. CASE k = 0
    BY <1>1, <2>1, <2>2
  <2>3. CASE k # 0
    <3>1. k \in 1..n - 1 /\ k \in 1..m - 1
      BY <1>0, <2>3
    <3>2. f[k + 1] = f[k] \o seqs[k + 1] /\ g[k + 1] = g[k] \o seqs[k + 1]
      BY <1>1, <3>1, Zenon
    <3>3. f[k] \in Seq(S) /\ f[k] = g[k]
      BY <1>2, <2>3
    <3> QED BY <2>1, <3>2, <3>3
  <2> QED BY <2>2, <2>3
<1> HIDE DEF Q
<1>3. 0 \in T /\ \A k \in 0..n - 1 : k \in T => k + 1 \in T
  BY <1>0, <1>2
<1>4. n \in T
  <2> HIDE DEF T
  <2>1. 0..n \subseteq T
    BY <1>0, <1>3, Induction
  <2> QED BY <1>0, <2>1
<1> QED BY <1>0, <1>4 DEF Q

(* So FlattenSeq gives what any of them ends with. *)
LEMMA FlattenByJoining ==
  ASSUME NEW S, NEW seqs \in Seq(Seq(S)), NEW n \in 1..Len(seqs),
         NEW f, Joins(f, seqs, n), n = Len(seqs)
  PROVE  FlattenSeq(seqs) \in Seq(S) /\ FlattenSeq(seqs) = f[n]
<1> DEFINE g == CHOOSE g : Joins(g, seqs, Len(seqs))
<1>1. Joins(g, seqs, Len(seqs))
  OBVIOUS
<1>2. FlattenSeq(seqs) = g[Len(seqs)]
  <2>1. Len(seqs) # 0
    OBVIOUS
  <2> QED BY <2>1 DEF FlattenSeq, Joins
<1> HIDE DEF g
<1> QED BY <1>1, <1>2, JoinsUnique
(* FlattenSeq of nothing. *)
LEMMA FlattenEmpty == FlattenSeq(<<>>) = <<>>
BY DEF FlattenSeq

(* FlattenSeq of one sequence more. *)
LEMMA FlattenAppend ==
  ASSUME NEW S, NEW seqs \in Seq(Seq(S)), NEW e \in Seq(S)
  PROVE  /\ FlattenSeq(seqs) \in Seq(S)
         /\ FlattenSeq(Append(seqs, e)) = FlattenSeq(seqs) \o e
<1> DEFINE all == Append(seqs, e)
           n   == Len(seqs)
           m   == n + 1
<1>1. /\ n \in Nat /\ m \in Nat /\ m \in 1..Len(all) /\ m = Len(all)
      /\ all \in Seq(Seq(S)) /\ all[m] = e
      /\ \A i \in 1..n : all[i] = seqs[i]
  OBVIOUS
<1>2. PICK f : Joins(f, all, m)
  <2> HIDE DEF all
  <2> QED BY <1>1, JoinsExists
<1> HIDE DEF all, n
<1>3. FlattenSeq(all) = f[m]
  <2> HIDE DEF m
  <2> QED BY <1>1, <1>2, FlattenByJoining
<1>4. /\ f[1] = all[1]
      /\ \A i \in 1..m - 1 : f[i + 1] = f[i] \o all[i + 1]
  <2>1. m \in Nat /\ m > 0
    BY <1>1
  <2> HIDE DEF m
  <2> QED BY <1>2, <2>1, JoinsSteps, Zenon
<1>5. CASE n = 0
  <2>1. seqs = <<>>
    BY <1>5 DEF n
  <2>2. FlattenSeq(all) = e
    BY <1>1, <1>3, <1>4, <1>5
  <2>3. <<>> \in Seq(S) /\ <<>> \o e = e
    OBVIOUS
  <2> QED BY <2>1, <2>2, <2>3, FlattenEmpty, Zenon DEF all
<1>6. CASE n # 0
  <2> DEFINE g == [i \in 1..n |-> f[i]]
  <2>1. /\ \A i \in 1..n : g[i] = f[i]
        /\ g = [i \in 1..n |-> g[i]]
    OBVIOUS
  <2> HIDE DEF g
  <2>2. n > 0 => g[1] = seqs[1]
    <3>1. n > 0 => 1 \in 1..n
      BY <1>1
    <3> QED BY <1>1, <1>4, <2>1, <3>1, Zenon
  <2>3. \A i \in 1..n - 1 : g[i + 1] = g[i] \o seqs[i + 1]
    <3> TAKE i \in 1..n - 1
    <3>1. i \in 1..n /\ i + 1 \in 1..n /\ i \in 1..m - 1
      BY <1>1
    <3>2. f[i + 1] = f[i] \o all[i + 1]
      BY <1>4, <3>1, Zenon
    <3> QED BY <1>1, <2>1, <3>1, <3>2, Zenon
  <2>4. Joins(g, seqs, n)
    BY <1>1, <2>1, <2>2, <2>3, JoinsSteps, Zenon
  <2>5. n \in 1..Len(seqs) /\ n = Len(seqs)
    BY <1>1, <1>6 DEF n
  <2>6. FlattenSeq(seqs) \in Seq(S) /\ FlattenSeq(seqs) = g[n]
    BY <2>4, <2>5, FlattenByJoining
  <2>7. n \in 1..m - 1 /\ n \in 1..n
    BY <1>1, <1>6
  <2>8. f[m] = f[n] \o e
    BY <1>1, <1>4, <2>7, Zenon
  <2> QED BY <1>3, <2>1, <2>6, <2>7, <2>8 DEF all
<1> QED BY <1>1, <1>5, <1>6

(* FlattenSeq of two parts is that of each, one after the other. *)
LEMMA FlattenConcat ==
  ASSUME NEW S, NEW seqs \in Seq(Seq(S)), NEW more \in Seq(Seq(S))
  PROVE  FlattenSeq(seqs \o more) = FlattenSeq(seqs) \o FlattenSeq(more)
<1> DEFINE Part(k) == SubSeq(more, 1, k)
           Q(k) == FlattenSeq(seqs \o Part(k)) = FlattenSeq(seqs) \o FlattenSeq(Part(k))
           T == {k \in 0..Len(more) : Q(k)}
<1>0. Len(more) \in Nat
  OBVIOUS
<1>1. FlattenSeq(seqs) \in Seq(S)
  <2>1. <<>> \in Seq(S)
    OBVIOUS
  <2> QED BY <2>1, FlattenAppend
<1>2. Q(0)
  <2>1. Part(0) = <<>>
    OBVIOUS
  <2>2. seqs \o <<>> = seqs /\ FlattenSeq(seqs) \o <<>> = FlattenSeq(seqs)
    BY <1>1
  <2> QED BY <2>1, <2>2, FlattenEmpty
<1>3. ASSUME NEW k \in 0..Len(more) - 1, Q(k)
      PROVE  Q(k + 1)
  <2>1. /\ more[k + 1] \in Seq(S)
        /\ Part(k) \in Seq(Seq(S))
        /\ seqs \o Part(k) \in Seq(Seq(S))
    BY <1>0
  <2>2. Part(k + 1) = Append(Part(k), more[k + 1])
    BY <1>0
  <2> HIDE DEF Part
  <2>3. seqs \o Part(k + 1) = Append(seqs \o Part(k), more[k + 1])
    <3>1. more[k + 1] \in Seq(S) /\ <<more[k + 1]>> \in Seq(Seq(S))
      BY <2>1
    <3>2. /\ Append(Part(k), more[k + 1]) = Part(k) \o <<more[k + 1]>>
          /\ Append(seqs \o Part(k), more[k + 1]) = (seqs \o Part(k)) \o <<more[k + 1]>>
      BY <2>1, <3>1, AppendIsConcat, Zenon
    <3>3. (seqs \o Part(k)) \o <<more[k + 1]>> = seqs \o (Part(k) \o <<more[k + 1]>>)
      <4> DEFINE R == Seq(S)
                 u == Part(k)
                 v == <<more[k + 1]>>
      <4>1. seqs \in Seq(R) /\ u \in Seq(R) /\ v \in Seq(R)
        BY <2>1, <3>1
      <4> HIDE DEF R, u, v
      <4>2. (seqs \o u) \o v = seqs \o (u \o v)
        BY <4>1, ConcatAssociative
      <4> QED BY <4>2 DEF u, v
    <3> QED BY <2>2, <3>2, <3>3, Zenon
  <2>4. /\ FlattenSeq(seqs \o Part(k + 1)) = FlattenSeq(seqs \o Part(k)) \o more[k + 1]
        /\ FlattenSeq(Part(k + 1)) = FlattenSeq(Part(k)) \o more[k + 1]
        /\ FlattenSeq(Part(k)) \in Seq(S)
    BY <2>1, <2>2, <2>3, FlattenAppend
  <2>5. (FlattenSeq(seqs) \o FlattenSeq(Part(k))) \o more[k + 1]
          = FlattenSeq(seqs) \o (FlattenSeq(Part(k)) \o more[k + 1])
    <3> DEFINE s == FlattenSeq(seqs)
               u == FlattenSeq(Part(k))
               v == more[k + 1]
    <3>1. s \in Seq(S) /\ u \in Seq(S) /\ v \in Seq(S)
      BY <1>1, <2>1, <2>4
    <3> HIDE DEF s, u, v
    <3>2. (s \o u) \o v = s \o (u \o v)
      BY <3>1, ConcatAssociative, SMTT(30)
    <3> QED BY <3>2 DEF s, u, v
  <2> QED BY <1>3, <2>4, <2>5
<1> HIDE DEF Q
<1>4. 0 \in T /\ \A k \in 0..Len(more) - 1 : k \in T => k + 1 \in T
  BY <1>0, <1>2, <1>3
<1>5. Len(more) \in T
  <2> HIDE DEF T
  <2>1. 0..Len(more) \subseteq T
    BY <1>0, <1>4, Induction
  <2> QED BY <1>0, <2>1
<1>6. Part(Len(more)) = more
  OBVIOUS
<1> QED BY <1>5, <1>6 DEF Q

(* The words of each cue. *)
LinesOf(cues) == [i \in DOMAIN cues |-> cues[i].words]

(* Words is FlattenSeq of the words of the cues. *)
LEMMA LinesTyped ==
  ASSUME NEW cues \in Seq(Cue)
  PROVE  /\ LinesOf(cues) = [i \in 1..Len(cues) |-> cues[i].words]
         /\ LinesOf(cues) \in Seq(Seq(Word))
         /\ Words(cues) = FlattenSeq(LinesOf(cues))
<1>1. /\ DOMAIN cues = 1..Len(cues) /\ Len(cues) \in Nat
      /\ \A i \in 1..Len(cues) : cues[i] \in Cue
  OBVIOUS
<1>2. \A cue \in Cue : cue.words \in Seq(Word)
  BY DEF Cue
<1>3. LinesOf(cues) = [i \in 1..Len(cues) |-> cues[i].words]
  BY <1>1 DEF LinesOf
<1>4. \A i \in 1..Len(cues) : cues[i].words \in Seq(Word)
  BY <1>1, <1>2, Zenon
<1>5. [i \in 1..Len(cues) |-> cues[i].words] \in Seq(Seq(Word))
  BY <1>1, <1>4, IsASeq
<1> QED BY <1>3, <1>5 DEF LinesOf, Words

(* The words of cues are words. *)
LEMMA WordsTyped ==
  ASSUME NEW cues \in Seq(Cue)
  PROVE  Words(cues) \in Seq(Word)
<1>1. <<>> \in Seq(Word)
  OBVIOUS
<1> QED BY <1>1, LinesTyped, FlattenAppend

(* The words of two parts of a transcript follow each other. *)
LEMMA WordsConcat ==
  ASSUME NEW cues \in Seq(Cue), NEW more \in Seq(Cue)
  PROVE  Words(cues \o more) = Words(cues) \o Words(more)
<1>1. cues \o more \in Seq(Cue)
  OBVIOUS
<1>2. LinesOf(cues \o more) = LinesOf(cues) \o LinesOf(more)
  <2> DEFINE all == cues \o more
  <2>1. /\ Len(all) = Len(cues) + Len(more)
        /\ \A i \in 1..Len(cues) : all[i] = cues[i]
        /\ \A i \in 1..Len(more) : all[Len(cues) + i] = more[i]
    OBVIOUS
  <2> HIDE DEF all
  <2>2. Len(cues) \in Nat /\ Len(more) \in Nat
    OBVIOUS
  <2>3. /\ LinesOf(all) = [i \in 1..Len(all) |-> all[i].words]
        /\ LinesOf(cues) \in Seq(Seq(Word)) /\ LinesOf(more) \in Seq(Seq(Word))
        /\ Len(LinesOf(cues)) = Len(cues) /\ Len(LinesOf(more)) = Len(more)
        /\ \A i \in 1..Len(cues) : LinesOf(cues)[i] = cues[i].words
        /\ \A i \in 1..Len(more) : LinesOf(more)[i] = more[i].words
    <3>1. \A some \in Seq(Cue) :
            /\ LinesOf(some) = [i \in 1..Len(some) |-> some[i].words]
            /\ LinesOf(some) \in Seq(Seq(Word))
      BY LinesTyped
    <3>2. \A some \in Seq(Cue) :
            /\ DOMAIN LinesOf(some) = 1..Len(some)
            /\ \A i \in 1..Len(some) : LinesOf(some)[i] = some[i].words
      BY <3>1
    <3>3. \A some \in Seq(Cue) : Len(LinesOf(some)) = Len(some)
      <4> TAKE some \in Seq(Cue)
      <4> DEFINE t == LinesOf(some)
      <4>1. t \in Seq(Seq(Word)) /\ DOMAIN t = 1..Len(some) /\ Len(some) \in Nat
        BY <3>1, <3>2
      <4> HIDE DEF t
      <4>2. Len(t) = Len(some)
        BY <4>1
      <4> QED BY <4>2 DEF t
    <3>4. LinesOf(all) = [i \in 1..Len(all) |-> all[i].words]
      BY <1>1, <3>1, Zenon DEF all
    <3> QED BY <3>1, <3>2, <3>3, <3>4, Zenon
  <2> DEFINE joined == LinesOf(cues) \o LinesOf(more)
  <2>4. /\ joined = [i \in 1..Len(cues) + Len(more) |-> joined[i]]
        /\ \A i \in 1..Len(cues) + Len(more) :
             joined[i] = IF i <= Len(cues) THEN LinesOf(cues)[i]
                         ELSE LinesOf(more)[i - Len(cues)]
    <3> DEFINE R == Seq(Word)
               s == LinesOf(cues)
               t == LinesOf(more)
               n == Len(cues) + Len(more)
    <3>1. /\ s \in Seq(R) /\ Len(s) = Len(cues)
          /\ t \in Seq(R) /\ Len(t) = Len(more)
      BY <2>3
    <3> HIDE DEF R, s, t
    <3>2. /\ s \o t \in Seq(R)
          /\ Len(s \o t) = Len(s) + Len(t)
          /\ \A i \in 1..Len(s) + Len(t) :
               (s \o t)[i] = IF i <= Len(s) THEN s[i] ELSE t[i - Len(s)]
      BY <3>1, ConcatProperties, Zenon
    <3> HIDE DEF joined
    <3>3. joined = s \o t
      BY DEF joined, s, t
    <3>4. joined = [i \in 1..n |-> joined[i]]
      <4>1. joined \in [1..n -> R]
        BY <3>1, <3>2, <3>3, LenProperties
      <4> QED BY <4>1
    <3> QED BY <3>1, <3>2, <3>3, <3>4, Zenon DEF s, t
  <2> HIDE DEF joined
  <2>5. \A i \in 1..Len(cues) + Len(more) : joined[i] = all[i].words
    <3> TAKE i \in 1..Len(cues) + Len(more)
    <3>1. CASE i <= Len(cues)
      <4>1. i \in 1..Len(cues)
        BY <2>2, <3>1
      <4> QED BY <2>1, <2>3, <2>4, <3>1, <4>1
    <3>2. CASE ~ (i <= Len(cues))
      <4>1. i - Len(cues) \in 1..Len(more) /\ Len(cues) + (i - Len(cues)) = i
        BY <2>2, <3>2
      <4>2. all[i] = more[i - Len(cues)]
        BY <2>1, <4>1
      <4> QED BY <2>3, <2>4, <3>2, <4>1, <4>2
    <3> QED BY <3>1, <3>2
  <2>6. joined = [i \in 1..Len(cues) + Len(more) |-> all[i].words]
    BY <2>4, <2>5
  <2> QED BY <2>1, <2>3, <2>6 DEF joined, all
<1> DEFINE s == LinesOf(cues)
           t == LinesOf(more)
<1>3. s \in Seq(Seq(Word)) /\ t \in Seq(Seq(Word))
  BY LinesTyped
<1>4. /\ Words(cues \o more) = FlattenSeq(s \o t)
      /\ Words(cues) = FlattenSeq(s) /\ Words(more) = FlattenSeq(t)
  BY <1>1, <1>2, LinesTyped
<1> HIDE DEF s, t
<1> QED BY <1>3, <1>4, FlattenConcat

(* The words of one cue. *)
LEMMA WordsOfOne ==
  ASSUME NEW cue \in Cue
  PROVE  Words(<<cue>>) = cue.words
<1>1. cue.words \in Seq(Word) /\ <<>> \in Seq(Seq(Word))
  BY DEF Cue
<1>2. Len(<<cue>>) = 1 /\ <<cue>>[1] = cue /\ <<cue>> \in Seq(Cue)
  OBVIOUS
<1>3. Words(<<cue>>) = FlattenSeq(Append(<<>>, cue.words))
  <2>1. LinesOf(<<cue>>) = [i \in 1..1 |-> cue.words]
    <3>1. LinesOf(<<cue>>) = [i \in 1..1 |-> <<cue>>[i].words]
      BY <1>2, LinesTyped
    <3>2. \A i \in 1..1 : <<cue>>[i] = cue
      OBVIOUS
    <3> QED BY <3>1, <3>2
  <2>2. [i \in 1..1 |-> cue.words] = Append(<<>>, cue.words)
    OBVIOUS
  <2> QED BY <1>2, <2>1, <2>2, LinesTyped
<1>4. FlattenSeq(Append(<<>>, cue.words)) = <<>> \o cue.words
  BY <1>1, FlattenAppend, FlattenEmpty
<1> QED BY <1>1, <1>3, <1>4
-----------------------------------------------------------------------------
(* What comes before element i, and what comes behind it. *)
Before(s, i) == SubSeq(s, 1, i - 1)
Behind(s, i) == SubSeq(s, i + 1, Len(s))

(* The elements before and behind an element. *)
LEMMA BeforeBehind ==
  ASSUME NEW S, NEW s \in Seq(S), NEW i \in 1..Len(s)
  PROVE  /\ Before(s, i) \in Seq(S) /\ Len(Before(s, i)) = i - 1
         /\ \A j \in 1..i - 1 : Before(s, i)[j] = s[j]
         /\ Behind(s, i) \in Seq(S) /\ Len(Behind(s, i)) = Len(s) - i
         /\ \A j \in 1..Len(s) - i : Behind(s, i)[j] = s[i + j]
<1>1. Len(s) \in Nat /\ i \in Nat /\ i <= Len(s) /\ \A j \in 1..Len(s) : s[j] \in S
  OBVIOUS
<1> DEFINE a == i - 1
           b == i + 1
           n == Len(s)
<1>2. a \in Int /\ b \in Int /\ n \in Int /\ 1 \in Int
      /\ (\A j \in 1..a : s[j] \in S) /\ (\A j \in b..n : s[j] \in S)
  BY <1>1
<1>3. /\ SubSeq(s, 1, a) \in Seq(S)
      /\ Len(SubSeq(s, 1, a)) = IF 1 <= a THEN a - 1 + 1 ELSE 0
      /\ \A j \in 1..a - 1 + 1 : SubSeq(s, 1, a)[j] = s[1 + j - 1]
  <2> HIDE DEF a
  <2> QED BY <1>2, SubSeqProperties
<1>4. /\ SubSeq(s, b, n) \in Seq(S)
      /\ Len(SubSeq(s, b, n)) = IF b <= n THEN n - b + 1 ELSE 0
      /\ \A j \in 1..n - b + 1 : SubSeq(s, b, n)[j] = s[b + j - 1]
  <2> HIDE DEF b, n
  <2> QED BY <1>2, SubSeqProperties
<1>5. \A j \in 1..i - 1 : SubSeq(s, 1, a)[j] = s[j]
  BY <1>1, <1>3
<1>6. \A j \in 1..Len(s) - i : SubSeq(s, b, n)[j] = s[i + j]
  BY <1>1, <1>4
<1>7. Len(SubSeq(s, 1, a)) = i - 1 /\ Len(SubSeq(s, b, n)) = Len(s) - i
  BY <1>1, <1>3, <1>4
<1> QED BY <1>3, <1>4, <1>5, <1>6, <1>7 DEF Before, Behind

(* The elements of two sequences, one after the other. *)
LEMMA ConcatAt ==
  ASSUME NEW S, NEW a \in Seq(S), NEW b \in Seq(S)
  PROVE  /\ a \o b \in Seq(S)
         /\ Len(a) \in Nat /\ Len(b) \in Nat /\ Len(a \o b) = Len(a) + Len(b)
         /\ \A j \in 1..Len(a) : (a \o b)[j] = a[j]
         /\ \A j \in 1..Len(b) : (a \o b)[Len(a) + j] = b[j]
OBVIOUS

(* An element of the left part is replaced ... *)
LEMMA ExceptConcatLeft ==
  ASSUME NEW S, NEW a \in Seq(S), NEW b \in Seq(S), NEW e \in S, NEW k \in 1..Len(a)
  PROVE  ReplaceAt(a, k, e) \o b = ReplaceAt(a \o b, k, e)
<1>0. /\ a \o b \in Seq(S)
      /\ Len(a) \in Nat /\ Len(b) \in Nat /\ Len(a \o b) = Len(a) + Len(b)
      /\ \A j \in 1..Len(a) : (a \o b)[j] = a[j]
      /\ \A j \in 1..Len(b) : (a \o b)[Len(a) + j] = b[j]
  BY ConcatAt
<1> DEFINE c == [a EXCEPT ![k] = e]
           t == a \o b
           u == [t EXCEPT ![k] = e]
<1>1. c \in Seq(S) /\ Len(c) = Len(a) /\ \A j \in 1..Len(a) : c[j] = IF j = k THEN e ELSE a[j]
  OBVIOUS
<1>2. t \in Seq(S) /\ k \in 1..Len(t)
  BY <1>0
<1>3. u \in Seq(S) /\ Len(u) = Len(t) /\ \A j \in 1..Len(t) : u[j] = IF j = k THEN e ELSE t[j]
  <2> HIDE DEF t
  <2> QED BY <1>2
<1> HIDE DEF c, u
<1>4. /\ c \o b \in Seq(S) /\ Len(c \o b) = Len(a) + Len(b)
      /\ \A j \in 1..Len(a) : (c \o b)[j] = c[j]
      /\ \A j \in 1..Len(b) : (c \o b)[Len(a) + j] = b[j]
  <2>1. /\ c \o b \in Seq(S) /\ Len(c \o b) = Len(c) + Len(b)
        /\ \A j \in 1..Len(c) : (c \o b)[j] = c[j]
        /\ \A j \in 1..Len(b) : (c \o b)[Len(c) + j] = b[j]
    BY <1>1, SMTT(30)
  <2>2. Len(c) = Len(a)
    BY <1>1
  <2> QED BY <2>1, <2>2, Zenon
<1> HIDE DEF t
<1>5. \A j \in 1..Len(a) + Len(b) : (c \o b)[j] = u[j]
  <2> TAKE j \in 1..Len(a) + Len(b)
  <2>1. CASE j \in 1..Len(a)
    BY <1>0, <1>1, <1>3, <1>4, <2>1 DEF t
  <2>2. CASE j \notin 1..Len(a)
    <3>1. /\ j - Len(a) \in 1..Len(b) /\ Len(a) + (j - Len(a)) = j /\ j # k
          /\ j \in 1..Len(t)
      BY <1>0, <2>2 DEF t
    <3>2. (c \o b)[j] = b[j - Len(a)] /\ t[j] = b[j - Len(a)]
      BY <1>0, <1>4, <3>1 DEF t
    <3> QED BY <1>3, <3>1, <3>2
  <2> QED BY <2>1, <2>2
<1>6. Len(c \o b) = Len(u) /\ Len(u) = Len(a) + Len(b)
  BY <1>0, <1>3, <1>4 DEF t
<1>7. c \o b = u
  BY <1>3, <1>4, <1>5, <1>6, SeqEqual
<1> QED BY <1>7 DEF c, u, t, ReplaceAt

(* ... or one of the right part. *)
LEMMA ExceptConcatRight ==
  ASSUME NEW S, NEW a \in Seq(S), NEW b \in Seq(S), NEW e \in S, NEW k \in 1..Len(b)
  PROVE  a \o ReplaceAt(b, k, e) = ReplaceAt(a \o b, Len(a) + k, e)
<1>0. /\ a \o b \in Seq(S)
      /\ Len(a) \in Nat /\ Len(b) \in Nat /\ Len(a \o b) = Len(a) + Len(b)
      /\ \A j \in 1..Len(a) : (a \o b)[j] = a[j]
      /\ \A j \in 1..Len(b) : (a \o b)[Len(a) + j] = b[j]
  BY ConcatAt
<1> DEFINE c == [b EXCEPT ![k] = e]
           t == a \o b
           p == Len(a) + k
           u == [t EXCEPT ![p] = e]
<1>1. c \in Seq(S) /\ Len(c) = Len(b) /\ \A j \in 1..Len(b) : c[j] = IF j = k THEN e ELSE b[j]
  OBVIOUS
<1>2. t \in Seq(S) /\ p \in 1..Len(t)
  BY <1>0
<1>3. u \in Seq(S) /\ Len(u) = Len(t) /\ \A j \in 1..Len(t) : u[j] = IF j = p THEN e ELSE t[j]
  <2> HIDE DEF t, p
  <2> QED BY <1>2
<1> HIDE DEF c, u
<1>4. /\ a \o c \in Seq(S) /\ Len(a \o c) = Len(a) + Len(b)
      /\ \A j \in 1..Len(a) : (a \o c)[j] = a[j]
      /\ \A j \in 1..Len(b) : (a \o c)[Len(a) + j] = c[j]
  <2>1. /\ a \o c \in Seq(S) /\ Len(a \o c) = Len(a) + Len(c)
        /\ \A j \in 1..Len(a) : (a \o c)[j] = a[j]
        /\ \A j \in 1..Len(c) : (a \o c)[Len(a) + j] = c[j]
    BY <1>1, SMTT(30)
  <2>2. Len(c) = Len(b)
    BY <1>1
  <2> QED BY <2>1, <2>2, Zenon
<1> HIDE DEF t
<1>5. \A j \in 1..Len(a) + Len(b) : (a \o c)[j] = u[j]
  <2> TAKE j \in 1..Len(a) + Len(b)
  <2>1. CASE j \in 1..Len(a)
    <3>1. j # p /\ j \in 1..Len(t)
      BY <1>0, <2>1 DEF t
    <3> QED BY <1>0, <1>3, <1>4, <2>1, <3>1 DEF t
  <2>2. CASE j \notin 1..Len(a)
    <3> DEFINE m == j - Len(a)
    <3>1. m \in 1..Len(b) /\ Len(a) + m = j /\ j \in 1..Len(t) /\ (m = k <=> j = p)
      BY <1>0, <2>2 DEF t
    <3> HIDE DEF m
    <3>2. (a \o c)[j] = c[m] /\ t[j] = b[m]
      BY <1>0, <1>4, <3>1 DEF t
    <3> QED BY <1>1, <1>3, <3>1, <3>2
  <2> QED BY <2>1, <2>2
<1>6. Len(a \o c) = Len(u) /\ Len(u) = Len(a) + Len(b)
  BY <1>0, <1>3, <1>4 DEF t
<1>7. a \o c = u
  BY <1>3, <1>4, <1>5, <1>6, SeqEqual
<1> QED BY <1>7 DEF c, u, t, ReplaceAt

(* A replaced element stands between what it stood between. *)
LEMMA ReplaceIsConcat ==
  ASSUME NEW S, NEW s \in Seq(S), NEW i \in 1..Len(s), NEW e \in S
  PROVE  ReplaceAt(s, i, e) = (Before(s, i) \o <<e>>) \o Behind(s, i)
<1> DEFINE a == Before(s, i)
           b == Behind(s, i)
           t == [s EXCEPT ![i] = e]
<1>1. /\ a \in Seq(S) /\ Len(a) = i - 1 /\ \A j \in 1..i - 1 : a[j] = s[j]
      /\ b \in Seq(S) /\ Len(b) = Len(s) - i /\ \A j \in 1..Len(s) - i : b[j] = s[i + j]
  BY BeforeBehind
<1>2. /\ t \in Seq(S) /\ Len(t) = Len(s) /\ t[i] = e
      /\ \A j \in 1..Len(s) : j # i => t[j] = s[j]
  OBVIOUS
<1>3. Len(s) \in Nat /\ i \in Nat /\ i > 0 /\ i <= Len(s)
  OBVIOUS
<1> HIDE DEF a, b, t
<1> DEFINE u == a \o <<e>>
<1>4. /\ u \in Seq(S) /\ Len(u) = i /\ u[i] = e
      /\ \A j \in 1..i - 1 : u[j] = s[j]
  <2>0. a \in Seq(S)
    BY <1>1
  <2>1. /\ u \in Seq(S) /\ Len(u) = Len(a) + 1 /\ u[Len(a) + 1] = e
        /\ \A j \in 1..Len(a) : u[j] = a[j]
    BY <2>0
  <2> HIDE DEF u
  <2> QED BY <1>1, <1>3, <2>1
<1> HIDE DEF u
<1>5. /\ u \o b \in Seq(S) /\ Len(u \o b) = Len(s)
      /\ \A j \in 1..i : (u \o b)[j] = u[j]
      /\ \A j \in 1..Len(s) : j > i => (u \o b)[j] = b[j - i]
  <2>1. /\ u \o b \in Seq(S) /\ Len(u \o b) = Len(u) + Len(b)
        /\ \A j \in 1..Len(u) : (u \o b)[j] = u[j]
        /\ \A j \in 1..Len(b) : (u \o b)[Len(u) + j] = b[j]
    <3>1. u \in Seq(S) /\ b \in Seq(S)
      BY <1>1, <1>4
    <3>2. u \o b \in Seq(S) /\ Len(u \o b) = Len(u) + Len(b)
      BY <3>1
    <3>3. \A j \in 1..Len(u) : (u \o b)[j] = u[j]
      BY <3>1
    <3>4. \A j \in 1..Len(b) : (u \o b)[Len(u) + j] = b[j]
      BY <3>1
    <3> QED BY <3>2, <3>3, <3>4
  <2>2. ASSUME NEW j \in 1..Len(s), j > i
        PROVE  (u \o b)[j] = b[j - i]
    <3>1. j - i \in 1..Len(b) /\ Len(u) + (j - i) = j
      BY <1>1, <1>3, <1>4, <2>2
    <3>2. (u \o b)[Len(u) + (j - i)] = b[j - i]
      BY <2>1, <3>1, Zenon
    <3> QED BY <3>1, <3>2
  <2> QED BY <1>1, <1>3, <1>4, <2>1, <2>2
<1>6. \A j \in 1..Len(s) : t[j] = (u \o b)[j]
  <2> TAKE j \in 1..Len(s)
  <2>1. CASE j < i
    <3>1. j \in 1..i - 1 /\ j \in 1..i /\ j # i
      BY <1>3, <2>1
    <3> QED BY <1>2, <1>4, <1>5, <3>1
  <2>2. CASE j = i
    BY <1>2, <1>3, <1>4, <1>5, <2>2
  <2>3. CASE j > i
    <3>1. j - i \in 1..Len(s) - i /\ i + (j - i) = j /\ j # i
      BY <1>3, <2>3
    <3> QED BY <1>1, <1>2, <1>5, <2>3, <3>1
  <2>4. j < i \/ j = i \/ j > i
    BY <1>3
  <2> QED BY <2>1, <2>2, <2>3, <2>4
<1>7. t = u \o b
  BY <1>2, <1>5, <1>6, SeqEqual
<1> QED BY <1>7 DEF t, u, a, b, ReplaceAt

(* The words of a cue stand between those of the cues around it. *)
LEMMA WordsAround ==
  ASSUME NEW cues \in Seq(Cue), NEW i \in 1..Len(cues), NEW cue \in Cue
  PROVE  /\ ReplaceAt(cues, i, cue) \in Seq(Cue)
         /\ Words(ReplaceAt(cues, i, cue))
              = (Words(Before(cues, i)) \o cue.words) \o Words(Behind(cues, i))
<1> DEFINE a == Before(cues, i)
           b == Behind(cues, i)
<1>1. a \in Seq(Cue) /\ b \in Seq(Cue) /\ <<cue>> \in Seq(Cue) /\ a \o <<cue>> \in Seq(Cue)
  <2>1. a \in Seq(Cue) /\ b \in Seq(Cue)
    BY BeforeBehind
  <2> HIDE DEF a, b
  <2> QED BY <2>1
<1>2. ReplaceAt(cues, i, cue) = (a \o <<cue>>) \o b
  BY ReplaceIsConcat
<1>3. ReplaceAt(cues, i, cue) \in Seq(Cue)
  BY DEF ReplaceAt
<1> HIDE DEF a, b
<1>4. Words((a \o <<cue>>) \o b) = Words(a \o <<cue>>) \o Words(b)
  BY <1>1, WordsConcat
<1>5. Words(a \o <<cue>>) = Words(a) \o Words(<<cue>>)
  BY <1>1, WordsConcat
<1>6. Words(<<cue>>) = cue.words
  BY WordsOfOne
<1> QED BY <1>2, <1>3, <1>4, <1>5, <1>6 DEF a, b

(* The same for the cue that is there. *)
LEMMA SameCue ==
  ASSUME NEW cues \in Seq(Cue), NEW i \in 1..Len(cues)
  PROVE  /\ cues[i] \in Cue /\ cues[i].words \in Seq(Word)
         /\ Words(cues) = (Words(Before(cues, i)) \o cues[i].words) \o Words(Behind(cues, i))
<1>1. cues[i] \in Cue /\ ReplaceAt(cues, i, cues[i]) = cues
  BY DEF ReplaceAt
<1>2. cues[i].words \in Seq(Word)
  BY <1>1 DEF Cue
<1> QED BY <1>1, <1>2, WordsAround

(* To replace a word of a cue is to replace one word of the transcript. *)
LEMMA WordsReplaced ==
  ASSUME NEW cues \in Seq(Cue), NEW i \in 1..Len(cues), NEW k \in 1..Len(cues[i].words),
         NEW word \in Word, NEW cue \in Cue, cue.words = ReplaceAt(cues[i].words, k, word)
  PROVE  \E p \in 1..Len(Words(cues)) :
           /\ Words(cues)[p] = cues[i].words[k]
           /\ Words(ReplaceAt(cues, i, cue)) = ReplaceAt(Words(cues), p, word)
<1> DEFINE a == Words(Before(cues, i))
           b == Words(Behind(cues, i))
           w == cues[i].words
           v == cue.words
           p == Len(a) + k
<1>1. a \in Seq(Word) /\ b \in Seq(Word) /\ w \in Seq(Word) /\ v \in Seq(Word)
  <2>1. Before(cues, i) \in Seq(Cue) /\ Behind(cues, i) \in Seq(Cue)
    BY BeforeBehind
  <2>2. w \in Seq(Word) /\ v \in Seq(Word)
    BY SameCue DEF Cue
  <2> QED BY <2>1, <2>2, WordsTyped
<1>2. Words(cues) = (a \o w) \o b /\ Words(ReplaceAt(cues, i, cue)) = (a \o v) \o b
  BY SameCue, WordsAround
<1>3. v = ReplaceAt(w, k, word) /\ k \in 1..Len(w)
  OBVIOUS
<1> HIDE DEF a, b, w, v
<1>4. (a \o w)[p] = w[k] /\ a \o v = ReplaceAt(a \o w, p, word) /\ p \in 1..Len(a \o w)
      /\ a \o w \in Seq(Word)
  <2>1. a \o v = ReplaceAt(a \o w, p, word)
    <3>1. k \in 1..Len(w)
      BY <1>3
    <3>2. a \o ReplaceAt(w, k, word) = ReplaceAt(a \o w, Len(a) + k, word)
      BY <1>1, <3>1, ExceptConcatRight
    <3> QED BY <1>3, <3>2
  <2>2. /\ a \o w \in Seq(Word) /\ Len(a) \in Nat /\ Len(a \o w) = Len(a) + Len(w)
        /\ (a \o w)[Len(a) + k] = w[k] /\ Len(w) \in Nat
    BY <1>1, <1>3, ConcatAt
  <2> QED BY <1>3, <2>1, <2>2
<1> DEFINE u == a \o w
<1>5. u \in Seq(Word) /\ p \in 1..Len(u)
  BY <1>4
<1> HIDE DEF u, p
<1>6. (u \o b)[p] = u[p] /\ ReplaceAt(u, p, word) \o b = ReplaceAt(u \o b, p, word)
      /\ p \in 1..Len(u \o b)
  <2>1. ReplaceAt(u, p, word) \o b = ReplaceAt(u \o b, p, word)
    BY <1>1, <1>5, ExceptConcatLeft
  <2>2. (u \o b)[p] = u[p] /\ Len(u \o b) = Len(u) + Len(b) /\ Len(u) \in Nat /\ Len(b) \in Nat
    BY <1>1, <1>5, ConcatAt
  <2> QED BY <1>5, <2>1, <2>2
<1> QED BY <1>2, <1>4, <1>6 DEF u, w

(* One and two elements between two sequences. *)
Around(a, c, b)       == (a \o <<c>>) \o b
AroundTwo(a, c, d, b) == Around(a \o <<c>>, d, b)

(* Where the elements of Around are. *)
LEMMA OneAt ==
  ASSUME NEW S, NEW a \in Seq(S), NEW b \in Seq(S), NEW c \in S
  PROVE  /\ Around(a, c, b) \in Seq(S)
         /\ Len(Around(a, c, b)) = Len(a) + 1 + Len(b)
         /\ \A j \in 1..Len(a) : Around(a, c, b)[j] = a[j]
         /\ Around(a, c, b)[Len(a) + 1] = c
         /\ \A j \in 1..Len(b) : Around(a, c, b)[Len(a) + 1 + j] = b[j]
<1> DEFINE u == a \o <<c>>
<1>1. /\ u \in Seq(S) /\ Len(u) = Len(a) + 1 /\ u[Len(a) + 1] = c
      /\ \A j \in 1..Len(a) : u[j] = a[j]
  OBVIOUS
<1> HIDE DEF u
<1>2. Len(a) \in Nat /\ Len(b) \in Nat
  OBVIOUS
<1>3. u \o b \in Seq(S) /\ Len(u \o b) = Len(u) + Len(b)
  BY <1>1
<1>4. \A j \in 1..Len(u) : (u \o b)[j] = u[j]
  BY <1>1
<1>5. \A j \in 1..Len(b) : (u \o b)[Len(u) + j] = b[j]
  BY <1>1
<1>6. \A j \in 1..Len(b) : (u \o b)[Len(a) + 1 + j] = b[j]
  BY <1>1, <1>5
<1>7. (u \o b)[Len(a) + 1] = c /\ \A j \in 1..Len(a) : (u \o b)[j] = a[j]
  BY <1>1, <1>2, <1>4
<1>8. Len(u \o b) = Len(a) + 1 + Len(b)
  BY <1>1, <1>3
<1>9. u \o b = Around(a, c, b)
  BY DEF u, Around
<1> QED BY <1>3, <1>6, <1>7, <1>8, <1>9

(* Where the elements of AroundTwo are. *)
LEMMA TwoAt ==
  ASSUME NEW S, NEW a \in Seq(S), NEW b \in Seq(S), NEW c \in S, NEW d \in S
  PROVE  LET t == AroundTwo(a, c, d, b)
         IN /\ t \in Seq(S)
            /\ Len(t) = Len(a) + 2 + Len(b)
            /\ \A j \in 1..Len(a) : t[j] = a[j]
            /\ t[Len(a) + 1] = c
            /\ t[Len(a) + 2] = d
            /\ \A j \in 1..Len(b) : t[Len(a) + 2 + j] = b[j]
<1> DEFINE u == a \o <<c>>
           t == Around(u, d, b)
<1>1. /\ u \in Seq(S) /\ Len(u) = Len(a) + 1 /\ u[Len(a) + 1] = c
      /\ \A j \in 1..Len(a) : u[j] = a[j]
  OBVIOUS
<1>2. Len(a) \in Nat /\ Len(b) \in Nat
  OBVIOUS
<1>0. t = AroundTwo(a, c, d, b)
  BY DEF AroundTwo
<1> HIDE DEF u
<1>3. /\ t \in Seq(S)
      /\ Len(t) = Len(u) + 1 + Len(b)
      /\ \A j \in 1..Len(u) : t[j] = u[j]
      /\ t[Len(u) + 1] = d
      /\ \A j \in 1..Len(b) : t[Len(u) + 1 + j] = b[j]
  <2>1. u \in Seq(S)
    BY <1>1
  <2>2. \A v \in Seq(S) : Around(v, d, b) \in Seq(S)
    BY OneAt
  <2>3. \A v \in Seq(S) : Len(Around(v, d, b)) = Len(v) + 1 + Len(b)
    BY OneAt
  <2>4. \A v \in Seq(S) : \A j \in 1..Len(v) : Around(v, d, b)[j] = v[j]
    BY OneAt
  <2>5. \A v \in Seq(S) : Around(v, d, b)[Len(v) + 1] = d
    BY OneAt
  <2>6. \A v \in Seq(S) : \A j \in 1..Len(b) : Around(v, d, b)[Len(v) + 1 + j] = b[j]
    BY OneAt
  <2> QED BY <2>1, <2>2, <2>3, <2>4, <2>5, <2>6, Zenon
<1> HIDE DEF t
<1>4. /\ Len(t) = Len(a) + 2 + Len(b)
      /\ \A j \in 1..Len(a) : t[j] = a[j]
      /\ t[Len(a) + 1] = c
      /\ t[Len(a) + 2] = d
  BY <1>1, <1>2, <1>3
<1>5. \A j \in 1..Len(b) : t[Len(a) + 2 + j] = b[j]
  BY <1>1, <1>2, <1>3
<1> QED BY <1>0, <1>3, <1>4, <1>5

(* The first i elements end with element i. *)
LEMMA FirstPart ==
  ASSUME NEW S, NEW s \in Seq(S), NEW i \in 1..Len(s)
  PROVE  SubSeq(s, 1, i) = Before(s, i) \o <<s[i]>>
<1>1. 1 \in 1..Len(s) /\ i \in 1..Len(s)
  OBVIOUS
<1> QED BY <1>1, SubSeqRecursiveSecond DEF Before

(* What splitCue does to the list of cues. *)
LEMMA SplitIsConcat ==
  ASSUME NEW S, NEW s \in Seq(S), NEW i \in 1..Len(s), NEW a \in S, NEW b \in S
  PROVE  ReplaceAt(InsertAt(s, i + 1, b), i, a)
           = ((Before(s, i) \o <<a>>) \o <<b>>) \o Behind(s, i)
<1> DEFINE p == Before(s, i)
           q == Behind(s, i)
           x == s[i]
           u == p \o <<x>>
           v == u \o <<b>>
<1>1. p \in Seq(S) /\ q \in Seq(S) /\ x \in S /\ Len(p) = i - 1 /\ i \in Nat
  BY BeforeBehind
<1>2. InsertAt(s, i + 1, b) = v \o q
  <2>1. (i + 1) - 1 = i
    OBVIOUS
  <2>2. InsertAt(s, i + 1, b) = (SubSeq(s, 1, i) \o <<b>>) \o SubSeq(s, i + 1, Len(s))
    BY <2>1 DEF InsertAt
  <2> QED BY <2>2, FirstPart DEF Behind
<1> HIDE DEF p, q, x
<1>3. ReplaceAt(u, i, a) = p \o <<a>>
  <2>1. <<x>> \in Seq(S) /\ 1 \in 1..Len(<<x>>) /\ ReplaceAt(<<x>>, 1, a) = <<a>>
    BY <1>1 DEF ReplaceAt
  <2>2. p \o ReplaceAt(<<x>>, 1, a) = ReplaceAt(p \o <<x>>, Len(p) + 1, a)
    <3> DEFINE z == <<x>>
    <3>1. z \in Seq(S) /\ 1 \in 1..Len(z)
      BY <2>1
    <3> HIDE DEF z
    <3>2. \A k \in 1..Len(z) : p \o ReplaceAt(z, k, a) = ReplaceAt(p \o z, Len(p) + k, a)
      <4>1. p \in Seq(S) /\ z \in Seq(S) /\ a \in S
        BY <1>1, <3>1
      <4>2. \A f, g \in Seq(S) : \A e \in S : \A k \in 1..Len(g) :
              f \o ReplaceAt(g, k, e) = ReplaceAt(f \o g, Len(f) + k, e)
        BY ExceptConcatRight
      <4> QED BY <4>1, <4>2, Zenon
    <3> QED BY <3>1, <3>2 DEF z
  <2>3. Len(p) + 1 = i
    BY <1>1
  <2> QED BY <2>1, <2>2, <2>3
<1>4. /\ u \in Seq(S) /\ Len(u) = i /\ v \in Seq(S) /\ Len(v) = i + 1 /\ <<b>> \in Seq(S)
  BY <1>1
<1> HIDE DEF u
<1>5. ReplaceAt(v, i, a) = (p \o <<a>>) \o <<b>>
  <2>1. ReplaceAt(u, i, a) \o <<b>> = ReplaceAt(u \o <<b>>, i, a)
    <3> DEFINE z == <<b>>
    <3>1. z \in Seq(S) /\ i \in 1..Len(u)
      BY <1>4
    <3> HIDE DEF z
    <3>2. ReplaceAt(u, i, a) \o z = ReplaceAt(u \o z, i, a)
      BY <1>4, <3>1, ExceptConcatLeft
    <3> QED BY <3>2 DEF z
  <2> QED BY <1>3, <2>1
<1> HIDE DEF v
<1>6. ReplaceAt(v, i, a) \o q = ReplaceAt(v \o q, i, a)
  <2>1. i \in 1..Len(v)
    BY <1>1, <1>4
  <2> QED BY <1>1, <1>4, <2>1, ExceptConcatLeft
<1> QED BY <1>2, <1>5, <1>6 DEF p, q

(* What mergeCueWithPrevious does to the list of cues. *)
LEMMA MergeIsConcat ==
  ASSUME NEW S, NEW s \in Seq(S), NEW i \in 2..Len(s), NEW m \in S
  PROVE  /\ RemoveAt(ReplaceAt(s, i - 1, m), i)
              = (Before(s, i - 1) \o <<m>>) \o Behind(s, i)
         /\ s = ((Before(s, i - 1) \o <<s[i - 1]>>) \o <<s[i]>>) \o Behind(s, i)
<1> DEFINE h == i - 1
           t == ReplaceAt(s, h, m)
<1>1. /\ h \in 1..Len(s) /\ i \in 1..Len(s) /\ Len(s) \in Nat
      /\ s[i] \in S /\ s[h] \in S
  OBVIOUS
<1>2. t \in Seq(S) /\ Len(t) = Len(s) /\ t[h] = m /\ \A j \in 1..Len(s) : j # h => t[j] = s[j]
  BY <1>1 DEF ReplaceAt
<1> HIDE DEF t
<1>3. SubSeq(t, 1, h) = Before(t, h) \o <<m>>
  BY <1>1, <1>2, FirstPart
<1>4. Before(t, h) = Before(s, h) /\ Behind(t, i) = Behind(s, i)
  <2> DEFINE a == Before(s, h)
             b == Before(t, h)
             c == Behind(s, i)
             d == Behind(t, i)
  <2>0. t \in Seq(S) /\ h \in 1..Len(t) /\ i \in 1..Len(t) /\ Len(t) = Len(s)
    BY <1>1, <1>2
  <2>a. a \in Seq(S) /\ Len(a) = h - 1 /\ \A j \in 1..h - 1 : a[j] = s[j]
    BY <1>1, BeforeBehind
  <2>b. b \in Seq(S) /\ Len(b) = h - 1 /\ \A j \in 1..h - 1 : b[j] = t[j]
    BY <2>0, BeforeBehind
  <2>c. c \in Seq(S) /\ Len(c) = Len(s) - i /\ \A j \in 1..Len(s) - i : c[j] = s[i + j]
    BY <1>1, BeforeBehind
  <2>d. d \in Seq(S) /\ Len(d) = Len(t) - i /\ \A j \in 1..Len(t) - i : d[j] = t[i + j]
    BY <2>0, BeforeBehind
  <2>3. (\A j \in 1..h - 1 : t[j] = s[j]) /\ (\A j \in 1..Len(s) - i : t[i + j] = s[i + j])
    BY <1>1, <1>2
  <2> HIDE DEF a, b, c, d
  <2>4. a = b
    <3>1. Len(a) = Len(b) /\ \A j \in 1..Len(a) : a[j] = b[j]
      BY <2>a, <2>b, <2>3
    <3> QED BY <2>a, <2>b, <3>1, SeqEqual
  <2>5. c = d
    <3>1. Len(c) = Len(d) /\ \A j \in 1..Len(c) : c[j] = d[j]
      BY <2>0, <2>c, <2>d, <2>3
    <3> QED BY <2>c, <2>d, <3>1, SeqEqual
  <2> QED BY <2>4, <2>5 DEF a, b, c, d
<1>5. RemoveAt(t, i) = SubSeq(t, 1, h) \o Behind(t, i)
  BY DEF RemoveAt, Behind
<1>6. s = (Before(s, i) \o <<s[i]>>) \o Behind(s, i)
  <2>1. ReplaceAt(s, i, s[i]) = s
    BY <1>1 DEF ReplaceAt
  <2> QED BY <1>1, <2>1, ReplaceIsConcat
<1>7. Before(s, i) = Before(s, h) \o <<s[h]>>
  <2>1. SubSeq(s, 1, h) = Before(s, h) \o <<s[h]>>
    BY <1>1, FirstPart
  <2> QED BY <2>1 DEF Before
<1> QED BY <1>3, <1>4, <1>5, <1>6, <1>7 DEF t

(* The words of one cue between others. *)
LEMMA WordsOfOneBetween ==
  ASSUME NEW a \in Seq(Cue), NEW b \in Seq(Cue), NEW c \in Cue
  PROVE  Words((a \o <<c>>) \o b) = (Words(a) \o c.words) \o Words(b)
<1>1. <<c>> \in Seq(Cue) /\ a \o <<c>> \in Seq(Cue)
  OBVIOUS
<1>2. Words((a \o <<c>>) \o b) = Words(a \o <<c>>) \o Words(b)
  BY <1>1, WordsConcat
<1>3. Words(a \o <<c>>) = Words(a) \o Words(<<c>>)
  BY <1>1, WordsConcat
<1> QED BY <1>2, <1>3, WordsOfOne

(* The words of two cues between others. *)
LEMMA WordsOfTwoBetween ==
  ASSUME NEW a \in Seq(Cue), NEW b \in Seq(Cue), NEW c \in Cue, NEW d \in Cue
  PROVE  /\ Words(((a \o <<c>>) \o <<d>>) \o b)
              = (Words(a) \o (c.words \o d.words)) \o Words(b)
<1> DEFINE u == a \o <<c>>
           x == c.words
           y == d.words
<1>1. /\ u \in Seq(Cue) /\ <<c>> \in Seq(Cue)
      /\ x \in Seq(Word) /\ y \in Seq(Word) /\ Words(a) \in Seq(Word)
  <2>1. u \in Seq(Cue) /\ <<c>> \in Seq(Cue)
    OBVIOUS
  <2>2. x \in Seq(Word) /\ y \in Seq(Word)
    BY DEF Cue
  <2>3. Words(a) \in Seq(Word)
    BY WordsTyped
  <2> QED BY <2>1, <2>2, <2>3
<1>2. Words(u) = Words(a) \o Words(<<c>>)
  BY <1>1, WordsConcat
<1> HIDE DEF u
<1>3. Words((u \o <<d>>) \o b) = (Words(u) \o y) \o Words(b)
  BY <1>1, WordsOfOneBetween
<1>4. Words(u) = Words(a) \o x
  BY <1>2, WordsOfOne
<1>5. (Words(a) \o x) \o y = Words(a) \o (x \o y)
  <2> DEFINE w == Words(a)
  <2> HIDE DEF w, x, y
  <2>1. w \in Seq(Word)
    BY <1>1 DEF w
  <2>2. (w \o x) \o y = w \o (x \o y)
    BY <1>1, <2>1, ConcatAssociative, SMTT(30)
  <2> QED BY <2>2 DEF w
<1> QED BY <1>3, <1>4, <1>5 DEF u

-----------------------------------------------------------------------------
(* Intervals of which each begins at the end of the one before, or later, are
   in order, near and far ones. *)
LEMMA Chain ==
  ASSUME NEW n \in Nat, NEW f \in [1..n -> Int], NEW g \in [1..n -> Int],
         \A j \in 1..n : f[j] < g[j],
         \A j \in 1..n - 1 : g[j] <= f[j + 1]
  PROVE  \A i, k \in 1..n : i < k => g[i] <= f[k]
<1> TAKE i \in 1..n
<1> DEFINE T == {k \in 0..n : k > i => g[i] <= f[k]}
<1>1. 0 \in T
  OBVIOUS
<1>2. ASSUME NEW k \in 0..n - 1, k \in T
      PROVE  k + 1 \in T
  <2>0. i \in Int /\ k \in Int /\ k + 1 \in 0..n /\ (k >= 1 => k \in 1..n - 1 /\ k \in 1..n)
    OBVIOUS
  <2>1. CASE k < i
    BY <2>0, <2>1
  <2>2. CASE k = i
    <3>1. g[i] <= f[k + 1]
      BY <2>0, <2>2
    <3> QED BY <2>0, <3>1
  <2>3. CASE k > i
    <3>0. k \in 1..n - 1 /\ k \in 1..n /\ k + 1 \in 1..n
      BY <2>0, <2>3
    <3>1. g[i] <= f[k]
      BY <1>2, <2>3
    <3>2. f[k] < g[k] /\ g[k] <= f[k + 1]
      BY <3>0
    <3>3. g[i] \in Int /\ f[k] \in Int /\ g[k] \in Int /\ f[k + 1] \in Int
      BY <3>0
    <3>4. g[i] <= f[k + 1]
      BY <3>1, <3>2, <3>3
    <3> QED BY <2>0, <3>4
  <2> QED BY <2>0, <2>1, <2>2, <2>3
<1> HIDE DEF T
<1>3. 0..n \subseteq T
  BY <1>1, <1>2, Induction
<1> QED BY <1>3 DEF T

(* The same for records with a start and an end, in the form of the checks. *)
LEMMA Intervals ==
  ASSUME NEW n \in Nat, NEW s, NEW first \in Int,
         \A j \in 1..n : s[j].start \in Int /\ s[j].end \in Int,
         \A j \in 1..n : s[j].start >= EndBefore(s, j, first) /\ s[j].start < s[j].end
  PROVE  /\ \A j \in 1..n : first <= s[j].start
         /\ \A i, k \in 1..n : i < k => s[i].end <= s[k].start
<1> DEFINE f == [j \in 1..n |-> s[j].start]
           g == [j \in 1..n |-> s[j].end]
<1>1. f \in [1..n -> Int] /\ g \in [1..n -> Int]
  OBVIOUS
<1>2. \A j \in 1..n : f[j] = s[j].start /\ g[j] = s[j].end /\ f[j] < g[j]
  OBVIOUS
<1>3. ASSUME NEW j \in 1..n - 1
      PROVE  g[j] <= f[j + 1]
  <2>1. j \in 1..n /\ j + 1 \in 1..n /\ j + 1 # 1 /\ (j + 1) - 1 = j
    OBVIOUS
  <2>2. s[j + 1].start >= s[j].end
    BY <2>1 DEF EndBefore
  <2> QED BY <2>1, <2>2
<1> HIDE DEF f, g
<1>4. \A i, k \in 1..n : i < k => g[i] <= f[k]
  BY <1>1, <1>2, <1>3, Chain
<1>5. \A i, k \in 1..n : i < k => s[i].end <= s[k].start
  BY <1>2, <1>4
<1>6. ASSUME NEW j \in 1..n
      PROVE  first <= s[j].start
  <2>1. 1 \in 1..n /\ s[1].start >= first
    BY DEF EndBefore
  <2>2. j = 1 \/ 1 < j
    OBVIOUS
  <2>3. CASE 1 < j
    <3>1. s[1].end <= s[j].start /\ s[1].start < s[1].end
      BY <1>5, <2>1, <2>3
    <3>2. s[1].start \in Int /\ s[1].end \in Int /\ s[j].start \in Int
      BY <2>1
    <3> QED BY <2>1, <3>1, <3>2
  <2> QED BY <2>1, <2>2, <2>3
<1> QED BY <1>5, <1>6

(* Words that pass the check are inside of their cue and in order. *)
LEMMA WordsWithin ==
  ASSUME NEW cue \in Cue, WordsInOrder(cue)
  PROVE  /\ cue.words \in Seq(Word) /\ cue.start \in Int /\ cue.end \in Int
         /\ \A j \in 1..Len(cue.words) :
              LET word == cue.words[j] IN
              /\ word.start \in Int /\ word.end \in Int /\ word.text = "text"
              /\ cue.start <= word.start /\ word.start < word.end /\ word.end <= cue.end
         /\ \A j, k \in 1..Len(cue.words) : j < k => cue.words[j].end <= cue.words[k].start
<1> DEFINE w == cue.words
           n == Len(w)
<1>1. w \in Seq(Word) /\ cue.start \in Int /\ cue.end \in Int
  BY DEF Cue
<1>2. n \in Nat /\ \A j \in 1..n : w[j] \in Word
  <2> HIDE DEF w
  <2> QED BY <1>1
<1>3. \A j \in 1..n : w[j].start \in Int /\ w[j].end \in Int
  BY <1>2 DEF Word
<1>4. DOMAIN w = 1..n
  <2> HIDE DEF w
  <2> QED BY <1>1
<1>5. \A j \in 1..n : /\ w[j].text = "text"
                      /\ w[j].start >= EndBefore(w, j, cue.start) /\ w[j].start < w[j].end
                      /\ w[j].end <= cue.end
  BY <1>4, Zenon DEF WordsInOrder
<1> HIDE DEF w, n
<1>6. \A j \in 1..n : cue.start <= w[j].start
  BY <1>1, <1>2, <1>3, <1>5, Intervals
<1>7. \A j, k \in 1..n : j < k => w[j].end <= w[k].start
  BY <1>1, <1>2, <1>3, <1>5, Intervals
<1> QED BY <1>1, <1>3, <1>5, <1>6, <1>7, Zenon DEF w, n

(* Cues that pass the check are inside of the audio and in order. *)
LEMMA CuesWithin ==
  ASSUME NEW cues \in Seq(Cue), CuesInOrder(cues)
  PROVE  /\ Len(cues) \in Nat
         /\ \A i \in 1..Len(cues) :
              /\ cues[i] \in Cue /\ cues[i].words # <<>>
              /\ cues[i].start \in Int /\ cues[i].end \in Int
              /\ 0 <= cues[i].start /\ cues[i].start < cues[i].end /\ cues[i].end <= Duration
         /\ \A i, k \in 1..Len(cues) : i < k => cues[i].end <= cues[k].start
<1> DEFINE n == Len(cues)
<1>1. n \in Nat /\ DOMAIN cues = 1..n /\ \A i \in 1..n : cues[i] \in Cue
  OBVIOUS
<1>2. \A i \in 1..n : cues[i].start \in Int /\ cues[i].end \in Int
  BY <1>1 DEF Cue
<1>3. \A i \in 1..n : /\ cues[i].words # <<>>
                      /\ cues[i].start >= EndBefore(cues, i, 0) /\ cues[i].start < cues[i].end
                      /\ cues[i].end <= Duration
  BY <1>1, Zenon DEF CuesInOrder
<1> HIDE DEF n
<1> DEFINE first == 0
<1>a. first \in Int /\ \A i \in 1..n : /\ cues[i].start >= EndBefore(cues, i, first)
                                    /\ cues[i].start < cues[i].end
  BY <1>3
<1> HIDE DEF first
<1>b. \A i \in 1..n : first <= cues[i].start
  BY <1>1, <1>2, <1>a, Intervals
<1>4. \A i \in 1..n : 0 <= cues[i].start
  BY <1>b DEF first
<1>5. \A i, k \in 1..n : i < k => cues[i].end <= cues[k].start
  BY <1>1, <1>2, <1>a, Intervals
<1> QED BY <1>1, <1>2, <1>3, <1>4, <1>5, Zenon DEF n

-----------------------------------------------------------------------------
(* The editor and the server check the cues alike: that no cue starts before
   0, which only the editor asks for, follows from their order. *)
LEMMA SameCueChecks ==
  ASSUME NEW cues \in Seq(Cue)
  PROVE  CueIssues(cues) = {} <=> CuesInOrder(cues)
<1>1. /\ DOMAIN cues = 1..Len(cues) /\ Len(cues) \in Nat
      /\ \A i \in 1..Len(cues) : cues[i] \in Cue
  OBVIOUS
<1>2. \A i \in 1..Len(cues) : cues[i].start \in Int /\ cues[i].end \in Int
  BY <1>1 DEF Cue
<1>3. \A i \in 1..Len(cues) : EndBefore(cues, i, 0) \in Int
  <2> TAKE i \in 1..Len(cues)
  <2>1. i # 1 => i - 1 \in 1..Len(cues)
    OBVIOUS
  <2> QED BY <1>2, <2>1 DEF EndBefore
<1>4. Duration \in Int
  BY NumbersAssumption
<1>5. ASSUME CueIssues(cues) = {}
      PROVE  CuesInOrder(cues)
  <2>1. \A i \in 1..Len(cues) :
          /\ ~ (cues[i].end <= cues[i].start) /\ ~ (cues[i].end > Duration)
          /\ ~ (cues[i].start < EndBefore(cues, i, 0)) /\ cues[i].words # <<>>
    BY <1>1, <1>5, Zenon DEF CueIssues
  <2>2. \A i \in 1..Len(cues) :
          /\ cues[i].start < cues[i].end /\ cues[i].end <= Duration
          /\ cues[i].start >= EndBefore(cues, i, 0) /\ cues[i].words # <<>>
    BY <1>2, <1>3, <1>4, <2>1
  <2> QED BY <1>1, <2>2, Zenon DEF CuesInOrder
<1>6. ASSUME CuesInOrder(cues)
      PROVE  CueIssues(cues) = {}
  <2>1. \A i \in 1..Len(cues) :
          /\ cues[i].start < cues[i].end /\ cues[i].end <= Duration
          /\ cues[i].start >= EndBefore(cues, i, 0) /\ cues[i].words # <<>>
    BY <1>1, <1>6, Zenon DEF CuesInOrder
  <2>2. \A i \in 1..Len(cues) : 0 <= cues[i].start
    BY <1>6, CuesWithin
  <2>3. \A i \in 1..Len(cues) :
          /\ ~ (cues[i].start < 0)
          /\ ~ (cues[i].end <= cues[i].start) /\ ~ (cues[i].end > Duration)
          /\ ~ (cues[i].start < EndBefore(cues, i, 0)) /\ cues[i].words # <<>>
    BY <1>2, <1>3, <1>4, <2>1, <2>2
  <2> QED BY <1>1, <2>3, Zenon DEF CueIssues
<1> QED BY <1>5, <1>6

(* They check the words alike: that no word starts before its cue, which only
   the editor asks for, follows from their order. *)
LEMMA SameWordChecks ==
  ASSUME NEW cue \in Cue
  PROVE  WordIssues(cue) = {} <=> WordsInOrder(cue)
<1> DEFINE w == cue.words
<1>1. w \in Seq(Word) /\ cue.start \in Int /\ cue.end \in Int
  BY DEF Cue
<1>2. DOMAIN w = 1..Len(w) /\ Len(w) \in Nat /\ \A k \in 1..Len(w) : w[k] \in Word
  <2> HIDE DEF w
  <2> QED BY <1>1
<1>3. \A k \in 1..Len(w) : w[k].start \in Int /\ w[k].end \in Int /\ w[k].text \in {"text", "blank"}
  BY <1>2 DEF Word, Texts
<1>4. \A k \in 1..Len(w) : EndBefore(w, k, cue.start) \in Int
  <2> TAKE k \in 1..Len(w)
  <2>1. k # 1 => k - 1 \in 1..Len(w)
    BY <1>2
  <2> QED BY <1>1, <1>3, <2>1 DEF EndBefore
<1>5. ASSUME WordIssues(cue) = {}
      PROVE  WordsInOrder(cue)
  <2>1. \A k \in 1..Len(w) :
          /\ w[k].text # "blank" /\ ~ (w[k].start < EndBefore(w, k, cue.start))
          /\ ~ (w[k].end <= w[k].start) /\ ~ (w[k].end > cue.end)
    BY <1>2, <1>5, Zenon DEF WordIssues
  <2>2. \A k \in 1..Len(w) :
          /\ w[k].text = "text" /\ w[k].start >= EndBefore(w, k, cue.start)
          /\ w[k].start < w[k].end /\ w[k].end <= cue.end
    <3> HIDE DEF w
    <3> QED BY <1>1, <1>3, <1>4, <2>1
  <2> QED BY <1>2, <2>2, Zenon DEF WordsInOrder
<1>6. ASSUME WordsInOrder(cue)
      PROVE  WordIssues(cue) = {}
  <2>1. \A k \in 1..Len(w) : w[k].start >= EndBefore(w, k, cue.start)
    BY <1>2, <1>6, Zenon DEF WordsInOrder
  <2>2. \A k \in 1..Len(w) :
          /\ w[k].text = "text" /\ cue.start <= w[k].start
          /\ w[k].start < w[k].end /\ w[k].end <= cue.end
    BY <1>6, WordsWithin
  <2>3. \A k \in 1..Len(w) :
          /\ w[k].text # "blank" /\ ~ (w[k].start < EndBefore(w, k, cue.start))
          /\ ~ (w[k].end <= w[k].start) /\ ~ (w[k].start < cue.start) /\ ~ (w[k].end > cue.end)
    <3> HIDE DEF w
    <3> QED BY <1>1, <1>3, <1>4, <2>1, <2>2
  <2> QED BY <1>2, <2>3, Zenon DEF WordIssues
<1> QED BY <1>5, <1>6

(* The two checks are the same. *)
LEMMA SameChecks ==
  ASSUME NEW cues \in Seq(Cue)
  PROVE  (NoIssues(cues) /\ Decodes(cues)) <=> ServerAccepts(cues)
<1>1. \A i \in DOMAIN cues : WordIssues(cues[i]) = {} <=> WordsInOrder(cues[i])
  <2>1. \A i \in DOMAIN cues : cues[i] \in Cue
    OBVIOUS
  <2> QED BY <2>1, SameWordChecks, Zenon
<1>2. CueIssues(cues) = {} <=> CuesInOrder(cues)
  BY SameCueChecks
<1> QED BY <1>1, <1>2, Zenon DEF NoIssues, ServerAccepts

-----------------------------------------------------------------------------
(* Words that follow each other, the last of them ending by limit. *)
Ordered(words, limit) ==
  /\ \A j \in 1..Len(words) :
       /\ words[j].start \in Int /\ words[j].end \in Int
       /\ words[j].start < words[j].end /\ words[j].end <= limit
  /\ \A j, k \in 1..Len(words) : j < k => words[j].end <= words[k].start

(* The words of the next cue follow. *)
LEMMA OrderedConcat ==
  ASSUME NEW a \in Seq(Word), NEW limit \in Int, Ordered(a, limit),
         NEW cue \in Cue, WordsInOrder(cue), limit <= cue.start, cue.start <= cue.end
  PROVE  Ordered(a \o cue.words, cue.end)
<1> DEFINE b == cue.words
           t == a \o b
<1>1. /\ b \in Seq(Word) /\ cue.start \in Int /\ cue.end \in Int
      /\ \A j \in 1..Len(b) :
           /\ b[j].start \in Int /\ b[j].end \in Int
           /\ cue.start <= b[j].start /\ b[j].start < b[j].end /\ b[j].end <= cue.end
      /\ \A j, k \in 1..Len(b) : j < k => b[j].end <= b[k].start
  <2>1. b \in Seq(Word) /\ cue.start \in Int /\ cue.end \in Int
    BY WordsWithin
  <2>2. \A j \in 1..Len(b) :
           /\ b[j].start \in Int /\ b[j].end \in Int
           /\ cue.start <= b[j].start /\ b[j].start < b[j].end /\ b[j].end <= cue.end
    BY WordsWithin
  <2>3. \A j, k \in 1..Len(b) : j < k => b[j].end <= b[k].start
    BY WordsWithin
  <2> QED BY <2>1, <2>2, <2>3
<1> HIDE DEF b
<1>2. /\ t \in Seq(Word) /\ Len(a) \in Nat /\ Len(b) \in Nat /\ Len(t) = Len(a) + Len(b)
      /\ \A j \in 1..Len(a) : t[j] = a[j]
      /\ \A j \in 1..Len(b) : t[Len(a) + j] = b[j]
  <2>1. t \in Seq(Word) /\ Len(a) \in Nat /\ Len(b) \in Nat /\ Len(t) = Len(a) + Len(b)
    BY <1>1
  <2>2. \A j \in 1..Len(a) : t[j] = a[j]
    BY <1>1
  <2>3. \A j \in 1..Len(b) : t[Len(a) + j] = b[j]
    BY <1>1
  <2> QED BY <2>1, <2>2, <2>3
<1> HIDE DEF t
<1>3. /\ \A j \in 1..Len(a) :
           /\ a[j].start \in Int /\ a[j].end \in Int
           /\ a[j].start < a[j].end /\ a[j].end <= limit
      /\ \A j, k \in 1..Len(a) : j < k => a[j].end <= a[k].start
  BY DEF Ordered
<1>4. \A j \in 1..Len(t) :
        \/ j \in 1..Len(a) /\ t[j] = a[j]
        \/ j > Len(a) /\ j - Len(a) \in 1..Len(b) /\ t[j] = b[j - Len(a)]
  <2> TAKE j \in 1..Len(t)
  <2>1. CASE j \in 1..Len(a)
    BY <1>2, <2>1
  <2>2. CASE j \notin 1..Len(a)
    <3>1. j > Len(a) /\ j - Len(a) \in 1..Len(b) /\ Len(a) + (j - Len(a)) = j
      BY <1>2, <2>2
    <3> QED BY <1>2, <3>1
  <2> QED BY <2>1, <2>2
<1>5. \A j \in 1..Len(t) :
        /\ t[j].start \in Int /\ t[j].end \in Int
        /\ t[j].start < t[j].end /\ t[j].end <= cue.end
        /\ j > Len(a) => cue.start <= t[j].start
        /\ j <= Len(a) => t[j].end <= limit
  <2> TAKE j \in 1..Len(t)
  <2>1. CASE j \in 1..Len(a) /\ t[j] = a[j]
    BY <1>1, <1>2, <1>3, <2>1
  <2>2. CASE j > Len(a) /\ j - Len(a) \in 1..Len(b) /\ t[j] = b[j - Len(a)]
    BY <1>1, <1>2, <2>2
  <2> QED BY <1>4, <2>1, <2>2
<1>6. ASSUME NEW j \in 1..Len(t), NEW k \in 1..Len(t), j < k
      PROVE  t[j].end <= t[k].start
  <2>0. Len(a) \in Nat /\ j \in Int /\ k \in Int
    BY <1>2
  <2>1. CASE k <= Len(a)
    <3>1. j \in 1..Len(a) /\ k \in 1..Len(a)
      BY <1>2, <1>6, <2>1
    <3> QED BY <1>2, <1>3, <1>6, <3>1
  <2>2. CASE j > Len(a)
    <3>1. /\ j - Len(a) \in 1..Len(b) /\ t[j] = b[j - Len(a)]
          /\ k - Len(a) \in 1..Len(b) /\ t[k] = b[k - Len(a)]
          /\ j - Len(a) < k - Len(a)
      BY <1>4, <1>6, <2>0, <2>2
    <3> QED BY <1>1, <3>1
  <2>3. CASE j <= Len(a) /\ k > Len(a)
    <3>1. t[j].end <= limit /\ limit <= cue.start /\ cue.start <= t[k].start
      BY <1>5, <2>3
    <3>2. t[j].end \in Int /\ t[k].start \in Int /\ cue.start \in Int /\ limit \in Int
      BY <1>1, <1>5
    <3> HIDE <1>1, <1>2, <1>3, <1>4, <1>5
    <3> QED BY <3>1, <3>2
  <2> QED BY <2>0, <2>1, <2>2, <2>3
<1> QED BY <1>5, <1>6, Zenon DEF Ordered, t, b

(* The words of a valid transcript follow each other, by induction over the
   cues. *)
LEMMA AcceptedWords ==
  ASSUME NEW cues \in Seq(Cue), ServerAccepts(cues)
  PROVE  \E limit \in Int : Ordered(Words(cues), limit)
<1> DEFINE Part(n) == SubSeq(cues, 1, n)
           Limit(n) == IF n = 0 THEN 0 ELSE cues[n].end
           Q(n) == Ordered(Words(Part(n)), Limit(n))
           T == {n \in 0..Len(cues) : Q(n)}
<1>0. CuesInOrder(cues) /\ \A i \in DOMAIN cues : WordsInOrder(cues[i])
  BY DEF ServerAccepts
<1>1. Len(cues) \in Nat /\ DOMAIN cues = 1..Len(cues)
  OBVIOUS
<1>2. /\ \A i \in 1..Len(cues) :
           /\ cues[i] \in Cue
           /\ cues[i].start \in Int /\ cues[i].end \in Int
           /\ 0 <= cues[i].start /\ cues[i].start < cues[i].end
      /\ \A i, k \in 1..Len(cues) : i < k => cues[i].end <= cues[k].start
  <2>1. \A i \in 1..Len(cues) :
           /\ cues[i] \in Cue
           /\ cues[i].start \in Int /\ cues[i].end \in Int
           /\ 0 <= cues[i].start /\ cues[i].start < cues[i].end
    BY <1>0, CuesWithin
  <2>2. \A i, k \in 1..Len(cues) : i < k => cues[i].end <= cues[k].start
    BY <1>0, CuesWithin
  <2> QED BY <2>1, <2>2
<1>3. 0 \in T
  <2>1. Part(0) = <<>>
    OBVIOUS
  <2>2. LinesOf(<<>>) = <<>> /\ <<>> \in Seq(Cue)
    <3>1. <<>> \in Seq(Cue) /\ Len(<<>>) = 0
      OBVIOUS
    <3>2. LinesOf(<<>>) = [i \in 1..0 |-> <<>>[i].words]
      BY <3>1, LinesTyped
    <3> QED BY <3>1, <3>2
  <2>3. Words(<<>>) = <<>>
    BY <2>2, LinesTyped, FlattenEmpty
  <2>4. Ordered(<<>>, 0)
    BY DEF Ordered
  <2>5. Limit(0) = 0 /\ 0 \in 0..Len(cues)
    BY <1>1
  <2>6. Q(0)
    BY <2>1, <2>3, <2>4, <2>5
  <2> HIDE DEF Q
  <2> QED BY <2>5, <2>6
<1>4. ASSUME NEW n \in 0..Len(cues) - 1, n \in T
      PROVE  n + 1 \in T
  <2> DEFINE m == n + 1
             c == cues[m]
             p == Part(n)
  <2>1. m \in 1..Len(cues) /\ m \in 0..Len(cues) /\ m # 0 /\ n \in 0..Len(cues)
        /\ (n # 0 => n \in 1..Len(cues) /\ n < m)
    BY <1>1
  <2>2. /\ c \in Cue /\ c.start \in Int /\ c.end \in Int /\ 0 <= c.start /\ c.start < c.end
        /\ WordsInOrder(c)
    BY <1>0, <1>1, <1>2, <2>1
  <2>3. Limit(n) \in Int /\ Limit(n) <= c.start
    BY <1>2, <2>1, <2>2
  <2>4. p \in Seq(Cue) /\ <<c>> \in Seq(Cue)
    BY <2>1, <2>2
  <2>5. Part(m) = p \o <<c>>
    <3>1. (n + 1) - 1 = n
      OBVIOUS
    <3> QED BY <2>1, <3>1, FirstPart DEF Before
  <2>6. Words(p \o <<c>>) = Words(p) \o Words(<<c>>)
    <3> HIDE DEF p, c
    <3> QED BY <2>4, WordsConcat
  <2>7. Words(<<c>>) = c.words /\ Words(p) \in Seq(Word)
    BY <2>2, <2>4, WordsOfOne, WordsTyped
  <2>8. Ordered(Words(p), Limit(n))
    BY <1>4
  <2>9. c.start <= c.end
    BY <2>2
  <2>10. Ordered(Words(p) \o c.words, c.end)
    <3> HIDE DEF p, c, Limit
    <3> QED BY <2>2, <2>3, <2>7, <2>8, <2>9, OrderedConcat
  <2>11. Limit(m) = c.end
    BY <2>1
  <2> QED BY <2>1, <2>5, <2>6, <2>7, <2>10, <2>11
<1> HIDE DEF T
<1>5. 0..Len(cues) \subseteq T
  BY <1>1, <1>3, <1>4, Induction
<1>6. Len(cues) \in T
  BY <1>1, <1>5
<1>7. Part(Len(cues)) = cues
  OBVIOUS
<1>8. Limit(Len(cues)) \in Int
  BY <1>1, <1>2
<1> QED BY <1>6, <1>7, <1>8 DEF T

(* This is AcceptedIsPlayable. *)
LEMMA AcceptedPlays ==
  ASSUME draft \in Seq(Cue)
  PROVE  AcceptedIsPlayable
<1> SUFFICES ASSUME ServerAccepts(draft)
             PROVE  LET words == Words(draft) IN
                    \A i, k \in DOMAIN words : i < k =>
                      words[i].start < words[i].end /\ words[i].end <= words[k].start
  BY DEF AcceptedIsPlayable
<1> DEFINE words == Words(draft)
<1>1. DOMAIN words = 1..Len(words)
  BY WordsTyped
<1>2. PICK limit \in Int : Ordered(words, limit)
  BY AcceptedWords
<1> QED BY <1>1, <1>2 DEF Ordered

-----------------------------------------------------------------------------
(* Bounds of a cue are no word's business. *)
LEMMA CueChanged ==
  ASSUME NEW cues \in Seq(Cue), NEW i \in 1..Len(cues),
         NEW cue \in Cue, cue.words = cues[i].words
  PROVE  /\ ReplaceAt(cues, i, cue) \in Seq(Cue)
         /\ Len(ReplaceAt(cues, i, cue)) = Len(cues)
         /\ Words(ReplaceAt(cues, i, cue)) = Words(cues)
<1>1. Words(ReplaceAt(cues, i, cue)) = Words(cues)
  BY SameCue, WordsAround, ZenonT(60)
<1>2. ReplaceAt(cues, i, cue) \in Seq(Cue) /\ Len(ReplaceAt(cues, i, cue)) = Len(cues)
  BY DEF ReplaceAt
<1> QED BY <1>1, <1>2

(* What a command on a cue or on a word does to draft. *)
OneCue ==
  \E i \in 1..Len(draft) : \E cue \in Cue :
    /\ draft' = ReplaceAt(draft, i, cue)
    /\ cue.words = draft[i].words

OneWord ==
  \E i \in 1..Len(draft) : \E k \in 1..Len(draft[i].words) : \E cue \in Cue, word \in Word :
    LET old == draft[i].words[k] IN
    /\ draft' = ReplaceAt(draft, i, cue)
    /\ cue.words = ReplaceAt(draft[i].words, k, word)
    /\ word.id = old.id
    /\ \/ word.start = old.start \/ word.end = old.end
       \/ \E delta \in Int : word = Nudged(old, delta)

(* SetCueBounds changes one cue. *)
LEMMA BoundsAreOneCue ==
  ASSUME draft \in Seq(Cue), NEW i \in DOMAIN draft, SetCueBounds(i)
  PROVE  OneCue
<1>1. i \in 1..Len(draft) /\ draft[i] \in Cue
  OBVIOUS
<1>2. Typed \subseteq Int
  BY NumbersAssumption DEF Typed
<1>3. PICK time \in Typed : \/ draft' = [draft EXCEPT ![i].start = time]
                            \/ draft' = [draft EXCEPT ![i].end = time]
  BY DEF SetCueBounds, Command
<1>4. CASE draft' = [draft EXCEPT ![i].start = time]
  <2> DEFINE cue == [draft[i] EXCEPT !.start = time]
  <2>1. cue \in Cue /\ cue.words = draft[i].words
    BY <1>1, <1>2 DEF Cue
  <2>2. draft' = ReplaceAt(draft, i, cue)
    BY <1>4 DEF ReplaceAt
  <2> QED BY <1>1, <2>1, <2>2 DEF OneCue
<1>5. CASE draft' = [draft EXCEPT ![i].end = time]
  <2> DEFINE cue == [draft[i] EXCEPT !.end = time]
  <2>1. cue \in Cue /\ cue.words = draft[i].words
    BY <1>1, <1>2 DEF Cue
  <2>2. draft' = ReplaceAt(draft, i, cue)
    BY <1>5 DEF ReplaceAt
  <2> QED BY <1>1, <2>1, <2>2 DEF OneCue
<1> QED BY <1>3, <1>4, <1>5

(* A changed word is a changed cue. *)
LEMMA OneWordIntro ==
  ASSUME draft \in Seq(Cue), NEW i \in DOMAIN draft, NEW k \in DOMAIN draft[i].words,
         NEW word \in Word, draft' = [draft EXCEPT ![i].words[k] = word],
         word.id = draft[i].words[k].id,
         \/ word.start = draft[i].words[k].start \/ word.end = draft[i].words[k].end
         \/ \E delta \in Int : word = Nudged(draft[i].words[k], delta)
  PROVE  OneWord
<1>1. i \in 1..Len(draft) /\ draft[i] \in Cue
  OBVIOUS
<1> DEFINE w == draft[i].words
           v == [w EXCEPT ![k] = word]
           cue == [draft[i] EXCEPT !.words = v]
<1>2. w \in Seq(Word)
  BY <1>1 DEF Cue
<1>3. k \in 1..Len(w) /\ v \in Seq(Word)
  <2>1. k \in DOMAIN w
    OBVIOUS
  <2> HIDE DEF w
  <2> QED BY <1>2, <2>1
<1>4. cue \in Cue /\ cue.words = v
  <2> HIDE DEF v
  <2> QED BY <1>1, <1>3 DEF Cue
<1>5. draft' = ReplaceAt(draft, i, cue) /\ cue.words = ReplaceAt(w, k, word)
  BY <1>4 DEF ReplaceAt
<1> HIDE DEF cue, v
<1>6. \/ word.start = w[k].start \/ word.end = w[k].end
      \/ \E delta \in Int : word = Nudged(w[k], delta)
  OBVIOUS
<1> HIDE DEF w
<1>7. \E c \in Cue, x \in Word :
        LET old == w[k] IN
        /\ draft' = ReplaceAt(draft, i, c)
        /\ c.words = ReplaceAt(w, k, x)
        /\ x.id = old.id
        /\ \/ x.start = old.start \/ x.end = old.end
           \/ \E delta \in Int : x = Nudged(old, delta)
  <2>1. word.id = w[k].id
    BY DEF w
  <2> HIDE DEF Nudged
  <2> QED BY <1>4, <1>5, <1>6, <2>1, Zenon
<1> QED BY <1>1, <1>3, <1>7, Zenon DEF OneWord, w

(* A word of the draft is a word. *)
LEMMA WordAt ==
  ASSUME draft \in Seq(Cue), NEW i \in DOMAIN draft, NEW k \in DOMAIN draft[i].words
  PROVE  draft[i].words[k] \in Word
<1>1. draft[i] \in Cue
  OBVIOUS
<1>2. draft[i].words \in Seq(Word)
  BY <1>1 DEF Cue
<1> QED BY <1>2

(* UpdateWord changes one word. *)
LEMMA UpdatesAreOneWord ==
  ASSUME draft \in Seq(Cue), NEW i \in DOMAIN draft, NEW k \in DOMAIN draft[i].words,
         UpdateWord(i, k)
  PROVE  OneWord
<1> DEFINE old == draft[i].words[k]
<1>1. old \in Word
  BY WordAt
<1>2. Typed \subseteq Int
  BY NumbersAssumption DEF Typed
<1>3. \/ \E time \in Typed : draft' = [draft EXCEPT ![i].words[k].start = time]
      \/ \E time \in Typed : draft' = [draft EXCEPT ![i].words[k].end = time]
      \/ \E text \in Texts : draft' = [draft EXCEPT ![i].words[k].text = text]
  BY DEF UpdateWord, Command
<1>4. ASSUME NEW time \in Typed, draft' = [draft EXCEPT ![i].words[k].start = time]
      PROVE  OneWord
  <2> DEFINE word == [old EXCEPT !.start = time]
  <2>1. word \in Word /\ word.id = old.id /\ word.end = old.end
    BY <1>1, <1>2 DEF Word
  <2>2. draft' = [draft EXCEPT ![i].words[k] = word]
    BY <1>4
  <2> HIDE DEF word
  <2> QED BY <2>1, <2>2, OneWordIntro
<1>5. ASSUME NEW time \in Typed, draft' = [draft EXCEPT ![i].words[k].end = time]
      PROVE  OneWord
  <2> DEFINE word == [old EXCEPT !.end = time]
  <2>1. word \in Word /\ word.id = old.id /\ word.start = old.start
    BY <1>1, <1>2 DEF Word
  <2>2. draft' = [draft EXCEPT ![i].words[k] = word]
    BY <1>5
  <2> HIDE DEF word
  <2> QED BY <2>1, <2>2, OneWordIntro
<1>6. ASSUME NEW text \in Texts, draft' = [draft EXCEPT ![i].words[k].text = text]
      PROVE  OneWord
  <2> DEFINE word == [old EXCEPT !.text = text]
  <2>1. word \in Word /\ word.id = old.id /\ word.start = old.start
    BY <1>1 DEF Word
  <2>2. draft' = [draft EXCEPT ![i].words[k] = word]
    BY <1>6
  <2> HIDE DEF word
  <2> QED BY <2>1, <2>2, OneWordIntro
<1> QED BY <1>3, <1>4, <1>5, <1>6

(* NudgeWord changes one word. *)
LEMMA NudgesAreOneWord ==
  ASSUME draft \in Seq(Cue), NEW i \in DOMAIN draft, NEW k \in DOMAIN draft[i].words,
         NudgeWord(i, k)
  PROVE  OneWord
<1> DEFINE old == draft[i].words[k]
<1>1. old \in Word
  BY WordAt
<1>2. PICK delta \in {0 - Nudge, Nudge} :
        draft' = [draft EXCEPT ![i].words[k] = Nudged(@, delta)]
  BY DEF NudgeWord, Command
<1>3. delta \in Int /\ Duration \in Int
  BY NumbersAssumption
<1> DEFINE word == Nudged(old, delta)
<1>4. draft' = [draft EXCEPT ![i].words[k] = word]
  BY <1>2
<1>5. word \in Word /\ word.id = old.id
  <2> DEFINE bounded == Largest(0 - old.start, Least(delta, Duration - old.end))
  <2>1. old.start \in Int /\ old.end \in Int
    BY <1>1 DEF Word
  <2>2. bounded \in Int
    BY <1>3, <2>1 DEF Largest, Least
  <2>3. word = [old EXCEPT !.start = @ + bounded, !.end = @ + bounded]
    BY DEF Nudged
  <2> HIDE DEF old, bounded, word
  <2>4. old.start + bounded \in Int /\ old.end + bounded \in Int
    BY <2>1, <2>2
  <2> QED BY <1>1, <2>3, <2>4 DEF Word
<1> HIDE DEF word
<1>6. \E d \in Int : word = Nudged(old, d)
  BY <1>3 DEF word
<1> QED BY <1>4, <1>5, <1>6, OneWordIntro

-----------------------------------------------------------------------------
(* A sequence cut in two. *)
LEMMA Cut ==
  ASSUME NEW S, NEW s \in Seq(S), NEW k \in 2..Len(s)
  PROVE  LET a == SubSeq(s, 1, k - 1)
             b == SubSeq(s, k, Len(s))
         IN /\ a \in Seq(S) /\ Len(a) = k - 1 /\ \A j \in 1..k - 1 : a[j] = s[j]
            /\ b \in Seq(S) /\ Len(b) = Len(s) - k + 1
            /\ \A j \in 1..Len(s) - k + 1 : b[j] = s[(k - 1) + j]
            /\ a \o b = s
<1> DEFINE h == k - 1
           a == Before(s, k)
           b == Behind(s, h)
<1>1. k \in 1..Len(s) /\ h \in 1..Len(s) /\ h + 1 = k /\ Len(s) \in Nat
  OBVIOUS
<1>2. a \in Seq(S) /\ Len(a) = k - 1 /\ \A j \in 1..k - 1 : a[j] = s[j]
  BY <1>1, BeforeBehind
<1>3. b \in Seq(S) /\ Len(b) = Len(s) - h /\ \A j \in 1..Len(s) - h : b[j] = s[h + j]
  <2> HIDE DEF h
  <2> QED BY <1>1, BeforeBehind
<1>4. a = SubSeq(s, 1, k - 1) /\ b = SubSeq(s, k, Len(s))
  BY <1>1 DEF Before, Behind
<1> HIDE DEF a, b
<1>5. a \o b = s
  <2> DEFINE t == a \o b
  <2>1. /\ t \in Seq(S) /\ Len(t) = Len(a) + Len(b)
        /\ \A j \in 1..Len(a) : t[j] = a[j]
        /\ \A j \in 1..Len(b) : t[Len(a) + j] = b[j]
    <3>1. a \in Seq(S) /\ b \in Seq(S)
      BY <1>2, <1>3
    <3>2. t \in Seq(S) /\ Len(t) = Len(a) + Len(b)
      BY <3>1
    <3>3. \A j \in 1..Len(a) : t[j] = a[j]
      BY <3>1
    <3>4. \A j \in 1..Len(b) : t[Len(a) + j] = b[j]
      BY <3>1
    <3> QED BY <3>2, <3>3, <3>4
  <2> HIDE DEF t
  <2>2. Len(t) = Len(s)
    BY <1>1, <1>2, <1>3, <2>1
  <2>3. \A j \in 1..Len(s) : t[j] = s[j]
    <3> TAKE j \in 1..Len(s)
    <3>1. CASE j \in 1..h
      BY <1>1, <1>2, <2>1, <3>1
    <3>2. CASE j \notin 1..h
      <4>1. j - h \in 1..Len(s) - h /\ h + (j - h) = j
        BY <1>1, <3>2
      <4>2. t[h + (j - h)] = b[j - h] /\ b[j - h] = s[h + (j - h)]
        BY <1>1, <1>2, <1>3, <2>1, <4>1
      <4> QED BY <4>1, <4>2
    <3> QED BY <3>1, <3>2
  <2>4. t = s
    BY <2>1, <2>2, <2>3, SeqEqual
  <2> QED BY <2>4 DEF t
<1>6. Len(b) = Len(s) - k + 1 /\ \A j \in 1..Len(s) - k + 1 : b[j] = s[(k - 1) + j]
  BY <1>1, <1>3
<1> QED BY <1>2, <1>3, <1>4, <1>5, <1>6

(* The lists that splitCue and mergeCueWithPrevious make. *)
SplitInto(s, i, a, b) == ReplaceAt(InsertAt(s, i + 1, b), i, a)
MergedInto(s, i, m)   == RemoveAt(ReplaceAt(s, i - 1, m), i)

IsSplitList(t, s, i, a, b) ==
  /\ Len(t) = Len(s) + 1
  /\ \A j \in 1..i - 1 : t[j] = s[j]
  /\ t[i] = a /\ t[i + 1] = b
  /\ \A j \in 1..Len(t) : j > i + 1 => t[j] = s[j - 1]

IsMergedList(t, s, i, m) ==
  /\ Len(t) = Len(s) - 1
  /\ \A j \in 1..i - 2 : t[j] = s[j]
  /\ t[i - 1] = m
  /\ \A j \in 1..Len(t) : j > i - 1 => t[j] = s[j + 1]

(* Where the cues are after splitCue. *)
LEMMA SplitAt ==
  ASSUME NEW S, NEW s \in Seq(S), NEW i \in 1..Len(s), NEW a \in S, NEW b \in S
  PROVE  /\ SplitInto(s, i, a, b) \in Seq(S)
         /\ IsSplitList(SplitInto(s, i, a, b), s, i, a, b)
<1> DEFINE p == Before(s, i)
           q == Behind(s, i)
           t == AroundTwo(p, a, b, q)
<1>0. i \in Nat /\ Len(s) \in Nat /\ i >= 1 /\ i <= Len(s)
  OBVIOUS
<1>1. SplitInto(s, i, a, b) = t
  BY SplitIsConcat DEF AroundTwo, Around, SplitInto
<1>2. /\ p \in Seq(S) /\ Len(p) = i - 1 /\ \A j \in 1..i - 1 : p[j] = s[j]
      /\ q \in Seq(S) /\ Len(q) = Len(s) - i /\ \A j \in 1..Len(s) - i : q[j] = s[i + j]
  <2>1. p \in Seq(S) /\ Len(p) = i - 1 /\ \A j \in 1..i - 1 : p[j] = s[j]
    BY BeforeBehind
  <2>2. q \in Seq(S) /\ Len(q) = Len(s) - i /\ \A j \in 1..Len(s) - i : q[j] = s[i + j]
    BY BeforeBehind
  <2> QED BY <2>1, <2>2
<1> HIDE DEF p, q
<1>3. /\ t \in Seq(S)
      /\ Len(t) = Len(p) + 2 + Len(q)
      /\ \A j \in 1..Len(p) : t[j] = p[j]
      /\ t[Len(p) + 1] = a
      /\ t[Len(p) + 2] = b
      /\ \A j \in 1..Len(q) : t[Len(p) + 2 + j] = q[j]
  <2>0. p \in Seq(S) /\ q \in Seq(S)
    BY <1>2
  <2>1. t \in Seq(S)
    BY <2>0, TwoAt
  <2>2. Len(t) = Len(p) + 2 + Len(q)
    BY <2>0, TwoAt
  <2>3. \A j \in 1..Len(p) : t[j] = p[j]
    BY <2>0, TwoAt
  <2>4. t[Len(p) + 1] = a
    BY <2>0, TwoAt
  <2>5. t[Len(p) + 2] = b
    BY <2>0, TwoAt
  <2>6. \A j \in 1..Len(q) : t[Len(p) + 2 + j] = q[j]
    BY <2>0, TwoAt
  <2> QED BY <2>1, <2>2, <2>3, <2>4, <2>5, <2>6
<1> HIDE DEF t
<1>4. Len(t) = Len(s) + 1 /\ t[i] = a /\ t[i + 1] = b /\ \A j \in 1..i - 1 : t[j] = s[j]
  BY <1>0, <1>2, <1>3
<1>5. ASSUME NEW j \in 1..Len(t), j > i + 1
      PROVE  t[j] = s[j - 1]
  <2> DEFINE m == j - (i + 1)
  <2>1. m \in 1..Len(q) /\ m \in 1..Len(s) - i /\ Len(p) + 2 + m = j /\ i + m = j - 1
    BY <1>0, <1>2, <1>4, <1>5
  <2> HIDE DEF m
  <2>2. t[Len(p) + 2 + m] = q[m] /\ q[m] = s[i + m]
    BY <1>2, <1>3, <2>1
  <2> QED BY <2>1, <2>2
<1> QED BY <1>1, <1>3, <1>4, <1>5 DEF IsSplitList

(* Where the cues are after mergeCueWithPrevious. *)
LEMMA MergeAt ==
  ASSUME NEW S, NEW s \in Seq(S), NEW i \in 2..Len(s), NEW m \in S
  PROVE  /\ MergedInto(s, i, m) \in Seq(S)
         /\ IsMergedList(MergedInto(s, i, m), s, i, m)
<1> DEFINE h == i - 1
           p == Before(s, h)
           q == Behind(s, i)
           t == Around(p, m, q)
<1>0. /\ i \in Nat /\ Len(s) \in Nat /\ i >= 2 /\ i <= Len(s)
      /\ h \in 1..Len(s) /\ i \in 1..Len(s) /\ h - 1 = i - 2
  OBVIOUS
<1>1. MergedInto(s, i, m) = t
  BY MergeIsConcat DEF Around, MergedInto
<1>2. p \in Seq(S) /\ Len(p) = h - 1 /\ \A j \in 1..h - 1 : p[j] = s[j]
  <2> HIDE DEF h
  <2> QED BY <1>0, BeforeBehind
<1>3. q \in Seq(S) /\ Len(q) = Len(s) - i /\ \A j \in 1..Len(s) - i : q[j] = s[i + j]
  BY <1>0, BeforeBehind
<1> HIDE DEF p, q
<1>4. /\ t \in Seq(S)
      /\ Len(t) = Len(p) + 1 + Len(q)
      /\ \A j \in 1..Len(p) : t[j] = p[j]
      /\ t[Len(p) + 1] = m
      /\ \A j \in 1..Len(q) : t[Len(p) + 1 + j] = q[j]
  <2>0. p \in Seq(S) /\ q \in Seq(S)
    BY <1>2, <1>3
  <2>1. t \in Seq(S)
    BY <2>0, OneAt
  <2>2. Len(t) = Len(p) + 1 + Len(q)
    BY <2>0, OneAt
  <2>3. \A j \in 1..Len(p) : t[j] = p[j]
    BY <2>0, OneAt
  <2>4. t[Len(p) + 1] = m
    BY <2>0, OneAt
  <2>5. \A j \in 1..Len(q) : t[Len(p) + 1 + j] = q[j]
    BY <2>0, OneAt
  <2> QED BY <2>1, <2>2, <2>3, <2>4, <2>5
<1> HIDE DEF t
<1>5. Len(t) = Len(s) - 1 /\ t[i - 1] = m /\ \A j \in 1..i - 2 : t[j] = s[j]
  BY <1>0, <1>2, <1>3, <1>4
<1>6. ASSUME NEW j \in 1..Len(t), j > i - 1
      PROVE  t[j] = s[j + 1]
  <2> DEFINE n == j - (i - 1)
  <2>1. n \in 1..Len(q) /\ n \in 1..Len(s) - i /\ Len(p) + 1 + n = j /\ i + n = j + 1
    BY <1>0, <1>2, <1>3, <1>5, <1>6
  <2> HIDE DEF n
  <2>2. t[Len(p) + 1 + n] = q[n] /\ q[n] = s[i + n]
    BY <1>3, <1>4, <2>1
  <2> QED BY <2>1, <2>2
<1> QED BY <1>1, <1>4, <1>5, <1>6 DEF IsMergedList

-----------------------------------------------------------------------------
(* A word of a cue is a word of the transcript. *)
LEMMA WordIsInWords ==
  ASSUME NEW cues \in Seq(Cue), NEW i \in 1..Len(cues), NEW k \in 1..Len(cues[i].words)
  PROVE  \E p \in 1..Len(Words(cues)) : Words(cues)[p] = cues[i].words[k]
<1> DEFINE w == cues[i].words
<1>1. cues[i] \in Cue /\ w \in Seq(Word)
  BY SameCue
<1>2. w[k] \in Word /\ ReplaceAt(w, k, w[k]) = w
  <2> HIDE DEF w
  <2>1. k \in 1..Len(w)
    BY DEF w
  <2> QED BY <1>1, <2>1 DEF ReplaceAt
<1> QED BY <1>1, <1>2, WordsReplaced

(* The times of the words of a cue are whole if the transcript decodes. *)
LEMMA DecodedWords ==
  ASSUME NEW cues \in Seq(Cue), Decodes(cues),
         NEW i \in 1..Len(cues), NEW k \in 1..Len(cues[i].words)
  PROVE  Whole(cues[i].words[k].start) /\ Whole(cues[i].words[k].end)
<1>1. PICK p \in 1..Len(Words(cues)) : Words(cues)[p] = cues[i].words[k]
  BY WordIsInWords
<1>2. p \in DOMAIN Words(cues)
  BY <1>1, WordsTyped
<1> QED BY <1>1, <1>2, Zenon DEF Decodes

(* left and right are the two parts of a cue that is split at word k. *)
IsSplit(cue, k, left, right) ==
  /\ left.start = cue.start
  /\ left.end = cue.words[k - 1].end
  /\ left.words = SubSeq(cue.words, 1, k - 1)
  /\ right.start = cue.words[k].start
  /\ right.end = cue.end
  /\ right.words = SubSeq(cue.words, k, Len(cue.words))

(* Both parts of a valid cue are valid and in order. *)
LEMMA SplitCues ==
  ASSUME NEW cue \in Cue, NEW k \in 2..Len(cue.words), NEW left \in Cue, NEW right \in Cue,
         IsSplit(cue, k, left, right), WordsInOrder(cue)
  PROVE  /\ WordsInOrder(left) /\ WordsInOrder(right)
         /\ left.start < left.end /\ left.end <= right.start /\ right.start < right.end
<1> DEFINE w == cue.words
           a == left.words
           b == right.words
           n == Len(w)
<1>1. cue.start \in Int /\ cue.end \in Int /\ w \in Seq(Word) /\ n \in Nat
  <2>1. cue.start \in Int /\ cue.end \in Int /\ w \in Seq(Word)
    BY DEF Cue
  <2> HIDE DEF w
  <2> QED BY <2>1
<1>2. \A j \in 1..n :
        /\ w[j].start \in Int /\ w[j].end \in Int /\ w[j].text = "text"
        /\ cue.start <= w[j].start /\ w[j].start < w[j].end /\ w[j].end <= cue.end
  BY WordsWithin
<1>3. \A i, j \in 1..n : i < j => w[i].end <= w[j].start
  BY WordsWithin
<1>4. k \in Nat /\ k >= 2 /\ k <= n /\ k - 1 \in 1..n /\ k \in 1..n /\ k - 1 < k
  BY <1>1
<1>5. /\ left.start = cue.start /\ left.end = w[k - 1].end
      /\ right.start = w[k].start /\ right.end = cue.end
  BY DEF IsSplit
<1>6. /\ DOMAIN a = 1..k - 1 /\ \A j \in 1..k - 1 : a[j] = w[j]
      /\ DOMAIN b = 1..n - k + 1 /\ \A j \in 1..n - k + 1 : b[j] = w[(k - 1) + j]
  <2>1. a = SubSeq(w, 1, k - 1) /\ b = SubSeq(w, k, n)
    BY DEF IsSplit
  <2> HIDE DEF w, a, b
  <2>2. a \in Seq(Word) /\ Len(a) = k - 1 /\ \A j \in 1..k - 1 : a[j] = w[j]
    BY <1>1, <1>4, <2>1, Cut DEF n
  <2>3. b \in Seq(Word) /\ Len(b) = n - k + 1 /\ \A j \in 1..n - k + 1 : b[j] = w[(k - 1) + j]
    BY <1>1, <1>4, <2>1, Cut DEF n
  <2> QED BY <2>2, <2>3
<1> HIDE DEF w, a, b, n
<1>7. \A j \in DOMAIN a :
        /\ a[j].text = "text" /\ a[j].start >= EndBefore(a, j, left.start)
        /\ a[j].start < a[j].end /\ a[j].end <= left.end
  <2> TAKE j \in DOMAIN a
  <2>1. j \in 1..n /\ a[j] = w[j] /\ j \in Nat /\ j >= 1 /\ j <= k - 1
    BY <1>1, <1>4, <1>6
  <2>2. a[j].start >= EndBefore(a, j, left.start)
    <3>1. CASE j = 1
      BY <1>2, <1>5, <2>1, <3>1, <1>1 DEF EndBefore
    <3>2. CASE j # 1
      <4>1. j - 1 \in 1..n /\ j - 1 < j /\ a[j - 1] = w[j - 1]
        BY <1>1, <1>4, <1>6, <2>1, <3>2
      <4>2. w[j - 1].end <= w[j].start /\ w[j - 1].end \in Int /\ w[j].start \in Int
        BY <1>2, <1>3, <2>1, <4>1
      <4> QED BY <2>1, <3>2, <4>1, <4>2 DEF EndBefore
    <3> QED BY <3>1, <3>2
  <2>3. a[j].end <= left.end
    <3>1. CASE j = k - 1
      BY <1>2, <1>5, <2>1, <3>1
    <3>2. CASE j # k - 1
      <4>1. j < k - 1
        BY <1>4, <2>1, <3>2
      <4>2. w[j].end <= w[k - 1].start /\ w[k - 1].start < w[k - 1].end
        BY <1>2, <1>3, <1>4, <2>1, <4>1
      <4>3. w[j].end \in Int /\ w[k - 1].start \in Int /\ w[k - 1].end \in Int
        BY <1>2, <1>4, <2>1
      <4> QED BY <1>5, <2>1, <4>2, <4>3
    <3> QED BY <3>1, <3>2
  <2> QED BY <1>2, <2>1, <2>2, <2>3
<1>8. \A j \in DOMAIN b :
        /\ b[j].text = "text" /\ b[j].start >= EndBefore(b, j, right.start)
        /\ b[j].start < b[j].end /\ b[j].end <= right.end
  <2> TAKE j \in DOMAIN b
  <2> DEFINE m == (k - 1) + j
  <2>1. m \in 1..n /\ b[j] = w[m] /\ j \in Nat /\ j >= 1 /\ j <= n - k + 1 /\ m \in Nat
    <3>1. j \in 1..n - k + 1 /\ b[j] = w[m]
      BY <1>6
    <3>2. m \in 1..n /\ j \in Nat /\ j >= 1 /\ j <= n - k + 1 /\ m \in Nat
      BY <1>1, <1>4, <3>1
    <3> QED BY <3>1, <3>2
  <2>2. b[j].start >= EndBefore(b, j, right.start)
    <3>1. CASE j = 1
      <4>1. m = k
        BY <1>4, <3>1
      <4> QED BY <1>2, <1>5, <2>1, <3>1, <4>1 DEF EndBefore
    <3>2. CASE j # 1
      <4>1. /\ m - 1 \in 1..n /\ m - 1 < m
            /\ j - 1 \in 1..n - k + 1 /\ (k - 1) + (j - 1) = m - 1
        BY <1>1, <1>4, <2>1, <3>2
      <4>a. b[j - 1] = w[m - 1]
        BY <1>6, <4>1
      <4> HIDE DEF m
      <4>2. w[m - 1].end <= w[m].start /\ w[m - 1].end \in Int /\ w[m].start \in Int
        BY <1>2, <1>3, <2>1, <4>1
      <4> QED BY <2>1, <3>2, <4>a, <4>2 DEF EndBefore
    <3> QED BY <3>1, <3>2
  <2> HIDE DEF m
  <2> QED BY <1>2, <1>5, <2>1, <2>2
<1>9. WordsInOrder(left) /\ WordsInOrder(right)
  <2>1. WordsInOrder(left)
    BY <1>7, Zenon DEF WordsInOrder, a
  <2>2. WordsInOrder(right)
    BY <1>8, Zenon DEF WordsInOrder, b
  <2> QED BY <2>1, <2>2
<1>10. left.start < left.end /\ left.end <= right.start /\ right.start < right.end
  <2>1. /\ cue.start <= w[k - 1].start /\ w[k - 1].start < w[k - 1].end
        /\ w[k - 1].end <= w[k].start /\ w[k].start < w[k].end /\ w[k].end <= cue.end
    BY <1>2, <1>3, <1>4
  <2>2. /\ w[k - 1].start \in Int /\ w[k - 1].end \in Int
        /\ w[k].start \in Int /\ w[k].end \in Int
    BY <1>2, <1>4
  <2> QED BY <1>1, <1>5, <2>1, <2>2
<1> QED BY <1>9, <1>10

(* Splitting keeps the words and leaves no empty cue. *)
LEMMA SplitKeepsWords ==
  ASSUME NEW cues \in Seq(Cue), NEW i \in 1..Len(cues), NEW k \in 2..Len(cues[i].words),
         NEW left \in Cue, NEW right \in Cue, IsSplit(cues[i], k, left, right)
  PROVE  LET new == SplitInto(cues, i, left, right)
         IN /\ new \in Seq(Cue)
            /\ Len(new) = Len(cues) + 1
            /\ Words(new) = Words(cues)
            /\ left.words # <<>> /\ right.words # <<>>
<1> DEFINE new == SplitInto(cues, i, left, right)
           p == Before(cues, i)
           q == Behind(cues, i)
           w == cues[i].words
<1>1. p \in Seq(Cue) /\ q \in Seq(Cue) /\ w \in Seq(Word)
  BY BeforeBehind, SameCue
<1>2. new = ((p \o <<left>>) \o <<right>>) \o q
  BY SplitIsConcat DEF SplitInto
<1>3. Words(cues) = (Words(p) \o w) \o Words(q)
  BY SameCue
<1>4. left.words = SubSeq(w, 1, k - 1) /\ right.words = SubSeq(w, k, Len(w))
  BY DEF IsSplit
<1>5. k \in 2..Len(w)
  OBVIOUS
<1> HIDE DEF p, q, w
<1>6. left.words \o right.words = w /\ Len(left.words) = k - 1
      /\ Len(right.words) = Len(w) - k + 1 /\ Len(w) \in Nat
  BY <1>1, <1>4, <1>5, Cut
<1>7. Words(((p \o <<left>>) \o <<right>>) \o q)
        = (Words(p) \o (left.words \o right.words)) \o Words(q)
  BY <1>1, WordsOfTwoBetween
<1>8. new \in Seq(Cue) /\ Len(new) = Len(cues) + 1
  BY SplitAt DEF IsSplitList
<1>9. left.words # <<>> /\ right.words # <<>>
  <2>1. Len(left.words) # 0 /\ Len(right.words) # 0
    BY <1>5, <1>6
  <2> QED BY <2>1
<1> HIDE DEF new
<1>10. Words(new) = Words(cues)
  BY <1>2, <1>3, <1>6, <1>7
<1> QED BY <1>8, <1>9, <1>10 DEF new

-----------------------------------------------------------------------------
(* The part of CuesInOrder about cue i. *)
InPlace(cues, i) ==
  /\ cues[i].words # <<>>
  /\ cues[i].start >= EndBefore(cues, i, 0)
  /\ cues[i].start < cues[i].end /\ cues[i].end <= Duration

(* The check of the server, cue by cue. *)
LEMMA Accepting ==
  ASSUME NEW cues \in Seq(Cue)
  PROVE  ServerAccepts(cues) <=>
           /\ cues # <<>>
           /\ \A i \in 1..Len(cues) :
                /\ InPlace(cues, i)
                /\ WordsInOrder(cues[i])
                /\ Whole(cues[i].start) /\ Whole(cues[i].end)
           /\ \A k \in DOMAIN Words(cues) :
                Whole(Words(cues)[k].start) /\ Whole(Words(cues)[k].end)
<1>1. DOMAIN cues = 1..Len(cues)
  OBVIOUS
<1> QED BY <1>1, Zenon DEF ServerAccepts, CuesInOrder, InPlace, Decodes

(* Splitting leaves a valid transcript valid. *)
LEMMA SplitAccepted ==
  ASSUME NEW cues \in Seq(Cue), NEW i \in 1..Len(cues), NEW k \in 2..Len(cues[i].words),
         NEW left \in Cue, NEW right \in Cue, IsSplit(cues[i], k, left, right),
         ServerAccepts(cues)
  PROVE  ServerAccepts(SplitInto(cues, i, left, right))
<1> DEFINE new == SplitInto(cues, i, left, right)
           c == cues[i]
           n == Len(cues)
<1>0. n \in Nat /\ i \in Nat /\ i >= 1 /\ i <= n /\ n + 1 \in Nat
  OBVIOUS
<1>1. /\ new \in Seq(Cue) /\ Len(new) = n + 1
      /\ \A j \in 1..i - 1 : new[j] = cues[j]
      /\ new[i] = left /\ new[i + 1] = right
      /\ \A j \in 1..n + 1 : j > i + 1 => new[j] = cues[j - 1]
  <2>1. new \in Seq(Cue) /\ IsSplitList(new, cues, i, left, right)
    BY SplitAt
  <2> HIDE DEF new
  <2> QED BY <2>1 DEF IsSplitList
<1>2. Words(new) = Words(cues) /\ left.words # <<>> /\ right.words # <<>>
  BY SplitKeepsWords
<1>3. /\ \A j \in 1..n :
           /\ InPlace(cues, j)
           /\ WordsInOrder(cues[j])
           /\ Whole(cues[j].start) /\ Whole(cues[j].end)
      /\ \A j \in DOMAIN Words(cues) :
           Whole(Words(cues)[j].start) /\ Whole(Words(cues)[j].end)
      /\ Decodes(cues)
  BY Accepting DEF ServerAccepts
<1>4. c \in Cue /\ WordsInOrder(c)
  BY <1>3, SameCue
<1>5. /\ WordsInOrder(left) /\ WordsInOrder(right)
      /\ left.start < left.end /\ left.end <= right.start /\ right.start < right.end
  <2>1. k \in 2..Len(c.words) /\ IsSplit(c, k, left, right)
    OBVIOUS
  <2> HIDE DEF c
  <2> QED BY <1>4, <2>1, SplitCues
<1>6. left.start = c.start /\ right.end = c.end
  BY DEF IsSplit
<1>7. Whole(left.end) /\ Whole(right.start)
  <2>1. k - 1 \in 1..Len(c.words) /\ k \in 1..Len(c.words)
    OBVIOUS
  <2>2. left.end = c.words[k - 1].end /\ right.start = c.words[k].start
    BY DEF IsSplit
  <2>3. \A m \in 1..Len(c.words) : Whole(c.words[m].start) /\ Whole(c.words[m].end)
    BY <1>3, DecodedWords
  <2> HIDE DEF c
  <2> QED BY <2>1, <2>2, <2>3
<1>8. /\ \A j \in 1..n : cues[j].start \in Int /\ cues[j].end \in Int
      /\ left.start \in Int /\ left.end \in Int /\ right.start \in Int /\ right.end \in Int
      /\ Duration \in Int
  <2>1. \A j \in 1..n : cues[j] \in Cue
    OBVIOUS
  <2>2. \A j \in 1..n : cues[j].start \in Int /\ cues[j].end \in Int
    BY <2>1 DEF Cue
  <2>3. left.start \in Int /\ left.end \in Int /\ right.start \in Int /\ right.end \in Int
    BY DEF Cue
  <2>4. Duration \in Int
    BY NumbersAssumption
  <2> QED BY <2>2, <2>3, <2>4
<1> HIDE DEF new, n, c
<1>9. ASSUME NEW j \in 1..n + 1
      PROVE  /\ InPlace(new, j)
             /\ WordsInOrder(new[j])
             /\ Whole(new[j].start) /\ Whole(new[j].end)
  <2>0. j \in Nat /\ j >= 1 /\ j <= n + 1
    BY <1>0
  <2>1. CASE j < i
    <3>1. j \in 1..i - 1 /\ j \in 1..n /\ (j # 1 => j - 1 \in 1..i - 1)
      BY <1>0, <2>0, <2>1
    <3>2. new[j] = cues[j] /\ EndBefore(new, j, 0) = EndBefore(cues, j, 0)
      BY <1>1, <3>1 DEF EndBefore
    <3> QED BY <1>3, <3>1, <3>2 DEF InPlace
  <2>2. CASE j = i
    <3>1. i \in 1..n /\ (j # 1 => j - 1 \in 1..i - 1)
      BY <1>0, <2>0, <2>2
    <3>2. new[j] = left /\ EndBefore(new, j, 0) = EndBefore(cues, i, 0)
      BY <1>1, <2>2, <3>1 DEF EndBefore
    <3>3. c.start >= EndBefore(cues, i, 0) /\ c.end <= Duration
      BY <1>3, <3>1 DEF InPlace, c
    <3>4. left.end <= Duration /\ Whole(left.start)
      <4>1. c.end \in Int /\ Whole(c.start)
        BY <1>3, <1>8, <3>1 DEF c
      <4> QED BY <1>5, <1>6, <1>8, <3>3, <4>1
    <3> QED BY <1>2, <1>5, <1>6, <1>7, <3>2, <3>3, <3>4 DEF InPlace
  <2>3. CASE j = i + 1
    <3>1. j # 1 /\ j - 1 = i /\ i \in 1..n
      BY <1>0, <2>0, <2>3
    <3>2. new[j] = right /\ EndBefore(new, j, 0) = left.end
      BY <1>1, <2>3, <3>1 DEF EndBefore
    <3>3. right.end <= Duration /\ Whole(right.end)
      BY <1>3, <1>6, <3>1 DEF InPlace, c
    <3>4. right.start >= left.end
      BY <1>5, <1>8
    <3> QED BY <1>2, <1>5, <1>7, <3>2, <3>3, <3>4 DEF InPlace
  <2>4. CASE j > i + 1
    <3> DEFINE m == j - 1
    <3>1. m \in 1..n /\ m # 1 /\ m > i /\ m >= i + 1 /\ m \in 1..n + 1 /\ j # 1 /\ m \in Nat
          /\ (j - 1) - 1 = m - 1
      BY <1>0, <2>0, <2>4
    <3>2. new[j] = cues[m]
      BY <1>1, <2>4
    <3>3. new[m].end = cues[m - 1].end
      <4>1. CASE m = i + 1
        <5>1. m - 1 = i
          BY <1>0, <4>1
        <5> QED BY <1>1, <1>6, <4>1, <5>1 DEF c
      <4>2. CASE m # i + 1
        <5>1. m > i + 1
          BY <1>0, <3>1, <4>2
        <5> QED BY <1>1, <3>1, <5>1
      <4> QED BY <4>1, <4>2
    <3>4. EndBefore(new, j, 0) = EndBefore(cues, m, 0)
      BY <3>1, <3>3 DEF EndBefore
    <3> HIDE DEF m
    <3> QED BY <1>3, <3>1, <3>2, <3>4 DEF InPlace
  <2> QED BY <1>0, <2>0, <2>1, <2>2, <2>3, <2>4
<1>10. new # <<>>
  BY <1>0, <1>1
<1> QED BY <1>1, <1>2, <1>3, <1>9, <1>10, Accepting DEF new

(* cue is made of two that follow each other. *)
IsMerge(left, right, cue) ==
  /\ cue.start = left.start
  /\ cue.end = right.end
  /\ cue.words = left.words \o right.words

(* Two valid cues, one after the other, are a valid cue. *)
LEMMA MergeCues ==
  ASSUME NEW cue \in Cue, NEW left \in Cue, NEW right \in Cue, IsMerge(left, right, cue),
         WordsInOrder(left), WordsInOrder(right),
         left.words # <<>>, right.words # <<>>, left.start < left.end,
         left.end <= right.start, right.start < right.end
  PROVE  WordsInOrder(cue) /\ cue.words # <<>> /\ cue.start < cue.end
<1> DEFINE w == cue.words
           a == left.words
           b == right.words
<1>1. /\ left.start \in Int /\ left.end \in Int /\ right.start \in Int /\ right.end \in Int
      /\ a \in Seq(Word) /\ b \in Seq(Word)
  BY DEF Cue
<1>2. \A j \in 1..Len(a) :
        /\ a[j].start \in Int /\ a[j].end \in Int /\ a[j].text = "text"
        /\ left.start <= a[j].start /\ a[j].start < a[j].end /\ a[j].end <= left.end
  BY WordsWithin
<1>3. \A i, j \in 1..Len(a) : i < j => a[i].end <= a[j].start
  BY WordsWithin
<1>4. \A j \in 1..Len(b) :
        /\ b[j].start \in Int /\ b[j].end \in Int /\ b[j].text = "text"
        /\ right.start <= b[j].start /\ b[j].start < b[j].end /\ b[j].end <= right.end
  BY WordsWithin
<1>5. \A i, j \in 1..Len(b) : i < j => b[i].end <= b[j].start
  BY WordsWithin
<1>6. cue.start = left.start /\ cue.end = right.end /\ w = a \o b
  BY DEF IsMerge
<1> HIDE DEF a, b, w
<1>7. Len(a) \in Nat /\ Len(b) \in Nat /\ Len(a) >= 1 /\ Len(b) >= 1
  <2>1. a # <<>> /\ b # <<>>
    BY DEF a, b
  <2> QED BY <1>1, <2>1
<1>8. /\ w \in Seq(Word) /\ DOMAIN w = 1..Len(a) + Len(b) /\ Len(w) = Len(a) + Len(b)
      /\ \A j \in 1..Len(a) : w[j] = a[j]
      /\ \A j \in 1..Len(b) : w[Len(a) + j] = b[j]
  <2>1. w \in Seq(Word) /\ Len(w) = Len(a) + Len(b)
    BY <1>1, <1>6
  <2>2. \A j \in 1..Len(a) : w[j] = a[j]
    BY <1>1, <1>6
  <2>3. \A j \in 1..Len(b) : w[Len(a) + j] = b[j]
    BY <1>1, <1>6
  <2>4. DOMAIN w = 1..Len(a) + Len(b)
    BY <2>1
  <2> QED BY <2>1, <2>2, <2>3, <2>4
<1>9. ASSUME NEW j \in DOMAIN w
      PROVE  /\ w[j].text = "text" /\ w[j].start >= EndBefore(w, j, cue.start)
             /\ w[j].start < w[j].end /\ w[j].end <= cue.end
  <2>0. j \in Nat /\ j >= 1 /\ j <= Len(a) + Len(b)
    BY <1>7, <1>8
  <2>1. CASE j <= Len(a)
    <3>1. j \in 1..Len(a) /\ w[j] = a[j] /\ (j # 1 => j - 1 \in 1..Len(a) /\ j - 1 < j)
      BY <1>7, <1>8, <2>0, <2>1
    <3>2. w[j].start >= EndBefore(w, j, cue.start)
      <4>1. CASE j = 1
        BY <1>1, <1>2, <1>6, <3>1, <4>1 DEF EndBefore
      <4>2. CASE j # 1
        <5>1. a[j - 1].end <= a[j].start /\ a[j - 1].end \in Int /\ a[j].start \in Int
              /\ w[j - 1] = a[j - 1]
          BY <1>2, <1>3, <1>8, <3>1, <4>2
        <5> QED BY <3>1, <4>2, <5>1 DEF EndBefore
      <4> QED BY <4>1, <4>2
    <3>3. w[j].end <= cue.end
      <4>1. a[j].end <= left.end /\ a[j].end \in Int
        BY <1>2, <3>1
      <4> QED BY <1>1, <1>6, <3>1, <4>1
    <3> QED BY <1>2, <3>1, <3>2, <3>3
  <2>2. CASE j > Len(a)
    <3> DEFINE m == j - Len(a)
    <3>1. m \in 1..Len(b) /\ Len(a) + m = j /\ j # 1
          /\ (m # 1 => m - 1 \in 1..Len(b) /\ m - 1 < m /\ Len(a) + (m - 1) = j - 1)
          /\ (m = 1 => j - 1 = Len(a) /\ Len(a) \in 1..Len(a))
      BY <1>7, <2>0, <2>2
    <3> HIDE DEF m
    <3>2. w[j] = b[m]
      BY <1>8, <3>1
    <3>3. w[j].start >= w[j - 1].end
      <4>1. CASE m = 1
        <5>1. w[j - 1] = a[Len(a)] /\ a[Len(a)].end <= left.end /\ a[Len(a)].end \in Int
          BY <1>2, <1>8, <3>1, <4>1
        <5>2. right.start <= b[m].start /\ b[m].start \in Int
          BY <1>4, <3>1
        <5> QED BY <1>1, <3>2, <5>1, <5>2
      <4>2. CASE m # 1
        <5>1. w[j - 1] = b[m - 1] /\ b[m - 1].end <= b[m].start
              /\ b[m - 1].end \in Int /\ b[m].start \in Int
          BY <1>4, <1>5, <1>8, <3>1, <4>2
        <5> QED BY <3>2, <5>1
      <4> QED BY <4>1, <4>2
    <3>4. w[j].start >= EndBefore(w, j, cue.start)
      BY <3>1, <3>3 DEF EndBefore
    <3> QED BY <1>4, <1>6, <3>1, <3>2, <3>4
  <2> QED BY <1>7, <2>0, <2>1, <2>2
<1>10. WordsInOrder(cue)
  BY <1>9, Zenon DEF WordsInOrder, w
<1>11. w # <<>>
  BY <1>7, <1>8
<1>12. cue.start < cue.end
  BY <1>1, <1>6
<1> QED BY <1>10, <1>11, <1>12 DEF w

(* Merging keeps the words. *)
LEMMA MergeKeepsWords ==
  ASSUME NEW cues \in Seq(Cue), NEW i \in 2..Len(cues), NEW cue \in Cue,
         IsMerge(cues[i - 1], cues[i], cue)
  PROVE  LET new == MergedInto(cues, i, cue)
         IN /\ new \in Seq(Cue)
            /\ Len(new) = Len(cues) - 1
            /\ Words(new) = Words(cues)
<1> DEFINE new == MergedInto(cues, i, cue)
           p == Before(cues, i - 1)
           q == Behind(cues, i)
           left == cues[i - 1]
           right == cues[i]
<1>1. /\ i - 1 \in 1..Len(cues) /\ i \in 1..Len(cues)
      /\ left \in Cue /\ right \in Cue
  OBVIOUS
<1>2. p \in Seq(Cue) /\ q \in Seq(Cue)
  BY <1>1, BeforeBehind
<1>3. new = (p \o <<cue>>) \o q /\ cues = ((p \o <<left>>) \o <<right>>) \o q
  BY MergeIsConcat DEF MergedInto
<1>4. cue.words = left.words \o right.words
  BY DEF IsMerge
<1>5. new \in Seq(Cue) /\ Len(new) = Len(cues) - 1
  BY MergeAt DEF IsMergedList
<1> HIDE DEF p, q, left, right, new
<1>6. Words((p \o <<cue>>) \o q) = (Words(p) \o cue.words) \o Words(q)
  BY <1>2, WordsOfOneBetween
<1>7. Words(((p \o <<left>>) \o <<right>>) \o q)
        = (Words(p) \o (left.words \o right.words)) \o Words(q)
  BY <1>1, <1>2, WordsOfTwoBetween, ZenonT(60)
<1>8. Words(new) = Words(cues)
  BY <1>3, <1>4, <1>6, <1>7
<1> QED BY <1>5, <1>8 DEF new

(* Merging leaves a valid transcript valid. *)
LEMMA MergeAccepted ==
  ASSUME NEW cues \in Seq(Cue), NEW i \in 2..Len(cues), NEW cue \in Cue,
         IsMerge(cues[i - 1], cues[i], cue), ServerAccepts(cues)
  PROVE  ServerAccepts(MergedInto(cues, i, cue))
<1> DEFINE new == MergedInto(cues, i, cue)
           left == cues[i - 1]
           right == cues[i]
           n == Len(cues)
<1>0. n \in Nat /\ i \in Nat /\ i >= 2 /\ i <= n /\ n - 1 \in Nat /\ i - 1 \in 1..n /\ i \in 1..n
  OBVIOUS
<1>1. /\ new \in Seq(Cue) /\ Len(new) = n - 1
      /\ \A j \in 1..i - 2 : new[j] = cues[j]
      /\ new[i - 1] = cue
      /\ \A j \in 1..n - 1 : j > i - 1 => new[j] = cues[j + 1]
  <2>1. new \in Seq(Cue) /\ IsMergedList(new, cues, i, cue)
    BY MergeAt
  <2> HIDE DEF new
  <2> QED BY <2>1 DEF IsMergedList
<1>2. Words(new) = Words(cues)
  BY MergeKeepsWords
<1>3. /\ \A j \in 1..n :
           /\ InPlace(cues, j)
           /\ WordsInOrder(cues[j])
           /\ Whole(cues[j].start) /\ Whole(cues[j].end)
      /\ \A j \in DOMAIN Words(cues) :
           Whole(Words(cues)[j].start) /\ Whole(Words(cues)[j].end)
  BY Accepting
<1>4. /\ left \in Cue /\ right \in Cue /\ WordsInOrder(left) /\ WordsInOrder(right)
      /\ left.words # <<>> /\ right.words # <<>>
      /\ left.start >= EndBefore(cues, i - 1, 0) /\ right.start >= EndBefore(cues, i, 0)
      /\ left.start < left.end /\ right.start < right.end /\ right.end <= Duration
  BY <1>0, <1>3 DEF InPlace
<1>5. \A j \in 1..n : cues[j].start \in Int /\ cues[j].end \in Int
  <2>1. \A j \in 1..n : cues[j] \in Cue
    OBVIOUS
  <2> QED BY <2>1 DEF Cue
<1>6. left.end <= right.start
  <2>1. EndBefore(cues, i, 0) = left.end
    BY <1>0 DEF EndBefore
  <2> QED BY <1>0, <1>4, <1>5, <2>1
<1>7. cue.start = left.start /\ cue.end = right.end /\ IsMerge(left, right, cue)
  BY DEF IsMerge
<1> HIDE DEF left, right
<1>8. WordsInOrder(cue) /\ cue.words # <<>> /\ cue.start < cue.end
  BY <1>4, <1>6, <1>7, MergeCues
<1> HIDE DEF new, n
<1>9. ASSUME NEW j \in 1..n - 1
      PROVE  /\ InPlace(new, j)
             /\ WordsInOrder(new[j])
             /\ Whole(new[j].start) /\ Whole(new[j].end)
  <2>0. j \in Nat /\ j >= 1 /\ j <= n - 1
    BY <1>0
  <2>1. CASE j < i - 1
    <3>1. j \in 1..i - 2 /\ j \in 1..n /\ (j # 1 => j - 1 \in 1..i - 2)
      BY <1>0, <2>0, <2>1
    <3>2. new[j] = cues[j] /\ EndBefore(new, j, 0) = EndBefore(cues, j, 0)
      BY <1>1, <3>1 DEF EndBefore
    <3> QED BY <1>3, <3>1, <3>2 DEF InPlace
  <2>2. CASE j = i - 1
    <3>1. (j # 1 => j - 1 \in 1..i - 2)
      BY <1>0, <2>0, <2>2
    <3>2. new[j] = cue /\ EndBefore(new, j, 0) = EndBefore(cues, i - 1, 0)
      BY <1>1, <2>2, <3>1 DEF EndBefore
    <3>3. Whole(cue.start) /\ Whole(cue.end)
      BY <1>0, <1>3, <1>7 DEF left, right
    <3> QED BY <1>4, <1>7, <1>8, <3>2, <3>3 DEF InPlace
  <2>3. CASE j > i - 1
    <3> DEFINE m == j + 1
    <3>1. m \in 1..n /\ m # 1 /\ m > i /\ j # 1 /\ m - 1 = j /\ j - 1 \in 1..n - 1
      BY <1>0, <2>0, <2>3
    <3>2. new[j] = cues[m]
      BY <1>1, <2>3
    <3>3. new[j - 1].end = cues[j].end
      <4>1. CASE j - 1 = i - 1
        <5>1. j = i
          BY <1>0, <2>0, <4>1
        <5> QED BY <1>1, <1>7, <4>1, <5>1 DEF right
      <4>2. CASE j - 1 # i - 1
        <5>1. j - 1 > i - 1 /\ (j - 1) + 1 = j
          BY <1>0, <2>0, <2>3, <4>2
        <5> QED BY <1>1, <3>1, <5>1
      <4> QED BY <4>1, <4>2
    <3>4. EndBefore(new, j, 0) = EndBefore(cues, m, 0)
      BY <3>1, <3>3 DEF EndBefore
    <3> HIDE DEF m
    <3> QED BY <1>3, <3>1, <3>2, <3>4 DEF InPlace
  <2> QED BY <1>0, <2>0, <2>1, <2>2, <2>3
<1>10. new # <<>>
  BY <1>0, <1>1
<1> QED BY <1>1, <1>2, <1>3, <1>9, <1>10, Accepting DEF new

-----------------------------------------------------------------------------
(* What splitting and merging do to draft. *)
Split ==
  \E i \in 1..Len(draft) : \E k \in 2..Len(draft[i].words) : \E left \in Cue, right \in Cue :
    /\ IsSplit(draft[i], k, left, right)
    /\ draft' = SplitInto(draft, i, left, right)

Merge ==
  \E i \in 2..Len(draft) : \E cue \in Cue :
    /\ IsMerge(draft[i - 1], draft[i], cue)
    /\ draft' = MergedInto(draft, i, cue)

(* Two fields of a cue are set. *)
LEMMA CueFields ==
  ASSUME NEW cue \in Cue, NEW time \in Int, NEW words \in Seq(Word)
  PROVE  /\ [cue EXCEPT !.words = words, !.end = time]
              = [start |-> cue.start, end |-> time, words |-> words]
         /\ [cue EXCEPT !.end = time, !.words = words]
              = [start |-> cue.start, end |-> time, words |-> words]
         /\ [cue EXCEPT !.words = words, !.start = time]
              = [start |-> time, end |-> cue.end, words |-> words]
<1> DEFINE x == [cue EXCEPT !.words = words]
           y == [cue EXCEPT !.end = time]
<1>1. x = [start |-> cue.start, end |-> cue.end, words |-> words]
  BY DEF Cue
<1>2. y = [start |-> cue.start, end |-> time, words |-> cue.words]
  <2>1. cue = [start |-> cue.start, end |-> cue.end, words |-> cue.words]
    BY DEF Cue
  <2> QED BY <2>1
<1>3. /\ [cue EXCEPT !.words = words, !.end = time] = [x EXCEPT !.end = time]
      /\ [cue EXCEPT !.words = words, !.start = time] = [x EXCEPT !.start = time]
      /\ [cue EXCEPT !.end = time, !.words = words] = [y EXCEPT !.words = words]
  OBVIOUS
<1> HIDE DEF x, y
<1>4. [x EXCEPT !.end = time] = [start |-> x.start, end |-> time, words |-> x.words]
  BY <1>1
<1>5. [x EXCEPT !.start = time] = [start |-> time, end |-> x.end, words |-> x.words]
  BY <1>1
<1>6. [y EXCEPT !.words = words] = [start |-> y.start, end |-> y.end, words |-> words]
  BY <1>2
<1>7. /\ x.start = cue.start /\ x.end = cue.end /\ x.words = words
      /\ y.start = cue.start /\ y.end = time
  BY <1>1, <1>2
<1> QED BY <1>3, <1>4, <1>5, <1>6, <1>7

(* SplitCue does. *)
LEMMA SplitCueSplits ==
  ASSUME draft \in Seq(Cue), NEW i \in DOMAIN draft, NEW k \in DOMAIN draft[i].words,
         SplitCue(i, k)
  PROVE  Split
<1> DEFINE cue == draft[i]
           w == cue.words
           left == [cue EXCEPT !.words = SubSeq(@, 1, k - 1), !.end = w[k - 1].end]
           right == [cue EXCEPT !.words = SubSeq(@, k, Len(@)), !.start = w[k].start]
<1>1. i \in 1..Len(draft) /\ cue \in Cue
  OBVIOUS
<1>2. w \in Seq(Word) /\ cue.start \in Int /\ cue.end \in Int
  BY <1>1 DEF Cue
<1>3. k > 1 /\ draft' = SplitInto(draft, i, left, right)
  BY DEF SplitCue, Command, SplitInto
<1>4. k \in 2..Len(w) /\ k - 1 \in 1..Len(w) /\ k \in 1..Len(w)
  <2>1. k \in DOMAIN w
    OBVIOUS
  <2> HIDE DEF w
  <2> QED BY <1>2, <1>3, <2>1
<1>5. w[k - 1].end \in Int /\ w[k].start \in Int
  <2> HIDE DEF w
  <2>1. w[k - 1] \in Word /\ w[k] \in Word
    BY <1>2, <1>4
  <2> QED BY <2>1 DEF Word
<1>6. SubSeq(w, 1, k - 1) \in Seq(Word) /\ SubSeq(w, k, Len(w)) \in Seq(Word)
  <2> HIDE DEF w
  <2> QED BY <1>2, <1>4, Cut
<1>7. /\ left = [start |-> cue.start, end |-> w[k - 1].end, words |-> SubSeq(w, 1, k - 1)]
      /\ right = [start |-> w[k].start, end |-> cue.end, words |-> SubSeq(w, k, Len(w))]
  <2> HIDE DEF cue, w
  <2>1. cue \in Cue /\ cue.words = w
    BY <1>1 DEF w
  <2>2. /\ left = [cue EXCEPT !.words = SubSeq(w, 1, k - 1), !.end = w[k - 1].end]
        /\ right = [cue EXCEPT !.words = SubSeq(w, k, Len(w)), !.start = w[k].start]
    BY <2>1
  <2> HIDE DEF left, right
  <2> DEFINE t == w[k - 1].end
             v == w[k].start
             a == SubSeq(w, 1, k - 1)
             b == SubSeq(w, k, Len(w))
  <2>3. t \in Int /\ v \in Int /\ a \in Seq(Word) /\ b \in Seq(Word)
    BY <1>5, <1>6
  <2>4. /\ left = [cue EXCEPT !.words = a, !.end = t]
        /\ right = [cue EXCEPT !.words = b, !.start = v]
    BY <2>2
  <2> HIDE DEF t, v, a, b
  <2>5. left = [start |-> cue.start, end |-> t, words |-> a]
    BY <2>1, <2>3, <2>4, CueFields
  <2>6. right = [start |-> v, end |-> cue.end, words |-> b]
    BY <2>1, <2>3, <2>4, CueFields, ZenonT(60)
  <2> QED BY <2>5, <2>6 DEF t, v, a, b
<1> HIDE DEF left, right
<1>8. left \in Cue /\ right \in Cue
  BY <1>2, <1>5, <1>6, <1>7 DEF Cue
<1>9. IsSplit(cue, k, left, right)
  BY <1>7 DEF IsSplit
<1> QED BY <1>1, <1>3, <1>4, <1>8, <1>9 DEF Split

(* MergeCueWithPrevious does. *)
LEMMA MergeCueMerges ==
  ASSUME draft \in Seq(Cue), NEW i \in DOMAIN draft, MergeCueWithPrevious(i)
  PROVE  Merge
<1> DEFINE left == draft[i - 1]
           right == draft[i]
           cue == Merged(left, right)
<1>1. i > 1 /\ draft' = MergedInto(draft, i, cue)
  BY DEF MergeCueWithPrevious, Command, MergedInto
<1>2. i \in 2..Len(draft) /\ left \in Cue /\ right \in Cue
  BY <1>1
<1>3. cue = [start |-> left.start, end |-> right.end, words |-> left.words \o right.words]
  <2>1. cue = [left EXCEPT !.end = right.end, !.words = left.words \o right.words]
    BY DEF Merged
  <2> HIDE DEF left, right, cue
  <2>2. left.words \o right.words \in Seq(Word) /\ right.end \in Int
    <3>1. left.words \in Seq(Word) /\ right.words \in Seq(Word) /\ right.end \in Int
      BY <1>2 DEF Cue
    <3> QED BY <3>1
  <2> QED BY <1>2, <2>1, <2>2, CueFields
<1>4. cue \in Cue
  <2> HIDE DEF left, right, cue
  <2>1. left.words \in Seq(Word) /\ right.words \in Seq(Word)
        /\ left.start \in Int /\ right.end \in Int
    BY <1>2 DEF Cue
  <2>2. left.words \o right.words \in Seq(Word)
    BY <2>1
  <2> QED BY <1>3, <2>1, <2>2 DEF Cue
<1> HIDE DEF cue
<1>5. IsMerge(left, right, cue)
  BY <1>3 DEF IsMerge
<1> QED BY <1>1, <1>2, <1>4, <1>5 DEF Merge

(* A command is one of the four. *)
LEMMA Steps ==
  ASSUME draft \in Seq(Cue), TimelineNext
  PROVE  OneCue \/ OneWord \/ Split \/ Merge
<1>1. PICK i \in DOMAIN draft :
        \/ SetCueBounds(i)
        \/ MergeCueWithPrevious(i)
        \/ \E k \in DOMAIN draft[i].words :
             UpdateWord(i, k) \/ SplitCue(i, k) \/ NudgeWord(i, k)
  BY DEF TimelineNext
<1>2. CASE SetCueBounds(i)
  BY <1>2, BoundsAreOneCue
<1>3. CASE MergeCueWithPrevious(i)
  BY <1>3, MergeCueMerges
<1>4. ASSUME NEW k \in DOMAIN draft[i].words,
             UpdateWord(i, k) \/ SplitCue(i, k) \/ NudgeWord(i, k)
      PROVE  OneCue \/ OneWord \/ Split \/ Merge
  BY <1>4, UpdatesAreOneWord, SplitCueSplits, NudgesAreOneWord
<1> QED BY <1>1, <1>2, <1>3, <1>4


-----------------------------------------------------------------------------
(***************************************************************************)
(* The inductive invariant. Only words that are kept have a position, and  *)
(* their types are needed wherever times are compared.                     *)
(***************************************************************************)
DraftInv == draft \in Seq(Cue) /\ WordsAreKept

(* Setting the bounds of a cue keeps the words. *)
LEMMA OneCueEffect ==
  ASSUME DraftInv, OneCue
  PROVE  /\ DraftInv'
         /\ Len(draft') = Len(draft)
         /\ Words(draft') = Words(draft)
<1>1. PICK i \in 1..Len(draft), cue \in Cue :
        draft' = ReplaceAt(draft, i, cue) /\ cue.words = draft[i].words
  BY DEF OneCue
<1>2. draft \in Seq(Cue) /\ \A j \in 1..Len(draft) : draft[j].words # <<>>
  BY DEF DraftInv, WordsAreKept
<1>3. draft' \in Seq(Cue) /\ Len(draft') = Len(draft) /\ Words(draft') = Words(draft)
  BY <1>1, <1>2, CueChanged
<1>4. \A j \in 1..Len(draft) : draft'[j] = IF j = i THEN cue ELSE draft[j]
  BY <1>1, <1>2 DEF ReplaceAt
<1>5. \A j \in DOMAIN draft' : draft'[j].words # <<>>
  <2>1. DOMAIN draft' = 1..Len(draft)
    BY <1>3
  <2> QED BY <1>1, <1>2, <1>4, <2>1
<1> QED BY <1>3, <1>5 DEF DraftInv, WordsAreKept

(* Changing a word leaves the others alone, and its id. *)
LEMMA OneWordEffect ==
  ASSUME DraftInv, OneWord
  PROVE  /\ DraftInv'
         /\ Len(draft') = Len(draft)
         /\ \E p \in 1..WordCount : \E word \in Word :
              /\ Words(draft)[p] \in Word
              /\ \A k \in 1..WordCount :
                   Words(draft')[k] = IF k = p THEN word ELSE Words(draft)[k]
              /\ \/ word.start = Words(draft)[p].start \/ word.end = Words(draft)[p].end
                 \/ \E delta \in Int : word = Nudged(Words(draft)[p], delta)
<1> DEFINE words == Words(draft)
<1>0. PICK i \in 1..Len(draft) : \E k \in 1..Len(draft[i].words) : \E cue \in Cue, word \in Word :
        /\ draft' = ReplaceAt(draft, i, cue)
        /\ cue.words = ReplaceAt(draft[i].words, k, word)
        /\ word.id = draft[i].words[k].id
        /\ \/ word.start = draft[i].words[k].start \/ word.end = draft[i].words[k].end
           \/ \E delta \in Int : word = Nudged(draft[i].words[k], delta)
  BY Zenon DEF OneWord
<1>1. PICK k \in 1..Len(draft[i].words), cue \in Cue, word \in Word :
        /\ draft' = ReplaceAt(draft, i, cue)
        /\ cue.words = ReplaceAt(draft[i].words, k, word)
        /\ word.id = draft[i].words[k].id
        /\ \/ word.start = draft[i].words[k].start \/ word.end = draft[i].words[k].end
           \/ \E delta \in Int : word = Nudged(draft[i].words[k], delta)
  BY <1>0, Zenon
<1>2. /\ draft \in Seq(Cue) /\ Len(words) = WordCount
      /\ \A j \in 1..WordCount : words[j].id = j
      /\ \A j \in DOMAIN draft : draft[j].words # <<>>
  BY DEF DraftInv, WordsAreKept
<1>3. PICK p \in 1..Len(words) :
        words[p] = draft[i].words[k] /\ Words(draft') = ReplaceAt(words, p, word)
  BY <1>1, <1>2, WordsReplaced
<1>4. words \in Seq(Word)
  BY <1>2, WordsTyped
<1> HIDE DEF words
<1>5. /\ Len(Words(draft')) = WordCount
      /\ \A j \in 1..WordCount : Words(draft')[j] = IF j = p THEN word ELSE words[j]
      /\ words[p] \in Word
  BY <1>2, <1>3, <1>4 DEF ReplaceAt
<1>6. draft' \in Seq(Cue) /\ Len(draft') = Len(draft)
      /\ \A j \in 1..Len(draft) : draft'[j] = IF j = i THEN cue ELSE draft[j]
  BY <1>1, <1>2 DEF ReplaceAt
<1>7. \A j \in DOMAIN draft' : draft'[j].words # <<>>
  <2>1. DOMAIN draft' = 1..Len(draft) /\ DOMAIN draft = 1..Len(draft)
    BY <1>2, <1>6
  <2>2. cue.words # <<>>
    <3> DEFINE w == draft[i].words
    <3>1. w \in Seq(Word) /\ k \in 1..Len(w) /\ cue.words = ReplaceAt(w, k, word)
      BY <1>1, <1>2, SameCue
    <3> HIDE DEF w
    <3>2. Len(cue.words) = Len(w) /\ Len(w) >= 1
      BY <3>1 DEF ReplaceAt
    <3> QED BY <3>2
  <2> QED BY <1>2, <1>6, <2>1, <2>2
<1>8. \A j \in 1..WordCount : Words(draft')[j].id = j
  BY <1>1, <1>2, <1>3, <1>5
<1>9. DraftInv'
  BY <1>5, <1>6, <1>7, <1>8 DEF DraftInv, WordsAreKept
<1>10. /\ p \in 1..WordCount
       /\ \/ word.start = words[p].start \/ word.end = words[p].end
          \/ \E delta \in Int : word = Nudged(words[p], delta)
  <2>1. p \in 1..WordCount
    BY <1>2, <1>3
  <2> QED BY <1>1, <1>3, <2>1, Zenon
<1> QED BY <1>5, <1>6, <1>9, <1>10, Zenon DEF words

(* Splitting keeps the words and a valid draft valid. *)
LEMMA SplitEffect ==
  ASSUME DraftInv, Split
  PROVE  /\ DraftInv'
         /\ Len(draft') # Len(draft)
         /\ Words(draft') = Words(draft)
         /\ ServerAccepts(draft) => ServerAccepts(draft')
<1>0. PICK i \in 1..Len(draft) :
        \E k \in 2..Len(draft[i].words) : \E left \in Cue, right \in Cue :
          /\ IsSplit(draft[i], k, left, right)
          /\ draft' = SplitInto(draft, i, left, right)
  BY Zenon DEF Split
<1>1. PICK k \in 2..Len(draft[i].words), left \in Cue, right \in Cue :
        /\ IsSplit(draft[i], k, left, right)
        /\ draft' = SplitInto(draft, i, left, right)
  BY <1>0, Zenon
<1>2. draft \in Seq(Cue) /\ \A j \in DOMAIN draft : draft[j].words # <<>>
  BY DEF DraftInv, WordsAreKept
<1>3. /\ draft' \in Seq(Cue) /\ Len(draft') = Len(draft) + 1
      /\ Words(draft') = Words(draft)
      /\ left.words # <<>> /\ right.words # <<>>
  BY <1>1, <1>2, SplitKeepsWords
<1>4. ServerAccepts(draft) => ServerAccepts(draft')
  BY <1>1, <1>2, SplitAccepted
<1>5. ASSUME NEW j \in DOMAIN draft'
      PROVE  draft'[j].words # <<>>
  <2>0. /\ Len(draft) \in Nat /\ i \in Nat /\ j \in 1..Len(draft') /\ DOMAIN draft = 1..Len(draft)
        /\ j \in Nat /\ j >= 1 /\ j <= Len(draft) + 1 /\ i <= Len(draft) /\ i >= 1
    BY <1>2, <1>3
  <2>a. IsSplitList(draft', draft, i, left, right)
    BY <1>1, <1>2, SplitAt
  <2>1. /\ \A m \in 1..i - 1 : draft'[m] = draft[m]
        /\ draft'[i] = left /\ draft'[i + 1] = right
    BY <2>a DEF IsSplitList
  <2>2. \A m \in 1..Len(draft') : m > i + 1 => draft'[m] = draft[m - 1]
    BY <2>a DEF IsSplitList
  <2>3. CASE j < i
    BY <1>2, <2>0, <2>1, <2>3
  <2>4. CASE j = i \/ j = i + 1
    BY <1>3, <2>1, <2>4
  <2>5. CASE j > i + 1
    <3>1. j - 1 \in DOMAIN draft /\ draft'[j] = draft[j - 1]
      BY <2>0, <2>2, <2>5
    <3> QED BY <1>2, <3>1
  <2> QED BY <2>0, <2>3, <2>4, <2>5
<1>6. Len(draft') # Len(draft)
  BY <1>2, <1>3
<1> QED BY <1>3, <1>4, <1>5, <1>6 DEF DraftInv, WordsAreKept

(* Merging keeps the words and a valid draft valid. *)
LEMMA MergeEffect ==
  ASSUME DraftInv, Merge
  PROVE  /\ DraftInv'
         /\ Len(draft') # Len(draft)
         /\ Words(draft') = Words(draft)
         /\ ServerAccepts(draft) => ServerAccepts(draft')
<1>1. PICK i \in 2..Len(draft), cue \in Cue :
        /\ IsMerge(draft[i - 1], draft[i], cue)
        /\ draft' = MergedInto(draft, i, cue)
  BY Zenon DEF Merge
<1>2. draft \in Seq(Cue) /\ \A j \in DOMAIN draft : draft[j].words # <<>>
  BY DEF DraftInv, WordsAreKept
<1>3. /\ draft' \in Seq(Cue) /\ Len(draft') = Len(draft) - 1
      /\ Words(draft') = Words(draft)
  BY <1>1, <1>2, MergeKeepsWords
<1>4. ServerAccepts(draft) => ServerAccepts(draft')
  BY <1>1, <1>2, MergeAccepted
<1>5. ASSUME NEW j \in DOMAIN draft'
      PROVE  draft'[j].words # <<>>
  <2>0. /\ Len(draft) \in Nat /\ i \in Nat /\ j \in 1..Len(draft') /\ DOMAIN draft = 1..Len(draft)
        /\ j \in Nat /\ j >= 1 /\ j <= Len(draft) - 1 /\ i <= Len(draft) /\ i >= 2
    BY <1>2, <1>3
  <2>a. IsMergedList(draft', draft, i, cue)
    BY <1>1, <1>2, MergeAt
  <2>1. /\ \A m \in 1..i - 2 : draft'[m] = draft[m]
        /\ draft'[i - 1] = cue
    BY <2>a DEF IsMergedList
  <2>2. \A m \in 1..Len(draft') : m > i - 1 => draft'[m] = draft[m + 1]
    BY <2>a DEF IsMergedList
  <2>3. CASE j < i - 1
    BY <1>2, <2>0, <2>1, <2>3
  <2>4. CASE j = i - 1
    <3> DEFINE a == draft[i - 1].words
               b == draft[i].words
    <3>1. i - 1 \in 1..Len(draft) /\ i \in 1..Len(draft)
      BY <2>0
    <3>2. a \in Seq(Word) /\ b \in Seq(Word) /\ a # <<>>
      BY <1>2, <2>0, <3>1, SameCue
    <3>3. cue.words = a \o b
      BY <1>1 DEF IsMerge
    <3> HIDE DEF a, b
    <3>4. Len(cue.words) # 0
      BY <3>2, <3>3
    <3>5. cue.words # <<>>
      BY <3>4
    <3> QED BY <2>1, <2>4, <3>5
  <2>5. CASE j > i - 1
    <3>1. j + 1 \in DOMAIN draft /\ draft'[j] = draft[j + 1]
      BY <2>0, <2>2, <2>5
    <3> QED BY <1>2, <3>1
  <2> QED BY <2>0, <2>3, <2>4, <2>5
<1>6. Len(draft') # Len(draft)
  BY <1>2, <1>3
<1> QED BY <1>3, <1>4, <1>5, <1>6 DEF DraftInv, WordsAreKept

(* DraftInv is inductive. *)
LEMMA DraftInductive ==
  /\ TimelineInit => DraftInv
  /\ DraftInv /\ [TimelineNext]_timelineVars => DraftInv'
<1>1. ASSUME TimelineInit
      PROVE  DraftInv
  <2>1. draft \in Transcripts
    BY <1>1 DEF TimelineInit
  <2>2. /\ draft \in Seq(Cue) /\ ServerAccepts(draft) /\ Len(Words(draft)) = WordCount
        /\ \A k \in 1..WordCount : Words(draft)[k].id = k
    BY <2>1, TranscriptsAssumption
  <2>3. \A i \in DOMAIN draft : draft[i].words # <<>>
    BY <2>2 DEF ServerAccepts, CuesInOrder
  <2> QED BY <2>2, <2>3 DEF DraftInv, WordsAreKept
<1>2. ASSUME DraftInv, TimelineNext
      PROVE  DraftInv'
  <2>1. OneCue \/ OneWord \/ Split \/ Merge
    BY <1>2, Steps DEF DraftInv
  <2> QED BY <1>2, <2>1, OneCueEffect, OneWordEffect, SplitEffect, MergeEffect
<1>3. ASSUME DraftInv, UNCHANGED timelineVars
      PROVE  DraftInv'
  <2>1. draft' = draft
    BY <1>3 DEF timelineVars
  <2> QED BY <1>3, <2>1 DEF DraftInv, WordsAreKept
<1> QED BY <1>1, <1>2, <1>3

(* DraftInv holds in every state of the draft. *)
LEMMA DraftInvariant == TimelineSpec => []DraftInv
<1> QED BY DraftInductive, PTL DEF TimelineSpec

(***************************************************************************)
(* No command of the editor loses, repeats or reorders a word, or leaves   *)
(* an empty cue, whatever transcript is opened and however long it is      *)
(* edited.                                                                 *)
(***************************************************************************)
THEOREM WordsKept == TimelineSpec => []WordsAreKept
<1>1. DraftInv => WordsAreKept
  BY DEF DraftInv
<1> QED BY <1>1, DraftInvariant, PTL

(***************************************************************************)
(* The issues of the editor are those of the server: a draft without       *)
(* issues whose times are whole milliseconds is accepted, and no other     *)
(* draft is.                                                               *)
(***************************************************************************)
THEOREM ChecksAgree == TimelineSpec => []ValidatorsAgree
<1>1. DraftInv => ValidatorsAgree
  BY SameChecks DEF DraftInv, ValidatorsAgree
<1> QED BY <1>1, DraftInvariant, PTL

(***************************************************************************)
(* What the server accepts can be played: its words follow each other,     *)
(* those of different cues too.                                            *)
(***************************************************************************)
THEOREM AcceptedPlayable == TimelineSpec => []AcceptedIsPlayable
<1>1. DraftInv => AcceptedIsPlayable
  BY AcceptedPlays DEF DraftInv
<1> QED BY <1>1, DraftInvariant, PTL

(***************************************************************************)
(* Splitting and merging move no word and leave a valid draft valid.       *)
(***************************************************************************)
THEOREM StructureKept == TimelineSpec => StructureIsSafe
<1> DEFINE A == Len(draft') # Len(draft) =>
                  /\ Words(draft') = Words(draft)
                  /\ ServerAccepts(draft) => ServerAccepts(draft')
<1>1. ASSUME DraftInv, TimelineNext
      PROVE  A
  <2>1. OneCue \/ OneWord \/ Split \/ Merge
    BY <1>1, Steps DEF DraftInv
  <2> QED BY <1>1, <2>1, OneCueEffect, OneWordEffect, SplitEffect, MergeEffect
<1>2. DraftInv /\ [TimelineNext]_timelineVars => [A]_timelineVars
  BY <1>1
<1> QED BY <1>2, DraftInvariant, PTL DEF TimelineSpec, StructureIsSafe

(* The delta of a nudge is cut for both ends alike. *)
LEMMA NudgedIsRigid ==
  ASSUME NEW old \in Word, NEW delta \in Int
  PROVE  LET new == Nudged(old, delta)
         IN /\ new.end - new.start = old.end - old.start
            /\ Inside(old) => Inside(new)
<1> DEFINE bounded == Largest(0 - old.start, Least(delta, Duration - old.end))
           new == Nudged(old, delta)
<1>1. old.start \in Int /\ old.end \in Int /\ Duration \in Int
  BY NumbersAssumption DEF Word
<1>2. bounded \in Int
  BY <1>1 DEF Largest, Least
<1>3. new.start = old.start + bounded /\ new.end = old.end + bounded
  <2>1. new = [old EXCEPT !.start = @ + bounded, !.end = @ + bounded]
    BY DEF Nudged
  <2> HIDE DEF bounded, new
  <2> QED BY <2>1 DEF Word
<1>4. Inside(old) => 0 <= old.start + bounded /\ old.end + bounded <= Duration
  BY <1>1 DEF Inside, Largest, Least
<1> HIDE DEF bounded, new
<1>5. new.end - new.start = old.end - old.start
  BY <1>1, <1>2, <1>3
<1>6. Inside(old) => Inside(new)
  BY <1>3, <1>4 DEF Inside
<1> QED BY <1>5, <1>6 DEF new

(***************************************************************************)
(* A command that sets both times of a word keeps its length, and a word   *)
(* inside of the audio inside: a nudge is cut at the ends of the audio.    *)
(***************************************************************************)
THEOREM NudgesAreRigid == TimelineSpec => NudgeIsRigid
<1> DEFINE Rigid(old, new) ==
             old.start # new.start /\ old.end # new.end =>
               /\ new.end - new.start = old.end - old.start
               /\ Inside(old) => Inside(new)
           A == \A k \in 1..WordCount : Rigid(Words(draft)[k], Words(draft')[k])
<1>1. Words(draft') = Words(draft) => A
  OBVIOUS
<1>2. ASSUME DraftInv, OneWord
      PROVE  A
  <2>1. PICK p \in 1..WordCount, word \in Word :
          /\ Words(draft)[p] \in Word
          /\ \A k \in 1..WordCount :
               Words(draft')[k] = IF k = p THEN word ELSE Words(draft)[k]
          /\ \/ word.start = Words(draft)[p].start \/ word.end = Words(draft)[p].end
             \/ \E delta \in Int : word = Nudged(Words(draft)[p], delta)
    BY <1>2, OneWordEffect
  <2>2. Rigid(Words(draft)[p], word)
    BY <2>1, NudgedIsRigid
  <2>3. \A k \in 1..WordCount : Rigid(Words(draft)[k], Words(draft)[k])
    OBVIOUS
  <2> HIDE DEF Rigid
  <2> QED BY <2>1, <2>2, <2>3
<1>3. ASSUME DraftInv, TimelineNext
      PROVE  A
  <2>1. OneCue \/ OneWord \/ Split \/ Merge
    BY <1>3, Steps DEF DraftInv
  <2> HIDE DEF A
  <2> QED BY <1>1, <1>2, <1>3, <2>1, OneCueEffect, SplitEffect, MergeEffect
<1>4. DraftInv /\ [TimelineNext]_timelineVars => [A]_timelineVars
  <2> HIDE DEF A
  <2> QED BY <1>3
<1> QED BY <1>4, DraftInvariant, PTL DEF TimelineSpec, NudgeIsRigid
=============================================================================
