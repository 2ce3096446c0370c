------------------------------ MODULE WebEditor ------------------------------
(***************************************************************************)
(* The transcript of one project in one tab of the web application: what   *)
(* App keeps of it, the draft of TranscriptReview, and the requests in     *)
(* flight between them and the server, whose answers arrive in any order.  *)
(* The server is ProjectStore; other tabs, uploads and workers change it   *)
(* at any time.                                                            *)
(*                                                                         *)
(* The state updates of one handler are one commit of React, but for the   *)
(* draft: it is reset by the passive effect on [transcript].  A root made  *)
(* with createRoot runs the passive effects of a commit caused by an       *)
(* answer in a later task, before or after events of the user; an event    *)
(* that updates state itself has them run before its own commit.  Answers  *)
(* are handled by the closures of the component that sent the request,     *)
(* so that its state is left alone when it has been unmounted meanwhile.   *)
(*                                                                         *)
(* A content is told apart by the revision a draft started from and the    *)
(* number of edits made to it; drafts are valid (Timeline has the check).  *)
(***************************************************************************)
EXTENDS Naturals

CONSTANTS AudioAssets, Backgrounds, Jobs, Keys, MaxRevision, None,
          Calls,    \* slots for requests in flight
          MaxEdits  \* bound: edits of one draft

ASSUME NoneAssumption        == None \notin AudioAssets \cup Backgrounds \cup Jobs
ASSUME MaxRevisionAssumption == MaxRevision \in Nat \ {0}
ASSUME MaxEditsAssumption    == MaxEdits \in Nat \ {0}

VARIABLES project, assets, transcripts, requests,  \* of ProjectStore
          shown,     \* revision of transcripts[projectId], 0 if there is none
          etag,      \* revision of transcriptEtags[projectId], 0 if unset
          renaming,  \* editingProjectId is this project
          review,    \* the state of TranscriptReview while it is mounted
          pending,   \* its effect on [transcript] has still to run
          call,      \* call[c]: a request in flight, or NoCall
          authored   \* history: revisions this tab saved, with their origin

serverVars == <<project, assets, transcripts, requests>>
appVars    == <<shown, etag, renaming>>
vars       == <<serverVars, appVars, review, pending, call, authored>>

Store == INSTANCE ProjectStore

Revisions == 0..MaxRevision

Draft == [base : Revisions, edits : 0..MaxEdits]

Review == [draft : Draft, editing : BOOLEAN, saving : BOOLEAN, conflict : BOOLEAN]

(***************************************************************************)
(* kind "reload" is a load the user asked for after a conflict.  draft is  *)
(* the content of a save, live whether the component that waits for the    *)
(* answer is still mounted (App waits for the loads and refreshes itself), *)
(* answer the revision answered with or 0 for a failure.                   *)
(* History: onScreen is the revision shown when a save was sent, early     *)
(* tells that the effect was pending then.                                 *)
(***************************************************************************)
NoCall == [kind |-> "none", phase |-> "idle"]

Call == [kind : {"load", "reload", "refresh", "save"}, phase : {"sent", "answered"},
         live : BOOLEAN, ifMatch : Revisions, draft : Draft,
         onScreen : Revisions, early : BOOLEAN,
         answer : Revisions, status : {"ok", "conflict", "error"}]

Clean(revision) == [base |-> revision, edits |-> 0]

Fresh(revision) == [draft |-> Clean(revision), editing |-> FALSE,
                    saving |-> FALSE, conflict |-> FALSE]

Origin == [revision : Revisions, base : Revisions, onScreen : Revisions, early : BOOLEAN]

(* The card of the project shows a transcript, and not the form to rename it. *)
Mounted == shown # 0 /\ ~ renaming
Dirty   == review.draft # Clean(shown)

TypeOK ==
  /\ Store!TypeOK
  /\ shown \in Revisions /\ etag \in Revisions /\ renaming \in BOOLEAN
  /\ review \in Review /\ pending \in BOOLEAN
  /\ ~ Mounted => review = Fresh(0) /\ ~ pending
  /\ call \in [Calls -> {NoCall} \cup Call]
  /\ authored \subseteq Origin

Init ==
  /\ Store!Init
  /\ shown = 0 /\ etag = 0 /\ renaming = FALSE
  /\ review = Fresh(0) /\ pending = FALSE
  /\ call = [c \in Calls |-> NoCall]
  /\ authored = {}

-----------------------------------------------------------------------------
(* The server, and everybody else. *)

Others == Store!Next /\ UNCHANGED <<appVars, review, pending, call, authored>>

(***************************************************************************)
(* A request reaches the server and is answered, or fails on its way: the  *)
(* tab cannot tell whether a save that failed was carried out.             *)
(***************************************************************************)
Answered(c, status, revision) ==
  call' = [call EXCEPT ![c].phase = "answered", ![c].status = status,
                       ![c].answer = revision]

Sent(c, kinds) == call[c].kind \in kinds /\ call[c].phase = "sent"

ServeRead(c) ==
  /\ Sent(c, {"load", "reload", "refresh"})
  /\ Answered(c, "ok", project.active)
  /\ UNCHANGED <<serverVars, appVars, review, pending, authored>>

ServeSave(c) ==
  /\ Sent(c, {"save"})
  /\ Store!Replace(call[c].ifMatch)
  /\ Answered(c, "ok", project'.active) \/ Answered(c, "error", 0)
  /\ authored' = authored \cup
       {[revision |-> project'.active, base |-> call[c].draft.base,
         onScreen |-> call[c].onScreen, early |-> call[c].early]}
  /\ UNCHANGED <<appVars, review, pending>>

RefuseSave(c) ==
  /\ Sent(c, {"save"})
  /\ project.active # call[c].ifMatch
  /\ Answered(c, "conflict", 0)
  /\ UNCHANGED <<serverVars, appVars, review, pending, authored>>

Fail(c) ==
  /\ Sent(c, {"load", "reload", "refresh", "save"})
  /\ Answered(c, "error", 0)
  /\ UNCHANGED <<serverVars, appVars, review, pending, authored>>

-----------------------------------------------------------------------------
(* Requests of the tab. *)

Request(kind) ==
  [kind |-> kind, phase |-> "sent", live |-> kind \in {"save", "reload"}, ifMatch |-> 0,
   draft |-> Clean(0), onScreen |-> 0, early |-> FALSE, answer |-> 0, status |-> "ok"]

Send(c, request) ==
  /\ call[c] = NoCall
  /\ call' = [call EXCEPT ![c] = request]

(* loadTranscript: the list shows a revision, or a transcription ended. *)
Load(c) ==
  /\ transcripts # {}
  /\ Send(c, Request("load"))
  /\ UNCHANGED <<serverVars, appVars, review, pending, authored>>

(* refreshProject: an upload was stored, or a transcription ended. *)
Refresh(c) ==
  /\ assets # {}
  /\ Send(c, Request("refresh"))
  /\ UNCHANGED <<serverVars, appVars, review, pending, authored>>

(* The effect on [transcript], if it has still to run. *)
Settle(r) ==
  IF pending THEN [r EXCEPT !.draft = Clean(shown), !.conflict = FALSE] ELSE r

(* An event of the component updates its state, and the effect runs. *)
Update(r) == review' = Settle(r) /\ pending' = FALSE

(***************************************************************************)
(* saveEditing: the tag known for the project, or that of the transcript,  *)
(* and the draft as it is on the screen.                                   *)
(***************************************************************************)
Save(c) ==
  /\ Mounted /\ review.editing /\ Dirty /\ ~ review.saving
  /\ Send(c, [Request("save") EXCEPT !.draft = review.draft,
                                     !.ifMatch = IF etag # 0 THEN etag ELSE shown,
                                     !.onScreen = shown, !.early = pending])
  /\ Update([review EXCEPT !.saving = TRUE, !.conflict = FALSE])
  /\ UNCHANGED <<serverVars, appVars, authored>>

(* reloadLatestTranscript, offered after a conflict. *)
Reload(c) ==
  /\ Mounted /\ review.editing /\ review.conflict /\ ~ review.saving
  /\ Send(c, Request("reload"))
  /\ Update([review EXCEPT !.saving = TRUE])
  /\ UNCHANGED <<serverVars, appVars, authored>>

-----------------------------------------------------------------------------
(* The user at the editor; none of this waits for a save in flight. *)

OpenEditor ==
  /\ Mounted /\ ~ review.editing
  /\ Update([review EXCEPT !.editing = TRUE])
  /\ UNCHANGED <<serverVars, appVars, call, authored>>

Edit ==
  /\ Mounted /\ review.editing /\ review.draft.edits < MaxEdits
  /\ Update([review EXCEPT !.draft.edits = @ + 1, !.conflict = FALSE])
  /\ UNCHANGED <<serverVars, appVars, call, authored>>

CancelEditing ==
  /\ Mounted /\ review.editing
  /\ Update([review EXCEPT !.draft = Clean(shown), !.editing = FALSE, !.conflict = FALSE])
  /\ UNCHANGED <<serverVars, appVars, call, authored>>

RunEffect ==
  /\ pending
  /\ Update(review)
  /\ UNCHANGED <<serverVars, appVars, call, authored>>

-----------------------------------------------------------------------------
(* The form to rename the project takes the place of TranscriptReview. *)

(* The component goes: its closures change nothing that is shown any more. *)
Unmount(live) ==
  /\ review' = Fresh(0) /\ pending' = FALSE
  /\ call' = [c \in Calls |-> IF c \notin live \/ call[c] = NoCall THEN NoCall
                              ELSE [call[c] EXCEPT !.live = FALSE]]

OpenRename ==
  /\ ~ renaming /\ renaming' = TRUE
  /\ Unmount(Calls)
  /\ UNCHANGED <<serverVars, shown, etag, authored>>

(* Cancelled, answered, or the form of another project was opened. *)
CloseRename ==
  /\ renaming /\ renaming' = FALSE
  /\ review' = Fresh(shown) /\ pending' = (shown # 0)
  /\ UNCHANGED <<serverVars, shown, etag, call, authored>>

-----------------------------------------------------------------------------
(* Answers. *)

Got(c, kinds, status) ==
  call[c].kind \in kinds /\ call[c].phase = "answered" /\ call[c].status = status

Done(c) == call' = [call EXCEPT ![c] = NoCall]

(* Variant: the draft outlives a transcript that arrives. *)
TakeKeepingDraft(c, ends) ==
  /\ shown' = call[c].answer /\ etag' = call[c].answer
  /\ review' = [review EXCEPT !.saving = @ /\ ~ ends]
  /\ UNCHANGED pending
  /\ Done(c)

(***************************************************************************)
(* A transcript has come, with its tag, and is committed; the draft stays  *)
(* as it is until the effect runs (that of an earlier commit runs before). *)
(* ends says that the answer is one the user waits for: editing is over.   *)
(***************************************************************************)
Take(c, ends) ==
  /\ shown' = call[c].answer /\ etag' = call[c].answer
  /\ pending' = ~ renaming
  /\ IF Mounted
     THEN review' = [Settle(review) EXCEPT !.editing = @ /\ ~ ends, !.saving = @ /\ ~ ends]
     ELSE review' = Fresh(IF renaming THEN 0 ELSE call[c].answer)
  /\ Done(c)

HandleTranscript(c) ==
  /\ Got(c, {"load", "reload", "save"}, "ok") /\ call[c].answer # 0
  /\ Take(c, call[c].live)
  /\ UNCHANGED <<serverVars, renaming, authored>>

(* No transcript: only a reload gives up the editor, with the draft left. *)
HandleNothing(c) ==
  /\ \/ Got(c, {"load", "reload"}, "error")
     \/ Got(c, {"load", "reload"}, "ok") /\ call[c].answer = 0
  /\ IF call[c].live
     THEN Update([review EXCEPT !.saving = FALSE, !.conflict = FALSE, !.editing = FALSE])
     ELSE UNCHANGED <<review, pending>>
  /\ Done(c)
  /\ UNCHANGED <<serverVars, appVars, authored>>

HandleRefresh(c) ==
  /\ call[c].kind = "refresh" /\ call[c].phase = "answered"
  /\ IF call[c].status = "ok" /\ call[c].answer = 0
     THEN shown' = 0 /\ Unmount(Calls \ {c})
     ELSE UNCHANGED <<shown, review, pending>> /\ Done(c)
  /\ UNCHANGED <<serverVars, etag, renaming, authored>>

(* Variant: the failure of a save leaves the button as it is. *)
HandleSaveFailureOnlyConflict(c) ==
  /\ Got(c, {"save"}, "conflict") \/ Got(c, {"save"}, "error")
  /\ IF call[c].live /\ call[c].status = "conflict"
     THEN Update([review EXCEPT !.saving = FALSE, !.conflict = TRUE])
     ELSE UNCHANGED <<review, pending>>
  /\ Done(c)
  /\ UNCHANGED <<serverVars, appVars, authored>>

HandleSaveFailure(c) ==
  /\ Got(c, {"save"}, "conflict") \/ Got(c, {"save"}, "error")
  /\ IF call[c].live
     THEN Update([review EXCEPT !.saving = FALSE, !.conflict = (call[c].status = "conflict")])
     ELSE UNCHANGED <<review, pending>>
  /\ Done(c)
  /\ UNCHANGED <<serverVars, appVars, authored>>

Next ==
  \/ Others
  \/ OpenEditor \/ Edit \/ CancelEditing \/ RunEffect \/ OpenRename \/ CloseRename
  \/ \E c \in Calls :
       \/ Load(c) \/ Refresh(c) \/ Save(c) \/ Reload(c)
       \/ ServeRead(c) \/ ServeSave(c) \/ RefuseSave(c) \/ Fail(c)
       \/ HandleTranscript(c) \/ HandleNothing(c) \/ HandleRefresh(c)
       \/ HandleSaveFailure(c)

Spec == Init /\ [][Next]_vars

-----------------------------------------------------------------------------
(***************************************************************************)
(* Whatever this tab saved replaces the revision the user had on the       *)
(* screen, and was edited from it, in whatever order answers, uploads,     *)
(* transcriptions and saves of others arrive, although tags are kept when  *)
(* a transcript goes, and however often the editor is left and entered; no *)
(* draft is recorded twice by a save that is tried again.                  *)
(* One exception is left by the code, against "stale saves cannot          *)
(* overwrite a newer revision" (docs/DELIVERY_GUIDE.md:99): a save sent    *)
(* between the commit of a newer transcript and its effect carries the old *)
(* draft with the new tag, which the server takes.                         *)
(***************************************************************************)
OverwritesAreExplained ==
  \A row \in authored :
    row.revision = row.onScreen + 1 /\ (row.base = row.onScreen \/ row.early)

(***************************************************************************)
(* The editor says "Saving..." exactly while one answer it waits for is on *)
(* its way: its buttons never stay disabled, and two saves of one editor   *)
(* never run at the same time.                                             *)
(***************************************************************************)
Awaited(c) == call[c] # NoCall /\ call[c].live

SavingIsAwaited ==
  /\ review.saving <=> \E c \in Calls : Awaited(c)
  /\ \A c, d \in Calls : Awaited(c) /\ Awaited(d) => c = d

(***************************************************************************)
(* "On `412`, never discard the local working copy"                        *)
(* (docs/DELIVERY_GUIDE.md:354): while the editor says that the transcript *)
(* changed elsewhere and that the draft is still intact, it goes on with   *)
(* this draft until the user cancels or the reload the user asked for is   *)
(* answered.  In the code the answer of any load replaces it, also that of *)
(* the transcription whose result caused the conflict.                     *)
(***************************************************************************)
ConflictKeepsDraft ==
  [][review.conflict /\ review.editing /\ Dirty /\ (\A c \in Calls : ~ Awaited(c))
       /\ review'.editing
     => review'.draft.base = review.draft.base]_vars
=============================================================================
