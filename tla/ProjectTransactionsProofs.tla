---------------------- MODULE ProjectTransactionsProofs ----------------------
(***************************************************************************)
(* Theorems about ProjectStore and ProjectTransactions, for any assets,    *)
(* jobs, keys, connections and largest revision.                           *)
(*                                                                         *)
(* The properties of the store hold each other up: a save may take number  *)
(* expected + 1 because the active revision is the latest, its row carries *)
(* the metadata of a job that heard this audio because the active row      *)
(* matches the project's audio, and both are kept only because a new       *)
(* number exceeds every number there is.                                   *)
(*                                                                         *)
(* The transactions implement the operations of the store: what one of     *)
(* them has checked under the lock of the project row is still so when it  *)
(* commits, since nobody else holds the lock; what it relies on without    *)
(* the lock (a fresh identity, a job that exists) is not changed by any    *)
(* transaction.                                                            *)
(***************************************************************************)
EXTENDS ProjectTransactions, TLAPS

(* The invariant of the store. *)
History ==
  ActiveIsLatest /\ ActiveMatchesAudio /\ RevisionsUnbroken /\ EditsFollowTheirBase

(* Neither pointer is dangling, and the status is computed from the two.   *)
(* That a transcript which becomes active finds a project with both        *)
(* sources ready rests on this.                                            *)
Sources ==
  /\ {project.audio, project.background} \subseteq assets \cup {None}
  /\ (project.status = "ready") <=>
       (project.audio # None /\ project.background # None)

IInv == TypeOK /\ History /\ OneJobPerKey /\ Sources

-----------------------------------------------------------------------------
LEMMA InitInv == Init => IInv
BY MaxRevisionAssumption
   DEF Init, IInv, TypeOK, Project, History, ActiveIsLatest, ActiveMatchesAudio,
       RevisionsUnbroken, EditsFollowTheirBase, OneJobPerKey, Sources

(* New audio leaves no active transcript, and touches no other row. *)
LEMMA ActivateAudioInv ==
  ASSUME IInv, NEW a \in AudioAssets, ActivateAudio(a)
  PROVE  IInv'
<1>1. /\ project' = WithAudio(project, a) /\ assets' = assets \cup {a}
      /\ transcripts' = transcripts /\ requests' = requests
      /\ project \in Project /\ a # None
  BY NoneAssumption DEF ActivateAudio, IInv, TypeOK
<1>2. /\ project' \in Project /\ project'.active = 0 /\ project'.audio = a
      /\ project'.background = project.background
      /\ project'.status = IF project.background # None THEN "ready" ELSE "draft"
  <2>1. 0 \in 0..MaxRevision
    BY MaxRevisionAssumption
  <2>2. StatusIf(project.background) =
          IF project.background # None THEN "ready" ELSE "draft"
    BY DEF StatusIf
  <2> QED
    BY <1>1, <2>1, <2>2 DEF WithAudio, Project
<1>3. TypeOK'
  BY <1>1, <1>2 DEF IInv, TypeOK
<1>4. History'
  BY <1>1, <1>2 DEF IInv, History, ActiveIsLatest, ActiveMatchesAudio,
     RevisionsUnbroken, EditsFollowTheirBase, Edited
<1>5. OneJobPerKey' /\ Sources'
  BY <1>1, <1>2 DEF IInv, OneJobPerKey, Sources
<1> QED
  BY <1>3, <1>4, <1>5 DEF IInv

LEMMA ActivateBackgroundInv ==
  ASSUME IInv, NEW b \in Backgrounds, ActivateBackground(b)
  PROVE  IInv'
<1>1. /\ project' = WithBackground(project, b) /\ assets' = assets \cup {b}
      /\ transcripts' = transcripts /\ requests' = requests
      /\ project \in Project /\ b # None
  BY NoneAssumption DEF ActivateBackground, IInv, TypeOK
<1>2. /\ project' \in Project /\ project'.active = project.active
      /\ project'.audio = project.audio /\ project'.background = b
      /\ project'.status = IF project.audio # None THEN "ready" ELSE "draft"
  BY <1>1 DEF WithBackground, StatusIf, Project
<1>3. TypeOK'
  BY <1>1, <1>2 DEF IInv, TypeOK
<1>4. History'
  BY <1>1, <1>2 DEF IInv, History, ActiveIsLatest, ActiveMatchesAudio,
     RevisionsUnbroken, EditsFollowTheirBase, Edited
<1>5. OneJobPerKey' /\ Sources'
  BY <1>1, <1>2 DEF IInv, OneJobPerKey, Sources
<1> QED
  BY <1>3, <1>4, <1>5 DEF IInv

(* A request fills a row that no transcript refers to. *)
LEMMA EnqueueInv ==
  ASSUME IInv, NEW j \in Jobs, NEW k \in Keys, Enqueue(j, k)
  PROVE  IInv'
<1>1. /\ requests[j] = None /\ JobsWithKey(k) = {} /\ project.audio \in AudioAssets
      /\ requests' = [requests EXCEPT ![j] = [key |-> k, audio |-> project.audio]]
      /\ project' = project /\ assets' = assets /\ transcripts' = transcripts
  BY DEF Enqueue, IInv, TypeOK, Project
<1>2. [key |-> k, audio |-> project.audio] \in Request
  BY <1>1 DEF Request
<1>3. TypeOK'
  BY <1>1, <1>2 DEF IInv, TypeOK
<1>4. \A r \in transcripts : r.transcriber \in Jobs /\ requests'[r.transcriber] = requests[r.transcriber]
  BY <1>1 DEF IInv, TypeOK, Transcript, History, EditsFollowTheirBase
<1>5. History'
  BY <1>1, <1>4 DEF IInv, History, ActiveIsLatest, ActiveMatchesAudio,
     RevisionsUnbroken, EditsFollowTheirBase, Edited
<1>6. OneJobPerKey'
  BY <1>1 DEF IInv, TypeOK, OneJobPerKey, JobsWithKey
<1>7. Sources'
  BY <1>1 DEF IInv, Sources
<1> QED
  BY <1>3, <1>5, <1>6, <1>7 DEF IInv

(***************************************************************************)
(* What a new row must satisfy to keep the history: a number above all     *)
(* others with no gap, the audio of the project, the metadata of a job     *)
(* that heard it, and, if it is an edit, the active row as its base.       *)
(***************************************************************************)
LEMMA InsertInv ==
  ASSUME IInv, NEW row \in Transcript, Insert(row),
         IsNextRevision(row.revision),
         row.audio = project.audio,
         requests[row.transcriber] # None,
         requests[row.transcriber].audio = row.audio,
         Edited(row) =>
           /\ row.revision = row.base + 1
           /\ \E q \in transcripts :
                /\ q.revision = row.base
                /\ q.audio = row.audio /\ q.transcriber = row.transcriber
  PROVE  IInv'
<1>1. /\ transcripts' = transcripts \cup {row}
      /\ assets' = assets /\ requests' = requests
      /\ project' = [project EXCEPT !.active = row.revision]
      /\ project \in Project
      /\ row.revision \in 1..MaxRevision
      /\ \A r \in transcripts : r.revision \in 1..MaxRevision /\ r.revision < row.revision
  BY DEF Insert, IInv, TypeOK, Transcript, IsNextRevision
<1>2. /\ project' \in Project /\ project'.active = row.revision
      /\ project'.audio = project.audio /\ project'.background = project.background
      /\ project'.status = project.status
  BY <1>1 DEF Project
<1>3. TypeOK'
  BY <1>1, <1>2 DEF IInv, TypeOK
<1>4. ActiveIsLatest'
  BY <1>1, <1>2 DEF ActiveIsLatest
<1>5. ActiveMatchesAudio'
  BY <1>1, <1>2 DEF ActiveMatchesAudio
<1>6. RevisionsUnbroken'
  BY <1>1 DEF IInv, History, RevisionsUnbroken, IsNextRevision
<1>7. EditsFollowTheirBase'
  BY <1>1 DEF IInv, History, EditsFollowTheirBase, Edited
<1>8. OneJobPerKey' /\ Sources'
  BY <1>1, <1>2 DEF IInv, OneJobPerKey, Sources
<1> QED
  BY <1>3, <1>4, <1>5, <1>6, <1>7, <1>8 DEF IInv, History

LEMMA ActivateInv ==
  ASSUME IInv, NEW j \in Jobs, Activate(j)
  PROVE  IInv'
<1>1. PICK n \in 1..MaxRevision :
        /\ IsNextRevision(n)
        /\ Insert([revision |-> n, audio |-> requests[j].audio, job |-> j,
                   transcriber |-> j, base |-> project.active])
  BY DEF Activate
<1> DEFINE row == [revision |-> n, audio |-> requests[j].audio, job |-> j,
                   transcriber |-> j, base |-> project.active]
<1>2. /\ requests[j] # None /\ project.audio = requests[j].audio
      /\ requests[j].audio \in AudioAssets /\ project.active \in 0..MaxRevision
  BY DEF Activate, IInv, TypeOK, Request, Project
<1>3. row \in Transcript
  BY <1>2 DEF Transcript
<1>4. ~ Edited(row)
  BY NoneAssumption DEF Edited
<1> QED
  BY <1>1, <1>2, <1>3, <1>4, InsertInv

LEMMA ReplaceInv ==
  ASSUME IInv, NEW n \in 1..MaxRevision, Replace(n)
  PROVE  IInv'
<1>1. PICK base \in transcripts :
        /\ base.revision = n
        /\ Insert([revision |-> n + 1, audio |-> project.audio, job |-> None,
                   transcriber |-> base.transcriber, base |-> n])
  BY DEF Replace
<1> DEFINE row == [revision |-> n + 1, audio |-> project.audio, job |-> None,
                   transcriber |-> base.transcriber, base |-> n]
<1>2. /\ project.active = n /\ project.audio \in AudioAssets
      /\ n + 1 \in 1..MaxRevision /\ n \in 0..MaxRevision
  BY MaxRevisionAssumption DEF Replace, IInv, TypeOK, Project
<1>3. base.transcriber \in Jobs /\ base.audio = project.audio
  BY <1>1, <1>2 DEF IInv, TypeOK, Transcript, History, ActiveMatchesAudio
<1>4. row \in Transcript
  BY <1>2, <1>3 DEF Transcript
<1>5. IsNextRevision(n + 1)
  <2>1. \A r \in transcripts : r.revision \in Nat /\ r.revision <= n
    BY <1>2 DEF IInv, TypeOK, Transcript, History, ActiveIsLatest
  <2> QED
    BY <1>1, <2>1 DEF IsNextRevision
<1>6. requests[base.transcriber] # None /\ requests[base.transcriber].audio = base.audio
  BY <1>1 DEF IInv, History, EditsFollowTheirBase
<1> QED
  BY <1>1, <1>3, <1>4, <1>5, <1>6, InsertInv

(* Both pointers are rows exactly when neither is NULL. *)
LEMMA SourcesFacts == IInv => ReadyFollowsSources
<1> SUFFICES ASSUME IInv PROVE ReadyFollowsSources
  OBVIOUS
<1>1. None \notin assets
  BY NoneAssumption DEF IInv, TypeOK
<1>2. {project.audio, project.background} \subseteq assets
        <=> project.audio # None /\ project.background # None
  BY <1>1 DEF IInv, Sources
<1> QED
  BY <1>2 DEF IInv, Sources, ReadyFollowsSources

LEMMA NextInv == IInv /\ [Next]_vars => IInv'
<1> SUFFICES ASSUME IInv, [Next]_vars PROVE IInv'
  OBVIOUS
<1>1. CASE UNCHANGED vars
  BY <1>1 DEF vars, IInv, TypeOK, History, ActiveIsLatest, ActiveMatchesAudio,
     RevisionsUnbroken, EditsFollowTheirBase, Edited, OneJobPerKey, Sources
<1>2. CASE Next
  BY <1>2, ActivateAudioInv, ActivateBackgroundInv, EnqueueInv, ActivateInv, ReplaceInv
     DEF Next
<1> QED
  BY <1>1, <1>2

-----------------------------------------------------------------------------
(***************************************************************************)
(* The tables of a project are consistent in every reachable state.        *)
(***************************************************************************)
THEOREM Invariance == Spec => []IInv
BY InitInv, NextInv, PTL DEF Spec

(***************************************************************************)
(* Type correctness: what the repositories write has the shape they read.  *)
(***************************************************************************)
THEOREM TypeCorrect == Spec => []TypeOK
<1>1. IInv => TypeOK
  BY DEF IInv
<1> QED
  BY <1>1, Invariance, PTL

(***************************************************************************)
(* The active transcript is the newest revision there is, was made for the *)
(* project's audio, and every edit continues the revision its author saw:  *)
(* activate and replace never disagree about numbers, whatever uploads,    *)
(* saves and late transcriptions come in between.                          *)
(***************************************************************************)
THEOREM HistoryIsSound ==
  Spec => [](ActiveIsLatest /\ ActiveMatchesAudio /\ RevisionsUnbroken
             /\ EditsFollowTheirBase)
<1>1. IInv => ActiveIsLatest /\ ActiveMatchesAudio /\ RevisionsUnbroken
              /\ EditsFollowTheirBase
  BY DEF IInv, History
<1> QED
  BY <1>1, Invariance, PTL

(***************************************************************************)
(* A repeated request is never a second job, a ready project has both      *)
(* sources, and one with a transcript as well is ready.                    *)
(***************************************************************************)
THEOREM RequestsAndStatus == Spec => [](OneJobPerKey /\ ReadyFollowsSources)
<1>1. IInv => OneJobPerKey /\ ReadyFollowsSources
  BY SourcesFacts DEF IInv
<1> QED
  BY <1>1, Invariance, PTL

-----------------------------------------------------------------------------
(* Only the holder of the row writes. *)
WritersLock == \A t \in Txs : tx[t] # Idle /\ tx[t].phase = "write" => lock = t

(* Identities are fresh, and belong to one request. *)
FreshIds ==
  \A t \in Txs :
    /\ tx[t].op = "asset" =>
         /\ tx[t].arg \notin assets
         /\ \A u \in Txs \ {t} : tx[u].op = "asset" => tx[u].arg # tx[t].arg
    /\ tx[t].op = "enqueue" =>
         /\ requests[tx[t].arg] = None
         /\ \A u \in Txs \ {t} : tx[u].op = "enqueue" => tx[u].arg # tx[t].arg
    /\ tx[t].op = "activate" => requests[tx[t].arg] # None

(* What was checked under the lock still holds. *)
Checked ==
  \A t \in Txs :
    /\ In(t, "enqueue", "write") =>
         tx[t].seen = project.audio /\ JobsWithKey(tx[t].key) = {}
    /\ In(t, "activate", "write") =>
         project.audio = requests[tx[t].arg].audio /\ IsNextRevision(tx[t].seen)
    /\ In(t, "replace", "write") =>
         /\ project.active = tx[t].arg /\ project.audio # None
         /\ \E base \in transcripts :
              base.revision = tx[t].arg /\ base.transcriber = tx[t].seen

TxInv == TxTypeOK /\ WritersLock /\ FreshIds /\ Checked

Transaction == {Idle} \cup AssetTx \cup EnqueueTx \cup ActivateTx \cup ReplaceTx

-----------------------------------------------------------------------------
LEMMA IdleFacts ==
  /\ Idle \in Transaction /\ Idle.op = "idle"
  /\ \A request \in Transaction :
       request # Idle => /\ request.op \in {"asset", "enqueue", "activate", "replace"}
                         /\ request.phase \in Phases
BY DEF Idle, Transaction, AssetTx, EnqueueTx, ActivateTx, ReplaceTx

LEMMA TxInitInv == TxInit => TxInv
<1> SUFFICES ASSUME TxInit PROVE TxInv
  OBVIOUS
<1>1. TypeOK
  BY InitInv DEF TxInit, IInv
<1>2. \A t \in Txs : tx[t] = Idle /\ tx[t].op = "idle"
  BY IdleFacts DEF TxInit
<1>3. TxTypeOK
  BY <1>1 DEF TxTypeOK, TxInit
<1>4. WritersLock /\ FreshIds /\ Checked
  BY <1>2 DEF WritersLock, FreshIds, Checked, In
<1> QED
  BY <1>3, <1>4 DEF TxInv

(* A request begins: it has no lock, and has checked nothing yet. *)
LEMMA BeginInv ==
  ASSUME TxInv, NEW t \in Txs, NEW request \in Transaction, Begin(t, request),
         request # Idle, request.phase = "wait",
         request.op = "asset" => request.arg \notin assets /\ Unused("asset", request.arg),
         request.op = "enqueue" =>
           requests[request.arg] = None /\ Unused("enqueue", request.arg),
         request.op = "activate" => requests[request.arg] # None
  PROVE  TxInv'
<1>1. /\ tx' = [tx EXCEPT ![t] = request] /\ lock' = lock /\ project' = project
      /\ assets' = assets /\ transcripts' = transcripts /\ requests' = requests
  BY DEF Begin, tables
<1>2. tx \in [Txs -> Transaction]
  BY DEF TxInv, TxTypeOK, Transaction
<1>3. /\ tx'[t] = request
      /\ \A u \in Txs \ {t} : tx'[u] = tx[u]
  BY <1>1, <1>2
<1>4. TxTypeOK'
  BY <1>1, <1>2 DEF TxInv, TxTypeOK, TypeOK, Transaction
<1>5. WritersLock'
  BY <1>1, <1>3 DEF TxInv, WritersLock
<1>6. FreshIds'
  BY <1>1, <1>3 DEF TxInv, FreshIds, Unused
<1>7. Checked'
  BY <1>1, <1>3 DEF TxInv, Checked, In, JobsWithKey, IsNextRevision
<1> QED
  BY <1>4, <1>5, <1>6, <1>7 DEF TxInv

(* A transaction ends and leaves the tables as they are. *)
LEMMA EndInv ==
  ASSUME TxInv, NEW t \in Txs, UNCHANGED tables, tx' = [tx EXCEPT ![t] = Idle],
         lock' = lock \/ (lock = t /\ lock' = None)
  PROVE  TxInv'
<1>1. /\ project' = project /\ assets' = assets
      /\ transcripts' = transcripts /\ requests' = requests
  BY DEF tables
<1>2. tx \in [Txs -> Transaction]
  BY DEF TxInv, TxTypeOK, Transaction
<1>3. /\ tx'[t] = Idle /\ tx'[t].op = "idle"
      /\ \A u \in Txs \ {t} : tx'[u] = tx[u]
  BY <1>2, IdleFacts
<1>4. TxTypeOK'
  BY <1>1, <1>2, IdleFacts DEF TxInv, TxTypeOK, TypeOK, Transaction
<1>5. WritersLock'
  BY <1>3 DEF TxInv, WritersLock
<1>6. FreshIds'
  BY <1>1, <1>3 DEF TxInv, FreshIds
<1>7. Checked'
  BY <1>1, <1>3 DEF TxInv, Checked, In, JobsWithKey, IsNextRevision
<1> QED
  BY <1>4, <1>5, <1>6, <1>7 DEF TxInv

LEMMA RefuseInv ==
  ASSUME TxInv, NEW t \in Txs, Refuse(t)
  PROVE  TxInv'
BY EndInv DEF Refuse

LEMMA RollbackInv ==
  ASSUME TxInv, NEW t \in Txs, Rollback(t)
  PROVE  TxInv'
BY EndInv DEF Rollback, End

(* The lock is taken: what is checked at that moment is what Checked says. *)
LEMMA ToWriteInv ==
  ASSUME TxInv, NEW t \in Txs, tx[t] # Idle, NEW seen, ToWrite(t, seen),
         [tx[t] EXCEPT !.phase = "write", !.seen = seen] \in Transaction,
         tx[t].op = "enqueue" => seen = project.audio /\ JobsWithKey(tx[t].key) = {},
         tx[t].op = "activate" =>
           project.audio = requests[tx[t].arg].audio /\ IsNextRevision(seen),
         tx[t].op = "replace" =>
           /\ project.active = tx[t].arg /\ project.audio # None
           /\ \E base \in transcripts :
                base.revision = tx[t].arg /\ base.transcriber = seen
  PROVE  TxInv'
<1> DEFINE locked == [tx[t] EXCEPT !.phase = "write", !.seen = seen]
<1>1. /\ tx' = [tx EXCEPT ![t] = locked] /\ lock = None /\ lock' = t
      /\ project' = project /\ assets' = assets
      /\ transcripts' = transcripts /\ requests' = requests
  <2>1. tx' = [tx EXCEPT ![t].phase = "write", ![t].seen = seen]
    BY DEF ToWrite
  <2>2. tx \in [Txs -> Transaction]
    BY DEF TxInv, TxTypeOK, Transaction
  <2>3. tx' = [tx EXCEPT ![t] = locked]
    BY <2>1, <2>2
  <2> QED
    BY <2>3 DEF ToWrite, LockProject, tables
<1>2. tx \in [Txs -> Transaction]
  BY DEF TxInv, TxTypeOK, Transaction
<1>3. tx[t] \in AssetTx \cup EnqueueTx \cup ActivateTx \cup ReplaceTx
  BY <1>2 DEF Transaction
<1>4. locked.op = tx[t].op /\ locked.arg = tx[t].arg /\ locked.seen = seen
      /\ (tx[t].op = "enqueue" => locked.key = tx[t].key)
  BY <1>3 DEF AssetTx, EnqueueTx, ActivateTx, ReplaceTx
<1> HIDE DEF locked
<1>5. /\ tx'[t] = locked
      /\ \A u \in Txs \ {t} : tx'[u] = tx[u]
  BY <1>1, <1>2
<1>6. TxTypeOK'
  BY <1>1, <1>2 DEF TxInv, TxTypeOK, TypeOK, Transaction, locked
<1>7. WritersLock'
  BY <1>1, <1>5, TxsAssumption DEF TxInv, WritersLock
<1>8. FreshIds'
  BY <1>1, <1>4, <1>5 DEF TxInv, FreshIds
<1>9. Checked'
  BY <1>1, <1>4, <1>5 DEF TxInv, Checked, In, JobsWithKey, IsNextRevision
<1> QED
  BY <1>6, <1>7, <1>8, <1>9 DEF TxInv

LEMMA LockAssetInv ==
  ASSUME TxInv, NEW t \in Txs, LockAsset(t)
  PROVE  TxInv'
<1>1. tx[t] \in Transaction /\ tx[t].op = "asset"
  BY DEF TxInv, TxTypeOK, Transaction, LockAsset, In
<1>2. tx[t] # Idle /\ tx[t] \in AssetTx
  BY <1>1 DEF Transaction, Idle, EnqueueTx, ActivateTx, ReplaceTx
<1>3. [tx[t] EXCEPT !.phase = "write", !.seen = None] \in AssetTx
  BY <1>2 DEF AssetTx, Phases
<1> QED
  BY <1>1, <1>2, <1>3, ToWriteInv DEF LockAsset, Transaction

LEMMA LockEnqueueInv ==
  ASSUME TxInv, NEW t \in Txs, LockEnqueue(t)
  PROVE  TxInv'
<1>1. tx[t] \in Transaction /\ tx[t].op = "enqueue"
  BY DEF TxInv, TxTypeOK, Transaction, LockEnqueue, In
<1>2. tx[t] # Idle /\ tx[t] \in EnqueueTx
  BY <1>1 DEF Transaction, Idle, AssetTx, ActivateTx, ReplaceTx
<1>3. [tx[t] EXCEPT !.phase = "write", !.seen = tx[t].seen] \in EnqueueTx
  BY <1>2 DEF EnqueueTx, Phases
<1>4. CASE Refuse(t)
  BY <1>4, RefuseInv
<1>5. CASE /\ project.audio = tx[t].seen
           /\ JobsWithKey(tx[t].key) = {}
           /\ ToWrite(t, tx[t].seen)
  BY <1>1, <1>2, <1>3, <1>5, ToWriteInv DEF Transaction
<1> QED
  BY <1>4, <1>5 DEF LockEnqueue

LEMMA LockActivateInv ==
  ASSUME TxInv, NEW t \in Txs, LockActivate(t)
  PROVE  TxInv'
<1>1. tx[t] \in Transaction /\ tx[t].op = "activate"
  BY DEF TxInv, TxTypeOK, Transaction, LockActivate, In
<1>2. tx[t] # Idle /\ tx[t] \in ActivateTx
  BY <1>1 DEF Transaction, Idle, AssetTx, EnqueueTx, ReplaceTx
<1>3. CASE Refuse(t)
  BY <1>3, RefuseInv
<1>4. CASE /\ project.audio = requests[tx[t].arg].audio
           /\ \E n \in 1..MaxRevision + 1 : IsNextRevision(n) /\ ToWrite(t, n)
  <2>1. PICK n \in 1..MaxRevision + 1 : IsNextRevision(n) /\ ToWrite(t, n)
    BY <1>4
  <2>2. n \in 0..MaxRevision + 1
    BY MaxRevisionAssumption
  <2>3. [tx[t] EXCEPT !.phase = "write", !.seen = n] \in ActivateTx
    BY <1>2, <2>2 DEF ActivateTx, Phases
  <2> QED
    BY <1>1, <1>2, <1>4, <2>1, <2>3, ToWriteInv DEF Transaction
<1> QED
  BY <1>3, <1>4 DEF LockActivate

LEMMA LockReplaceInv ==
  ASSUME TxInv, NEW t \in Txs, LockReplace(t)
  PROVE  TxInv'
<1>1. tx[t] \in Transaction /\ tx[t].op = "replace"
  BY DEF TxInv, TxTypeOK, Transaction, LockReplace, In
<1>2. tx[t] # Idle /\ tx[t] \in ReplaceTx
  BY <1>1 DEF Transaction, Idle, AssetTx, EnqueueTx, ActivateTx
<1>3. CASE Refuse(t)
  BY <1>3, RefuseInv
<1>4. CASE /\ project.active = tx[t].arg
           /\ project.audio # None
           /\ \E base \in transcripts :
                base.revision = tx[t].arg /\ ToWrite(t, base.transcriber)
  <2>1. PICK base \in transcripts :
          base.revision = tx[t].arg /\ ToWrite(t, base.transcriber)
    BY <1>4
  <2>2. base.transcriber \in Jobs \cup {None}
    BY DEF TxInv, TxTypeOK, TypeOK, Transcript
  <2>3. [tx[t] EXCEPT !.phase = "write", !.seen = base.transcriber] \in ReplaceTx
    BY <1>2, <2>2 DEF ReplaceTx, Phases
  <2> QED
    BY <1>1, <1>2, <1>4, <2>1, <2>3, ToWriteInv DEF Transaction
<1> QED
  BY <1>3, <1>4 DEF LockReplace

-----------------------------------------------------------------------------
(* The holder of the lock commits: nobody else has checked anything. *)
LEMMA CommitInv ==
  ASSUME TxInv, TypeOK', NEW t \in Txs, tx[t] # Idle, tx[t].phase = "write", End(t),
         assets' = assets \/ (tx[t].op = "asset" /\ assets' = assets \cup {tx[t].arg}),
         \A j \in Jobs :
           \/ requests'[j] = requests[j]
           \/ tx[t].op = "enqueue" /\ j = tx[t].arg
  PROVE  TxInv'
<1>1. lock = t /\ tx' = [tx EXCEPT ![t] = Idle] /\ lock' = None
  BY DEF TxInv, WritersLock, End
<1>2. tx \in [Txs -> Transaction]
  BY DEF TxInv, TxTypeOK, Transaction
<1>3. /\ tx'[t] = Idle /\ tx'[t].op = "idle"
      /\ \A u \in Txs \ {t} : tx'[u] = tx[u]
  BY <1>1, <1>2, IdleFacts
<1>4. \A u \in Txs \ {t} : tx[u] # Idle => tx[u].phase # "write"
  BY <1>1 DEF TxInv, WritersLock
<1>5. \A u \in Txs \ {t}, op \in {"enqueue", "activate", "replace"} :
        ~ (tx[u].op = op /\ tx[u].phase = "write")
  BY <1>4, IdleFacts
<1>6. \A u \in Txs : tx[u].op \in {"enqueue", "activate"} => tx[u].arg \in Jobs
  BY <1>2 DEF Transaction, Idle, AssetTx, EnqueueTx, ActivateTx, ReplaceTx
<1>7. TxTypeOK'
  BY <1>1, <1>2, IdleFacts DEF TxTypeOK, Transaction
<1>8. WritersLock'
  BY <1>3, <1>4 DEF WritersLock
<1>9. FreshIds'
  <2>1. ASSUME NEW u \in Txs \ {t}, tx[u].op = "asset"
        PROVE  tx[u].arg \notin assets'
    BY <2>1 DEF TxInv, FreshIds
  <2>2. ASSUME NEW u \in Txs \ {t}, tx[u].op = "enqueue"
        PROVE  requests'[tx[u].arg] = None
    BY <1>6, <2>2 DEF TxInv, FreshIds
  <2>3. ASSUME NEW u \in Txs \ {t}, tx[u].op = "activate"
        PROVE  requests'[tx[u].arg] # None
    BY <1>6, <2>3 DEF TxInv, FreshIds
  <2> QED
    BY <1>3, <2>1, <2>2, <2>3 DEF TxInv, FreshIds
<1>10. Checked'
  BY <1>3, <1>5 DEF Checked, In
<1> QED
  BY <1>7, <1>8, <1>9, <1>10 DEF TxInv

(* Each commit is an operation of the store. *)
LEMMA CommitAssetIsActivate ==
  ASSUME TxInv, NEW t \in Txs, CommitAsset(t)
  PROVE  Next
<1> DEFINE a == tx[t].arg
<1>1. a \notin assets
  BY DEF TxInv, FreshIds, CommitAsset, In
<1>2. a \in AudioAssets \cup Backgrounds
  BY DEF TxInv, TxTypeOK, CommitAsset, In, Idle, AssetTx, EnqueueTx, ActivateTx, ReplaceTx
<1>3. CASE a \in AudioAssets
  BY <1>1, <1>3 DEF CommitAsset, ActivateAudio, Next
<1>4. CASE a \notin AudioAssets
  BY <1>1, <1>2, <1>4 DEF CommitAsset, ActivateBackground, Next
<1> QED
  BY <1>3, <1>4

LEMMA CommitEnqueueIsEnqueue ==
  ASSUME TxInv, NEW t \in Txs, CommitEnqueue(t)
  PROVE  Next
<1>1. tx[t] \in EnqueueTx
  BY DEF TxInv, TxTypeOK, CommitEnqueue, In, Idle, AssetTx, EnqueueTx, ActivateTx, ReplaceTx
<1>2. tx[t].arg \in Jobs /\ tx[t].key \in Keys /\ tx[t].seen # None
  BY <1>1, NoneAssumption DEF EnqueueTx
<1>3. /\ requests[tx[t].arg] = None
      /\ tx[t].seen = project.audio /\ JobsWithKey(tx[t].key) = {}
  BY DEF TxInv, FreshIds, Checked, CommitEnqueue, In
<1>4. Enqueue(tx[t].arg, tx[t].key)
  BY <1>2, <1>3 DEF CommitEnqueue, Enqueue
<1> QED
  BY <1>2, <1>4 DEF Next

LEMMA CommitActivateIsActivate ==
  ASSUME TxInv, NEW t \in Txs, CommitActivate(t)
  PROVE  Next
<1> DEFINE j == tx[t].arg
           n == tx[t].seen
<1>1. tx[t] \in ActivateTx
  BY DEF TxInv, TxTypeOK, CommitActivate, In, Idle, AssetTx, EnqueueTx, ActivateTx, ReplaceTx
<1>2. j \in Jobs /\ n \in 0..MaxRevision + 1
  BY <1>1 DEF ActivateTx
<1>3. /\ requests[j] # None
      /\ project.audio = requests[j].audio /\ IsNextRevision(n)
  BY DEF TxInv, FreshIds, Checked, CommitActivate, In
<1>4. n <= MaxRevision
  BY DEF CommitActivate, Write, FreeRevision
<1>5. \A r \in transcripts : r.revision \in 1..MaxRevision
  BY DEF TxInv, TxTypeOK, TypeOK, Transcript
<1>6. n >= 1
  BY <1>2, <1>3, <1>5, MaxRevisionAssumption DEF IsNextRevision
<1>7. n \in 1..MaxRevision
  BY <1>2, <1>4, <1>6, MaxRevisionAssumption
<1>8. Activate(j)
  BY <1>3, <1>7 DEF CommitActivate, Write, Activate, Insert
<1> QED
  BY <1>2, <1>8 DEF Next

LEMMA CommitReplaceIsReplace ==
  ASSUME TxInv, NEW t \in Txs, CommitReplace(t)
  PROVE  Next
<1> DEFINE n == tx[t].arg
<1>1. tx[t] \in ReplaceTx
  BY DEF TxInv, TxTypeOK, CommitReplace, In, Idle, AssetTx, EnqueueTx, ActivateTx, ReplaceTx
<1>2. n \in 1..MaxRevision
  BY <1>1 DEF ReplaceTx
<1>3. /\ project.active = n /\ project.audio # None
      /\ \E base \in transcripts :
           base.revision = n /\ base.transcriber = tx[t].seen
  BY DEF TxInv, Checked, CommitReplace, In
<1>4. n + 1 <= MaxRevision
  BY DEF CommitReplace, Write, FreeRevision
<1>5. Replace(n)
  BY <1>3, <1>4 DEF CommitReplace, Write, Replace, Insert
<1> QED
  BY <1>2, <1>5 DEF Next

-----------------------------------------------------------------------------
(* A step keeps both invariants, and is a step of the store or none. *)
LEMMA TxNextInv ==
  TxInv /\ IInv /\ [TxNext]_allVars => TxInv' /\ IInv' /\ [Next]_vars
<1> SUFFICES ASSUME TxInv, IInv, [TxNext]_allVars
             PROVE  TxInv' /\ IInv' /\ [Next]_vars
  OBVIOUS
<1>1. ASSUME UNCHANGED tables PROVE IInv' /\ [Next]_vars
  BY <1>1, NextInv DEF tables, vars
<1>2. ASSUME Next PROVE IInv' /\ TypeOK'
  BY <1>2, NextInv DEF IInv
<1>3. CASE UNCHANGED allVars
  <2>1. UNCHANGED <<tables, tx, lock>>
    BY <1>3 DEF allVars
  <2>2. TxInv'
    BY <2>1 DEF tables, TxInv, TxTypeOK, TypeOK, WritersLock, FreshIds, Checked, In,
                JobsWithKey, IsNextRevision
  <2> QED
    BY <1>1, <2>1, <2>2
<1>4. ASSUME NEW t \in Txs, Rollback(t) \/ Refuse(t)
      PROVE  TxInv' /\ IInv' /\ [Next]_vars
  <2>1. UNCHANGED tables
    BY <1>4 DEF Rollback, Refuse
  <2> QED
    BY <1>1, <1>4, <2>1, RollbackInv, RefuseInv
<1>5. ASSUME NEW t \in Txs,
             BeginAsset(t) \/ BeginEnqueue(t) \/ BeginActivate(t) \/ BeginReplace(t)
      PROVE  TxInv' /\ IInv' /\ [Next]_vars
  <2>1. UNCHANGED tables
    BY <1>5 DEF BeginAsset, BeginEnqueue, BeginActivate, BeginReplace, Begin
  <2>2. TxInv'
    <3>1. CASE BeginAsset(t)
      <4>1. PICK a \in (AudioAssets \cup Backgrounds) \ assets :
              /\ Unused("asset", a)
              /\ Begin(t, [op |-> "asset", phase |-> "wait", arg |-> a, seen |-> None])
        BY <3>1 DEF BeginAsset
      <4> DEFINE request == [op |-> "asset", phase |-> "wait", arg |-> a, seen |-> None]
      <4>2. /\ request \in Transaction /\ request # Idle /\ request.phase = "wait"
            /\ request.op = "asset" /\ request.arg = a
        BY DEF Transaction, AssetTx, Phases, Idle
      <4>3. Begin(t, request)
        BY <4>1
      <4> HIDE DEF request
      <4> QED
        BY <4>1, <4>2, <4>3, BeginInv
    <3>2. CASE BeginEnqueue(t)
      <4>1. PICK j \in Jobs, k \in Keys :
              /\ requests[j] = None
              /\ Unused("enqueue", j)
              /\ Begin(t, [op |-> "enqueue", phase |-> "wait", arg |-> j, key |-> k,
                           seen |-> project.audio])
        BY <3>2 DEF BeginEnqueue
      <4> DEFINE request == [op |-> "enqueue", phase |-> "wait", arg |-> j, key |-> k,
                             seen |-> project.audio]
      <4>2. project.audio \in AudioAssets
        BY <3>2 DEF BeginEnqueue, TxInv, TxTypeOK, TypeOK, Project
      <4>3. /\ request \in Transaction /\ request # Idle /\ request.phase = "wait"
            /\ request.op = "enqueue" /\ request.arg = j
        BY <4>2 DEF Transaction, EnqueueTx, Phases, Idle
      <4>4. Begin(t, request)
        BY <4>1
      <4> HIDE DEF request
      <4> QED
        BY <4>1, <4>3, <4>4, BeginInv
    <3>3. CASE BeginActivate(t)
      <4>1. PICK j \in Jobs :
              /\ requests[j] # None
              /\ Begin(t, [op |-> "activate", phase |-> "wait", arg |-> j, seen |-> 0])
        BY <3>3 DEF BeginActivate
      <4> DEFINE request == [op |-> "activate", phase |-> "wait", arg |-> j, seen |-> 0]
      <4>2. 0 \in 0..MaxRevision + 1
        BY MaxRevisionAssumption
      <4>3. /\ request \in Transaction /\ request # Idle /\ request.phase = "wait"
            /\ request.op = "activate" /\ request.arg = j
        BY <4>2 DEF Transaction, ActivateTx, Phases, Idle
      <4>4. Begin(t, request)
        BY <4>1
      <4> HIDE DEF request
      <4> QED
        BY <4>1, <4>3, <4>4, BeginInv
    <3>4. CASE BeginReplace(t)
      <4>1. PICK n \in 1..MaxRevision :
              Begin(t, [op |-> "replace", phase |-> "wait", arg |-> n, seen |-> None])
        BY <3>4 DEF BeginReplace
      <4> DEFINE request == [op |-> "replace", phase |-> "wait", arg |-> n, seen |-> None]
      <4>2. /\ request \in Transaction /\ request # Idle /\ request.phase = "wait"
            /\ request.op = "replace"
        BY DEF Transaction, ReplaceTx, Phases, Idle
      <4>3. Begin(t, request)
        BY <4>1
      <4> HIDE DEF request
      <4> QED
        BY <4>1, <4>2, <4>3, BeginInv
    <3> QED
      BY <1>5, <3>1, <3>2, <3>3, <3>4
  <2> QED
    BY <1>1, <2>1, <2>2
<1>6. ASSUME NEW t \in Txs,
             LockAsset(t) \/ LockEnqueue(t) \/ LockActivate(t) \/ LockReplace(t)
      PROVE  TxInv' /\ IInv' /\ [Next]_vars
  <2>1. UNCHANGED tables
    BY <1>6 DEF LockAsset, LockEnqueue, LockActivate, LockReplace, ToWrite, Refuse
  <2>2. TxInv'
    BY <1>6, LockAssetInv, LockEnqueueInv, LockActivateInv, LockReplaceInv
  <2> QED
    BY <1>1, <2>1, <2>2
<1>7. ASSUME NEW t \in Txs,
             CommitAsset(t) \/ CommitEnqueue(t) \/ CommitActivate(t) \/ CommitReplace(t)
      PROVE  TxInv' /\ IInv' /\ [Next]_vars
  <2>1. Next
    BY <1>7, CommitAssetIsActivate, CommitEnqueueIsEnqueue, CommitActivateIsActivate,
       CommitReplaceIsReplace
  <2>2. IInv' /\ TypeOK'
    BY <1>2, <2>1
  <2>3. /\ tx[t].op \in {"asset", "enqueue", "activate", "replace"}
        /\ tx[t].phase = "write" /\ End(t)
    BY <1>7 DEF CommitAsset, CommitEnqueue, CommitActivate, CommitReplace, Write, In
  <2>4. tx[t] # Idle
    BY <2>3, IdleFacts
  <2>5. assets' = assets \/ (tx[t].op = "asset" /\ assets' = assets \cup {tx[t].arg})
    BY <1>7 DEF CommitAsset, CommitEnqueue, CommitActivate, CommitReplace, Write, In
  <2>6. ASSUME NEW j \in Jobs
        PROVE  \/ requests'[j] = requests[j]
               \/ tx[t].op = "enqueue" /\ j = tx[t].arg
    <3>1. CASE CommitEnqueue(t)
      <4>1. /\ tx[t].op = "enqueue"
            /\ requests' = [requests EXCEPT ![tx[t].arg] =
                              [key |-> tx[t].key, audio |-> tx[t].seen]]
        BY <3>1 DEF CommitEnqueue, In
      <4>2. requests \in [Jobs -> Request \cup {None}]
        BY DEF TypeOK, TxInv, TxTypeOK
      <4> QED
        BY <4>1, <4>2
    <3>2. CASE ~ CommitEnqueue(t)
      BY <1>7, <3>2 DEF CommitAsset, CommitActivate, CommitReplace, Write
    <3> QED
      BY <3>1, <3>2
  <2>7. TxInv'
    BY <2>2, <2>3, <2>4, <2>5, <2>6, CommitInv
  <2> QED
    BY <2>1, <2>2, <2>7
<1> QED
  BY <1>3, <1>4, <1>5, <1>6, <1>7 DEF TxNext

LEMMA TxInitBoth == TxInit => TxInv /\ IInv /\ Init
BY TxInitInv, InitInv DEF TxInit

(***************************************************************************)
(* The invariant of the connections and that of the tables hold together.  *)
(***************************************************************************)
THEOREM TxInvariance == TxSpec => [](TxInv /\ IInv)
BY TxInitBoth, TxNextInv, PTL DEF TxSpec

(***************************************************************************)
(* Type correctness of the tables and of every open transaction.           *)
(***************************************************************************)
THEOREM TxTypeCorrect == TxSpec => []TxTypeOK
<1>1. TxInv => TxTypeOK
  BY DEF TxInv
<1> QED
  BY <1>1, TxInvariance, PTL

(***************************************************************************)
(* The statements and locks of the two repositories implement the atomic   *)
(* operations of ProjectStore: every commit is one operation on the tables *)
(* as they are at that moment, and every other statement changes nothing.  *)
(***************************************************************************)
THEOREM TransactionsImplementStore == TxSpec => ImplementsStore
<1>1. TxInit => TxInv /\ IInv /\ Init
  BY TxInitBoth
<1>2. TxInv /\ IInv /\ [TxNext]_allVars => TxInv' /\ IInv' /\ [Next]_vars
  BY TxNextInv
<1> QED
  BY <1>1, <1>2, PTL DEF TxSpec, ImplementsStore, Spec

(***************************************************************************)
(* No insert meets a duplicate key: activate's number exceeds all others   *)
(* by its own check, replace's because the active revision is the latest.  *)
(***************************************************************************)
THEOREM ConstraintsHold == TxSpec => []ConstraintsNeverFire
<1>1. ASSUME TxInv, IInv PROVE ConstraintsNeverFire
  <2> SUFFICES ASSUME NEW t \in Txs
               PROVE  /\ In(t, "enqueue", "write") => FreeKey(tx[t].key)
                      /\ \A r \in transcripts :
                           /\ In(t, "activate", "write") => r.revision # tx[t].seen
                           /\ In(t, "replace", "write") => r.revision # tx[t].arg + 1
    BY DEF ConstraintsNeverFire
  <2>1. In(t, "enqueue", "write") => FreeKey(tx[t].key)
    BY <1>1 DEF TxInv, Checked, FreeKey
  <2>2. ASSUME NEW r \in transcripts, In(t, "activate", "write")
        PROVE  r.revision # tx[t].seen
    <3>1. r.revision < tx[t].seen /\ r.revision \in 1..MaxRevision
      BY <1>1, <2>2 DEF TxInv, TxTypeOK, TypeOK, Transcript, Checked, IsNextRevision
    <3>2. tx[t].seen \in 0..MaxRevision + 1
      BY <1>1, <2>2 DEF TxInv, TxTypeOK, In, Idle, AssetTx, EnqueueTx, ActivateTx,
         ReplaceTx
    <3> QED
      BY <3>1, <3>2
  <2>3. ASSUME NEW r \in transcripts, In(t, "replace", "write")
        PROVE  r.revision # tx[t].arg + 1
    <3>1. tx[t].arg \in 1..MaxRevision
      BY <1>1, <2>3 DEF TxInv, TxTypeOK, In, Idle, AssetTx, EnqueueTx, ActivateTx,
         ReplaceTx
    <3>2. project.active = tx[t].arg
      BY <1>1, <2>3 DEF TxInv, Checked
    <3>3. r.revision <= tx[t].arg
      BY <1>1, <3>1, <3>2 DEF IInv, History, ActiveIsLatest
    <3> QED
      BY <1>1, <3>1, <3>3 DEF TxInv, TxTypeOK, TypeOK, Transcript
  <2> QED
    BY <2>1, <2>2, <2>3
<1>2. TxInv /\ IInv => ConstraintsNeverFire
  BY <1>1
<1> QED
  BY <1>2, TxInvariance, PTL

(***************************************************************************)
(* The active revision is the newest there is, although a save numbers its *)
(* row from the client's revision and an activation from MAX(revision).    *)
(***************************************************************************)
THEOREM ActiveStaysLatest == TxSpec => []ActiveIsLatest
<1>1. IInv => ActiveIsLatest
  BY DEF IInv, History
<1> QED
  BY <1>1, TxInvariance, PTL

(***************************************************************************)
(* The active transcript is for the project's audio: a late activation and *)
(* a save see under the lock of the row whether it has been replaced.      *)
(***************************************************************************)
THEOREM AudioStaysMatched == TxSpec => []ActiveMatchesAudio
<1>1. IInv => ActiveMatchesAudio
  BY DEF IInv, History
<1> QED
  BY <1>1, TxInvariance, PTL

(***************************************************************************)
(* Revision numbers have neither a duplicate nor a gap.                    *)
(***************************************************************************)
THEOREM RevisionsStayUnbroken == TxSpec => []RevisionsUnbroken
<1>1. IInv => RevisionsUnbroken
  BY DEF IInv, History
<1> QED
  BY <1>1, TxInvariance, PTL

(***************************************************************************)
(* An edit follows the revision its author saw, with its audio and its     *)
(* transcriber metadata: the check of replace and its insert are one step  *)
(* for everybody else.                                                     *)
(***************************************************************************)
THEOREM EditsKeepTheirBase == TxSpec => []EditsFollowTheirBase
<1>1. IInv => EditsFollowTheirBase
  BY DEF IInv, History
<1> QED
  BY <1>1, TxInvariance, PTL

(***************************************************************************)
(* Two requests with one Idempotency-Key never make two jobs, also when    *)
(* both find no job before either inserts one.                             *)
(***************************************************************************)
THEOREM KeysStayUnique == TxSpec => []OneJobPerKey
<1>1. IInv => OneJobPerKey
  BY DEF IInv
<1> QED
  BY <1>1, TxInvariance, PTL

(***************************************************************************)
(* A ready project has both sources, and a transcript that becomes active  *)
(* finds a project with both ready: two uploads of different kinds at the  *)
(* same time do not miss each other.                                       *)
(***************************************************************************)
THEOREM StatusFollowsSources == TxSpec => []ReadyFollowsSources
<1>1. IInv => ReadyFollowsSources
  BY SourcesFacts
<1> QED
  BY <1>1, TxInvariance, PTL
=============================================================================
