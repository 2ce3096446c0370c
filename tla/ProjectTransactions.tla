------------------------- MODULE ProjectTransactions -------------------------
(***************************************************************************)
(* The transactions of PgAssetRepository and PgTranscriptRepository on the *)
(* tables of ProjectStore, statement by statement where it matters.  The   *)
(* database runs at READ COMMITTED: every statement sees what is committed *)
(* when it starts, a locking read waits for the row and then sees its      *)
(* newest version, and writes become visible at the commit.  Each request  *)
(* of the API and each activation by a worker is a transaction tx[t].      *)
(*                                                                         *)
(* All of them lock the project row and hold it to the end, so that a      *)
(* transaction is: what comes before the row is locked (Begin...), the     *)
(* locking read with the checks that follow it (Lock...), the writes up to *)
(* the commit (Commit...).  It may roll back at any time: an error, a lost *)
(* connection, a crash.  A transaction that is refused ends unchanged.     *)
(***************************************************************************)
EXTENDS ProjectStore

CONSTANT Txs  \* connections of the pool, each in at most one transaction

ASSUME TxsAssumption == None \notin Txs

VARIABLES tx,    \* tx[t]: the transaction of a connection, or Idle
          lock   \* the transaction that holds the project row, or None

tables  == <<project, assets, transcripts, requests>>
allVars == <<tables, tx, lock>>

(***************************************************************************)
(* op and arg say what is asked for: to activate an asset, to enqueue a    *)
(* job with a key, to activate the transcript of a job, to replace the     *)
(* revision of an If-Match header.  seen is what was read for the writes.  *)
(***************************************************************************)
Idle == [op |-> "idle"]

Phases == {"wait", "write"}

AssetTx    == [op : {"asset"}, phase : Phases, seen : {None},
               arg : AudioAssets \cup Backgrounds]
EnqueueTx  == [op : {"enqueue"}, phase : Phases, seen : AudioAssets,
               arg : Jobs, key : Keys]
ActivateTx == [op : {"activate"}, phase : Phases, seen : 0..MaxRevision + 1,
               arg : Jobs]
ReplaceTx  == [op : {"replace"}, phase : Phases, seen : Jobs \cup {None},
               arg : 1..MaxRevision]

TxTypeOK ==
  /\ TypeOK
  /\ lock \in Txs \cup {None}
  /\ tx \in [Txs -> {Idle} \cup AssetTx \cup EnqueueTx \cup ActivateTx \cup ReplaceTx]

TxInit ==
  /\ Init
  /\ tx = [t \in Txs |-> Idle]
  /\ lock = None

In(t, op, phase) == tx[t].op = op /\ tx[t].phase = phase

(* No other transaction was given the same identity. *)
Unused(op, arg) == \A t \in Txs : ~ (tx[t].op = op /\ tx[t].arg = arg)

Begin(t, request) ==
  /\ tx[t] = Idle
  /\ tx' = [tx EXCEPT ![t] = request]
  /\ UNCHANGED <<tables, lock>>

(* Variant: a plain SELECT in the place of SELECT ... FOR UPDATE. *)
ReadProject(t) == lock' = t

LockProject(t) ==
  /\ lock = None
  /\ lock' = t

ToWrite(t, seen) ==
  /\ LockProject(t)
  /\ tx' = [tx EXCEPT ![t].phase = "write", ![t].seen = seen]
  /\ UNCHANGED tables

Refuse(t) ==
  /\ lock = None
  /\ tx' = [tx EXCEPT ![t] = Idle]
  /\ UNCHANGED <<tables, lock>>

End(t) ==
  /\ tx' = [tx EXCEPT ![t] = Idle]
  /\ lock' = IF lock = t THEN None ELSE lock

Rollback(t) ==
  /\ tx[t] # Idle
  /\ End(t)
  /\ UNCHANGED tables

-----------------------------------------------------------------------------
(* An upload: PgAssetRepository::activate. *)

BeginAsset(t) ==
  \E a \in (AudioAssets \cup Backgrounds) \ assets :
    /\ Unused("asset", a)
    /\ Begin(t, [op |-> "asset", phase |-> "wait", arg |-> a, seen |-> None])

LockAsset(t) ==
  /\ In(t, "asset", "wait")
  /\ ToWrite(t, None)

CommitAsset(t) ==
  /\ In(t, "asset", "write")
  /\ assets' = assets \cup {tx[t].arg}
  /\ project' = IF tx[t].arg \in AudioAssets
                THEN WithAudio(project, tx[t].arg)
                ELSE WithBackground(project, tx[t].arg)
  /\ End(t)
  /\ UNCHANGED <<transcripts, requests>>

-----------------------------------------------------------------------------
(***************************************************************************)
(* A transcription request: PgTranscriptRepository::enqueue.  Its locking  *)
(* read joins the project with the audio asset.  If it had to wait, the    *)
(* row is looked at again in its newest version but joined with the asset  *)
(* found before the wait: when the audio was replaced meanwhile no row is  *)
(* left, and the request is refused as if the project had no audio.        *)
(***************************************************************************)
BeginEnqueue(t) ==
  /\ project.audio # None
  /\ \E j \in Jobs, k \in Keys :
       /\ requests[j] = None
       /\ Unused("enqueue", j)
       /\ Begin(t, [op |-> "enqueue", phase |-> "wait", arg |-> j, key |-> k,
                    seen |-> project.audio])

LockEnqueue(t) ==
  /\ In(t, "enqueue", "wait")
  /\ \/ /\ project.audio = tx[t].seen
        /\ JobsWithKey(tx[t].key) = {}
        /\ ToWrite(t, tx[t].seen)
     \/ /\ project.audio # tx[t].seen
        /\ Refuse(t)
     \/ /\ JobsWithKey(tx[t].key) # {}
        /\ Refuse(t)

(* The unique index on (owner_id, project_id, kind, idempotency_key). *)
FreeKey(k) == JobsWithKey(k) = {}

CommitEnqueue(t) ==
  /\ In(t, "enqueue", "write")
  /\ FreeKey(tx[t].key)
  /\ requests' = [requests EXCEPT ![tx[t].arg] =
                    [key |-> tx[t].key, audio |-> tx[t].seen]]
  /\ End(t)
  /\ UNCHANGED <<project, assets, transcripts>>

-----------------------------------------------------------------------------
(***************************************************************************)
(* A worker's result: PgTranscriptRepository::activate.  The row of the    *)
(* job is looked for before the lock; UNIQUE (job_id) and UNIQUE           *)
(* (project_id, revision) guard the insert.                                *)
(***************************************************************************)
BeginActivate(t) ==
  \E j \in Jobs :
    /\ requests[j] # None
    /\ RowOfJob(j) = {}
    /\ Begin(t, [op |-> "activate", phase |-> "wait", arg |-> j, seen |-> 0])

(* Variant: the audio is not compared again under the lock. *)
LockActivateUnchecked(t) ==
  /\ In(t, "activate", "wait")
  /\ \E n \in 1..MaxRevision + 1 : IsNextRevision(n) /\ ToWrite(t, n)

LockActivate(t) ==
  /\ In(t, "activate", "wait")
  /\ \/ /\ project.audio = requests[tx[t].arg].audio
        /\ \E n \in 1..MaxRevision + 1 : IsNextRevision(n) /\ ToWrite(t, n)
     \/ /\ project.audio # requests[tx[t].arg].audio
        /\ Refuse(t)

FreeRevision(n) == n <= MaxRevision /\ \A r \in transcripts : r.revision # n

(* Variant: only the first transcript of an audio becomes active. *)
WriteOnce(t, row) ==
  /\ FreeRevision(row.revision)
  /\ transcripts' = transcripts \cup {row}
  /\ project' = [project EXCEPT !.active = IF @ = 0 THEN row.revision ELSE @]
  /\ End(t)
  /\ UNCHANGED <<assets, requests>>

(* The insert, and the update of the project row that follows it. *)
Write(t, row) ==
  /\ FreeRevision(row.revision)
  /\ transcripts' = transcripts \cup {row}
  /\ project' = [project EXCEPT !.active = row.revision]
  /\ End(t)
  /\ UNCHANGED <<assets, requests>>

CommitActivate(t) ==
  LET j == tx[t].arg IN
  /\ In(t, "activate", "write")
  /\ RowOfJob(j) = {}
  /\ Write(t, [revision |-> tx[t].seen, audio |-> requests[j].audio, job |-> j,
               transcriber |-> j, base |-> project.active])

-----------------------------------------------------------------------------
(* A save with If-Match: PgTranscriptRepository::replace. *)

BeginReplace(t) ==
  \E n \in 1..MaxRevision :
    Begin(t, [op |-> "replace", phase |-> "wait", arg |-> n, seen |-> None])

(* Variant: the base is looked up without its revision. *)
LockReplaceAnyBase(t) ==
  /\ In(t, "replace", "wait")
  /\ project.active = tx[t].arg
  /\ \E base \in transcripts : ToWrite(t, base.transcriber)

LockReplace(t) ==
  /\ In(t, "replace", "wait")
  /\ \/ /\ project.active = tx[t].arg
        /\ project.audio # None
        /\ \E base \in transcripts :
             base.revision = tx[t].arg /\ ToWrite(t, base.transcriber)
     \/ /\ project.active # tx[t].arg
        /\ Refuse(t)

CommitReplace(t) ==
  /\ In(t, "replace", "write")
  /\ project.active = tx[t].arg
  /\ Write(t, [revision |-> tx[t].arg + 1, audio |-> project.audio,
               job |-> None, transcriber |-> tx[t].seen, base |-> project.active])

-----------------------------------------------------------------------------
TxNext ==
  \E t \in Txs :
    \/ BeginAsset(t) \/ LockAsset(t) \/ CommitAsset(t)
    \/ BeginEnqueue(t) \/ LockEnqueue(t) \/ CommitEnqueue(t)
    \/ BeginActivate(t) \/ LockActivate(t) \/ CommitActivate(t)
    \/ BeginReplace(t) \/ LockReplace(t) \/ CommitReplace(t)
    \/ Rollback(t)

TxSpec == TxInit /\ [][TxNext]_allVars

(***************************************************************************)
(* No request fails on a constraint of the schema that its own checks      *)
(* should have noticed: the revision number computed under the lock, from  *)
(* MAX(revision) or from the header, and the idempotency key looked up     *)
(* under the lock, are still free at the insert.                           *)
(***************************************************************************)
ConstraintsNeverFire ==
  \A t \in Txs :
    /\ In(t, "enqueue", "write") => FreeKey(tx[t].key)
    /\ \A r \in transcripts :
         /\ In(t, "activate", "write") => r.revision # tx[t].seen
         /\ In(t, "replace", "write") => r.revision # tx[t].arg + 1

(***************************************************************************)
(* The transactions take effect one after the other: each commit is one    *)
(* operation of ProjectStore on the tables as they are at that moment.     *)
(***************************************************************************)
ImplementsStore == Spec
=============================================================================
