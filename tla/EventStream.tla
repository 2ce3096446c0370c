----------------------------- MODULE EventStream -----------------------------
(***************************************************************************)
(* Watching one job over server-sent events: GET /jobs/{id}/events         *)
(* (apps/api stream_job_events) reads job_events by id every tick and      *)
(* sends what is new; the client reads the connection.                     *)
(*                                                                         *)
(* The job is any behaviour of JobFeed, which JobQueue implements.  Here   *)
(* the event's id matters: job_events.id comes from a sequence shared by   *)
(* all jobs, is drawn when the row is inserted and becomes visible when    *)
(* the transaction commits, and is not given back by a rollback.           *)
(*                                                                         *)
(* The client is the web application, which gives up at the first error    *)
(* of its EventSource and closes it at a terminal event, or a client as    *)
(* contracts/openapi.yaml describes it, which connects again with          *)
(* Last-Event-ID (not part of src/) and need not close anything.           *)
(***************************************************************************)
EXTENDS Integers, FiniteSets, SequencesExt

CONSTANTS Job,        \* the job watched
          Limit,      \* rows per query, 100 in the code
          MaxEvents,  \* bound: events of the job, at most 7 in the code
          MaxId,      \* bound: ids the sequence hands out
          Resuming    \* TRUE: the client connects again, FALSE: the web client

ASSUME LimitAssumption  == Limit \in Nat \ {0}
ASSUME BoundsAssumption == MaxEvents \in Nat /\ MaxId \in Nat
ASSUME ClientAssumption == Resuming \in BOOLEAN

VARIABLES status, feed,  \* as in JobFeed
          ids,           \* ids[i]: the id of the i-th event of the job
          nextId,        \* what the sequence hands out next
          open,          \* ids inserted for the job and not committed
          conn,          \* the server's side: its cursor, and the Last-Event-ID it began with
          wire,          \* event ids sent on it and not yet read
          client,        \* "off", "on", or "done" with the EventSource
          received       \* event ids the client has read, in that order

writer == <<status, feed, ids, nextId, open>>
vars   == <<writer, conn, wire, client, received>>

Feed == INSTANCE JobFeed WITH Jobs <- {Job}

Terminal == {"succeeded", "failed"}
Ids      == 1..MaxId

Closed == [state |-> "closed", from |-> 0, cursor |-> 0]

TypeOK ==
  /\ Feed!TypeOK
  /\ ids \in Seq(Ids) /\ Len(ids) = Len(feed[Job])
  /\ nextId \in 1..MaxId + 1
  /\ open \subseteq Ids
  /\ conn \in [state : {"closed", "open", "ended"}, from : 0..MaxId, cursor : 0..MaxId]
  /\ wire \in Seq(Ids)
  /\ client \in {"off", "on", "done"}
  /\ received \in Seq(Ids)

Init ==
  /\ Feed!Init
  /\ ids = <<>>
  /\ nextId = 1
  /\ open = {}
  /\ conn = Closed
  /\ wire = <<>>
  /\ client = "off"
  /\ received = <<>>

-----------------------------------------------------------------------------
(***************************************************************************)
(* The writers.  The UPDATE of the job's row comes before the insert of    *)
(* its event and keeps the row locked until the commit, so that one        *)
(* transaction at a time has an uncommitted event of the job.              *)
(***************************************************************************)
HasRoom == nextId <= MaxId /\ Len(feed[Job]) < MaxEvents

(* Variant: the event is inserted outside of the lock of the job's row. *)
InsertUnlocked ==
  /\ HasRoom
  /\ status[Job] \notin Terminal
  /\ open' = open \cup {nextId}
  /\ nextId' = nextId + 1
  /\ UNCHANGED <<status, feed, ids, conn, wire, client, received>>

Insert ==
  /\ HasRoom
  /\ status[Job] \notin Terminal
  /\ open = {}
  /\ open' = {nextId}
  /\ nextId' = nextId + 1
  /\ UNCHANGED <<status, feed, ids, conn, wire, client, received>>

Commit ==
  \E id \in open :
    /\ Feed!Next
    /\ Len(feed[Job]) = MaxEvents - 1 => status'[Job] \in Terminal
    /\ ids' = Append(ids, id)
    /\ open' = open \ {id}
    /\ UNCHANGED <<nextId, conn, wire, client, received>>

RollBack ==
  /\ open # {}
  /\ \E id \in open : open' = open \ {id}
  /\ UNCHANGED <<status, feed, ids, nextId, conn, wire, client, received>>

(* An event of another job takes an id. *)
OtherJob ==
  /\ nextId <= MaxId
  /\ nextId' = nextId + 1
  /\ UNCHANGED <<status, feed, ids, open, conn, wire, client, received>>

-----------------------------------------------------------------------------
(* stream_job_events *)

LastEventId == IF received = <<>> THEN 0 ELSE Last(received)

Connect ==
  /\ status[Job] # "absent"
  /\ client = "off"
  /\ client' = "on"
  /\ conn' = [state |-> "open", from |-> LastEventId, cursor |-> LastEventId]
  /\ UNCHANGED <<writer, wire, received>>

StatusOf(id) == feed[Job][CHOOSE i \in DOMAIN ids : ids[i] = id]

(* The members of S in the order of their ids. *)
Ordered(S) ==
  [n \in 1..Cardinality(S) |-> CHOOSE id \in S : Cardinality({other \in S : other <= id}) = n]

IdsBehind(cursor) == Ordered({id \in Range(ids) : id > cursor})

AtMost(n) == IF n < Limit THEN n ELSE Limit

(* Variant: the cursor also includes the event it names. *)
EventsFrom(cursor) ==
  LET after == Ordered({id \in Range(ids) : id >= cursor})
  IN  SubSeq(after, 1, AtMost(Len(after)))

(* Variant: the newest events when there are more than the limit. *)
NewestEventsAfter(cursor) ==
  LET after == IdsBehind(cursor)
  IN  SubSeq(after, Len(after) - AtMost(Len(after)) + 1, Len(after))

(* events_after: the first events behind the cursor, in the order of ids. *)
EventsAfter(cursor) ==
  LET after == IdsBehind(cursor)
  IN  SubSeq(after, 1, AtMost(Len(after)))

(* Variant: a terminal event breaks the loop before it is sent. *)
TickBreaksFirst ==
  LET batch == EventsAfter(conn.cursor)
      over  == StatusOf(Last(batch)) \in Terminal
  IN /\ conn.state = "open"
     /\ batch # <<>>
     /\ wire' = wire \o (IF over THEN Front(batch) ELSE batch)
     /\ conn' = [conn EXCEPT !.state = IF over THEN "ended" ELSE "open", !.cursor = Last(batch)]
     /\ UNCHANGED <<writer, client, received>>

(* Variant: the first event of a batch decides whether the stream ends. *)
TickFirstDecides ==
  LET batch == EventsAfter(conn.cursor) IN
  /\ conn.state = "open"
  /\ batch # <<>>
  /\ wire' = wire \o batch
  /\ conn' = [conn EXCEPT
       !.state = IF StatusOf(Head(batch)) \in Terminal THEN "ended" ELSE "open",
       !.cursor = Last(batch)]
  /\ UNCHANGED <<writer, client, received>>

(***************************************************************************)
(* One tick of the stream that finds events: they are sent in order, and   *)
(* the stream ends after a batch whose last event is terminal.             *)
(***************************************************************************)
Tick ==
  LET batch == EventsAfter(conn.cursor) IN
  /\ conn.state = "open"
  /\ batch # <<>>
  /\ wire' = wire \o batch
  /\ conn' = [conn EXCEPT
       !.state = IF StatusOf(Last(batch)) \in Terminal THEN "ended" ELSE "open",
       !.cursor = Last(batch)]
  /\ UNCHANGED <<writer, client, received>>

(***************************************************************************)
(* The query fails: a stream_error event, which no client waits for, and   *)
(* the end of the stream.                                                  *)
(***************************************************************************)
TickError ==
  /\ conn.state = "open"
  /\ conn' = [conn EXCEPT !.state = "ended"]
  /\ UNCHANGED <<writer, wire, client, received>>

-----------------------------------------------------------------------------
(* The client. *)

AfterError == IF Resuming THEN "off" ELSE "done"

Receive ==
  /\ client = "on"
  /\ wire # <<>>
  /\ received' = Append(received, Head(wire))
  /\ \/ /\ StatusOf(Head(wire)) \in Terminal
        /\ client' = "done" /\ conn' = Closed /\ wire' = <<>>
     \/ /\ Resuming \/ StatusOf(Head(wire)) \notin Terminal
        /\ UNCHANGED <<client, conn>> /\ wire' = Tail(wire)
  /\ UNCHANGED writer

(* The connection breaks; what was on its way is lost. *)
Break ==
  /\ client = "on"
  /\ client' = AfterError
  /\ conn' = Closed
  /\ wire' = <<>>
  /\ UNCHANGED <<writer, received>>

(* The client reads the end of a stream the server has closed. *)
EndOfStream ==
  /\ client = "on"
  /\ conn.state = "ended"
  /\ wire = <<>>
  /\ client' = AfterError
  /\ conn' = Closed
  /\ UNCHANGED <<writer, wire, received>>

Next ==
  \/ Insert \/ Commit \/ RollBack \/ OtherJob
  \/ Connect \/ Tick \/ TickError
  \/ Receive \/ Break \/ EndOfStream

Spec == Init /\ [][Next]_vars

(***************************************************************************)
(* Fairness.  The handler of the job goes on and its transactions are not  *)
(* refused for ever; the interval of the stream ticks; an open connection  *)
(* transports, and not every connection breaks before an event got through *)
(* (strong fairness of Receive); a resuming client connects again.  A      *)
(* query is not for ever in error, nothing makes a connection break.       *)
(***************************************************************************)
FairSpec ==
  /\ Spec
  /\ WF_vars(Connect)
  /\ SF_vars(Tick)
  /\ SF_vars(Receive)
  /\ WF_vars(EndOfStream)

-----------------------------------------------------------------------------
(***************************************************************************)
(* What a client has read is, at any time and across its reconnections,    *)
(* the events of the job from the first one on: none is missing, repeated  *)
(* or out of order, although ids have gaps and become visible late.        *)
(***************************************************************************)
ReceivedIsPrefix == IsPrefix(received, ids)

(***************************************************************************)
(* The cursor never passes an event that is still to come: ids become      *)
(* visible in their order within a job.                                    *)
(***************************************************************************)
NoLateEvent ==
  \A id \in open : \A i \in DOMAIN ids : ids[i] < id

(***************************************************************************)
(* A client that was shown the end of the job has seen all of its events,  *)
(* and the last one shows the status the job has.                          *)
(***************************************************************************)
Shown(s) == received # <<>> /\ StatusOf(Last(received)) \in s

EndMeansComplete ==
  Shown(Terminal) =>
    /\ received = ids
    /\ StatusOf(Last(received)) = status[Job]

(***************************************************************************)
(* The stream of a job that has ended has something left to send, or ends, *)
(* so that a shutdown of the API, which waits for its connections, waits   *)
(* for no stream of a finished job.  The exception is the code's: a stream *)
(* asked for from behind the last event never ends.                        *)
(***************************************************************************)
StreamsEnd ==
  conn.state = "open" /\ status[Job] \in Terminal =>
    EventsAfter(conn.cursor) # <<>> \/ conn.from = Last(ids)

(***************************************************************************)
(* A client that connects again with Last-Event-ID is shown the outcome of *)
(* a job that ends, however often its connection breaks.  For the web      *)
(* application it is what contracts/openapi.yaml:427 asks of clients:      *)
(* "Clients should reconnect with `Last-Event-ID` and fall back to GET     *)
(* /jobs/{job_id} when streaming is unavailable".  It does neither.        *)
(***************************************************************************)
LearnsOutcome ==
  (status[Job] \in Terminal) ~> Shown(Terminal)

=============================================================================
