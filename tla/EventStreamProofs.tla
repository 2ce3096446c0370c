-------------------------- MODULE EventStreamProofs --------------------------
(***************************************************************************)
(* What a client of the event stream reads, for every limit of a batch,    *)
(* number of events and pattern of broken connections.                     *)
(*                                                                         *)
(* The argument: the ids of a job rise in the order of their commits,      *)
(* because the row of the job is locked from the insert to the commit.  So *)
(* the events behind the cursor are a suffix of the events of the job, and *)
(* what was read, followed by what is on its way, is a prefix of them.     *)
(***************************************************************************)
EXTENDS EventStream, FiniteSetTheorems, SequenceTheorems, TLAPS

(* Event ids rise. *)
Rising(s) == \A i, j \in DOMAIN s : i < j => s[i] < s[j]

(***************************************************************************)
(* The events behind a cursor                                              *)
(***************************************************************************)

(* The i-th of rising ids has rank i among those behind position k. *)
LEMMA RankOfId ==
  ASSUME NEW s \in Seq(Ids), Rising(s), NEW k \in 0..Len(s), NEW i \in k..Len(s)
  PROVE  /\ IsFiniteSet({s[m] : m \in k + 1..i})
         /\ Cardinality({s[m] : m \in k + 1..i}) = i - k
<1> DEFINE T == {s[m] : m \in k + 1..i}
           f == [m \in k + 1..i |-> s[m]]
<1>0. /\ k \in Nat /\ i \in Nat /\ Len(s) \in Nat /\ k <= i /\ i <= Len(s)
      /\ DOMAIN s = 1..Len(s) /\ \A m \in 1..Len(s) : s[m] \in Int
  BY BoundsAssumption DEF Ids
<1>1. IsFiniteSet(k + 1..i) /\ Cardinality(k + 1..i) = i - k
  <2>1. k + 1 \in Int /\ i \in Int
    BY <1>0
  <2>2. /\ IsFiniteSet(k + 1..i)
        /\ Cardinality(k + 1..i) = IF k + 1 > i THEN 0 ELSE i - (k + 1) + 1
    BY <2>1, FS_Interval, Zenon
  <2> QED BY <1>0, <2>2
<1>2. f \in Bijection(k + 1..i, T)
  <2>1. f \in [k + 1..i -> T]
    OBVIOUS
  <2>2. \A a, b \in k + 1..i : a # b => s[a] # s[b]
    <3> TAKE a, b \in k + 1..i
    <3>1. a \in 1..Len(s) /\ b \in 1..Len(s)
      BY <1>0
    <3>2. (a < b => s[a] < s[b]) /\ (b < a => s[b] < s[a])
      BY <1>0, <3>1 DEF Rising
    <3> QED BY <1>0, <3>1, <3>2
  <2>3. f \in Injection(k + 1..i, T)
    BY <2>1, <2>2 DEF Injection, IsInjective
  <2>4. f \in Surjection(k + 1..i, T)
    BY <2>1 DEF Surjection
  <2> QED BY <2>3, <2>4 DEF Bijection
<1>3. ExistsBijection(k + 1..i, T)
  BY <1>2 DEF ExistsBijection
<1> QED BY <1>1, <1>3, FS_Bijection

(* The ids behind position k, in their order, are the rest of the ids. *)
LEMMA OrderedRest ==
  ASSUME NEW s \in Seq(Ids), Rising(s), NEW k \in 0..Len(s)
  PROVE  Ordered({s[m] : m \in k + 1..Len(s)}) = [n \in 1..Len(s) - k |-> s[k + n]]
<1> DEFINE S == {s[m] : m \in k + 1..Len(s)}
           Below(id) == {other \in S : other <= id}
<1>0. /\ k \in Nat /\ Len(s) \in Nat /\ k <= Len(s)
      /\ DOMAIN s = 1..Len(s) /\ \A m \in 1..Len(s) : s[m] \in Int
  BY BoundsAssumption DEF Ids
<1>1. Cardinality(S) = Len(s) - k
  <2>1. Len(s) \in k..Len(s)
    BY <1>0
  <2> QED BY <2>1, RankOfId
<1>2. \A i \in k + 1..Len(s) : Cardinality(Below(s[i])) = i - k
  <2> TAKE i \in k + 1..Len(s)
  <2>1. \A m \in k + 1..Len(s) : s[m] <= s[i] <=> m <= i
    <3> TAKE m \in k + 1..Len(s)
    <3>1. m \in 1..Len(s) /\ i \in 1..Len(s)
      BY <1>0
    <3>2. (m < i => s[m] < s[i]) /\ (i < m => s[i] < s[m])
      BY <1>0, <3>1 DEF Rising
    <3> QED BY <1>0, <3>1, <3>2
  <2>2. Below(s[i]) = {s[m] : m \in k + 1..i}
    BY <2>1
  <2>3. i \in k..Len(s)
    OBVIOUS
  <2> HIDE DEF Below
  <2> QED BY <2>2, <2>3, RankOfId
<1>3. \A n \in 1..Len(s) - k :
        (CHOOSE id \in S : Cardinality(Below(id)) = n) = s[k + n]
  <2> TAKE n \in 1..Len(s) - k
  <2>1. s[k + n] \in S /\ Cardinality(Below(s[k + n])) = n
    <3>1. k + n \in k + 1..Len(s)
      OBVIOUS
    <3> HIDE DEF Below
    <3> QED BY <1>2, <3>1
  <2>2. ASSUME NEW id \in S, Cardinality(Below(id)) = n
        PROVE  id = s[k + n]
    <3>1. PICK m \in k + 1..Len(s) : id = s[m]
      OBVIOUS
    <3> HIDE DEF Below, S
    <3>2. m - k = n
      BY <1>2, <2>2, <3>1
    <3> QED BY <3>1, <3>2
  <2> HIDE DEF Below, S
  <2> QED BY <2>1, <2>2
<1> HIDE DEF Below, S
<1>4. Ordered(S) = [n \in 1..Cardinality(S) |-> CHOOSE id \in S : Cardinality(Below(id)) = n]
  BY DEF Ordered, Below
<1> QED BY <1>1, <1>3, <1>4 DEF S

(* events_after: the next events behind position k, as many as the limit allows. *)
LEMMA NextEvents ==
  ASSUME ids \in Seq(Ids), Rising(ids), NEW k \in 0..Len(ids),
         NEW cursor, cursor = IF k = 0 THEN 0 ELSE ids[k]
  PROVE  /\ EventsAfter(cursor) \in Seq(Ids)
         /\ Len(EventsAfter(cursor)) = AtMost(Len(ids) - k)
         /\ \A n \in 1..Len(EventsAfter(cursor)) : EventsAfter(cursor)[n] = ids[k + n]
<1> DEFINE rest == [n \in 1..Len(ids) - k |-> ids[k + n]]
<1>0. /\ k \in Nat /\ Len(ids) \in Nat /\ k <= Len(ids)
      /\ DOMAIN ids = 1..Len(ids)
      /\ \A m \in 1..Len(ids) : ids[m] \in Ids /\ ids[m] \in Int /\ ids[m] > 0
  BY BoundsAssumption DEF Ids
<1>1. {id \in Range(ids) : id > cursor} = {ids[m] : m \in k + 1..Len(ids)}
  <2>1. \A m \in 1..Len(ids) : ids[m] > cursor <=> m >= k + 1
    <3> TAKE m \in 1..Len(ids)
    <3>1. CASE k = 0
      BY <1>0, <3>1
    <3>2. CASE k # 0
      <4>1. (m < k => ids[m] < ids[k]) /\ (k < m => ids[k] < ids[m])
        BY <1>0, <3>2 DEF Rising
      <4> QED BY <1>0, <3>2, <4>1
    <3> QED BY <3>1, <3>2
  <2>2. Range(ids) = {ids[m] : m \in 1..Len(ids)}
    BY <1>0 DEF Range
  <2> QED BY <1>0, <2>1, <2>2
<1>2. IdsBehind(cursor) = rest
  BY <1>1, OrderedRest DEF IdsBehind
<1>3. rest \in Seq(Ids) /\ Len(rest) = Len(ids) - k
  <2>1. \A n \in 1..Len(ids) - k : k + n \in 1..Len(ids)
    BY <1>0
  <2> QED BY <1>0, <2>1
<1>4. \A n \in 1..Len(ids) - k : rest[n] = ids[k + n]
  OBVIOUS
<1> HIDE DEF rest
<1>5. EventsAfter(cursor) = SubSeq(rest, 1, AtMost(Len(ids) - k))
  BY <1>2, <1>3 DEF EventsAfter
<1>6. AtMost(Len(ids) - k) \in 0..Len(ids) - k
  BY <1>0, LimitAssumption DEF AtMost
<1>7. PICK m \in 0..Len(ids) - k : m = AtMost(Len(ids) - k)
  BY <1>6
<1>8. /\ SubSeq(rest, 1, m) \in Seq(Ids) /\ Len(SubSeq(rest, 1, m)) = m
      /\ \A n \in 1..m : SubSeq(rest, 1, m)[n] = rest[n]
  BY <1>0, <1>3
<1>9. \A n \in 1..m : n \in 1..Len(ids) - k
  BY <1>0
<1> QED BY <1>4, <1>5, <1>7, <1>8, <1>9

-----------------------------------------------------------------------------
(***************************************************************************)
(* The inductive invariant                                                 *)
(***************************************************************************)

(* Ids become visible in their order; the one being written is the newest. *)
IdsRise ==
  /\ Rising(ids)
  /\ \A id \in Range(ids) \cup open : id < nextId
  /\ \A a, b \in open : a = b

(* Only the last event is terminal, and it shows the status of the row. *)
FeedShape ==
  /\ status[Job] = "absent" <=> ids = <<>>
  /\ \A i \in 1..Len(ids) - 1 : feed[Job][i] \notin Terminal
  /\ ids # <<>> => feed[Job][Len(ids)] = status[Job]

(* What was read, followed by what is on its way, is where the job begins. *)
Sent == Len(received) + Len(wire)

SentInOrder ==
  /\ Sent <= Len(ids)
  /\ \A i \in 1..Len(received) : received[i] = ids[i]
  /\ \A i \in 1..Len(wire) : wire[i] = ids[Len(received) + i]

(* The cursor is the last event sent; a stream that passed the end was asked for there. *)
Connection ==
  /\ client = "on" <=> conn.state # "closed"
  /\ conn.state = "closed" => wire = <<>>
  /\ conn.state # "closed" => conn.cursor = IF Sent = 0 THEN 0 ELSE ids[Sent]
  /\ conn.state = "open" /\ Sent > 0 =>
       (feed[Job][Sent] \in Terminal => conn.from = ids[Len(ids)])

IInv == TypeOK /\ IdsRise /\ NoLateEvent /\ FeedShape /\ SentInOrder /\ Connection

LEMMA StatusOfPosition ==
  ASSUME TypeOK, Rising(ids), NEW i \in 1..Len(ids)
  PROVE  StatusOf(ids[i]) = feed[Job][i]
<1>1. DOMAIN ids = 1..Len(ids) /\ \A j \in 1..Len(ids) : ids[j] \in Int
  BY BoundsAssumption DEF TypeOK, Ids
<1>2. \A j \in DOMAIN ids : ids[j] = ids[i] => j = i
  <2> TAKE j \in DOMAIN ids
  <2>1. (j < i => ids[j] < ids[i]) /\ (i < j => ids[i] < ids[j])
    BY <1>1 DEF Rising
  <2> QED BY <1>1, <2>1
<1> QED BY <1>1, <1>2 DEF StatusOf

(* A committed change of the row appends its status, and none follows the end. *)
LEMMA FeedStep ==
  ASSUME TypeOK, Feed!Next
  PROVE  \E to \in {"queued", "running"} \cup Terminal :
           /\ status[Job] \notin Terminal
           /\ status' = [status EXCEPT ![Job] = to]
           /\ feed' = [feed EXCEPT ![Job] = Append(@, to)]
BY DEF TypeOK, Feed!TypeOK, Feed!Next, Feed!Submit, Feed!Claim, Feed!Advance, Feed!Settle,
       Feed!Record, Feed!Terminal, Feed!Statuses, Terminal

LEMMA InitIInv == ASSUME Init PROVE IInv
<1> USE BoundsAssumption DEF Init
<1>1. TypeOK
  BY DEF TypeOK, Feed!Init, Feed!TypeOK, Feed!Statuses, Closed, Ids
<1>2. IdsRise /\ NoLateEvent
  BY DEF IdsRise, Rising, NoLateEvent, Range
<1>3. FeedShape
  BY DEF FeedShape, Feed!Init
<1>4. SentInOrder /\ Connection
  BY DEF SentInOrder, Connection, Sent, Closed
<1> QED BY <1>1, <1>2, <1>3, <1>4 DEF IInv

(***************************************************************************)
(* The writers: rows and ids change, the connection does not.              *)
(***************************************************************************)

LEMMA InsertIInv ==
  ASSUME IInv, Insert \/ OtherJob \/ RollBack
  PROVE  IInv'
<1>0. /\ UNCHANGED <<status, feed, ids, conn, wire, client, received>>
      /\ nextId \in Nat /\ nextId' \in nextId..nextId + 1 /\ nextId' <= MaxId + 1
      /\ open' \subseteq open \/ (open = {} /\ open' = {nextId} /\ nextId' = nextId + 1)
  BY BoundsAssumption DEF IInv, TypeOK, Insert, OtherJob, RollBack, HasRoom
<1>1. TypeOK'
  <2>1. open' \subseteq Ids
    <3>1. open \subseteq Ids
      BY DEF IInv, TypeOK
    <3>2. nextId' = nextId + 1 => nextId \in Ids
      BY <1>0, BoundsAssumption DEF IInv, TypeOK, Ids
    <3> QED BY <1>0, <3>1, <3>2
  <2>2. nextId' \in 1..MaxId + 1
    BY <1>0, BoundsAssumption DEF IInv, TypeOK
  <2>3. Feed!TypeOK'
    BY <1>0 DEF IInv, TypeOK, Feed!TypeOK
  <2> QED BY <1>0, <2>1, <2>2, <2>3 DEF IInv, TypeOK
<1>2. IdsRise' /\ NoLateEvent'
  <2>1. \A id \in Range(ids) \cup open : id \in Int
    <3>1. \A i \in DOMAIN ids : ids[i] \in Ids
      BY DEF IInv, TypeOK
    <3>2. Range(ids) \subseteq Ids
      BY <3>1 DEF Range
    <3>3. open \subseteq Ids
      BY DEF IInv, TypeOK
    <3>4. Ids \subseteq Int
      BY BoundsAssumption DEF Ids
    <3> QED BY <3>2, <3>3, <3>4
  <2>2. \A i \in DOMAIN ids : ids[i] \in Range(ids)
    BY DEF Range
  <2>3. \A id \in Range(ids) \cup open : id < nextId'
    BY <1>0, <2>1 DEF IInv, IdsRise
  <2>4. Rising(ids)'
    BY <1>0 DEF IInv, IdsRise, Rising
  <2>5. \A a, b \in open' : a = b
    BY <1>0 DEF IInv, IdsRise
  <2>6. Range(ids)' = Range(ids)
    BY <1>0 DEF Range
  <2>7. \A id \in Range(ids) \cup open' : id < nextId'
    BY <1>0, <2>3
  <2>8. NoLateEvent'
    BY <1>0, <2>2, <2>3 DEF IInv, IdsRise, NoLateEvent
  <2> QED BY <2>4, <2>5, <2>6, <2>7, <2>8 DEF IdsRise
<1>3. FeedShape' /\ SentInOrder' /\ Connection'
  BY <1>0 DEF IInv, FeedShape, SentInOrder, Connection, Sent
<1> QED BY <1>1, <1>2, <1>3 DEF IInv

LEMMA CommitIInv ==
  ASSUME IInv, Commit
  PROVE  IInv'
<1>1. PICK id \in open :
        /\ Feed!Next
        /\ ids' = Append(ids, id)
        /\ open' = open \ {id}
        /\ UNCHANGED <<nextId, conn, wire, client, received>>
  BY DEF Commit
<1>2. PICK to \in {"queued", "running"} \cup Terminal :
        /\ status[Job] \notin Terminal
        /\ status' = [status EXCEPT ![Job] = to]
        /\ feed' = [feed EXCEPT ![Job] = Append(@, to)]
  BY <1>1, FeedStep DEF IInv
<1>3. /\ TypeOK /\ Len(ids) \in Nat /\ Len(received) \in Nat /\ Len(wire) \in Nat
      /\ DOMAIN ids = 1..Len(ids) /\ \A i \in 1..Len(ids) : ids[i] \in Ids
      /\ id \in Ids
  BY <1>1 DEF IInv, TypeOK
<1>4. /\ feed[Job] \in Seq(Feed!Statuses) /\ Len(feed[Job]) = Len(ids)
      /\ feed'[Job] = Append(feed[Job], to) /\ status'[Job] = to
  BY <1>2 DEF IInv, TypeOK, Feed!TypeOK
<1>5. /\ ids' \in Seq(Ids) /\ Len(ids') = Len(ids) + 1 /\ ids'[Len(ids) + 1] = id
      /\ DOMAIN ids' = 1..Len(ids) + 1
      /\ \A i \in 1..Len(ids) : ids'[i] = ids[i]
  BY <1>1, <1>3 DEF TypeOK
<1>6. /\ Len(feed'[Job]) = Len(ids) + 1 /\ feed'[Job][Len(ids) + 1] = to
      /\ \A i \in 1..Len(ids) : feed'[Job][i] = feed[Job][i]
  BY <1>3, <1>4
<1>7. TypeOK'
  <2>1. to \in Feed!Statuses
    BY DEF Feed!Statuses, Feed!Terminal, Terminal
  <2>2. Feed!TypeOK'
    BY <1>2, <1>4, <2>1 DEF IInv, TypeOK, Feed!TypeOK
  <2> QED BY <1>1, <1>3, <1>5, <1>6, <2>2 DEF TypeOK
<1>8. IdsRise' /\ NoLateEvent'
  <2>1. \A i \in 1..Len(ids) : ids[i] < id
    BY <1>1, <1>3 DEF IInv, NoLateEvent
  <2>2. Rising(ids')
    <3> SUFFICES ASSUME NEW i \in 1..Len(ids) + 1, NEW j \in 1..Len(ids) + 1, i < j
                 PROVE  ids'[i] < ids'[j]
      BY <1>5 DEF Rising
    <3>1. CASE j \in 1..Len(ids)
      BY <1>3, <1>5, <3>1 DEF IInv, IdsRise, Rising
    <3>2. CASE j = Len(ids) + 1
      BY <1>3, <1>5, <2>1, <3>2
    <3> QED BY <1>3, <3>1, <3>2
  <2>3. open' = {}
    BY <1>1 DEF IInv, IdsRise
  <2>4. \A x \in Range(ids') : x < nextId
    BY <1>1, <1>3, <1>5 DEF IInv, IdsRise, Range
  <2> QED BY <1>1, <2>2, <2>3, <2>4 DEF IdsRise, NoLateEvent, Rising, Range
<1>9. FeedShape'
  <2>1. \A i \in 1..Len(ids) : feed[Job][i] \notin Terminal
    BY <1>2, <1>3 DEF IInv, FeedShape
  <2>2. to # "absent" /\ ids' # <<>>
    BY <1>1, <1>3, <1>5 DEF Terminal
  <2> QED BY <1>3, <1>4, <1>5, <1>6, <2>1, <2>2 DEF FeedShape
<1>10. SentInOrder'
  BY <1>1, <1>3, <1>5 DEF IInv, SentInOrder, Sent
<1>11. Connection'
  <2>1. Sent' = Sent /\ Sent \in Nat /\ Sent <= Len(ids)
    BY <1>1, <1>3 DEF IInv, SentInOrder, Sent
  <2>2. Sent > 0 => feed'[Job][Sent] \notin Terminal /\ ids'[Sent] = ids[Sent]
    BY <1>2, <1>3, <1>5, <1>6, <2>1 DEF IInv, FeedShape
  <2> QED BY <1>1, <2>1, <2>2 DEF IInv, Connection
<1> QED BY <1>7, <1>8, <1>9, <1>10, <1>11 DEF IInv

(***************************************************************************)
(* The connection: the rows do not change.                                 *)
(***************************************************************************)

(* What the steps of the connection have in common. *)
LEMMA RowsUnchanged ==
  ASSUME IInv, UNCHANGED writer
  PROVE  /\ IdsRise' /\ NoLateEvent' /\ FeedShape'
         /\ Feed!TypeOK' /\ ids' \in Seq(Ids) /\ Len(ids') = Len(feed'[Job])
         /\ nextId' \in 1..MaxId + 1 /\ open' \subseteq Ids
BY DEF IInv, TypeOK, Feed!TypeOK, IdsRise, Rising, Range, NoLateEvent, FeedShape, writer

LEMMA ConnectIInv ==
  ASSUME IInv, Connect
  PROVE  IInv'
<1>1. /\ UNCHANGED writer /\ wire' = wire /\ received' = received /\ client' = "on"
      /\ conn' = [state |-> "open", from |-> LastEventId, cursor |-> LastEventId]
      /\ conn.state = "closed" /\ wire = <<>>
  BY DEF IInv, Connect, Connection, TypeOK
<1>2. /\ Len(received) \in Nat /\ Len(ids) \in Nat /\ Sent = Len(received) /\ Sent <= Len(ids)
      /\ \A i \in 1..Len(ids) : ids[i] \in Ids
  BY <1>1 DEF IInv, TypeOK, Sent, SentInOrder
<1>3. LastEventId = IF Sent = 0 THEN 0 ELSE ids[Sent]
  BY <1>1, <1>2 DEF IInv, TypeOK, LastEventId, Last, SentInOrder
<1>4. LastEventId \in 0..MaxId
  BY <1>2, <1>3, BoundsAssumption DEF Ids
<1>5. TypeOK'
  BY <1>1, <1>4, RowsUnchanged DEF IInv, TypeOK
<1>6. Sent' = Sent /\ SentInOrder'
  BY <1>1 DEF IInv, Sent, SentInOrder, writer
<1>7. Sent > 0 /\ feed[Job][Sent] \in Terminal => Sent = Len(ids)
  BY <1>2 DEF IInv, FeedShape
<1>8. Connection'
  BY <1>1, <1>2, <1>3, <1>6, <1>7 DEF Connection, writer
<1> QED BY <1>1, <1>5, <1>6, <1>8, RowsUnchanged DEF IInv

LEMMA TickIInv ==
  ASSUME IInv, Tick
  PROVE  IInv'
<1> DEFINE batch == EventsAfter(conn.cursor)
<1>1. /\ UNCHANGED writer /\ client' = client /\ received' = received
      /\ conn.state = "open" /\ batch # <<>> /\ wire' = wire \o batch
      /\ conn' = [conn EXCEPT
           !.state = IF StatusOf(Last(batch)) \in Terminal THEN "ended" ELSE "open",
           !.cursor = Last(batch)]
  BY DEF Tick
<1>2. /\ Len(received) \in Nat /\ Len(ids) \in Nat /\ Len(wire) \in Nat
      /\ Sent \in 0..Len(ids) /\ ids \in Seq(Ids) /\ Rising(ids)
  BY DEF IInv, TypeOK, Sent, SentInOrder, IdsRise
<1>3. conn.cursor = IF Sent = 0 THEN 0 ELSE ids[Sent]
  BY <1>1 DEF IInv, Connection
<1>4. /\ batch \in Seq(Ids) /\ Len(batch) = AtMost(Len(ids) - Sent)
      /\ \A n \in 1..Len(batch) : batch[n] = ids[Sent + n]
  BY <1>2, <1>3, NextEvents
<1> HIDE DEF batch
<1>5. /\ Len(batch) \in 1..Len(ids) - Sent
      /\ Last(batch) = ids[Sent + Len(batch)]
  <2>1. Len(batch) \in Nat /\ Len(batch) # 0
    BY <1>1, <1>4
  <2>2. Len(batch) <= Len(ids) - Sent
    BY <1>2, <1>4, LimitAssumption DEF AtMost
  <2> QED BY <1>2, <1>4, <2>1, <2>2 DEF Last
<1>6. /\ Len(wire \o batch) = Len(wire) + Len(batch)
      /\ \A i \in 1..Len(wire) + Len(batch) :
           (wire \o batch)[i] = IF i <= Len(wire) THEN wire[i] ELSE batch[i - Len(wire)]
  <2>1. wire \in Seq(Ids)
    BY DEF IInv, TypeOK
  <2> QED BY <1>4, <2>1, ConcatProperties
<1>7. Sent + Len(batch) \in 1..Len(ids) /\ Sent' = Sent + Len(batch)
  <2>1. Sent' = Len(received) + Len(wire \o batch)
    BY <1>1 DEF Sent
  <2> QED BY <1>2, <1>5, <1>6, <2>1 DEF Sent
<1>8. Last(batch) \in 0..MaxId
  BY <1>2, <1>5, <1>7, BoundsAssumption DEF Ids
<1>9. wire' \in Seq(Ids)
  BY <1>1, <1>4 DEF IInv, TypeOK
<1>10. TypeOK'
  BY <1>1, <1>8, <1>9, RowsUnchanged DEF IInv, TypeOK
<1>11. SentInOrder'
  <2>1. \A i \in 1..Len(wire) + Len(batch) :
          wire'[i] = IF i <= Len(wire) THEN wire[i] ELSE batch[i - Len(wire)]
    BY <1>1, <1>6
  <2>2. Len(wire') = Len(wire) + Len(batch)
    BY <1>1, <1>6
  <2>3. \A i \in 1..Len(wire') : wire'[i] = ids[Len(received) + i]
    <3> TAKE i \in 1..Len(wire')
    <3>1. CASE i <= Len(wire)
      BY <1>2, <1>5, <2>1, <2>2, <3>1 DEF IInv, SentInOrder
    <3>2. CASE i > Len(wire)
      <4>1. i - Len(wire) \in 1..Len(batch) /\ Sent + (i - Len(wire)) = Len(received) + i
        BY <1>2, <1>5, <2>2, <3>2 DEF Sent
      <4> QED BY <1>4, <1>5, <1>2, <2>1, <2>2, <3>2, <4>1
    <3> QED BY <1>2, <1>5, <2>2, <3>1, <3>2
  <2> QED BY <1>1, <1>7, <2>3 DEF IInv, SentInOrder, writer
<1>12. Connection'
  <2>1. StatusOf(Last(batch)) = feed[Job][Sent']
    BY <1>2, <1>5, <1>7, StatusOfPosition DEF IInv
  <2>2. /\ conn'.state = IF feed[Job][Sent'] \in Terminal THEN "ended" ELSE "open"
        /\ conn'.cursor = ids[Sent'] /\ conn'.from = conn.from
    BY <1>1, <1>5, <1>7, <2>1 DEF IInv, TypeOK
  <2>3. client' = "on"
    BY <1>1 DEF IInv, Connection
  <2> QED BY <1>1, <1>2, <1>7, <2>2, <2>3 DEF Connection, writer
<1> QED BY <1>1, <1>10, <1>11, <1>12, RowsUnchanged DEF IInv

LEMMA ReceiveIInv ==
  ASSUME IInv, Receive
  PROVE  IInv'
<1>1. /\ UNCHANGED writer /\ client = "on" /\ wire # <<>>
      /\ received' = Append(received, Head(wire))
      /\ \/ client' = "done" /\ conn' = Closed /\ wire' = <<>>
         \/ client' = client /\ conn' = conn /\ wire' = Tail(wire)
  BY DEF Receive
<1>2. /\ Len(received) \in Nat /\ Len(ids) \in Nat /\ Len(wire) \in Nat \ {0}
      /\ Head(wire) = wire[1] /\ Head(wire) \in Ids
  BY <1>1 DEF IInv, TypeOK
<1>3. /\ received' \in Seq(Ids) /\ Len(received') = Len(received) + 1
      /\ \A i \in 1..Len(received) : received'[i] = received[i]
      /\ received'[Len(received) + 1] = ids[Len(received) + 1]
  BY <1>1, <1>2 DEF IInv, TypeOK, SentInOrder
<1>4. \A i \in 1..Len(received') : received'[i] = ids[i]
  BY <1>2, <1>3 DEF IInv, SentInOrder
<1>5. Sent \in Nat /\ Sent <= Len(ids) /\ Len(received') <= Sent
  BY <1>2, <1>3 DEF IInv, Sent, SentInOrder
<1>6. CASE client' = "done" /\ conn' = Closed /\ wire' = <<>>
  <2>1. TypeOK'
    BY <1>1, <1>3, <1>6, BoundsAssumption, RowsUnchanged DEF TypeOK, Closed
  <2>2. SentInOrder'
    BY <1>1, <1>2, <1>3, <1>4, <1>5, <1>6 DEF SentInOrder, Sent, writer
  <2>3. Connection'
    BY <1>6 DEF Connection, Closed
  <2> QED BY <1>1, <2>1, <2>2, <2>3, RowsUnchanged DEF IInv
<1>7. CASE client' = client /\ conn' = conn /\ wire' = Tail(wire)
  <2>1. /\ wire' \in Seq(Ids) /\ Len(wire') = Len(wire) - 1
        /\ \A i \in 1..Len(wire') : wire'[i] = wire[i + 1]
    BY <1>1, <1>7 DEF IInv, TypeOK
  <2>2. Sent' = Sent
    BY <1>2, <1>3, <2>1 DEF Sent
  <2>3. TypeOK'
    BY <1>1, <1>3, <1>7, <2>1, RowsUnchanged DEF IInv, TypeOK
  <2>4. SentInOrder'
    <3>1. \A i \in 1..Len(wire') : i + 1 \in 1..Len(wire)
      BY <1>2, <2>1
    <3>2. \A i \in 1..Len(wire') : wire'[i] = ids[Len(received) + (i + 1)]
      BY <2>1, <3>1 DEF IInv, SentInOrder
    <3>3. \A i \in 1..Len(wire') : Len(received) + (i + 1) = Len(received') + i
      BY <1>2, <1>3, <2>1
    <3>4. \A i \in 1..Len(wire') : wire'[i] = ids[Len(received') + i]
      BY <3>2, <3>3
    <3> QED BY <1>1, <1>4, <1>5, <2>2, <3>4 DEF SentInOrder, writer
  <2>5. Connection'
    BY <1>1, <1>7, <2>2 DEF IInv, Connection, writer
  <2> QED BY <1>1, <2>3, <2>4, <2>5, RowsUnchanged DEF IInv
<1> QED BY <1>1, <1>6, <1>7

LEMMA CutIInv ==
  ASSUME IInv, TickError \/ Break \/ EndOfStream
  PROVE  IInv'
<1>1. /\ UNCHANGED writer /\ received' = received
      /\ \/ conn.state = "open" /\ conn' = [conn EXCEPT !.state = "ended"]
            /\ wire' = wire /\ client' = client
         \/ client' = AfterError /\ conn' = Closed /\ wire' = <<>>
  BY DEF TickError, Break, EndOfStream
<1>2. AfterError \in {"off", "done"}
  BY DEF AfterError
<1>3. TypeOK'
  <2>1. /\ Closed \in [state : {"closed", "open", "ended"}, from : 0..MaxId, cursor : 0..MaxId]
        /\ [conn EXCEPT !.state = "ended"]
             \in [state : {"closed", "open", "ended"}, from : 0..MaxId, cursor : 0..MaxId]
    BY BoundsAssumption, SMTT(30) DEF IInv, TypeOK, Closed
  <2>2. wire \in Seq(Ids) /\ <<>> \in Seq(Ids) /\ client \in {"off", "on", "done"}
    BY DEF IInv, TypeOK
  <2>3. wire' \in Seq(Ids) /\ client' \in {"off", "on", "done"}
    BY <1>1, <1>2, <2>2
  <2>4. conn' \in [state : {"closed", "open", "ended"}, from : 0..MaxId, cursor : 0..MaxId]
    BY <1>1, <2>1
  <2> QED BY <1>1, <2>3, <2>4, RowsUnchanged DEF IInv, TypeOK
<1>4. Len(received) \in Nat /\ Len(wire) \in Nat /\ Len(ids) \in Nat /\ wire' \in {wire, <<>>}
  BY <1>1 DEF IInv, TypeOK
<1>5. SentInOrder'
  BY <1>1, <1>4 DEF IInv, SentInOrder, Sent, writer
<1>6. Connection'
  <2>1. CASE conn.state = "open" /\ conn' = [conn EXCEPT !.state = "ended"]
             /\ wire' = wire /\ client' = client
    <3>1. conn'.state = "ended" /\ conn'.cursor = conn.cursor
      BY <2>1 DEF IInv, TypeOK
    <3> QED BY <1>1, <2>1, <3>1 DEF IInv, Connection, Sent, writer
  <2>2. CASE client' = AfterError /\ conn' = Closed /\ wire' = <<>>
    BY <1>2, <2>2 DEF Connection, Closed
  <2> QED BY <1>1, <2>1, <2>2
<1> QED BY <1>1, <1>3, <1>5, <1>6, RowsUnchanged DEF IInv

LEMMA NextIInv == ASSUME IInv, [Next]_vars PROVE IInv'
<1>1. CASE UNCHANGED vars
  <2>1. UNCHANGED <<writer, conn, wire, client, received>>
    BY <1>1 DEF vars
  <2> QED BY <2>1, RowsUnchanged DEF IInv, TypeOK, SentInOrder, Connection, Sent, writer
<1> QED BY <1>1, InsertIInv, CommitIInv, ConnectIInv, TickIInv, ReceiveIInv, CutIInv DEF Next

LEMMA InvariantHolds == Spec => []IInv
<1>1. Init => IInv
  BY InitIInv
<1>2. IInv /\ [Next]_vars => IInv'
  BY NextIInv
<1> QED BY <1>1, <1>2, PTL DEF Spec

-----------------------------------------------------------------------------
(***************************************************************************)
(* Results                                                                 *)
(***************************************************************************)

(* Every variable keeps its type. *)
THEOREM TypeCorrect == Spec => []TypeOK
<1>1. IInv => TypeOK
  BY DEF IInv
<1> QED BY <1>1, InvariantHolds, PTL

(***************************************************************************)
(* A client has read, in order and without gaps, the first events of its   *)
(* job, for every limit of the query and however connections break.        *)
(***************************************************************************)
THEOREM ReadInOrder == Spec => []ReceivedIsPrefix
<1>1. IInv => ReceivedIsPrefix
  <2> SUFFICES ASSUME IInv PROVE ReceivedIsPrefix
    OBVIOUS
  <2> DEFINE n == Len(received)
  <2>1. /\ received \in Seq(Ids) /\ ids \in Seq(Ids) /\ n \in Nat /\ Len(ids) \in Nat
        /\ n <= Len(ids) /\ \A i \in 1..n : received[i] = ids[i]
    BY DEF IInv, TypeOK, SentInOrder, Sent
  <2>2. /\ SubSeq(received, 1, n) \in Seq(Ids) /\ SubSeq(ids, 1, n) \in Seq(Ids)
        /\ Len(SubSeq(received, 1, n)) = n /\ Len(SubSeq(ids, 1, n)) = n
        /\ \A i \in 1..n : SubSeq(received, 1, n)[i] = SubSeq(ids, 1, n)[i]
    BY <2>1
  <2> HIDE DEF n
  <2>3. SubSeq(received, 1, n) = SubSeq(ids, 1, n)
    BY <2>2, SeqEqual
  <2>4. Len(received) <= Len(ids)
    BY <2>1 DEF n
  <2> QED BY <2>3, <2>4, Zenon DEF ReceivedIsPrefix, IsPrefix, n
<1> QED BY <1>1, InvariantHolds, PTL

(* No event appears behind the cursor of a stream. *)
THEOREM NothingComesLate == Spec => []NoLateEvent
<1>1. IInv => NoLateEvent
  BY DEF IInv
<1> QED BY <1>1, InvariantHolds, PTL

(***************************************************************************)
(* Who was shown the end of a job has seen everything: only the last event *)
(* is terminal, and what was read is a prefix.                             *)
(***************************************************************************)
THEOREM TheEndIsTheEnd == Spec => []EndMeansComplete
<1>1. IInv => EndMeansComplete
  <2> SUFFICES ASSUME IInv, Shown(Terminal)
               PROVE  received = ids /\ StatusOf(Last(received)) = status[Job]
    BY DEF EndMeansComplete
  <2>1. /\ received \in Seq(Ids) /\ ids \in Seq(Ids)
        /\ Len(received) \in Nat \ {0} /\ Len(ids) \in Nat /\ Len(received) <= Len(ids)
        /\ \A i \in 1..Len(received) : received[i] = ids[i]
    BY DEF IInv, TypeOK, SentInOrder, Sent, Shown
  <2>2. StatusOf(Last(received)) = feed[Job][Len(received)]
    <3>1. Last(received) = ids[Len(received)]
      BY <2>1 DEF Last
    <3> QED BY <2>1, <3>1, StatusOfPosition DEF IInv, IdsRise
  <2>3. Len(received) = Len(ids)
    BY <2>1, <2>2 DEF IInv, FeedShape, Shown
  <2>4. received = ids
    BY <2>1, <2>3, SeqEqual
  <2> QED BY <2>1, <2>2, <2>3, <2>4 DEF IInv, FeedShape
<1> QED BY <1>1, InvariantHolds, PTL

(***************************************************************************)
(* No stream of a finished job is left open with nothing to send, unless   *)
(* it was asked for from behind the last event.                            *)
(***************************************************************************)
THEOREM NoStreamLingers == Spec => []StreamsEnd
<1>1. IInv => StreamsEnd
  <2> SUFFICES ASSUME IInv, conn.state = "open", status[Job] \in Terminal,
                      EventsAfter(conn.cursor) = <<>>
               PROVE  conn.from = Last(ids)
    BY DEF StreamsEnd
  <2>1. /\ Len(ids) \in Nat /\ Sent \in 0..Len(ids) /\ ids \in Seq(Ids) /\ Rising(ids)
        /\ conn.cursor = IF Sent = 0 THEN 0 ELSE ids[Sent]
    BY DEF IInv, TypeOK, Sent, SentInOrder, IdsRise, Connection
  <2>2. AtMost(Len(ids) - Sent) = 0
    BY <2>1, NextEvents
  <2>3. Sent = Len(ids)
    BY <2>1, <2>2, LimitAssumption DEF AtMost
  <2>4. ids # <<>> /\ Len(ids) > 0
    BY <2>1 DEF IInv, FeedShape, Terminal
  <2> QED BY <2>1, <2>3, <2>4 DEF IInv, FeedShape, Connection, Last
<1> QED BY <1>1, InvariantHolds, PTL
=============================================================================
