---------------------------- MODULE ProjectListing ----------------------------
(***************************************************************************)
(* Creating, changing and listing projects (ProjectService over            *)
(* PgProjectRepository): the list is read page by page while projects are  *)
(* written.                                                                *)
(*                                                                         *)
(* The list is ordered by updated_at, newest first, and a cursor is the    *)
(* number of rows to leave out, so that every write that sets updated_at   *)
(* moves rows between the pages.  updated_at = now() is the time at which  *)
(* the transaction began: a write may wait for the lock of the row, or     *)
(* commit late, and then put an older time over a newer one.  A PATCH sets *)
(* the fields it has, a name or the video settings or both, in one UPDATE: *)
(* after a wait for the lock it works on the newest version of the row.    *)
(*                                                                         *)
(* Requests that are refused before they reach the database (an empty      *)
(* PATCH, a name or settings out of range, a limit outside of 1..100, a    *)
(* cursor that is no number) change nothing and are not steps.  A value is *)
(* stood for by the write that brought it.                                 *)
(***************************************************************************)
EXTENDS Integers, FiniteSets, SequencesExt

CONSTANTS N,       \* number of projects; ids are compared when times are equal
          Writes,  \* the writes that may happen, each at most once
          Limits,  \* page sizes asked for, 1..100 in the code
          MaxTime  \* bound: the last time

ASSUME ListingAssumption ==
  /\ {N, MaxTime} \subseteq Nat \ {0}
  /\ IsFiniteSet(Writes)
  /\ Limits \subseteq Nat \ {0}

Projects == 1..N

Fields == {"name", "settings"}
Original == "original"   \* a value from before the first write

VARIABLES updated,  \* updated_at of each project, 0 if it does not exist
          fields,   \* name and settings of each project
          now,
          write,    \* write[w]: phase, project, time and fields of a write, and
                    \*   the version of the row that its statement found first
          log,      \* history: the writes in the order of their commits
          cursor,   \* of the next page
          count,    \* count[p]: how often p was in a page
          known,    \* history: projects that existed at the first page
          during    \* history: writes committed between the first and last page

vars == <<updated, fields, now, write, log, cursor, count, known, during>>

Start == 0   \* no page has been read
End   == -1  \* the last page had no next_cursor

Rows == {p \in Projects : updated[p] # 0}

(* ORDER BY updated_at DESC, id DESC. *)
Ahead(time, id, p) == time > updated[p] \/ (time = updated[p] /\ id > p)

(* Variant: the order of creation, oldest first, in which times go up. *)
OldestFirst(p) == Cardinality({q \in Rows : ~ Ahead(updated[q], q, p)}) - 1

(* How many rows come before p. *)
Position(p) == Cardinality({q \in Rows : Ahead(updated[q], q, p)})

Select(offset, limit) == {p \in Rows : Position(p) \in offset..offset + limit - 1}

OriginalRow == [f \in Fields |-> Original]

NoWrite == [phase |-> "none", project |-> 0, time |-> 0, sets |-> {}, found |-> OriginalRow]

(* Earlier writes have left rows of any age. *)
Init ==
  /\ now = 1
  /\ updated \in [Projects -> 0..1]
  /\ fields = [p \in Projects |-> OriginalRow]
  /\ write = [w \in Writes |-> NoWrite] /\ log = <<>>
  /\ cursor = Start
  /\ count = [p \in Projects |-> 0]
  /\ known = {} /\ during = {}

-----------------------------------------------------------------------------
Tick ==
  /\ now < MaxTime
  /\ now' = now + 1
  /\ UNCHANGED <<updated, fields, write, log, cursor, count, known, during>>

Begin(w, p, sets) ==
  /\ write[w] = NoWrite
  /\ write' = [write EXCEPT ![w] = [phase |-> "open", project |-> p, time |-> now,
                                    sets |-> sets, found |-> fields[p]]]
  /\ UNCHANGED <<updated, fields, now, log, cursor, count, known, during>>

(* The id of a new project is its own. *)
BeginCreate(w) ==
  \E p \in Projects \ Rows :
    /\ \A other \in Writes : write[other].project # p
    /\ Begin(w, p, Fields)

(* A PATCH, or one that sets neither field: an asset or a transcript becomes active. *)
BeginUpdate(w) == \E p \in Rows, sets \in SUBSET Fields : Begin(w, p, sets)

(* What the UPDATE makes of a version of the row. *)
Coalesce(w, row) == [f \in Fields |-> IF f \in write[w].sets THEN w ELSE row[f]]

(* Variant: the fields that are not set are written back as they were read. *)
UpdatedAsFound(w) == Coalesce(w, write[w].found)

(* The UPDATE works on the newest version once it has the lock. *)
UpdatedRow(w) == Coalesce(w, fields[write[w].project])

Commit(w) ==
  /\ write[w].phase = "open"
  /\ write' = [write EXCEPT ![w].phase = "done"]
  /\ updated' = [updated EXCEPT ![write[w].project] = write[w].time]
  /\ fields' = [fields EXCEPT ![write[w].project] = UpdatedRow(w)]
  /\ log' = Append(log, w)
  /\ during' = IF cursor \in {Start, End} THEN during ELSE during \cup {w}
  /\ UNCHANGED <<now, cursor, count, known>>

Rollback(w) ==
  /\ write[w].phase = "open"
  /\ write' = [write EXCEPT ![w].phase = "failed"]
  /\ UNCHANGED <<updated, fields, now, log, cursor, count, known, during>>

(* Variant: the row that tells of another page is sent with this one. *)
ReadPageUncut(limit) ==
  /\ cursor # End
  /\ LET items == Select(cursor, limit + 1) IN
     /\ cursor' = IF Cardinality(items) > limit THEN cursor + limit ELSE End
     /\ count' = [p \in Projects |-> IF p \in items THEN count[p] + 1 ELSE count[p]]
  /\ known' = IF cursor = Start THEN Rows ELSE known
  /\ UNCHANGED <<updated, fields, now, write, log, during>>

(* One row more than the limit is selected to see whether there are more. *)
ReadPage(limit) ==
  /\ cursor # End
  /\ cursor' = IF Cardinality(Select(cursor, limit + 1)) > limit
               THEN cursor + limit ELSE End
  /\ LET items == Select(cursor, limit)
     IN count' = [p \in Projects |-> IF p \in items THEN count[p] + 1 ELSE count[p]]
  /\ known' = IF cursor = Start THEN Rows ELSE known
  /\ UNCHANGED <<updated, fields, now, write, log, during>>

Next ==
  \/ Tick
  \/ \E w \in Writes : BeginCreate(w) \/ BeginUpdate(w) \/ Commit(w) \/ Rollback(w)
  \/ \E limit \in Limits : ReadPage(limit)

Spec == Init /\ [][Next]_vars

-----------------------------------------------------------------------------
(***************************************************************************)
(* Two people who change different fields of a project at the same time do *)
(* not undo each other's work: each field has the value of the last        *)
(* committed write that set it, whatever that write or a later one had     *)
(* read before, and whichever has the later updated_at.                    *)
(***************************************************************************)
SetsField(i, p, f) == write[log[i]].project = p /\ f \in write[log[i]].sets

PatchesMerge ==
  \A p \in Projects, f \in Fields :
    \/ /\ fields[p][f] = Original
       /\ \A i \in DOMAIN log : ~ SetsField(i, p, f)
    \/ \E i \in DOMAIN log :
         /\ SetsField(i, p, f) /\ fields[p][f] = log[i]
         /\ \A later \in DOMAIN log : later > i => ~ SetsField(later, p, f)

(***************************************************************************)
(* When the last page is read, a project that was there at the first page  *)
(* and is in no page was itself written meanwhile, or another one was      *)
(* written with a time that sorts behind it: only a write that commits     *)
(* late can hide an untouched one.  This is said of the step that reads    *)
(* the last page: a write that commits after it may make the hidden        *)
(* project older than it was when it was hidden.                           *)
(***************************************************************************)
Explained(p) ==
  \E w \in during :
    \/ write[w].project = p
    \/ ~ Ahead(write[w].time, write[w].project, p)

SkipsAreExplained ==
  [][cursor # End /\ cursor' = End =>
       \A p \in known' : count'[p] = 0 => Explained(p)']_vars

(***************************************************************************)
(* Each write during a listing hides at most one project and repeats at    *)
(* most one: a list that nobody writes to is read exactly, and a reader is *)
(* off by no more than what happened meanwhile.                            *)
(***************************************************************************)
Repeated == {r \in Projects \X (1..N + Cardinality(Writes)) : r[2] < count[r[1]]}

ErrorsAreBounded ==
  cursor = End =>
    /\ Cardinality({p \in known : count[p] = 0}) <= Cardinality(during)
    /\ Cardinality(Repeated) <= Cardinality(during)
=============================================================================
