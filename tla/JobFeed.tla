------------------------------- MODULE JobFeed -------------------------------
(***************************************************************************)
(* What the job tables promise to everybody who watches a job (the REST    *)
(* resource, the server-sent events, the web application): a job moves     *)
(* through its statuses in one direction, every change appends exactly one *)
(* event carrying the new status, and nothing is appended after a terminal *)
(* one.  JobQueue implements this specification, EventStream reads it.     *)
(*                                                                         *)
(* The state machine of docs/ARCHITECTURE.md:262-275 also has a way back   *)
(* from running to queued and the cancellation of a job; no code does      *)
(* either, so that they are no steps here.                                 *)
(***************************************************************************)
EXTENDS Naturals, Sequences

CONSTANT Jobs

VARIABLES status,  \* status of each job, "absent" before it is inserted
          feed     \* the statuses of the job's events, oldest first

vars == <<status, feed>>

Terminal == {"succeeded", "failed"}
Statuses == {"absent", "queued", "running"} \cup Terminal

TypeOK ==
  /\ status \in [Jobs -> Statuses]
  /\ feed \in [Jobs -> Seq(Statuses)]

Init ==
  /\ status = [j \in Jobs |-> "absent"]
  /\ feed = [j \in Jobs |-> <<>>]

(***************************************************************************)
(* One committed change of the row of j, with the event written in the     *)
(* same transaction.                                                       *)
(***************************************************************************)
Record(j, from, to) ==
  /\ status[j] = from
  /\ status' = [status EXCEPT ![j] = to]
  /\ feed' = [feed EXCEPT ![j] = Append(@, to)]

Submit(j)  == Record(j, "absent", "queued")
Claim(j)   == Record(j, "queued", "running")
Advance(j) == Record(j, "running", "running")
Settle(j)  == \E to \in Terminal : Record(j, "running", to)

Next == \E j \in Jobs : Submit(j) \/ Claim(j) \/ Advance(j) \/ Settle(j)

Spec == Init /\ [][Next]_vars
=============================================================================
