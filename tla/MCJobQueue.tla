----------------------------- MODULE MCJobQueue -----------------------------
(***************************************************************************)
(* Instances of JobQueue for TLC: a worker of both kinds next to one that  *)
(* only serves probes and runs once, or two equal workers.                 *)
(***************************************************************************)
EXTENDS JobQueue, TLC

CONSTANTS w1, w2

MixedQueues == (w1 :> Kinds) @@ (w2 :> {"system_probe"})
EqualQueues == [w \in {w1, w2} |-> Kinds]

MixedOneShot == {w2}
NoOneShot    == {}
=============================================================================
