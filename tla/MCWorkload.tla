----------------------------- MODULE MCWorkload -----------------------------
(* A small instance of Workload for TLC: the names of two users, one of    *)
(* which shares the thread that a DUMPLOG goes to, and three scripts.      *)
EXTENDS Workload, TLC

CONSTANTS u1, u2
SumOfName == u1 :> 2 @@ u2 :> 1
SomeScripts == {<<u1, u1, DumpLog>>, <<u1, u2, u1>>, <<u2, DumpLog, u2>>}
=============================================================================
