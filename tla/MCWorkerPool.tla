---------------------------- MODULE MCWorkerPool ----------------------------
(***************************************************************************)
(* Three jobs, two of them of one name, for three workers, with every fault. *)
(***************************************************************************)
EXTENDS WorkerPool

MCName   == <<2, 1, 2>>
MCResult == <<"b", "a", "b">>
=============================================================================
