----------------------------- MODULE MCConnPool -----------------------------
(* The pool for TLC.  Every bound is a constant of ConnPool and has its    *)
(* value in the .cfg: slots, workers, descriptors, peers, jobs, and what   *)
(* the environment may do.                                                 *)
EXTENDS ConnPool
=============================================================================
