---------------------------- MODULE MCScheduler ----------------------------
(***************************************************************************)
(* Instances of Scheduler for TLC: one call of each of the outer           *)
(* priorities and two of the middle one, so that insertion in front of,    *)
(* behind and among equals all happen.                                     *)
(***************************************************************************)
EXTENDS Scheduler

CONSTANTS admin, readA, readB, write, refused, grace

MCRequests == {admin, readA, readB, write, refused}

MCPriority ==
    [r \in MCRequests |->
        CASE r = admin -> "admin"
          [] r = write -> "background_write"
          [] OTHER -> "interactive_read"]
=============================================================================
