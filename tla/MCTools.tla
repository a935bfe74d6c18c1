------------------------------ MODULE MCTools ------------------------------
(***************************************************************************)
(* Small instances of Operations: three calls in a strict order, with as   *)
(* many budgets as they need, and three calls under crashes, suspensions,  *)
(* failing tools and one budgeted call.  `part` says which an execution    *)
(* is.                                                                     *)
(***************************************************************************)
EXTENDS Operations

VARIABLE part

Crashing == INSTANCE Operations WITH
    Unbound <- {3}, MaxCalls <- 1, MaxUpdates <- 0, Decisions <- {"Allow", "Deny", "Suspend"},
    MaxReplies <- 1, ToolFaults <- TRUE, CanPause <- TRUE, CanCrash <- TRUE

MCInit ==
    \/ part = "order" /\ Init
    \/ part = "crash" /\ Crashing!Init

MCNext ==
    /\ UNCHANGED part
    /\ \/ part = "order" /\ Next
       \/ part = "crash" /\ Crashing!Next

MCSpec == MCInit /\ [][MCNext]_<<part, vars>>
=============================================================================
