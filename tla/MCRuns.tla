------------------------------- MODULE MCRuns -------------------------------
(***************************************************************************)
(* Small instances of LocalRun: a Task run whose outside messages, profile *)
(* changes, pauses and stops meet crashes, and an Interactive run whose    *)
(* model calls fail.  `part` says which of the two an execution is.        *)
(***************************************************************************)
EXTENDS LocalRun

VARIABLE part

Interactive == INSTANCE LocalRun WITH
    Mode <- "Interactive", InputKinds <- {"User"}, MaxProfiles <- 0, MaxSeals <- 1,
    Statuses <- {"Completed", "Failed"}, ServiceFaults <- TRUE, CanStop <- FALSE

MCInit == \/ part = "task" /\ Init
          \/ part = "interactive" /\ Interactive!Init

MCNext == \/ part = "task" /\ Next /\ UNCHANGED part
          \/ part = "interactive" /\ Interactive!Next /\ UNCHANGED part

MCSpec == MCInit /\ [][MCNext]_<<part, vars>>
=============================================================================
