------------------------------- MODULE MCLive -------------------------------
(***************************************************************************)
(* Liveness of a run and of its tool operations, on small instances: an    *)
(* Interactive run with a history reducer whose model calls fail, and an   *)
(* Interactive run whose two calls meet crashes, prompts and approvals.    *)
(* `part` says which of the two an execution is; they share `eng`.         *)
(***************************************************************************)
EXTENDS Naturals, Sequences

CONSTANTS None

VARIABLES part, cp, eng, commands, work, session, asked, run, ops, tools

vars == <<part, cp, eng, commands, work, session, asked, run, ops, tools>>

R == INSTANCE LocalRun WITH
    Capacity <- 2, Outputs <- {1}, Statuses <- {"Completed"}, ServiceFaults <- TRUE,
    Mode <- "Interactive", InputKinds <- {"User"}, MaxInputs <- 1, MaxProfiles <- 0,
    MaxSeals <- 1, MaxRequests <- 2, Reducing <- TRUE,
    CanCrash <- FALSE, CanPause <- FALSE, CanStop <- FALSE

O == INSTANCE Operations WITH
    N <- 2, Serial <- {2}, Unbound <- {}, Mode <- "Interactive",
    MaxConcurrency <- 2, MaxInflight <- 2, MaxCommands <- 2, MaxCalls <- 2, MaxUpdates <- 1,
    Decisions <- {"Allow", "Deny"}, MaxReplies <- 0, Prompts <- TRUE, ToolFaults <- FALSE,
    CanCancel <- FALSE, CanPause <- FALSE, CanCrash <- TRUE

Init ==
    \/ /\ part = "run" /\ R!Init
       /\ run = None /\ ops = None /\ tools = None
    \/ /\ part = "ops" /\ O!Init
       /\ cp = None /\ commands = None /\ work = None /\ session = None /\ asked = None

Run(A) == part = "run" /\ A /\ UNCHANGED <<part, run, ops, tools>>
Ops(A) == part = "ops" /\ A /\ UNCHANGED <<part, cp, commands, work, session, asked>>

Next == Run(R!Next) \/ Ops(O!Next)
Spec == Init /\ [][Next]_vars

\* The fairness of LocalRun and of Operations: loop and model, and a host
\* that attaches again, are fair in both; the rest is each part's own.
Fairness ==
    /\ WF_vars(Run(R!AttachStep \/ R!LoopStep \/ R!WorkStep) \/ Ops(O!Loop))
    /\ WF_vars(Run(R!ModelStep) \/ Ops(O!ResponseFinished))
    /\ WF_vars(Run(R!Continue) \/ Ops(O!Continue))
    /\ SF_vars(Run(R!ResumeResolved) \/ Ops(O!ResumeResolved))
    /\ WF_vars(Run(R!SubmitStep)) /\ SF_vars(Run(R!SealOnce))
    /\ \A o \in {1, 2} :
          /\ WF_vars(Ops(O!Work(o))) /\ WF_vars(Ops(O!Call(o))) /\ WF_vars(Ops(O!Delivered(o)))
          /\ WF_vars(Ops(O!ToolFinishes(o))) /\ WF_vars(Ops(O!ToolAnswered(o)))
FairSpec == Spec /\ Fairness

-----------------------------------------------------------------------------
\* Properties

\* ProjectionIsHistory of a run whose history a reducer replaces.
ReducedProjection == part = "run" => R!ProjectionIsHistory

\* WorkIsWatched of Operations: nothing that was started is forgotten.
WorkIsWatched == part = "ops" => O!WorkIsWatched

\* A run that is interrupted only finitely often, by a crash or a failed
\* model call, reaches a terminal state and delivers all its tool results
\* (runtime.md rule 1: "Suspended is resumable").
Interruption == \/ part = "run" /\ R!Interruption
                \/ part = "ops" /\ O!Interruption
Terminal == IF part = "run" THEN R!Terminal ELSE O!Terminal
Settles == []<><<Interruption>>_vars \/ <>Terminal
=============================================================================
