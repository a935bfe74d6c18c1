-------------------------------- MODULE Run --------------------------------
(***************************************************************************)
(* What the kernel promises the host of a run, whatever the engine, the    *)
(* session, the outbox and the store do underneath (contracts/v5/behavior  *)
(* rules 1, 17 and 36): a message accepted by the run makes a response     *)
(* due; a run closes only when no response is due and accepts nothing      *)
(* afterwards; it completes only once closed; Suspended goes on, a         *)
(* terminal state stays.                                                   *)
(***************************************************************************)
VARIABLES state,   \* State of the run
          due,     \* is a response to accepted input outstanding?
          closing  \* has the close been decided?

vars == <<state, due, closing>>

Init == state = "Running" /\ due = TRUE /\ closing = FALSE

\* A message is accepted, or the model is called (again).
Accept == state = "Running" /\ ~closing /\ due' = TRUE /\ UNCHANGED <<state, closing>>

\* A completed response covers every accepted message.
Answer == state = "Running" /\ due' = FALSE /\ UNCHANGED <<state, closing>>

Close == state = "Running" /\ ~due /\ closing' = TRUE /\ UNCHANGED <<state, due>>

Suspend == state = "Running" /\ state' = "Suspended" /\ UNCHANGED <<due, closing>>

Attach == state = "Suspended" /\ state' = "Running" /\ UNCHANGED <<due, closing>>

Complete ==
    /\ state = "Running"
    /\ closing /\ ~due
    /\ state' = "Completed"
    /\ UNCHANGED <<due, closing>>

\* Failure, cancellation, or a limit that is reached.
Stop == state = "Running" /\ state' \in {"Failed", "Limited", "Cancelled"} /\ UNCHANGED <<due, closing>>

Next == Accept \/ Answer \/ Close \/ Suspend \/ Attach \/ Complete \/ Stop

Spec == Init /\ [][Next]_vars
=============================================================================
