------------------------- MODULE ManagedConnection -------------------------
(***************************************************************************)
(* What a client that watches its own connection promises its users,       *)
(* whatever goroutines and channels it uses: it replaces the connection    *)
(* when, and only when, a failure was reported, it does so while it runs,  *)
(* and it never does so again once it has been stopped.                    *)
(*                                                                         *)
(* SQLConnection and MinioReconnect implement this.                        *)
(***************************************************************************)
EXTENDS Naturals

VARIABLES
    current,   \* the connection in use; each replacement is the next number
    suspect,   \* a failure has been reported and not been dealt with
    status     \* "running", "stopping", "stopped"

vars == <<current, suspect, status>>

Init ==
    /\ current = 1
    /\ suspect = FALSE
    /\ status = "running"

\* A health check failed.
Report ==
    /\ status # "stopped"
    /\ suspect' = TRUE
    /\ UNCHANGED <<current, status>>

\* Another failure may have been reported while the connection was made.
Replace ==
    /\ suspect
    /\ status # "stopped"
    /\ current' = current + 1
    /\ suspect' \in BOOLEAN
    /\ UNCHANGED status

\* Only a client that is being stopped may leave a failure at that.
Forget ==
    /\ status # "running"
    /\ suspect' = FALSE
    /\ UNCHANGED <<current, status>>

Stop ==
    /\ status = "running"
    /\ status' = "stopping"
    /\ UNCHANGED <<current, suspect>>

Stopped ==
    /\ status = "stopping"
    /\ status' = "stopped"
    /\ UNCHANGED <<current, suspect>>

Next == Report \/ Replace \/ Forget \/ Stop \/ Stopped

SafeSpec == Init /\ [][Next]_vars

\* While the client runs, a reported failure leads to a new connection.
Spec == SafeSpec /\ WF_vars(status = "running" /\ Replace)
=============================================================================
