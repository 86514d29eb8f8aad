----------------------------- MODULE SQLSession -----------------------------
(***************************************************************************)
(* The users of a SQL client beside its reconnection and shutdown.         *)
(*                                                                         *)
(* A query builder, a basic operation and a transaction all begin alike:   *)
(* they load the pointer to the current pool and keep what they loaded,    *)
(* whatever the pointer becomes.  The callback of a transaction works on a *)
(* clone of the client whose pointer holds the transaction and which has   *)
(* no channels; GracefulShutdown of the clone can be called like any other.*)
(*                                                                         *)
(* gorm and database/sql are external: a transaction lives on a connection *)
(* of its pool, which an outage breaks and the closing of the pool spares; *)
(* DB() of a transaction is the pool it was begun on.                      *)
(***************************************************************************)
EXTENDS SQLConnection

CONSTANTS
    Users,       \* goroutines that use the client
    TxClosers,   \* those whose callback shuts down the clone, once each
    Together     \* bound: do they use a client on which others call GracefulShutdown?

ASSUME SessionAssumption == Together \in BOOLEAN /\ TxClosers \subseteq Users

VARIABLES
    sess,      \* where a user is: "idle", "loaded", or "tx", in the callback
    snap,      \* the pool a user loaded
    lost,      \* users whose transaction lost its connection
    said,      \* what the last operation returned
    txClosed   \* users that shut down the clone

sessVars == <<sess, snap, lost, said, txClosed>>

SessionInit ==
    /\ Init
    /\ sess = [u \in Users |-> "idle"]
    /\ snap = [u \in Users |-> 1]
    /\ lost = {}
    /\ said = [u \in Users |-> "none"]
    /\ txClosed = {}

-----------------------------------------------------------------------------
\* DB().WithContext(ctx): of Query, of Transaction, of each basic operation.
Load(u) ==
    /\ sess[u] = "idle"
    /\ sess' = [sess EXCEPT ![u] = "loaded"]
    /\ snap' = [snap EXCEPT ![u] = client]
    /\ said' = [said EXCEPT ![u] = "none"]
    /\ UNCHANGED <<vars, lost, txClosed>>

\* The operation returns, and its snapshot is forgotten.
Ends(u) == sess' = [sess EXCEPT ![u] = "idle"] /\ snap' = [snap EXCEPT ![u] = 1]

\* What a statement on a pool that does not serve it returns.
Refusal(pool) == IF pool \in closed THEN "closed" ELSE "error"

\* A terminal method of the builder, or the rest of a basic operation.
Execute(u) ==
    /\ sess[u] = "loaded"
    /\ \/ Healthy(snap[u]) /\ said' = [said EXCEPT ![u] = "ok"]
       \/ ~Healthy(snap[u]) /\ said' = [said EXCEPT ![u] = Refusal(snap[u])]
    /\ Ends(u)
    /\ UNCHANGED <<vars, lost, txClosed>>

\* Transaction: begin on the snapshot and call back with the clone.
Begin(u) ==
    /\ sess[u] = "loaded"
    /\ Healthy(snap[u])
    /\ sess' = [sess EXCEPT ![u] = "tx"]
    /\ UNCHANGED <<vars, snap, lost, said, txClosed>>

BeginFails(u) ==
    /\ sess[u] = "loaded"
    /\ ~Healthy(snap[u])
    /\ said' = [said EXCEPT ![u] = Refusal(snap[u])]
    /\ Ends(u)
    /\ UNCHANGED <<vars, lost, txClosed>>

\* The statements of the callback go to the clone, whose pointer holds the
\* transaction, and come back with an error if its connection is gone.
Connected(u) == server = "up" /\ u \notin lost

\* The callback calls GracefulShutdown of the clone: both channels are nil, the
\* pool of the transaction is closed.
TxShutdown(u) ==
    /\ sess[u] = "tx"
    /\ u \in TxClosers \ txClosed
    /\ closed' = closed \cup {snap[u]}
    /\ txClosed' = txClosed \cup {u}
    /\ UNCHANGED <<channels, client, pools, monVars, retryVars, stopVars, envVars, panicked,
                   sess, snap, lost, said>>

\* Transaction returns, and the connection goes back to its pool.
Return(u, answer) ==
    /\ sess[u] = "tx"
    /\ Ends(u)
    /\ lost' = lost \ {u}
    /\ said' = [said EXCEPT ![u] = answer]
    /\ UNCHANGED <<vars, txClosed>>

\* The callback returned nil, and COMMIT succeeded.
Commit(u) == Connected(u) /\ Return(u, "ok")

\* COMMIT failed or its answer was lost, or the callback returned an error, of a
\* statement or its own.
Rollback(u) == Return(u, "error")

-----------------------------------------------------------------------------
\* Users have done nothing yet; nobody has called GracefulShutdown.
Unused == sess = [u \in Users |-> "idle"] /\ said = [u \in Users |-> "none"]
Uncalled == gs = [c \in Callers |-> "idle"]

\* The client goes on; an outage breaks the connections of transactions.
ClientStep ==
    /\ Next
    /\ Together \/ Unused \/ gs' = gs
    /\ lost' = IF server = "up" /\ server' = "down"
               THEN lost \cup {u \in Users : sess[u] = "tx"} ELSE lost
    /\ UNCHANGED <<sess, snap, said, txClosed>>

UserStep(u) ==
    \/ Load(u) \/ Execute(u) \/ Begin(u) \/ BeginFails(u)
    \/ TxShutdown(u) \/ Commit(u) \/ Rollback(u)

SessionNext ==
    \/ ClientStep
    \/ \E u \in Users : ~panicked /\ (Together \/ Uncalled) /\ UserStep(u)

SessionSpec == SessionInit /\ [][SessionNext]_<<vars, sessVars>> /\ Fairness

-----------------------------------------------------------------------------
\* No operation finds its pool closed because the client reconnected after the
\* operation began: only a shutdown, of the client or of a clone, does that.
ClosedOnlyByShutdown ==
    \A u \in Users : said[u] = "closed" => shutdown \/ txClosed # {}

\* When the pool was closed behind the back of a client that runs on, the
\* health check notices and the client replaces it.
Heals == client \in closed ~> client \notin closed \/ shutdown \/ ctxDone
=============================================================================
