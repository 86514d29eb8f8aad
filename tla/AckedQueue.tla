----------------------------- MODULE AckedQueue -----------------------------
(***************************************************************************)
(* What a consumer promises of the messages of a partition, whatever       *)
(* goroutines and channels they pass through: while the process runs, each *)
(* goes to one user, once, or is dropped, which a process does only when   *)
(* it is being stopped; who acknowledges a message has processed it; and a *)
(* new process begins after the message acknowledged last.                 *)
(*                                                                         *)
(* KafkaConsumer implements this.                                          *)
(***************************************************************************)
EXTENDS Integers

CONSTANT Messages   \* numbers

VARIABLES
    taken,      \* messages that the process has given to a user or dropped
    hands,      \* those that a user is processing
    done,       \* those processed by this process or one before it
    acked,      \* where the next process begins
    stopping    \* the process is being stopped

vars == <<taken, hands, done, acked, stopping>>

Init ==
    /\ taken = {} /\ hands = {} /\ done = {}
    /\ acked = 0
    /\ stopping = FALSE

Deliver(m) ==
    /\ m \notin taken
    /\ taken' = taken \cup {m}
    /\ hands' = hands \cup {m}
    /\ UNCHANGED <<done, acked, stopping>>

Drop(m) ==
    /\ stopping
    /\ m \notin taken
    /\ taken' = taken \cup {m}
    /\ UNCHANGED <<hands, done, acked, stopping>>

Process(m) ==
    /\ m \in hands
    /\ hands' = hands \ {m}
    /\ done' = done \cup {m}
    /\ UNCHANGED <<taken, acked, stopping>>

GiveUp(m) ==
    /\ m \in hands
    /\ hands' = hands \ {m}
    /\ UNCHANGED <<taken, done, acked, stopping>>

\* The last acknowledgement counts, also of an earlier message.
Acknowledge(m) ==
    /\ m \in (done \cap taken) \ hands
    /\ acked' = m + 1
    /\ UNCHANGED <<taken, hands, done, stopping>>

Stop ==
    /\ stopping' = TRUE
    /\ UNCHANGED <<taken, hands, done, acked>>

\* The process is gone, and with it what users had in hand.
Restart ==
    /\ taken' = {m \in Messages : m < acked}
    /\ hands' = {}
    /\ stopping' = FALSE
    /\ UNCHANGED <<done, acked>>

Next ==
    \/ \E m \in Messages : Deliver(m) \/ Drop(m) \/ Process(m) \/ GiveUp(m) \/ Acknowledge(m)
    \/ Stop
    \/ Restart

Spec == Init /\ [][Next]_vars
=============================================================================
