-------------------------- MODULE MCKafkaConsumer --------------------------
(***************************************************************************)
(* Consume with its one worker, whose users never leave: one user, of      *)
(* whose commits one may fail, and two, of which one gives a message up;   *)
(* two workers whose user may leave, with a message that cannot be         *)
(* processed; and a client without a reader.                               *)
(***************************************************************************)
EXTENDS KafkaConsumer

CONSTANTS w1, w2, u1, u2

MCWorkers == {w1, w2}
MCUsers   == {u1, u2}

MCSetups ==
    { [workers |-> {w1}, users |-> {u1}, quitters |-> {}, poison |-> {}, refused |-> {1},
       reader |-> TRUE],
      [workers |-> {w1}, users |-> {u1, u2}, quitters |-> {}, poison |-> {0}, refused |-> {0, 1, 2},
       reader |-> TRUE],
      [workers |-> {w1, w2}, users |-> {u1}, quitters |-> {u1}, poison |-> {0}, refused |-> {1},
       reader |-> TRUE],
      [workers |-> {w1, w2}, users |-> {u1}, quitters |-> {}, poison |-> {}, refused |-> {},
       reader |-> FALSE] }

\* ConsumeParallel, with users that process and commit everything.
MCParallel ==
    { [workers |-> {w1, w2}, users |-> {u1}, quitters |-> {}, poison |-> {}, refused |-> {},
       reader |-> TRUE] }
=============================================================================
