---------------------------- MODULE MCMigrations ----------------------------
(***************************************************************************)
(* Two processes that migrate up at once, one of them also with            *)
(* AutoMigrate, while files turn up late; one process that goes up and     *)
(* down with scripts that commit by themselves or have no way back; and    *)
(* one that reverts while another goes up.                                 *)
(***************************************************************************)
EXTENDS Migrations

CONSTANTS r1, r2

MCRunners == {r1, r2}

MCSetups ==
    { [uppers |-> {r1, r2}, downers |-> {}, autos |-> {r1},
       implicitCommit |-> {}, mergeable |-> {1, 2}, noDown |-> {}],
      [uppers |-> {r1}, downers |-> {r1}, autos |-> {},
       implicitCommit |-> {2}, mergeable |-> {}, noDown |-> {3}],
      [uppers |-> {r1}, downers |-> {r2}, autos |-> {},
       implicitCommit |-> {}, mergeable |-> {1}, noDown |-> {}] }
=============================================================================
