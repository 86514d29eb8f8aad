----------------------------- MODULE MCJobQueue -----------------------------
(* Instance of JobQueue for TLC: pairs of workers, each with its claim. *)
EXTENDS JobQueue

CONSTANTS w1, w2, r, p1, p2

MCWorkers   == {w1, w2}
MCReaders   == {r}
MCProducers == {p1, p2}

Setup(claim1, claim2, share, create1, create2, jobs) ==
    [how  |-> w1 :> claim1 @@ w2 :> claim2 @@ r :> share @@ p1 :> create1 @@ p2 :> create2,
     jobs |-> jobs]

MCSetups ==
    {Setup("skip locked", "skip locked", "share",
           "on conflict do nothing", "first or create", {1}),
     Setup("nowait", "share, skip", "share",
           "on conflict do nothing", "on conflict do nothing", {2}),
     Setup("grouped", "skip locked", "key share",
           "first or create", "first or create", {2})}
    \cup {Setup(pair[1], pair[2], "share", Idle, Idle, {1, 2}) :
              pair \in {<<"skip locked", "update">>, <<"update", "update">>,
                        <<"ordered", "no key">>, <<"share, skip", "share, skip">>,
                        <<"nowait", "skip locked">>, <<"distinct", "nowait">>}}
    \cup {Setup("no key", "skip locked", "key share", Idle, Idle, {1, 2})}
=============================================================================
