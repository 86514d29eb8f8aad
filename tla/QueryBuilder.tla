---------------------------- MODULE QueryBuilder ----------------------------
(***************************************************************************)
(* query_builder.go of packages postgres and mariadb: the statement that a *)
(* chain of calls builds, as far as it decides which rows the statement    *)
(* reads, writes and locks.  Every method changes the builder in place and *)
(* returns it (qb.db = qb.db.X(...)), so a builder is the record of its    *)
(* clauses and a chain the composition of the operators below.  A row is   *)
(* its status.                                                             *)
(***************************************************************************)
EXTENDS Naturals, Sequences, FiniteSets

CONSTANT Dialect   \* "postgres" or "mariadb"

ASSUME DialectAssumption == Dialect \in {"postgres", "mariadb"}

NoLock  == [strength |-> "none", option |-> "wait"]
NoLimit == 0

\* Query: a builder over the current connection, without a clause.  where is a
\* disjunction of conjunctions, each condition the set of statuses it accepts.
Query ==
    [where |-> <<>>, limit |-> NoLimit, ordered |-> FALSE, grouped |-> FALSE,
     lock |-> NoLock, onConflict |-> "fail"]

\* gorm joins the conditions with AND, and with OR before one added by Or; SQL
\* binds AND tighter, so a condition belongs to the last alternative.
Where(qb, accepts) ==
    IF qb.where = <<>>
    THEN [qb EXCEPT !.where = <<{accepts}>>]
    ELSE [qb EXCEPT !.where[Len(qb.where)] = @ \cup {accepts}]

Or(qb, accepts) == [qb EXCEPT !.where = Append(@, {accepts})]

Not(qb, accepts, all) == Where(qb, all \ accepts)

Order(qb) == [qb EXCEPT !.ordered = TRUE]

Limit(qb, n) == [qb EXCEPT !.limit = n]

\* Distinct, Group and Having: rows of the result are not rows of the table.
Distinct(qb) == [qb EXCEPT !.grouped = TRUE]

Group(qb) == [qb EXCEPT !.grouped = TRUE]

Having(qb) == [qb EXCEPT !.grouped = TRUE]

-----------------------------------------------------------------------------
\* Clauses(clause.Locking{...}): the last one wins.
Locking(qb, strength, option) ==
    [qb EXCEPT !.lock = [strength |-> strength, option |-> option]]

\* A mistake: without the option.
ForUpdateNoOption(qb) == Locking(qb, "UPDATE", "wait")

ForUpdate(qb) == Locking(qb, "UPDATE", "wait")

\* A mistake: the weaker of the shared modes.
ForShareOfKey(qb) == Locking(qb, "KEY SHARE", "wait")

ForShare(qb) == Locking(qb, "SHARE", "wait")

\* A mistake: the strength of the function above.
SharedSkipLocked(qb) == Locking(qb, "SHARE", "SKIP LOCKED")

ForUpdateSkipLocked(qb) == Locking(qb, "UPDATE", "SKIP LOCKED")

ForShareSkipLocked(qb) == Locking(qb, "SHARE", "SKIP LOCKED")

ForUpdateNoWait(qb) == Locking(qb, "UPDATE", "NOWAIT")

\* These two do nothing in package mariadb.
ForNoKeyUpdate(qb) ==
    IF Dialect = "postgres" THEN Locking(qb, "NO KEY UPDATE", "wait") ELSE qb

ForKeyShare(qb) ==
    IF Dialect = "postgres" THEN Locking(qb, "KEY SHARE", "wait") ELSE qb

\* A mistake: the type of the argument is not the expected one, and the
\* assertion drops it.
OnConflictDropped(qb, action) == qb

OnConflict(qb, action) == [qb EXCEPT !.onConflict = action]

\* First: LIMIT 1, by the primary key.
First(qb) == Order(Limit(qb, 1))

-----------------------------------------------------------------------------
\* What the WHERE clause accepts.
Accepts(qb, status) ==
    \/ qb.where = <<>>
    \/ \E i \in 1 .. Len(qb.where) : \A accepts \in qb.where[i] : status \in accepts

\* No more rows fit into the result.
Full(qb, n) == qb.limit # NoLimit /\ n >= qb.limit

\* The databases refuse FOR UPDATE and the like where a row of the result is
\* not a row of the table.
Refused(qb) == qb.lock # NoLock /\ qb.grouped
=============================================================================
