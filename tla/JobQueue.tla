------------------------------ MODULE JobQueue ------------------------------
(***************************************************************************)
(* What the locking clauses of the query builder are for: workers claim    *)
(* jobs of a table within transactions, work on them, finish them, and     *)
(* retry what IsRetryable says, while others read rows in share mode and   *)
(* producers create jobs.  Rows, locks and isolation (READ COMMITTED) are  *)
(* the database's.                                                         *)
(***************************************************************************)
EXTENDS QueryBuilder, SequencesExt

CONSTANTS
    Workers, Readers, Producers,
    NJobs,          \* jobs are numbered by their primary key
    Setups,         \* how workers claim and producers create, and the first jobs
    MaxFailures     \* bound: connections that the server drops

ASSUME JobsAssumption == NJobs \in Nat \ {0} /\ MaxFailures \in Nat

PG == INSTANCE PostgresErrors

Jobs     == 1 .. NJobs
Clients  == Workers \cup Readers
Statuses == {"absent", "pending", "done"}
NoCode   == "no error"

VARIABLES
    status,     \* committed status of each job
    locks,      \* locks[j][c]: the strength of c's lock on the row of j
    how,        \* how each client selects its rows, how each producer creates
    pc,         \* where each client is
    scan,       \* rows that its statement has still to visit
    rows,       \* rows its claim returned
    code,       \* SQLSTATE that its last statement returned
    made,       \* what creating job 1 returned to each producer
    failures

vars == <<status, locks, how, pc, scan, rows, code, made, failures>>

-----------------------------------------------------------------------------
\* Chains of calls, in the forms that the documentation uses.
Claim(kind) ==
    CASE kind = "skip locked"  -> Limit(ForUpdateSkipLocked(Where(Query, {"pending"})), 1)
      [] kind = "nowait"       -> First(ForUpdateNoWait(Not(Query, {"done"}, Statuses)))
      [] kind = "update"       -> ForUpdate(Where(Query, {"pending"}))
      [] kind = "ordered"      -> Order(Where(ForUpdate(ForShare(Query)), {"pending"}))
      [] kind = "no key"       -> First(Where(ForNoKeyUpdate(Query), {"pending"}))
      [] kind = "share"        -> Order(ForShare(Or(Where(Query, {"pending"}), {"done"})))
      [] kind = "share, skip"  -> First(ForShareSkipLocked(Where(Query, {"pending"})))
      [] kind = "key share"    -> First(ForKeyShare(Query))
      [] kind = "distinct"     -> Distinct(ForUpdate(Where(Query, {"pending"})))
      [] kind = "grouped"      -> Having(Group(ForUpdate(Query)))

Exclusive == {"skip locked", "nowait", "update", "ordered"}
                 \cup (IF Dialect = "postgres" THEN {"no key"} ELSE {})
Wrong     == {"distinct", "grouped"}
Claims    == Exclusive \cup Wrong \cup {"share, skip", "no key"}
Shares    == {"share", "key share"}
Creations == {"on conflict do nothing", "first or create"}
Idle      == "creates nothing"

ASSUME SetupsAssumption ==
    \A s \in Setups :
        /\ s.jobs \subseteq 1 .. NJobs
        /\ \A w \in Workers : s.how[w] \in Claims
        /\ \A r \in Readers : s.how[r] \in Shares
        /\ \A p \in Producers : s.how[p] \in Creations \cup {Idle}

Builders == [kind \in Claims \cup Shares |-> Claim(kind)]

Builder(c) == Builders[how[c]]

-----------------------------------------------------------------------------
\* Row locks: the strengths that exclude each other.
Excluded(strength) ==
    CASE strength = "UPDATE"        -> {"KEY SHARE", "SHARE", "NO KEY UPDATE", "UPDATE"}
      [] strength = "NO KEY UPDATE" -> {"SHARE", "NO KEY UPDATE", "UPDATE"}
      [] strength = "SHARE"         -> {"NO KEY UPDATE", "UPDATE"}
      [] strength = "KEY SHARE"     -> {"UPDATE"}
      [] OTHER                      -> {}

Holders(c, j, strength) ==
    {d \in Clients \ {c} : locks[j][d] \in Excluded(strength)}

\* An UPDATE statement locks the rows it changes.
UpdateStrength == "NO KEY UPDATE"

\* The statement of c has come to a row and has room for it.
AtRow(c) ==
    pc[c] = "scan" /\ scan[c] # <<>> /\ ~Full(Builder(c), Cardinality(rows[c]))

\* Whom c waits for: a claim without option, or the update of a claimed row.
WaitsFor(c) ==
    CASE AtRow(c) /\ Builder(c).lock.option = "wait" ->
             Holders(c, Head(scan[c]), Builder(c).lock.strength)
      [] pc[c] = "finish" -> UNION {Holders(c, j, UpdateStrength) : j \in rows[c]}
      [] OTHER -> {}

\* c waits for others that in the end wait for c: it is in every set that has,
\* with those c waits for, also whom each member waits for.
Deadlocked(c) ==
    \A S \in SUBSET Clients :
        (\A d \in S \cup {c} : WaitsFor(d) \subseteq S) => c \in S

Released(c) == [j \in Jobs |-> [locks[j] EXCEPT ![c] = "none"]]

-----------------------------------------------------------------------------
Init ==
    /\ \E s \in Setups :
          /\ status = [j \in Jobs |-> IF j \in s.jobs THEN "pending" ELSE "absent"]
          /\ how = s.how
    /\ locks = [j \in Jobs |-> [c \in Clients |-> "none"]]
    /\ pc = [c \in Clients |-> "idle"]
    /\ scan = [c \in Clients |-> <<>>]
    /\ rows = [c \in Clients |-> {}]
    /\ code = [c \in Clients |-> NoCode]
    /\ made = [p \in Producers |-> "not yet"]
    /\ failures = 0

\* Transaction and, in it, Query...Find or First: the rows of the snapshot, in the
\* order of the key or in any.
Find(c) ==
    /\ pc[c] = "idle"
    /\ LET found == {j \in Jobs : status[j] # "absent" /\ Accepts(Builder(c), status[j])}
       IN  /\ found # {}
           /\ IF Refused(Builder(c))
              THEN /\ pc' = [pc EXCEPT ![c] = "failed"]
                   /\ code' = [code EXCEPT ![c] = "0A000"]
                   /\ UNCHANGED scan
              ELSE /\ \E order \in SetToSeqs(found) :
                          /\ Builder(c).ordered => IsSorted(order, <)
                          /\ scan' = [scan EXCEPT ![c] = order]
                   /\ pc' = [pc EXCEPT ![c] = "scan"]
                   /\ UNCHANGED code
    /\ UNCHANGED <<status, locks, how, rows, made, failures>>

\* The statement comes to a row that nobody holds against it: it locks the row and
\* looks at its condition again.
LockRow(c) ==
    /\ AtRow(c)
    /\ LET j == Head(scan[c])
       IN  /\ Holders(c, j, Builder(c).lock.strength) = {}
           /\ IF Accepts(Builder(c), status[j])
              THEN /\ locks' = [locks EXCEPT ![j][c] = Builder(c).lock.strength]
                   /\ rows' = [rows EXCEPT ![c] = @ \cup {j}]
              ELSE UNCHANGED <<locks, rows>>
    /\ scan' = [scan EXCEPT ![c] = Tail(@)]
    /\ UNCHANGED <<status, how, pc, code, made, failures>>

\* Somebody holds the row: the option decides. Without one, c waits.
RowHeld(c) ==
    /\ AtRow(c)
    /\ Holders(c, Head(scan[c]), Builder(c).lock.strength) # {}
    /\ \/ /\ Builder(c).lock.option = "SKIP LOCKED"
          /\ scan' = [scan EXCEPT ![c] = Tail(@)]
          /\ UNCHANGED <<pc, code>>
       \/ /\ Builder(c).lock.option = "NOWAIT"
          /\ pc' = [pc EXCEPT ![c] = "failed"]
          /\ code' = [code EXCEPT ![c] = "55P03"]
          /\ UNCHANGED scan
    /\ UNCHANGED <<status, locks, how, rows, made, failures>>

\* Find returns. Without a row (First: ErrRecordNotFound) the transaction ends.
Found(c) ==
    /\ pc[c] = "scan"
    /\ scan[c] = <<>> \/ Full(Builder(c), Cardinality(rows[c]))
    /\ scan' = [scan EXCEPT ![c] = <<>>]
    /\ pc' = [pc EXCEPT ![c] = IF rows[c] = {} THEN "idle" ELSE "work"]
    /\ locks' = IF rows[c] = {} THEN Released(c) ELSE locks
    /\ UNCHANGED <<status, how, rows, code, made, failures>>

\* The work is done: Updates on the rows claimed. A reader ends its transaction.
Work(c) ==
    /\ pc[c] = "work"
    /\ IF c \in Workers
       THEN /\ pc' = [pc EXCEPT ![c] = "finish"]
            /\ UNCHANGED <<locks, rows>>
       ELSE /\ pc' = [pc EXCEPT ![c] = "stopped"]
            /\ locks' = Released(c)
            /\ rows' = [rows EXCEPT ![c] = {}]
    /\ UNCHANGED <<status, how, scan, code, made, failures>>

\* Updates succeeds and the callback returns nil: COMMIT, which ends the locks.
Commit(c) ==
    /\ pc[c] = "finish" /\ WaitsFor(c) = {}
    /\ status' = [j \in Jobs |-> IF j \in rows[c] THEN "done" ELSE status[j]]
    /\ locks' = Released(c)
    /\ rows' = [rows EXCEPT ![c] = {}]
    /\ pc' = [pc EXCEPT ![c] = "idle"]
    /\ UNCHANGED <<how, scan, code, made, failures>>

\* The database ends one transaction of those that wait for each other.
Victim(c) ==
    /\ Deadlocked(c)
    /\ pc' = [pc EXCEPT ![c] = "failed"]
    /\ code' = [code EXCEPT ![c] = "40P01"]
    /\ UNCHANGED <<status, locks, how, scan, rows, made, failures>>

ConnectionLost(c) ==
    /\ pc[c] \in {"scan", "work", "finish"} /\ failures < MaxFailures
    /\ failures' = failures + 1
    /\ pc' = [pc EXCEPT ![c] = "failed"]
    /\ code' = [code EXCEPT ![c] = "08006"]
    /\ UNCHANGED <<status, locks, how, scan, rows, made>>

\* The callback returns the error, gorm rolls back, and the user of Transaction
\* asks the package whether to try again.
Rollback(c) ==
    /\ pc[c] = "failed"
    /\ LET err == PG!Error(code[c], {})
       IN  pc' = [pc EXCEPT ![c] =
                     IF PG!IsRetryable(PG!TranslateError(err)) THEN "idle" ELSE "stopped"]
    /\ locks' = Released(c)
    /\ rows' = [rows EXCEPT ![c] = {}]
    /\ scan' = [scan EXCEPT ![c] = <<>>]
    /\ code' = [code EXCEPT ![c] = NoCode]
    /\ UNCHANGED <<status, how, made, failures>>

-----------------------------------------------------------------------------
\* The builder of a producer.
Insert(p) ==
    IF how[p] = "on conflict do nothing" THEN OnConflict(Query, "nothing") ELSE Query

\* FirstOrCreate: First, which does not lock.
Look(p) ==
    /\ how[p] = "first or create" /\ made[p] = "not yet"
    /\ made' = [made EXCEPT ![p] = IF status[1] = "absent" THEN "not found" ELSE "found"]
    /\ UNCHANGED <<status, locks, how, pc, scan, rows, code, failures>>

\* Create: one INSERT, which the key makes fail, or affect no row, the second time.
Create(p) ==
    /\ how[p] # Idle
    /\ made[p] = IF how[p] = "first or create" THEN "not found" ELSE "not yet"
    /\ IF status[1] = "absent"
       THEN /\ made' = [made EXCEPT ![p] = "created"]
            /\ status' = [status EXCEPT ![1] = "pending"]
       ELSE /\ made' = [made EXCEPT ![p] =
                            IF Insert(p).onConflict = "nothing" THEN "no row" ELSE "duplicate"]
            /\ UNCHANGED status
    /\ UNCHANGED <<locks, how, pc, scan, rows, code, failures>>

Stopped(c) ==
    \/ pc[c] = "stopped"
    \/ pc[c] = "idle" /\ \A j \in Jobs : status[j] # "pending"

Terminated ==
    /\ \A c \in Clients : Stopped(c)
    /\ UNCHANGED vars

ClientStep(c) ==
    \/ Find(c) \/ LockRow(c) \/ RowHeld(c) \/ Found(c) \/ Work(c) \/ Commit(c)
    \/ Victim(c) \/ ConnectionLost(c) \/ Rollback(c)

Next ==
    \/ \E c \in Clients : ClientStep(c)
    \/ \E p \in Producers : Look(p) \/ Create(p)
    \/ Terminated

\* A worker goes on, a transaction ends, and whoever waits for a row gets it in
\* turn; a deadlock is noticed. Connections need not break.
Fairness ==
    /\ \A c \in Clients :
           /\ WF_vars(Find(c) \/ RowHeld(c) \/ Found(c) \/ Work(c) \/ Victim(c) \/ Rollback(c))
           /\ SF_vars(LockRow(c)) /\ SF_vars(Commit(c))
    /\ \A p \in Producers : WF_vars(Look(p) \/ Create(p))

Spec == Init /\ [][Next]_vars /\ Fairness

-----------------------------------------------------------------------------
\* A worker that claims rows with one of the exclusive locks works on jobs that
\* are still pending, and nobody else works on them, however the other claims:
\* only who does not lock at all (ForNoKeyUpdate in package mariadb) may.
NoJobTwice ==
    \A w \in Workers : pc[w] \in {"work", "finish"} /\ how[w] \in Exclusive =>
        \A j \in rows[w] :
            /\ status[j] = "pending"
            /\ \A other \in Workers \ {w} : Builder(other).lock # NoLock => j \notin rows[other]

\* "Prevents updates but allows reads": what a transaction selected ForShare does
\* not change before the transaction ends.
KeepsSharedRows ==
    \A r \in Readers : how[r] = "share" => \A j \in rows[r] : status'[j] = status[j]

SharedRowsDontChange == [][KeepsSharedRows]_vars

\* SKIP LOCKED avoids blocking for the whole transaction: a worker that claimed
\* that way, or with NOWAIT, waits neither for its claim nor for its update. Those
\* who lock FOR KEY SHARE do not wait for FOR NO KEY UPDATE. Nor does anybody see
\* a deadlock, unless someone locks many rows in no order, or claims in share mode
\* what it is going to change.
ClaimersNeverWait ==
    /\ \A w \in Workers : how[w] \in {"skip locked", "nowait"} => WaitsFor(w) = {}
    /\ \A r \in Readers : how[r] = "key share" => \A w \in WaitsFor(r) : how[w] # "no key"
    /\ \A c \in Clients : code[c] = "40P01" =>
           \E w \in Workers : how[w] \in {"update", "share, skip"}

\* Of all that create a job one succeeds; who asked for DoNothing never fails, and
\* learns from the number of rows whether the job was there.
IdempotentCreate ==
    /\ Cardinality({p \in Producers : made[p] = "created"}) <= 1
    /\ \A p \in Producers : made[p] \notin {"not yet", "not found"} => status[1] # "absent"
    /\ \A p \in Producers : how[p] = "on conflict do nothing" => made[p] # "duplicate"

\* Jobs get done in spite of deadlocks, of locks that are not available and of
\* lost connections, since all of these are retryable; a query that the database
\* refuses is not, and one worker with a proper one is enough. (Not so when rows
\* are locked in no order: two transactions can make each other fail for ever.)
EveryJobDone ==
    (\A w \in Workers : how[w] # "update") /\ (\E w \in Workers : how[w] \notin Wrong) =>
        \A j \in Jobs : status[j] = "pending" ~> status[j] = "done"
=============================================================================
