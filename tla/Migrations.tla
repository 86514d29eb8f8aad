----------------------------- MODULE Migrations -----------------------------
(***************************************************************************)
(* The migration tools of the SQL packages (migrations.go of postgres and  *)
(* of mariadb): MigrateUp, MigrateDown and AutoMigrate, run by several     *)
(* processes against one database, any of which may die at any point.      *)
(*                                                                         *)
(* A migration is its ID.  IDs are timestamps, so they are compared with a *)
(* clock of whole seconds.  The SQL of a migration is its net effect: how  *)
(* often its up script took effect more than its down script.  The         *)
(* database is external: transactions are atomic and isolated, the row of  *)
(* an ID is locked by who inserts or deletes it, and some scripts, those   *)
(* in ImplicitCommit, end the transaction they run in (DDL in MariaDB;     *)
(* none in PostgreSQL).                                                    *)
(***************************************************************************)
EXTENDS Integers, FiniteSets

CONSTANTS
    Runners,         \* processes
    Setups,          \* who calls what, and the kinds of migrations
    MaxClock,        \* bound: seconds, and so IDs
    MaxFaults        \* bound: failed statements and deaths of processes

Ids == 1 .. MaxClock

ASSUME MigrationsAssumption ==
    /\ MaxClock \in Nat \ {0} /\ MaxFaults \in Nat
    /\ Setups \subseteq [uppers : SUBSET Runners, downers : SUBSET Runners,
                         autos : SUBSET Runners, implicitCommit : SUBSET Ids,
                         mergeable : SUBSET Ids, noDown : SUBSET Ids]

VARIABLES
    setup,
    \* the migrations directory and the clock
    files, clock, faults,
    \* the database: rows of the history table, net effect of the scripts
    history, autoIds, effects,
    \* a process: where it is, MigrateUp's map of applied IDs, the files it
    \* loaded, the migration it works on, whether its transaction is open,
    \* whether its DELETE found the row
    pc, snap, loaded, cur, inTx, hit,
    \* auxiliary: the pairs <<i, j>> in history of which i was recorded first
    before

dirVars == <<setup, files, clock>>
dbVars  == <<history, autoIds, effects, before>>
locals  == <<snap, loaded>>
vars == <<dirVars, faults, dbVars, pc, locals, cur, inTx, hit>>

Uppers         == setup.uppers          \* those that call MigrateUp,
Downers        == setup.downers         \* MigrateDown,
Autos          == setup.autos           \* AutoMigrate
ImplicitCommit == setup.implicitCommit  \* migrations whose scripts commit by themselves
Mergeable      == setup.mergeable       \* files that may turn up late, from another branch
NoDown         == setup.noDown          \* migrations without a down file

Init ==
    /\ setup \in Setups
    /\ files = {}
    /\ clock = 1
    /\ faults = 0
    /\ history = {}
    /\ autoIds = {}
    /\ effects = [i \in Ids |-> 0]
    /\ before = {}
    /\ pc = [r \in Runners |-> "idle"]
    /\ snap = [r \in Runners |-> {}]
    /\ loaded = [r \in Runners |-> {}]
    /\ cur = [r \in Runners |-> 0]
    /\ inTx = [r \in Runners |-> FALSE]
    /\ hit = [r \in Runners |-> FALSE]

Least(S)    == CHOOSE i \in S : \A j \in S : i <= j
Greatest(S) == CHOOSE i \in S : \A j \in S : j <= i

Goto(r, label) == pc' = [pc EXCEPT ![r] = label]

\* The function returns, and an open transaction is gone (rolled back). What
\* the locals held is forgotten.
Return(r) ==
    /\ Goto(r, "idle")
    /\ snap' = [snap EXCEPT ![r] = {}]
    /\ loaded' = [loaded EXCEPT ![r] = {}]
    /\ cur' = [cur EXCEPT ![r] = 0]
    /\ inTx' = [inTx EXCEPT ![r] = FALSE]
    /\ hit' = [hit EXCEPT ![r] = FALSE]

ReturnOnly(r) ==
    /\ Return(r)
    /\ UNCHANGED <<dirVars, faults, dbVars>>

\* A statement fails or the connection is lost.
Fault ==
    /\ faults < MaxFaults
    /\ faults' = faults + 1

Fail(r) ==
    /\ Fault
    /\ Return(r)
    /\ UNCHANGED <<dirVars, dbVars>>

AddEffect(i, n) == effects' = [effects EXCEPT ![i] = @ + n]

Insert(i) ==
    /\ history' = history \cup {i}
    /\ before' = before \cup (history \X {i})

Delete(i) ==
    /\ history' = history \ {i}
    /\ before' = before \cap (history' \X history')

\* Somebody else inserted or deleted the row in a transaction still open.
RowLocked(r, i) ==
    \E u \in Runners \ {r} :
        /\ inTx[u] /\ cur[u] = i
        /\ pc[u] = "upCommit" \/ (pc[u] = "downCommit" /\ hit[u])

RowDeleting(r, i) ==
    \E u \in Runners \ {r} : inTx[u] /\ cur[u] = i /\ pc[u] = "downCommit" /\ hit[u]

-----------------------------------------------------------------------------
\* MigrateUp.

\* The history is read first, the directory after it.
UpRead(r) ==
    /\ pc[r] = "idle"
    /\ snap' = [snap EXCEPT ![r] = history]
    /\ Goto(r, "upLoad")
    /\ UNCHANGED <<dirVars, faults, dbVars, loaded, cur, inTx, hit>>

UpLoad(r) ==
    /\ pc[r] = "upLoad"
    /\ loaded' = [loaded EXCEPT ![r] = files]
    /\ Goto(r, "upNext")
    /\ UNCHANGED <<dirVars, faults, dbVars, snap, cur, inTx, hit>>

\* What the loop over the sorted files still has to apply.
Pending(r) == {i \in loaded[r] \ snap[r] : i > cur[r]}

\* Begin a transaction for the next file.
UpNext(r) ==
    /\ pc[r] = "upNext"
    /\ Pending(r) # {}
    /\ cur' = [cur EXCEPT ![r] = Least(Pending(r))]
    /\ inTx' = [inTx EXCEPT ![r] = TRUE]
    /\ Goto(r, "upExec")
    /\ UNCHANGED <<dirVars, faults, dbVars, locals, hit>>

UpDone(r) ==
    /\ pc[r] = "upNext"
    /\ Pending(r) = {}
    /\ ReturnOnly(r)

\* A mistake: the script runs on db instead of tx.
UpExecOutsideTx(r) ==
    /\ pc[r] = "upExec"
    /\ AddEffect(cur[r], 1)
    /\ inTx' = [inTx EXCEPT ![r] = FALSE]
    /\ Goto(r, "upRecord")
    /\ UNCHANGED <<dirVars, faults, history, autoIds, before, locals, cur, hit>>

UpExec(r) ==
    /\ pc[r] = "upExec"
    /\ \/ /\ cur[r] \in ImplicitCommit
          /\ AddEffect(cur[r], 1)
          /\ inTx' = [inTx EXCEPT ![r] = FALSE]
       \/ /\ cur[r] \notin ImplicitCommit
          /\ UNCHANGED <<effects, inTx>>
    /\ Goto(r, "upRecord")
    /\ UNCHANGED <<dirVars, faults, history, autoIds, before, locals, cur, hit>>

\* A mistake: the loop goes on with the next file.
UpExecFailsAndGoesOn(r) ==
    /\ pc[r] = "upExec"
    /\ inTx' = [inTx EXCEPT ![r] = FALSE]
    /\ Goto(r, "upNext")
    /\ Fault /\ UNCHANGED <<dirVars, dbVars, locals, cur, hit>>

\* A script may fail at any time; the loop ends with it.
UpExecFails(r) ==
    /\ pc[r] = "upExec"
    /\ Fail(r)

\* tx.Create(&record): waits for the row, fails if it is there.
UpRecord(r) ==
    /\ pc[r] = "upRecord"
    /\ ~RowLocked(r, cur[r])
    /\ cur[r] \notin history
    /\ \/ inTx[r] /\ UNCHANGED <<history, before>>
       \/ ~inTx[r] /\ Insert(cur[r])
    /\ Goto(r, "upCommit")
    /\ UNCHANGED <<dirVars, faults, autoIds, effects, locals, cur, inTx, hit>>

\* A mistake: a failed insert is taken for "already there".
UpRecordFailsAndGoesOn(r) ==
    /\ pc[r] = "upRecord"
    /\ inTx' = [inTx EXCEPT ![r] = FALSE]
    /\ Goto(r, "upNext")
    /\ Fault /\ UNCHANGED <<dirVars, dbVars, locals, cur, hit>>

\* The primary key: another process recorded the migration meanwhile.
UpRecordDuplicate(r) ==
    /\ pc[r] = "upRecord"
    /\ ~RowLocked(r, cur[r])
    /\ cur[r] \in history
    /\ ReturnOnly(r)

UpRecordFails(r) ==
    /\ pc[r] = "upRecord"
    /\ Fail(r)

\* What a commit of the open transaction makes of the database.
UpCommitted(r) ==
    IF inTx[r]
    THEN /\ AddEffect(cur[r], 1)
         /\ Insert(cur[r])
         /\ UNCHANGED autoIds
    ELSE UNCHANGED dbVars

UpCommit(r) ==
    /\ pc[r] = "upCommit"
    /\ UpCommitted(r)
    /\ inTx' = [inTx EXCEPT ![r] = FALSE]
    /\ Goto(r, "upNext")
    /\ UNCHANGED <<dirVars, faults, locals, cur, hit>>

\* Commit returned an error: the database may have committed all the same.
UpCommitFails(r) ==
    /\ pc[r] = "upCommit"
    /\ UpCommitted(r) \/ UNCHANGED dbVars
    /\ Fault
    /\ Return(r)
    /\ UNCHANGED dirVars

-----------------------------------------------------------------------------
\* MigrateDown.

\* A mistake: the order of the query is ascending.
DownReadAscending(r) ==
    /\ pc[r] = "idle"
    /\ history # {}
    /\ cur' = [cur EXCEPT ![r] = Least(history)]
    /\ Goto(r, "downLoad")
    /\ UNCHANGED <<dirVars, faults, dbVars, locals, inTx, hit>>

\* Order("id DESC").First
DownRead(r) ==
    /\ pc[r] = "idle"
    /\ history # {}
    /\ cur' = [cur EXCEPT ![r] = Greatest(history)]
    /\ Goto(r, "downLoad")
    /\ UNCHANGED <<dirVars, faults, dbVars, locals, inTx, hit>>

\* The down file is there; Begin.
DownLoad(r) ==
    /\ pc[r] = "downLoad"
    /\ cur[r] \in files \ NoDown
    /\ inTx' = [inTx EXCEPT ![r] = TRUE]
    /\ Goto(r, "downExec")
    /\ UNCHANGED <<dirVars, faults, dbVars, locals, cur, hit>>

\* "no down migration found"
DownNoFile(r) ==
    /\ pc[r] = "downLoad"
    /\ cur[r] \notin files \ NoDown
    /\ ReturnOnly(r)

DownExec(r) ==
    /\ pc[r] = "downExec"
    /\ \/ /\ cur[r] \in ImplicitCommit
          /\ AddEffect(cur[r], -1)
          /\ inTx' = [inTx EXCEPT ![r] = FALSE]
       \/ /\ cur[r] \notin ImplicitCommit
          /\ UNCHANGED <<effects, inTx>>
    /\ Goto(r, "downDelete")
    /\ UNCHANGED <<dirVars, faults, history, autoIds, before, locals, cur, hit>>

\* DELETE ... WHERE id = ?: no error when there is no such row (any more).
DownDelete(r) ==
    /\ pc[r] = "downDelete"
    /\ ~RowDeleting(r, cur[r])
    /\ hit' = [hit EXCEPT ![r] = cur[r] \in history]
    /\ \/ inTx[r] /\ UNCHANGED <<history, before>>
       \/ ~inTx[r] /\ Delete(cur[r])
    /\ Goto(r, "downCommit")
    /\ UNCHANGED <<dirVars, faults, autoIds, effects, locals, cur, inTx>>

\* The script, or the DELETE, failed: roll back.
DownFails(r) ==
    /\ pc[r] \in {"downExec", "downDelete"}
    /\ Fail(r)

DownCommitted(r) ==
    IF inTx[r]
    THEN /\ AddEffect(cur[r], -1)
         /\ IF hit[r] THEN Delete(cur[r]) ELSE UNCHANGED <<history, before>>
         /\ UNCHANGED autoIds
    ELSE UNCHANGED dbVars

DownCommit(r) ==
    /\ pc[r] = "downCommit"
    /\ DownCommitted(r)
    /\ Return(r)
    /\ UNCHANGED <<dirVars, faults>>

DownCommitFails(r) ==
    /\ pc[r] = "downCommit"
    /\ DownCommitted(r) \/ UNCHANGED dbVars
    /\ Fault
    /\ Return(r)
    /\ UNCHANGED dirVars

-----------------------------------------------------------------------------
\* AutoMigrate: gorm's AutoMigrate, then a record named after the second.

AutoMigrate(r) ==
    /\ pc[r] = "idle"
    /\ Goto(r, "autoRecord")
    /\ UNCHANGED <<dirVars, faults, dbVars, locals, cur, inTx, hit>>

AutoRecord(r) ==
    /\ pc[r] = "autoRecord"
    /\ clock \notin history
    /\ ~RowLocked(r, clock)
    /\ Insert(clock)
    /\ autoIds' = autoIds \cup {clock}
    /\ Goto(r, "idle")
    /\ UNCHANGED <<dirVars, faults, effects, locals, cur, inTx, hit>>

\* "failed to record migration": two records in one second.
AutoRecordDuplicate(r) ==
    /\ pc[r] = "autoRecord"
    /\ clock \in history
    /\ ~RowLocked(r, clock)
    /\ ReturnOnly(r)

AutoRecordFails(r) ==
    /\ pc[r] = "autoRecord"
    /\ Fail(r)

-----------------------------------------------------------------------------
\* CreateMigration, and the surroundings.

CreateMigration ==
    /\ clock \notin files
    /\ files' = files \cup {clock}
    /\ UNCHANGED <<setup, clock, faults, dbVars, pc, locals, cur, inTx, hit>>

\* A file with an older timestamp arrives from another branch.
MergeFile ==
    /\ \E i \in Mergeable \ files : i < clock /\ files' = files \cup {i}
    /\ UNCHANGED <<setup, clock, faults, dbVars, pc, locals, cur, inTx, hit>>

Tick ==
    /\ clock < MaxClock
    /\ clock' = clock + 1
    /\ UNCHANGED <<setup, files, faults, dbVars, pc, locals, cur, inTx, hit>>

\* The process dies; the database rolls its open transaction back.
Crash(r) ==
    /\ pc[r] # "idle"
    /\ Fail(r)

-----------------------------------------------------------------------------
UpStep(r) ==
    \/ UpRead(r) \/ UpLoad(r) \/ UpNext(r) \/ UpDone(r) \/ UpExec(r) \/ UpExecFails(r)
    \/ UpRecord(r) \/ UpRecordDuplicate(r) \/ UpRecordFails(r)
    \/ UpCommit(r) \/ UpCommitFails(r)

DownStep(r) ==
    \/ DownRead(r) \/ DownLoad(r) \/ DownNoFile(r) \/ DownExec(r) \/ DownDelete(r)
    \/ DownFails(r) \/ DownCommit(r) \/ DownCommitFails(r)

AutoStep(r) ==
    AutoMigrate(r) \/ AutoRecord(r) \/ AutoRecordDuplicate(r) \/ AutoRecordFails(r)

Next ==
    \/ \E r \in Uppers : UpStep(r)
    \/ \E r \in Downers : DownStep(r)
    \/ \E r \in Autos : AutoStep(r)
    \/ \E r \in Runners : Crash(r)
    \/ CreateMigration
    \/ MergeFile
    \/ Tick

Spec == Init /\ [][Next]_vars

-----------------------------------------------------------------------------
\* How often the script of i should have taken effect, by the history.
Expected(i) == IF i \in history \ autoIds THEN 1 ELSE 0

\* Scripts that ran outside the transaction and wait for their record.
Unrecorded(i) ==
    Cardinality({r \in Runners : /\ pc[r] \in {"upRecord", "downDelete"}
                                 /\ cur[r] = i
                                 /\ ~inTx[r]})

\* r alone migrates.
Alone(r) == Uppers \cup Downers \cup Autos \subseteq {r}

\* Each migration took effect exactly once if the history records it and not
\* at all otherwise, whichever of several processes ran it and wherever a run
\* was cut off, as long as one process at most reverts, and none in a database
\* where AutoMigrate leaves records. Where scripts commit by themselves (DDL in
\* MariaDB), effect and history can drift apart, but where one process migrates
\* by at most one for each failure: without one in between, script and record
\* stay together.
DriftBounded ==
    (\A r, u \in Downers : r = u) /\ (Autos = {} \/ Downers = {}) =>
        \A i \in Ids :
            LET drift == effects[i] - Expected(i)
                bound == IF i \in ImplicitCommit THEN faults + Unrecorded(i) ELSE 0
            IN  (i \in ImplicitCommit => \E r \in Runners : Alone(r)) =>
                    drift <= bound /\ -drift <= bound

\* A migration is applied only after every older one that the run has loaded,
\* unless another process reverts at the same time.
AppliesInOrder ==
    \A r \in Uppers : UpCommit(r) /\ Downers \subseteq {r} =>
        {i \in loaded[r] : i < cur[r]} \subseteq history

InOrder == [][AppliesInOrder]_vars

\* MigrateUp succeeds only when every file it found is recorded as applied, unless
\* another process reverts at the same time.
SucceedsWhenApplied ==
    \A r \in Uppers : UpDone(r) /\ Downers \subseteq {r} => loaded[r] \subseteq history

SuccessMeansApplied == [][SucceedsWhenApplied]_vars

\* doc of MigrateDown: it finds the most recently applied migration. That is
\* the one with the greatest ID as long as no older file arrives late and no
\* other process migrates.
RevertsLatest ==
    \A r \in Downers :
        DownDelete(r) /\ cur[r] \in history /\ Mergeable = {} /\ Autos = {} /\ Alone(r) =>
            \A i \in history \ {cur[r]} : <<i, cur[r]>> \in before

DownRevertsLatest == [][RevertsLatest]_vars
=============================================================================
