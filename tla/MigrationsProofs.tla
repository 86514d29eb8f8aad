-------------------------- MODULE MigrationsProofs --------------------------
(***************************************************************************)
(* The migration tools keep schema and history together, for any number of *)
(* processes, migrations, failures and deaths.                             *)
(*                                                                         *)
(* A process that is about to commit the record of a migration holds the   *)
(* lock of its row, so nobody else records it; what a single process       *)
(* reverts is recorded until it deletes it.  So each commit changes effect *)
(* and history of one migration together.  Where a script commits by       *)
(* itself, a process is one ahead (or behind) between script and record,   *)
(* and what it fails to record stays so for good, once for each failure.   *)
(***************************************************************************)
EXTENDS Migrations, FiniteSetTheorems, WellFoundedInduction, TLAPS

UpLabels   == {"upLoad", "upNext", "upExec", "upRecord", "upCommit"}
DownLabels == {"downLoad", "downExec", "downDelete", "downCommit"}
Labels     == UpLabels \cup DownLabels \cup {"idle", "autoRecord"}

TypeOK ==
    /\ setup \in Setups
    /\ files \in SUBSET Ids
    /\ clock \in Ids
    /\ faults \in Nat
    /\ history \in SUBSET Ids
    /\ autoIds \in SUBSET Ids
    /\ effects \in [Ids -> Int]
    /\ pc \in [Runners -> Labels]
    /\ snap \in [Runners -> SUBSET Ids]
    /\ loaded \in [Runners -> SUBSET Ids]
    /\ cur \in [Runners -> 0 .. MaxClock]
    /\ inTx \in [Runners -> BOOLEAN]
    /\ hit \in [Runners -> BOOLEAN]

\* Everybody does what it was called for, on a migration once it has one.
Roles(r) ==
    /\ pc[r] \in UpLabels => r \in Uppers
    /\ pc[r] \in DownLabels => r \in Downers
    /\ pc[r] = "autoRecord" => r \in Autos
    /\ pc[r] \in DownLabels \cup {"upExec", "upRecord", "upCommit"} => cur[r] \in Ids
    /\ pc[r] \in {"idle", "autoRecord", "upLoad"} => cur[r] = 0

\* Only a script that commits by itself ends the transaction early.
InTransaction(r) ==
    /\ pc[r] \in {"upExec", "downExec"} => inTx[r]
    /\ pc[r] \in {"upRecord", "upCommit", "downDelete", "downCommit"} =>
           (inTx[r] <=> cur[r] \notin ImplicitCommit)

\* Who is going to commit a record is the only one.
Recording(r) == pc[r] = "upCommit" /\ inTx[r]

OwnsRow(r) ==
    Recording(r) =>
        /\ cur[r] \notin history
        /\ \A u \in Runners \ {r} : Recording(u) => cur[u] # cur[r]

\* Where one process reverts, what it works on is recorded until it deletes that.
OneDowner == \A r, u \in Downers : r = u

Reverts(r) ==
    OneDowner =>
        /\ pc[r] \in {"downLoad", "downExec", "downDelete"} => cur[r] \in history
        /\ pc[r] = "downCommit" /\ inTx[r] => hit[r] /\ cur[r] \in history

\* Where nobody else reverts, what a process read and what it has passed stays.
Passed(r) ==
    Downers \subseteq {r} /\ pc[r] \in UpLabels =>
        /\ snap[r] \subseteq history
        /\ {i \in loaded[r] : i < cur[r]} \subseteq history
        /\ pc[r] = "upNext" => cur[r] = 0 \/ cur[r] \in history
        /\ pc[r] = "upCommit" /\ ~inTx[r] => cur[r] \in history

\* Where nobody else migrates, nothing is recorded that it has not read or passed.
Fresh(r) ==
    Alone(r) /\ pc[r] \in UpLabels =>
        /\ history \subseteq snap[r] \cup {j \in Ids : j <= cur[r]}
        /\ pc[r] \in {"upExec", "upRecord"} => cur[r] \notin history

Holds(r) ==
    Roles(r) /\ InTransaction(r) /\ OwnsRow(r) /\ Reverts(r) /\ Passed(r) /\ Fresh(r)

\* Records of AutoMigrate stay where nobody reverts.
NoMix == Autos = {} \/ Downers = {}

AutoRecords ==
    /\ Autos = {} => autoIds = {}
    /\ Downers = {} => autoIds \subseteq history

Drift(i) == effects[i] - Expected(i)

Exact == OneDowner /\ NoMix => \A i \in Ids \ ImplicitCommit : Drift(i) = 0

\* How far r, between script and record, is ahead of the history.
Ahead(r, i) ==
    IF cur[r] # i THEN 0
    ELSE IF pc[r] = "upRecord" THEN 1 ELSE IF pc[r] = "downDelete" THEN -1 ELSE 0

Near ==
    NoMix => \A r \in Runners : Alone(r) =>
        \A i \in ImplicitCommit :
            Drift(i) - Ahead(r, i) <= faults /\ Ahead(r, i) - Drift(i) <= faults

IInv == TypeOK /\ (\A r \in Runners : Holds(r)) /\ AutoRecords

Together == Exact /\ Near

\* Files carry the second of their making, and MigrateUp works on one it loaded.
Seen ==
    /\ \A i \in files : i <= clock
    /\ \A r \in Runners : /\ loaded[r] \subseteq files
                          /\ pc[r] \in {"upExec", "upRecord", "upCommit"} => cur[r] \in loaded[r]
    /\ Autos = {} => history \subseteq files

\* Where no older file arrives late, the files that a process has not loaded are younger.
Newer == Mergeable = {} =>
    \A r \in Runners : \A i \in files \ loaded[r], j \in loaded[r] : j < i

\* Where, besides, one process migrates, the history is the beginning of the files,
\* recorded in their order, and what is being reverted is the end of it.
Ascending ==
    \A r \in Runners : Mergeable = {} /\ Autos = {} /\ Alone(r) =>
        /\ \A i \in files, j \in history : i < j => i \in history
        /\ \A i, j \in history : i < j => <<i, j>> \in before
        /\ pc[r] \in DownLabels => \A i \in history : i <= cur[r]

Ordered == Seen /\ Newer /\ Ascending
-----------------------------------------------------------------------------
\* The natural numbers are well founded.
LEMMA LeastNatural ==
    ASSUME NEW S \in SUBSET Nat, S # {}
    PROVE  \E n \in S : \A m \in S : n <= m
<1>1. IsWellFoundedOn(OpToRel(<, Nat), Nat)
  BY NatLessThanWellFounded
<1>2. PICK n \in S : \A m \in S : ~(<<m, n>> \in OpToRel(<, Nat))
  BY <1>1, WFMin
<1>3. \A m \in S : ~(m < n)
  BY <1>2 DEF OpToRel
<1> QED
  BY <1>3

\* What Least and Greatest choose.
LEMMA LeastFacts ==
    ASSUME NEW S \in SUBSET Ids, S # {}
    PROVE  Least(S) \in S /\ \A j \in S : Least(S) <= j
<1>1. S \in SUBSET Nat
  BY DEF Ids
<1>2. \E i \in S : \A j \in S : i <= j
  BY <1>1, LeastNatural
<1> QED
  BY <1>2 DEF Least

LEMMA GreatestFacts ==
    ASSUME NEW S \in SUBSET Ids, S # {}
    PROVE  Greatest(S) \in S /\ \A j \in S : j <= Greatest(S)
<1> DEFINE T == {n \in 0 .. MaxClock : MaxClock - n \in S}
<1>1. MaxClock \in Nat /\ S \subseteq 1 .. MaxClock
  BY MigrationsAssumption DEF Ids
<1>2. T \in SUBSET Nat /\ T # {}
  <2>1. PICK i \in S : TRUE
    OBVIOUS
  <2>2. MaxClock - i \in 0 .. MaxClock /\ MaxClock - (MaxClock - i) = i
    BY <1>1
  <2>3. MaxClock - i \in T
    BY <2>1, <2>2
  <2>4. T \subseteq Nat
    BY <1>1
  <2> QED
    BY <2>3, <2>4
<1>3. PICK n \in T : \A m \in T : n <= m
  BY <1>2, LeastNatural
<1>4. \A j \in S : j <= MaxClock - n
  <2>1. ASSUME NEW j \in S
        PROVE  j <= MaxClock - n
    <3>1. MaxClock - j \in T
      BY <1>1
    <3>2. n <= MaxClock - j
      BY <1>3, <3>1
    <3> QED
      BY <1>1, <1>3, <3>2
  <2> QED
    BY <2>1
<1>5. MaxClock - n \in S
  BY <1>3
<1> QED
  BY <1>4, <1>5 DEF Greatest

\* MigrateUp takes the next file of those it loaded.
LEMMA NextFile ==
    ASSUME TypeOK, NEW r \in Runners, Pending(r) # {}
    PROVE  /\ Least(Pending(r)) \in loaded[r] \ snap[r]
           /\ Least(Pending(r)) \in Ids
           /\ Least(Pending(r)) > cur[r]
           /\ \A j \in Pending(r) : Least(Pending(r)) <= j
<1>1. Pending(r) \in SUBSET Ids
  BY DEF TypeOK, Pending
<1>2. Least(Pending(r)) \in Pending(r) /\ \A j \in Pending(r) : Least(Pending(r)) <= j
  BY <1>1, LeastFacts
<1> QED
  BY <1>1, <1>2 DEF Pending

-----------------------------------------------------------------------------
\* A step of one process.
RunnerStep(r) ==
    \/ r \in Uppers /\ UpStep(r)
    \/ r \in Downers /\ DownStep(r)
    \/ r \in Autos /\ AutoStep(r)
    \/ Crash(r)

Surroundings == CreateMigration \/ MergeFile \/ Tick \/ UNCHANGED vars

LEMMA StepCases ==
    ASSUME TypeOK, [Next]_vars
    PROVE  Surroundings \/ \E r \in Runners : RunnerStep(r)
<1>1. Uppers \subseteq Runners /\ Downers \subseteq Runners /\ Autos \subseteq Runners
  BY MigrationsAssumption DEF TypeOK, Uppers, Downers, Autos
<1> QED
  BY <1>1 DEF Next, RunnerStep, Surroundings

\* The steps after which a process is idle and the database is as before.
Quits(r) ==
    /\ Return(r)
    /\ UNCHANGED <<dirVars, dbVars>>
    /\ faults' \in {faults, faults + 1}

LEMMA QuitSteps ==
    ASSUME TypeOK, NEW r \in Runners,
           \/ UpDone(r) \/ UpExecFails(r) \/ UpRecordDuplicate(r) \/ UpRecordFails(r)
           \/ DownNoFile(r) \/ DownFails(r)
           \/ AutoRecordDuplicate(r) \/ AutoRecordFails(r) \/ Crash(r)
    PROVE  Quits(r)
BY DEF UpDone, UpExecFails, UpRecordDuplicate, UpRecordFails, DownNoFile, DownFails,
       AutoRecordDuplicate, AutoRecordFails, Crash, ReturnOnly, Fail, Fault, Quits

LEMMA Returned ==
    ASSUME TypeOK, NEW r \in Runners, Return(r)
    PROVE  /\ pc' \in [Runners -> Labels] /\ snap' \in [Runners -> SUBSET Ids]
           /\ loaded' \in [Runners -> SUBSET Ids] /\ cur' \in [Runners -> 0 .. MaxClock]
           /\ inTx' \in [Runners -> BOOLEAN] /\ hit' \in [Runners -> BOOLEAN]
           /\ pc'[r] = "idle" /\ cur'[r] = 0 /\ ~inTx'[r]
<1>1. MaxClock \in Nat
  BY MigrationsAssumption
<1> QED
  BY <1>1 DEF TypeOK, Return, Goto, Labels

LEMMA Added ==
    ASSUME TypeOK, NEW i \in Ids, NEW n \in Int, AddEffect(i, n)
    PROVE  /\ effects' \in [Ids -> Int]
           /\ \A j \in Ids : effects'[j] = IF j = i THEN effects[j] + n ELSE effects[j]
BY DEF TypeOK, AddEffect

\* Every step keeps the types.
LEMMA TypeStep == IInv /\ [Next]_vars => TypeOK'
<1> SUFFICES ASSUME IInv, [Next]_vars
             PROVE  TypeOK'
  OBVIOUS
<1> USE DEF dirVars, dbVars, locals, Goto, Labels, UpLabels, DownLabels
<1>t. MaxClock \in Nat \ {0} /\ Ids = 1 .. MaxClock /\ TypeOK
  BY MigrationsAssumption DEF Ids, IInv
<1>r. \A r \in Runners : pc[r] \in {"downLoad", "downExec", "downDelete", "downCommit",
                                     "upExec", "upRecord", "upCommit"} => cur[r] \in Ids
  BY DEF IInv, Holds, Roles
<1>1. CASE Surroundings
  <2>1. CASE CreateMigration
    BY <2>1, <1>t DEF CreateMigration, TypeOK
  <2>2. CASE MergeFile
    <3>1. Mergeable \subseteq Ids
      BY <1>t, MigrationsAssumption DEF TypeOK, Mergeable
    <3>2. files' \in SUBSET Ids
      BY <2>2, <1>t, <3>1 DEF MergeFile, TypeOK
    <3> QED
      BY <2>2, <3>2, <1>t DEF MergeFile, TypeOK
  <2>3. CASE Tick
    BY <2>3, <1>t DEF Tick, TypeOK
  <2>4. CASE UNCHANGED vars
    BY <2>4, <1>t DEF vars, TypeOK
  <2> QED
    BY <1>1, <2>1, <2>2, <2>3, <2>4 DEF Surroundings
<1>2. ASSUME NEW r \in Runners, Quits(r)
      PROVE  TypeOK'
  <2>1. UNCHANGED <<setup, files, clock, history, autoIds, effects>>
    BY <1>2 DEF Quits
  <2>2. faults' \in Nat
    BY <1>2, <1>t DEF Quits, TypeOK
  <2>3. /\ pc' \in [Runners -> Labels] /\ snap' \in [Runners -> SUBSET Ids]
        /\ loaded' \in [Runners -> SUBSET Ids] /\ cur' \in [Runners -> 0 .. MaxClock]
        /\ inTx' \in [Runners -> BOOLEAN] /\ hit' \in [Runners -> BOOLEAN]
    BY <1>2, <1>t, Returned DEF Quits
  <2> QED
    BY <1>t, <2>1, <2>2, <2>3 DEF TypeOK
<1>3. ASSUME NEW r \in Runners, UpRead(r) \/ UpLoad(r)
      PROVE  TypeOK'
  BY <1>3, <1>t DEF UpRead, UpLoad, TypeOK
<1>4. ASSUME NEW r \in Runners, UpNext(r)
      PROVE  TypeOK'
  <2>1. PICK i \in Ids : i = Least(Pending(r))
    BY <1>4, <1>t, NextFile DEF UpNext
  <2>2. cur' \in [Runners -> 0 .. MaxClock]
    BY <1>4, <1>t, <2>1 DEF UpNext, TypeOK
  <2>3. pc' \in [Runners -> Labels] /\ inTx' \in [Runners -> BOOLEAN]
    BY <1>4, <1>t DEF UpNext, TypeOK
  <2> QED
    BY <1>4, <1>t, <2>2, <2>3 DEF UpNext, TypeOK
<1>5. ASSUME NEW r \in Runners, UpExec(r) \/ DownExec(r)
      PROVE  TypeOK'
  <2>1. cur[r] \in Ids
    BY <1>5, <1>r DEF UpExec, DownExec
  <2>2. effects' = effects \/ \E n \in {1, -1} : AddEffect(cur[r], n)
    BY <1>5 DEF UpExec, DownExec
  <2>3. effects' \in [Ids -> Int]
    <3>1. CASE effects' = effects
      BY <1>t, <3>1 DEF TypeOK
    <3>2. ASSUME NEW n \in {1, -1}, AddEffect(cur[r], n)
          PROVE  effects' \in [Ids -> Int]
      <4>1. n \in Int
        OBVIOUS
      <4> QED
        BY <1>t, <2>1, <3>2, <4>1, Added
    <3> QED
      BY <2>2, <3>1, <3>2
  <2> QED
    BY <1>5, <1>t, <2>3 DEF UpExec, DownExec, TypeOK
<1>6. ASSUME NEW r \in Runners, UpRecord(r)
      PROVE  TypeOK'
  <2>1. cur[r] \in Ids
    BY <1>6, <1>r DEF UpRecord
  <2> QED
    BY <1>6, <1>t, <2>1 DEF UpRecord, Insert, TypeOK
<1>7. ASSUME NEW r \in Runners, UpCommit(r) \/ UpCommitFails(r)
      PROVE  TypeOK'
  <2>1. cur[r] \in Ids
    BY <1>7, <1>r DEF UpCommit, UpCommitFails
  <2>2. history' \in SUBSET Ids /\ autoIds' \in SUBSET Ids /\ effects' \in [Ids -> Int]
    <3>1. UpCommitted(r) \/ UNCHANGED <<history, autoIds, effects>>
      BY <1>7 DEF UpCommit, UpCommitFails
    <3>2. AddEffect(cur[r], 1) \/ effects' = effects
      BY <3>1 DEF UpCommitted
    <3>3. effects' \in [Ids -> Int]
      BY <1>t, <2>1, <3>2, Added DEF TypeOK
    <3> QED
      BY <1>t, <2>1, <3>1, <3>3 DEF UpCommitted, Insert, TypeOK
  <2>3. CASE UpCommit(r)
    BY <1>t, <2>2, <2>3 DEF UpCommit, TypeOK
  <2>4. CASE UpCommitFails(r)
    <3>1. faults' \in Nat /\ Return(r) /\ UNCHANGED dirVars
      BY <1>t, <2>4 DEF UpCommitFails, Fault, TypeOK
    <3> QED
      BY <1>t, <2>2, <3>1, Returned DEF TypeOK
  <2> QED
    BY <1>7, <2>3, <2>4
<1>8. ASSUME NEW r \in Runners, DownRead(r)
      PROVE  TypeOK'
  <2>1. PICK i \in Ids : i = Greatest(history)
    BY <1>8, <1>t, GreatestFacts DEF DownRead, TypeOK
  <2> QED
    BY <1>8, <1>t, <2>1 DEF DownRead, TypeOK
<1>9. ASSUME NEW r \in Runners, DownLoad(r) \/ DownDelete(r)
      PROVE  TypeOK'
  <2>1. CASE DownLoad(r)
    BY <2>1, <1>t DEF DownLoad, TypeOK
  <2>2. CASE DownDelete(r)
    <3>1. history' \in SUBSET Ids
      BY <2>2, <1>t DEF DownDelete, Delete, TypeOK
    <3>2. hit' \in [Runners -> BOOLEAN]
      BY <2>2, <1>t DEF DownDelete, TypeOK
    <3> QED
      BY <2>2, <1>t, <3>1, <3>2 DEF DownDelete, TypeOK
  <2> QED
    BY <1>9, <2>1, <2>2
<1>10. ASSUME NEW r \in Runners, DownCommit(r) \/ DownCommitFails(r)
      PROVE  TypeOK'
  <2>1. cur[r] \in Ids
    BY <1>10, <1>r DEF DownCommit, DownCommitFails
  <2>2. DownCommitted(r) \/ UNCHANGED <<history, autoIds, effects>>
    BY <1>10 DEF DownCommit, DownCommitFails
  <2>3. AddEffect(cur[r], -1) \/ effects' = effects
    BY <2>2 DEF DownCommitted
  <2>4. effects' \in [Ids -> Int]
    <3>1. CASE effects' = effects
      BY <1>t, <3>1 DEF TypeOK
    <3>2. CASE AddEffect(cur[r], -1)
      <4>1. -1 \in Int
        OBVIOUS
      <4> QED
        BY <1>t, <2>1, <3>2, <4>1, Added
    <3> QED
      BY <2>3, <3>1, <3>2
  <2>5. history' \in SUBSET Ids /\ autoIds' \in SUBSET Ids
    BY <1>t, <2>2 DEF DownCommitted, Delete, TypeOK
  <2>6. faults' \in Nat /\ Return(r) /\ UNCHANGED dirVars
    BY <1>10, <1>t DEF DownCommit, DownCommitFails, Fault, TypeOK
  <2> QED
    BY <1>t, <2>4, <2>5, <2>6, Returned DEF TypeOK
<1>11. ASSUME NEW r \in Runners, AutoMigrate(r) \/ AutoRecord(r)
      PROVE  TypeOK'
  BY <1>11, <1>t DEF AutoMigrate, AutoRecord, Insert, TypeOK
<1> QED
  BY <1>t, <1>1, <1>2, <1>3, <1>4, <1>5, <1>6, <1>7, <1>8, <1>9, <1>10, <1>11, StepCases,
     QuitSteps DEF RunnerStep, UpStep, DownStep, AutoStep

-----------------------------------------------------------------------------
\* A step of one process leaves the locals of the others alone.
Same(u) ==
    /\ pc'[u] = pc[u] /\ snap'[u] = snap[u] /\ loaded'[u] = loaded[u]
    /\ cur'[u] = cur[u] /\ inTx'[u] = inTx[u] /\ hit'[u] = hit[u]

LEMMA OthersSame ==
    ASSUME TypeOK, NEW r \in Runners, RunnerStep(r), NEW u \in Runners \ {r}
    PROVE  Same(u) /\ setup' = setup
<1> USE DEF dirVars, dbVars, locals, Goto, TypeOK, Same
<1>1. CASE Quits(r) \/ UpCommitFails(r) \/ DownCommit(r) \/ DownCommitFails(r)
  BY <1>1 DEF Quits, UpCommitFails, DownCommit, DownCommitFails, Return
<1>2. CASE UpRead(r) \/ UpLoad(r) \/ UpNext(r) \/ UpExec(r) \/ UpRecord(r) \/ UpCommit(r)
  BY <1>2 DEF UpRead, UpLoad, UpNext, UpExec, UpRecord, UpCommit
<1>3. CASE DownRead(r) \/ DownLoad(r) \/ DownExec(r) \/ DownDelete(r)
  BY <1>3 DEF DownRead, DownLoad, DownExec, DownDelete
<1>4. CASE AutoMigrate(r) \/ AutoRecord(r)
  BY <1>4 DEF AutoMigrate, AutoRecord
<1> QED
  BY <1>1, <1>2, <1>3, <1>4, QuitSteps DEF RunnerStep, UpStep, DownStep, AutoStep

\* What a step does to the history: nothing, it adds a row that nobody else is about
\* to commit, or removes one.
Adds(r, i) ==
    /\ r \in Uppers \cup Autos /\ i \in Ids
    /\ i \notin history /\ history' = history \cup {i}
    /\ \A u \in Runners \ {r} : Recording(u) => cur[u] # i

Removes(r) == r \in Downers /\ history' = history \ {cur[r]}

LEMMA HistoryEffect ==
    ASSUME IInv, NEW r \in Runners, RunnerStep(r)
    PROVE  history' = history \/ Removes(r) \/ \E i \in Ids : Adds(r, i)
<1>1. TypeOK /\ Holds(r)
  BY DEF IInv
<1>2. CASE UpRecord(r)
  <2>1. cur[r] \in Ids /\ r \in Uppers
    BY <1>1, <1>2 DEF UpRecord, Holds, Roles, UpLabels
  <2>2. \A u \in Runners \ {r} : Recording(u) => cur[u] # cur[r]
    BY <1>2 DEF UpRecord, RowLocked, Recording
  <2> QED
    BY <1>2, <2>1, <2>2 DEF UpRecord, Insert, Adds
<1>3. CASE UpCommit(r) \/ UpCommitFails(r)
  <2>1. pc[r] = "upCommit" /\ cur[r] \in Ids /\ r \in Uppers
    BY <1>1, <1>3 DEF UpCommit, UpCommitFails, Holds, Roles, UpLabels
  <2>2. history' = history \/ (Recording(r) /\ history' = history \cup {cur[r]})
    BY <1>3, <2>1 DEF UpCommit, UpCommitFails, UpCommitted, Insert, Recording, dbVars
  <2>3. Recording(r) => /\ cur[r] \notin history
                        /\ \A u \in Runners \ {r} : Recording(u) => cur[u] # cur[r]
    BY <1>1 DEF Holds, OwnsRow
  <2> QED
    BY <2>1, <2>2, <2>3 DEF Adds
<1>4. CASE AutoRecord(r)
  <2>1. clock \in Ids /\ r \in Autos
    BY <1>1, <1>4 DEF AutoRecord, Holds, Roles, TypeOK
  <2>2. \A u \in Runners \ {r} : Recording(u) => cur[u] # clock
    BY <1>4 DEF AutoRecord, RowLocked, Recording
  <2> QED
    BY <1>4, <2>1, <2>2 DEF AutoRecord, Insert, Adds
<1>5. CASE DownDelete(r) \/ DownCommit(r) \/ DownCommitFails(r)
  <2>1. r \in Downers
    BY <1>1, <1>5 DEF DownDelete, DownCommit, DownCommitFails, Holds, Roles, DownLabels
  <2> QED
    BY <1>5, <2>1 DEF DownDelete, DownCommit, DownCommitFails, DownCommitted, Delete, Removes,
       dbVars
<1>6. CASE Quits(r)
  BY <1>6 DEF Quits, dbVars
<1>7. CASE UpRead(r) \/ UpLoad(r) \/ UpNext(r) \/ UpExec(r) \/ DownRead(r) \/ DownLoad(r)
           \/ DownExec(r) \/ AutoMigrate(r)
  BY <1>7 DEF UpRead, UpLoad, UpNext, UpExec, DownRead, DownLoad, DownExec, AutoMigrate, dbVars
<1> QED
  BY <1>1, <1>2, <1>3, <1>4, <1>5, <1>6, <1>7, QuitSteps
     DEF RunnerStep, UpStep, DownStep, AutoStep

\* Who starts to commit a record has found its row free.
LEMMA RecordingStarts ==
    ASSUME IInv, NEW r \in Runners, RunnerStep(r), Recording(r)'
    PROVE  /\ cur'[r] = cur[r] /\ cur[r] \notin history /\ history' = history
           /\ \A u \in Runners \ {r} : Recording(u) => cur[u] # cur[r]
<1>1. TypeOK
  BY DEF IInv
<1>2. CASE UpRecord(r)
  <2>1. \A u \in Runners \ {r} : Recording(u) => cur[u] # cur[r]
    BY <1>2 DEF UpRecord, RowLocked, Recording
  <2>2. inTx[r]
    BY <1>2 DEF UpRecord, Recording
  <2> QED
    BY <1>2, <2>1, <2>2 DEF UpRecord
<1>3. CASE pc'[r] # "upCommit"
  BY <1>3 DEF Recording
<1>4. CASE Quits(r) \/ UpCommitFails(r) \/ DownCommit(r) \/ DownCommitFails(r)
  BY <1>1, <1>3, <1>4, Returned DEF Quits, UpCommitFails, DownCommit, DownCommitFails
<1>5. CASE UpRead(r) \/ UpLoad(r) \/ UpNext(r) \/ UpExec(r) \/ UpCommit(r)
  BY <1>1, <1>3, <1>5 DEF UpRead, UpLoad, UpNext, UpExec, UpCommit, Goto, TypeOK
<1>6. CASE DownRead(r) \/ DownLoad(r) \/ DownExec(r) \/ DownDelete(r)
  BY <1>1, <1>3, <1>6 DEF DownRead, DownLoad, DownExec, DownDelete, Goto, TypeOK
<1>7. CASE AutoMigrate(r) \/ AutoRecord(r)
  BY <1>1, <1>3, <1>7 DEF AutoMigrate, AutoRecord, Goto, TypeOK
<1> QED
  BY <1>1, <1>2, <1>4, <1>5, <1>6, <1>7, QuitSteps DEF RunnerStep, UpStep, DownStep, AutoStep

\* What holds of a process stays true when another one goes on.
LEMMA OthersHold ==
    ASSUME IInv, NEW r \in Runners, RunnerStep(r), NEW u \in Runners \ {r}
    PROVE  Holds(u)'
<1>1. TypeOK /\ Holds(u) /\ Same(u) /\ setup' = setup
  BY OthersSame DEF IInv
<1>2. Roles(u)' /\ InTransaction(u)'
  BY <1>1 DEF Holds, Roles, InTransaction, Same, Uppers, Downers, Autos, ImplicitCommit
<1>3. history' = history \/ Removes(r) \/ \E i \in Ids : Adds(r, i)
  BY HistoryEffect
<1>4. OwnsRow(u)'
  <2> SUFFICES ASSUME Recording(u)'
               PROVE  /\ cur'[u] \notin history'
                      /\ \A v \in Runners \ {u} : Recording(v)' => cur'[v] # cur'[u]
    BY DEF OwnsRow
  <2>1. Recording(u) /\ cur'[u] = cur[u]
    BY <1>1 DEF Recording, Same
  <2>2. /\ cur[u] \notin history
        /\ \A v \in Runners \ {u} : Recording(v) => cur[v] # cur[u]
    BY <1>1, <2>1 DEF Holds, OwnsRow
  <2>3. cur[u] \notin history'
    BY <1>3, <2>1, <2>2 DEF Removes, Adds
  <2>4. ASSUME NEW v \in Runners \ {u}, Recording(v)'
        PROVE  cur'[v] # cur[u]
    <3>1. CASE v = r
      BY <2>1, <2>4, <3>1, RecordingStarts
    <3>2. CASE v # r
      BY <1>1, <2>2, <2>4, <3>2, OthersSame DEF Same, Recording
    <3> QED
      BY <3>1, <3>2
  <2> QED
    BY <2>1, <2>3, <2>4
<1>5. Reverts(u)'
  <2>1. OneDowner /\ u \in Downers => ~Removes(r)
    BY DEF OneDowner, Removes
  <2>2. pc[u] \in DownLabels => u \in Downers
    BY <1>1 DEF Holds, Roles
  <2>3. OneDowner' <=> OneDowner
    BY <1>1 DEF OneDowner, Downers
  <2>4. CASE OneDowner /\ pc[u] \in DownLabels
    BY <1>1, <1>3, <2>1, <2>2, <2>4 DEF Holds, Reverts, Same, Adds, OneDowner, Downers
  <2>5. CASE ~OneDowner \/ pc[u] \notin DownLabels
    BY <1>1, <2>3, <2>5 DEF Reverts, Same, DownLabels
  <2> QED
    BY <2>4, <2>5
<1>6. Passed(u)'
  <2>1. Downers \subseteq {u} => history \subseteq history'
    BY <1>3 DEF Removes, Adds
  <2> QED
    BY <1>1, <2>1 DEF Holds, Passed, Same, Downers
<1>7. Fresh(u)'
  <2>1. Alone(u) => history' = history
    BY <1>3 DEF Alone, Removes, Adds
  <2> QED
    BY <1>1, <2>1 DEF Holds, Fresh, Same, Alone, Uppers, Downers, Autos
<1> QED
  BY <1>2, <1>4, <1>5, <1>6, <1>7 DEF Holds

-----------------------------------------------------------------------------
\* What a process needs to know of itself, but for the row that it owns.
Self(r) == Roles(r) /\ InTransaction(r) /\ Reverts(r) /\ Passed(r) /\ Fresh(r)

\* Idle processes know nothing.
LEMMA IdleSelf ==
    ASSUME TypeOK, NEW r \in Runners, Return(r), setup' = setup
    PROVE  Self(r)'
<1>1. pc'[r] = "idle" /\ cur'[r] = 0
  BY Returned
<1> QED
  BY <1>1 DEF Self, Roles, InTransaction, Reverts, Passed, Fresh, UpLabels, DownLabels, Autos,
     Uppers, Downers

LEMMA UpSelf ==
    ASSUME IInv, NEW r \in Runners, r \in Uppers,
           UpRead(r) \/ UpLoad(r) \/ UpNext(r) \/ UpExec(r) \/ UpRecord(r) \/ UpCommit(r)
    PROVE  Self(r)'
<1> USE DEF dirVars, dbVars, locals, Goto
<1>1. /\ TypeOK /\ Holds(r) /\ MaxClock \in Nat /\ Ids = 1 .. MaxClock
      /\ history \in SUBSET Ids /\ cur[r] \in 0 .. MaxClock
  BY MigrationsAssumption DEF IInv, Ids, TypeOK
<1>2. setup' = setup
  BY DEF UpRead, UpLoad, UpNext, UpExec, UpRecord, UpCommit
<1>3. pc'[r] \in UpLabels /\ pc'[r] \notin {"idle", "autoRecord"} \cup DownLabels
  BY <1>1 DEF UpRead, UpLoad, UpNext, UpExec, UpRecord, UpCommit, UpLabels, DownLabels, TypeOK
<1>4. Reverts(r)'
  BY <1>3 DEF Reverts, DownLabels
<1>5. CASE UpRead(r)
  <2>1. cur'[r] = 0 /\ snap'[r] = history /\ loaded'[r] = loaded[r] /\ pc'[r] = "upLoad"
        /\ history' = history
    BY <1>1, <1>5 DEF UpRead, TypeOK, Holds, Roles
  <2>2. \A i \in loaded[r] : ~(i < 0)
    BY <1>1 DEF TypeOK
  <2> QED
    BY <1>2, <1>3, <1>4, <2>1, <2>2 DEF Self, Roles, InTransaction, Passed, Fresh, DownLabels, Uppers
<1>6. CASE UpLoad(r)
  <2>1. /\ cur[r] = 0 /\ cur'[r] = 0 /\ snap'[r] = snap[r] /\ loaded'[r] = files
        /\ pc[r] = "upLoad" /\ pc'[r] = "upNext" /\ history' = history
    BY <1>1, <1>6 DEF UpLoad, TypeOK, Holds, Roles
  <2>2. \A i \in files : ~(i < 0)
    BY <1>1 DEF TypeOK
  <2> QED
    BY <1>1, <1>2, <1>3, <1>4, <2>1, <2>2 DEF Self, Holds, Roles, InTransaction, Passed, Fresh,
       DownLabels, UpLabels, Uppers, Downers, Autos, Alone
<1>7. CASE UpNext(r)
  <2>1. PICK n \in Ids : /\ n = Least(Pending(r)) /\ n \in loaded[r] \ snap[r]
                         /\ n > cur[r] /\ \A j \in Pending(r) : n <= j
    BY <1>1, <1>7, NextFile DEF UpNext
  <2>2. /\ cur'[r] = n /\ snap'[r] = snap[r] /\ loaded'[r] = loaded[r] /\ inTx'[r]
        /\ pc[r] = "upNext" /\ pc'[r] = "upExec" /\ history' = history
    BY <1>1, <1>7, <2>1 DEF UpNext, TypeOK
  <2>3. Passed(r)'
    <3> SUFFICES ASSUME Downers \subseteq {r}
                 PROVE  /\ snap[r] \subseteq history
                        /\ {i \in loaded[r] : i < n} \subseteq history
      BY <1>2, <2>2 DEF Passed, Downers
    <3>1. /\ snap[r] \subseteq history /\ {i \in loaded[r] : i < cur[r]} \subseteq history
          /\ cur[r] = 0 \/ cur[r] \in history
      BY <1>1, <2>2 DEF Holds, Passed, UpLabels
    <3>2. ASSUME NEW i \in loaded[r], i < n
          PROVE  i \in history
      <4>1. i \in Ids /\ i > 0
        BY <1>1 DEF TypeOK
      <4>2. i \in snap[r] \/ i <= cur[r]
        <5>1. i \notin Pending(r)
          BY <1>1, <2>1, <3>2, <4>1
        <5> QED
          BY <1>1, <3>2, <4>1, <5>1 DEF Pending
      <4> QED
        BY <1>1, <3>1, <4>1, <4>2
    <3> QED
      BY <3>1, <3>2
  <2>4. Fresh(r)'
    <3> SUFFICES ASSUME Alone(r)
                 PROVE  /\ history \subseteq snap[r] \cup {j \in Ids : j <= n}
                        /\ n \notin history
      BY <1>2, <2>2 DEF Fresh, Alone, Uppers, Downers, Autos
    <3>1. history \subseteq snap[r] \cup {j \in Ids : j <= cur[r]}
      BY <1>1, <2>2 DEF Holds, Fresh, UpLabels
    <3> QED
      BY <1>1, <2>1, <3>1
  <2> QED
    BY <1>2, <1>3, <1>4, <2>2, <2>3, <2>4 DEF Self, Roles, InTransaction, DownLabels, Uppers
<1>8. CASE UpExec(r)
  <2>1. /\ cur'[r] = cur[r] /\ snap'[r] = snap[r] /\ loaded'[r] = loaded[r]
        /\ inTx'[r] <=> cur[r] \notin ImplicitCommit
        /\ pc[r] = "upExec" /\ pc'[r] = "upRecord" /\ history' = history
    BY <1>1, <1>8 DEF UpExec, TypeOK, Holds, InTransaction
  <2> QED
    BY <1>1, <1>2, <1>3, <1>4, <2>1 DEF Self, Holds, Roles, InTransaction, Passed, Fresh,
       DownLabels, UpLabels, Uppers, Downers, Autos, Alone, ImplicitCommit
<1>9. CASE UpRecord(r)
  <2>1. /\ cur'[r] = cur[r] /\ snap'[r] = snap[r] /\ loaded'[r] = loaded[r] /\ inTx'[r] = inTx[r]
        /\ pc[r] = "upRecord" /\ pc'[r] = "upCommit"
        /\ history' = IF inTx[r] THEN history ELSE history \cup {cur[r]}
    BY <1>1, <1>9 DEF UpRecord, Insert, TypeOK
  <2>2. Roles(r)' /\ InTransaction(r)'
    BY <1>1, <1>2, <1>3, <2>1 DEF Holds, Roles, InTransaction, DownLabels, Uppers, ImplicitCommit
  <2>3. Passed(r)'
    BY <1>1, <1>2, <2>1 DEF Holds, Passed, UpLabels, Downers
  <2>4. cur[r] \in Ids
    BY <1>1, <2>1 DEF Holds, Roles
  <2>5. Fresh(r)'
    <3> SUFFICES ASSUME Alone(r)
                 PROVE  history' \subseteq snap[r] \cup {j \in Ids : j <= cur[r]}
      <4>1. Alone(r)' <=> Alone(r)
        BY <1>2 DEF Uppers, Downers, Autos, Alone
      <4> QED
        BY <2>1, <4>1 DEF Fresh
    <3>1. history \subseteq snap[r] \cup {j \in Ids : j <= cur[r]}
      BY <1>1, <2>1 DEF Holds, Fresh, UpLabels
    <3>2. cur[r] \in {j \in Ids : j <= cur[r]}
      BY <1>1, <2>4
    <3>3. history' \subseteq history \cup {cur[r]}
      BY <2>1
    <3> QED
      BY <3>1, <3>2, <3>3
  <2> QED
    BY <1>4, <2>2, <2>3, <2>5 DEF Self
<1>10. CASE UpCommit(r)
  <2>1. /\ cur'[r] = cur[r] /\ snap'[r] = snap[r] /\ loaded'[r] = loaded[r]
        /\ pc[r] = "upCommit" /\ pc'[r] = "upNext"
        /\ history' = IF inTx[r] THEN history \cup {cur[r]} ELSE history
    BY <1>1, <1>10 DEF UpCommit, UpCommitted, Insert, TypeOK
  <2>2. Roles(r)' /\ InTransaction(r)'
    BY <1>1, <1>2, <1>3, <2>1 DEF Roles, InTransaction, DownLabels, Uppers
  <2>3. Passed(r)'
    BY <1>1, <1>2, <2>1 DEF Holds, Passed, UpLabels, Downers
  <2>4. cur[r] \in Ids
    BY <1>1, <2>1 DEF Holds, Roles
  <2>5. Fresh(r)'
    <3> SUFFICES ASSUME Alone(r)
                 PROVE  history' \subseteq snap[r] \cup {j \in Ids : j <= cur[r]}
      <4>1. Alone(r)' <=> Alone(r)
        BY <1>2 DEF Uppers, Downers, Autos, Alone
      <4> QED
        BY <2>1, <4>1 DEF Fresh
    <3>1. history \subseteq snap[r] \cup {j \in Ids : j <= cur[r]}
      BY <1>1, <2>1 DEF Holds, Fresh, UpLabels
    <3>2. cur[r] \in {j \in Ids : j <= cur[r]}
      BY <1>1, <2>4
    <3>3. history' \subseteq history \cup {cur[r]}
      BY <2>1
    <3> QED
      BY <3>1, <3>2, <3>3
  <2> QED
    BY <1>4, <2>2, <2>3, <2>5 DEF Self
<1> QED
  BY <1>5, <1>6, <1>7, <1>8, <1>9, <1>10

LEMMA DownSelf ==
    ASSUME IInv, NEW r \in Runners, r \in Downers,
           DownRead(r) \/ DownLoad(r) \/ DownExec(r) \/ DownDelete(r)
    PROVE  Self(r)'
<1> USE DEF dirVars, dbVars, locals, Goto
<1>1. TypeOK /\ Holds(r)
  BY DEF IInv
<1>2. setup' = setup
  BY DEF DownRead, DownLoad, DownExec, DownDelete
<1>3. pc'[r] \in DownLabels /\ pc'[r] \notin {"idle", "autoRecord"} \cup UpLabels
  BY <1>1 DEF DownRead, DownLoad, DownExec, DownDelete, UpLabels, DownLabels, TypeOK
<1>4. Passed(r)' /\ Fresh(r)'
  BY <1>3 DEF Passed, Fresh
<1>5. CASE DownRead(r)
  <2>1. PICK n \in history : n = Greatest(history)
    BY <1>1, <1>5, GreatestFacts DEF DownRead, TypeOK
  <2>2. cur'[r] = n /\ pc'[r] = "downLoad" /\ history' = history /\ n \in Ids
    BY <1>1, <1>5, <2>1 DEF DownRead, TypeOK
  <2> QED
    BY <1>2, <1>3, <1>4, <2>1, <2>2 DEF Self, Roles, InTransaction, Reverts, Downers, UpLabels
<1>6. CASE DownLoad(r)
  <2>1. /\ cur'[r] = cur[r] /\ pc[r] = "downLoad" /\ pc'[r] = "downExec" /\ inTx'[r]
        /\ history' = history
    BY <1>1, <1>6 DEF DownLoad, TypeOK
  <2> QED
    BY <1>1, <1>2, <1>3, <1>4, <2>1 DEF Self, Holds, Roles, InTransaction, Reverts, Downers,
       UpLabels, DownLabels, OneDowner
<1>7. CASE DownExec(r)
  <2>1. /\ cur'[r] = cur[r] /\ pc[r] = "downExec" /\ pc'[r] = "downDelete"
        /\ inTx'[r] <=> cur[r] \notin ImplicitCommit
        /\ history' = history
    BY <1>1, <1>7 DEF DownExec, TypeOK, Holds, InTransaction
  <2> QED
    BY <1>1, <1>2, <1>3, <1>4, <2>1 DEF Self, Holds, Roles, InTransaction, Reverts, Downers,
       UpLabels, DownLabels, OneDowner, ImplicitCommit
<1>8. CASE DownDelete(r)
  <2>1. /\ cur'[r] = cur[r] /\ pc[r] = "downDelete" /\ pc'[r] = "downCommit"
        /\ inTx'[r] = inTx[r] /\ hit'[r] = (cur[r] \in history)
        /\ inTx[r] => history' = history
    BY <1>1, <1>8 DEF DownDelete, TypeOK
  <2> QED
    BY <1>1, <1>2, <1>3, <1>4, <2>1 DEF Self, Holds, Roles, InTransaction, Reverts, Downers,
       UpLabels, DownLabels, OneDowner, ImplicitCommit
<1> QED
  BY <1>5, <1>6, <1>7, <1>8

LEMMA AutoSelf ==
    ASSUME IInv, NEW r \in Runners, r \in Autos, AutoMigrate(r) \/ AutoRecord(r)
    PROVE  Self(r)'
<1>1. /\ TypeOK /\ Holds(r) /\ setup' = setup
      /\ pc[r] \in {"idle", "autoRecord"} /\ pc'[r] \in {"idle", "autoRecord"}
      /\ cur'[r] = cur[r]
  BY DEF IInv, TypeOK, AutoMigrate, AutoRecord, Goto, dirVars
<1> QED
  BY <1>1 DEF Self, Holds, Roles, InTransaction, Reverts, Passed, Fresh, UpLabels, DownLabels, Autos

LEMMA ActorHolds ==
    ASSUME IInv, NEW r \in Runners, RunnerStep(r)
    PROVE  Holds(r)'
<1>1. TypeOK
  BY DEF IInv
<1>2. Self(r)'
  <2>1. CASE Quits(r) \/ UpCommitFails(r) \/ DownCommit(r) \/ DownCommitFails(r)
    BY <1>1, <2>1, IdleSelf DEF Quits, UpCommitFails, DownCommit, DownCommitFails, dirVars
  <2> QED
    BY <1>1, <2>1, UpSelf, DownSelf, AutoSelf, QuitSteps
       DEF RunnerStep, UpStep, DownStep, AutoStep
<1>3. OwnsRow(r)'
  <2> SUFFICES ASSUME Recording(r)'
               PROVE  /\ cur'[r] \notin history'
                      /\ \A v \in Runners \ {r} : Recording(v)' => cur'[v] # cur'[r]
    BY DEF OwnsRow
  <2> QED
    BY <1>1, RecordingStarts, OthersSame DEF Same, Recording
<1> QED
  BY <1>2, <1>3 DEF Self, Holds

-----------------------------------------------------------------------------
LEMMA AutoRecordsStep == IInv /\ [Next]_vars => AutoRecords'
<1> SUFFICES ASSUME IInv, [Next]_vars
             PROVE  AutoRecords'
  OBVIOUS
<1>1. TypeOK /\ AutoRecords
  BY DEF IInv
<1>2. ASSUME NEW r \in Runners, RunnerStep(r)
      PROVE  AutoRecords'
  <2>1. setup' = setup
    BY <1>1, <1>2 DEF RunnerStep, UpStep, DownStep, AutoStep, UpRead, UpLoad, UpNext, UpDone,
       UpExec, UpExecFails, UpRecord, UpRecordDuplicate, UpRecordFails, UpCommit, UpCommitFails,
       DownRead, DownLoad, DownNoFile, DownExec, DownDelete, DownFails, DownCommit,
       DownCommitFails, AutoMigrate, AutoRecord, AutoRecordDuplicate, AutoRecordFails, Crash,
       ReturnOnly, Fail, dirVars
  <2>2. autoIds' = autoIds \/ (r \in Autos /\ AutoRecord(r))
    BY <1>2 DEF RunnerStep, UpStep, DownStep, AutoStep, UpRead, UpLoad, UpNext, UpDone,
       UpExec, UpExecFails, UpRecord, UpRecordDuplicate, UpRecordFails, UpCommit, UpCommitFails,
       UpCommitted, DownCommitted,
       DownRead, DownLoad, DownNoFile, DownExec, DownDelete, DownFails, DownCommit,
       DownCommitFails, AutoMigrate, AutoRecordDuplicate, AutoRecordFails, Crash,
       ReturnOnly, Fail, dbVars
  <2>3. history' = history \/ Removes(r) \/ \E i \in Ids : Adds(r, i)
    BY <1>2, HistoryEffect
  <2>4. Downers = {} => history \subseteq history'
    BY <2>3 DEF Removes, Adds
  <2>5. r \in Autos /\ AutoRecord(r) =>
            autoIds' = autoIds \cup {clock} /\ history' = history \cup {clock}
    BY DEF AutoRecord, Insert
  <2> QED
    BY <1>1, <2>1, <2>2, <2>4, <2>5 DEF AutoRecords, Autos, Downers
<1>3. CASE Surroundings
  BY <1>1, <1>3 DEF Surroundings, CreateMigration, MergeFile, Tick, vars, dirVars, dbVars,
     AutoRecords, Autos, Downers
<1> QED
  BY <1>1, <1>2, <1>3, StepCases

LEMMA IInvInit == Init => IInv /\ Together
<1> SUFFICES ASSUME Init
             PROVE  IInv /\ Together
  OBVIOUS
<1>1. MaxClock \in Nat \ {0} /\ Ids = 1 .. MaxClock /\ ImplicitCommit \subseteq Ids
  BY MigrationsAssumption DEF Init, Ids, ImplicitCommit
<1>2. TypeOK
  BY <1>1 DEF Init, TypeOK, Labels
<1>3. ASSUME NEW r \in Runners
      PROVE  Holds(r)
  BY <1>3 DEF Init, Holds, Roles, InTransaction, OwnsRow, Recording, Reverts, Passed, Fresh,
     UpLabels, DownLabels
<1>4. AutoRecords
  BY DEF Init, AutoRecords
<1>5. \A i \in Ids : Drift(i) = 0
  BY DEF Init, Drift, Expected
<1>6. \A r \in Runners, i \in ImplicitCommit : Ahead(r, i) = 0
  BY DEF Init, Ahead
<1>7. Together
  BY <1>1, <1>5, <1>6 DEF Init, Together, Exact, Near
<1> QED
  BY <1>2, <1>3, <1>4, <1>7 DEF IInv

LEMMA IInvStep == IInv /\ [Next]_vars => IInv'
<1> SUFFICES ASSUME IInv, [Next]_vars
             PROVE  IInv'
  OBVIOUS
<1>1. ASSUME NEW r \in Runners, RunnerStep(r), NEW u \in Runners
      PROVE  Holds(u)'
  BY <1>1, ActorHolds, OthersHold
<1>2. ASSUME Surroundings, NEW u \in Runners
      PROVE  Holds(u)'
  <2>1. UNCHANGED <<setup, history, pc, snap, loaded, cur, inTx, hit>>
    BY <1>2 DEF Surroundings, CreateMigration, MergeFile, Tick, vars, dirVars, dbVars, locals
  <2>2. Holds(u)
    BY DEF IInv
  <2> QED
    BY <2>1, <2>2 DEF Holds, Roles, InTransaction, OwnsRow, Recording, Reverts, Passed, Fresh,
       Alone, OneDowner, Uppers, Downers, Autos, ImplicitCommit
<1>3. TypeOK
  BY DEF IInv
<1> QED
  BY <1>1, <1>2, <1>3, TypeStep, AutoRecordsStep, StepCases DEF IInv

LEMMA IInvAlways == Spec => []IInv
BY IInvInit, IInvStep, PTL DEF Spec

-----------------------------------------------------------------------------
\* The drift of one migration when effect or history changes.
LEMMA DriftKept ==
    ASSUME TypeOK, NEW i \in Ids, effects'[i] = effects[i],
           i \in history' <=> i \in history, i \in autoIds' <=> i \in autoIds
    PROVE  Drift(i)' = Drift(i)
BY DEF Drift, Expected

LEMMA DriftUp ==
    ASSUME TypeOK, NEW i \in Ids, i \notin autoIds, i \notin autoIds'
    PROVE  /\ effects'[i] = effects[i] + 1 /\ (i \in history' <=> i \in history) =>
                  Drift(i)' = Drift(i) + 1
           /\ effects'[i] = effects[i] /\ i \notin history /\ i \in history' =>
                  Drift(i)' = Drift(i) - 1
           /\ effects'[i] = effects[i] + 1 /\ i \notin history /\ i \in history' =>
                  Drift(i)' = Drift(i)
<1>1. effects[i] \in Int
  BY DEF TypeOK
<1> QED
  BY <1>1 DEF Drift, Expected

LEMMA DriftDown ==
    ASSUME TypeOK, NEW i \in Ids, i \notin autoIds, i \notin autoIds'
    PROVE  /\ effects'[i] = effects[i] - 1 /\ (i \in history' <=> i \in history) =>
                  Drift(i)' = Drift(i) - 1
           /\ effects'[i] = effects[i] /\ i \in history /\ i \notin history' =>
                  Drift(i)' = Drift(i) + 1
           /\ effects'[i] = effects[i] - 1 /\ i \in history /\ i \notin history' =>
                  Drift(i)' = Drift(i)
<1>1. effects[i] \in Int
  BY DEF TypeOK
<1> QED
  BY <1>1 DEF Drift, Expected

\* What is not recorded, and what a process reverts, AutoMigrate did not record.
LEMMA NotAuto ==
    ASSUME IInv, NoMix, NEW i \in Ids
    PROVE  /\ i \notin history => i \notin autoIds
           /\ \A r \in Downers : i \notin autoIds
<1>1. AutoRecords
  BY DEF IInv
<1> QED
  BY <1>1 DEF NoMix, AutoRecords

\* A commit changes effect and history of one migration together, or neither.
LEMMA CommitKeepsDrift ==
    ASSUME IInv, NoMix, OneDowner, NEW r \in Runners,
           \/ pc[r] = "upCommit" /\ (UpCommitted(r) \/ UNCHANGED dbVars)
           \/ pc[r] = "downCommit" /\ (DownCommitted(r) \/ UNCHANGED dbVars)
    PROVE  \A i \in Ids : Drift(i)' = Drift(i)
<1>1. TypeOK /\ Holds(r)
  BY DEF IInv
<1>2. CASE UNCHANGED dbVars
  BY <1>1, <1>2, DriftKept DEF dbVars
<1>3. CASE pc[r] = "upCommit" /\ UpCommitted(r) /\ inTx[r]
  <2>1. cur[r] \in Ids /\ cur[r] \notin history
    BY <1>1, <1>3 DEF Holds, Roles, OwnsRow, Recording
  <2>2. cur[r] \notin autoIds
    BY <2>1, NotAuto
  <2>3. autoIds' = autoIds /\ history' = history \cup {cur[r]} /\ AddEffect(cur[r], 1)
    BY <1>3 DEF UpCommitted, Insert
  <2>4. \A j \in Ids : effects'[j] = IF j = cur[r] THEN effects[j] + 1 ELSE effects[j]
    BY <1>1, <2>1, <2>3, Added
  <2>5. ASSUME NEW i \in Ids, i # cur[r]
        PROVE  Drift(i)' = Drift(i)
    BY <1>1, <2>3, <2>4, <2>5, DriftKept
  <2>6. ASSUME NEW i \in Ids, i = cur[r]
        PROVE  Drift(i)' = Drift(i)
    BY <1>1, <2>1, <2>2, <2>3, <2>4, <2>6, DriftUp
  <2> QED
    BY <2>5, <2>6
<1>4. CASE pc[r] = "downCommit" /\ DownCommitted(r) /\ inTx[r]
  <2>1. cur[r] \in Ids /\ cur[r] \in history /\ hit[r] /\ r \in Downers
    BY <1>1, <1>4 DEF Holds, Roles, Reverts, DownLabels
  <2>2. cur[r] \notin autoIds
    BY <2>1, NotAuto
  <2>3. autoIds' = autoIds /\ history' = history \ {cur[r]} /\ AddEffect(cur[r], -1)
    BY <1>4, <2>1 DEF DownCommitted, Delete
  <2>4. \A j \in Ids : effects'[j] = IF j = cur[r] THEN effects[j] + (-1) ELSE effects[j]
    BY <1>1, <2>1, <2>3, Added
  <2>5. ASSUME NEW i \in Ids, i # cur[r]
        PROVE  Drift(i)' = Drift(i)
    BY <1>1, <2>3, <2>4, <2>5, DriftKept
  <2>6. ASSUME NEW i \in Ids, i = cur[r]
        PROVE  Drift(i)' = Drift(i)
    <3>1. effects[i] \in Int /\ effects'[i] = effects[i] - 1
      BY <1>1, <2>4, <2>6 DEF TypeOK
    <3> QED
      BY <1>1, <2>1, <2>2, <2>3, <2>6, <3>1, DriftDown
  <2> QED
    BY <2>5, <2>6
<1>5. CASE ~inTx[r] /\ (UpCommitted(r) \/ DownCommitted(r))
  BY <1>1, <1>5, DriftKept DEF UpCommitted, DownCommitted, dbVars
<1> QED
  BY <1>2, <1>3, <1>4, <1>5

\* A record of AutoMigrate is nobody's effect.
LEMMA AutoKeepsDrift ==
    ASSUME IInv, NoMix, NEW r \in Runners, AutoRecord(r), NEW i \in Ids
    PROVE  Drift(i)' = Drift(i)
<1>1. TypeOK /\ (i \notin history => i \notin autoIds)
  BY NotAuto DEF IInv
<1>2. /\ clock \notin history /\ history' = history \cup {clock}
      /\ autoIds' = autoIds \cup {clock} /\ effects' = effects
  BY DEF AutoRecord, Insert
<1> QED
  BY <1>1, <1>2 DEF Drift, Expected

\* The steps that leave effects and history alone.
Neutral(r) ==
    \/ Quits(r) \/ UpRead(r) \/ UpLoad(r) \/ UpNext(r) \/ DownRead(r) \/ DownLoad(r)
    \/ AutoMigrate(r)

LEMMA NeutralKeepsDrift ==
    ASSUME TypeOK, NEW r \in Runners, Neutral(r), NEW i \in Ids
    PROVE  Drift(i)' = Drift(i)
<1>1. UNCHANGED <<effects, history, autoIds>>
  BY DEF Neutral, Quits, UpRead, UpLoad, UpNext, DownRead, DownLoad, AutoMigrate, dbVars
<1> QED
  BY <1>1, DriftKept

\* Outside a transaction a script, and then its record, move the drift to and fro.
LEMMA ScriptDrift ==
    ASSUME IInv, NoMix, OneDowner, NEW r \in Runners,
           UpExec(r) \/ UpRecord(r) \/ DownExec(r) \/ DownDelete(r), NEW i \in Ids
    PROVE  /\ cur[r] # i \/ i \notin ImplicitCommit => Drift(i)' = Drift(i)
           /\ cur[r] = i /\ i \in ImplicitCommit =>
                  /\ UpExec(r) => Drift(i)' = Drift(i) + 1
                  /\ UpRecord(r) => Drift(i)' = Drift(i) - 1
                  /\ DownExec(r) => Drift(i)' = Drift(i) - 1
                  /\ DownDelete(r) => Drift(i)' = Drift(i) + 1
<1>1. TypeOK /\ Holds(r) /\ autoIds' = autoIds /\ effects[i] \in Int
  BY DEF IInv, TypeOK, UpExec, UpRecord, DownExec, DownDelete
<1>2. /\ cur[r] \in Ids
      /\ pc[r] \in {"downExec", "downDelete"} => cur[r] \in history /\ r \in Downers
  BY <1>1 DEF Holds, Roles, Reverts, DownLabels, UpExec, UpRecord, DownExec, DownDelete
<1>3. pc[r] \in {"upRecord", "downDelete"} => (inTx[r] <=> cur[r] \notin ImplicitCommit)
  BY <1>1 DEF Holds, InTransaction
<1>4. CASE UpExec(r) \/ DownExec(r)
  <2>1. history' = history
    BY <1>4 DEF UpExec, DownExec
  <2>2. CASE cur[r] # i \/ i \notin ImplicitCommit
    <3>1. \/ effects' = effects
          \/ i # cur[r] /\ \E n \in {1, -1} : AddEffect(cur[r], n)
      BY <1>4, <2>2 DEF UpExec, DownExec
    <3>2. effects'[i] = effects[i]
      BY <1>1, <1>2, <3>1, Added
    <3> QED
      BY <1>1, <2>1, <2>2, <3>2, DriftKept
  <2>3. CASE cur[r] = i /\ i \in ImplicitCommit /\ UpExec(r)
    <3>1. AddEffect(i, 1)
      BY <2>3 DEF UpExec
    <3>2. effects'[i] = effects[i] + 1
      BY <1>1, <3>1, Added
    <3>3. pc[r] = "upExec"
      BY <2>3 DEF UpExec
    <3> QED
      BY <1>1, <2>1, <2>3, <3>2, <3>3 DEF Drift, Expected, DownExec, UpRecord, DownDelete
  <2>4. CASE cur[r] = i /\ i \in ImplicitCommit /\ DownExec(r)
    <3>1. AddEffect(i, -1)
      BY <2>4 DEF DownExec
    <3>2. effects'[i] = effects[i] + (-1)
      BY <1>1, <3>1, Added
    <3>3. pc[r] = "downExec"
      BY <2>4 DEF DownExec
    <3> QED
      BY <1>1, <2>1, <2>4, <3>2, <3>3 DEF Drift, Expected, UpExec, UpRecord, DownDelete
  <2> QED
    BY <1>4, <2>2, <2>3, <2>4
<1>5. CASE UpRecord(r)
  <2>1. /\ effects' = effects /\ cur[r] \notin history /\ pc[r] = "upRecord"
        /\ history' = IF cur[r] \in ImplicitCommit THEN history \cup {cur[r]} ELSE history
    BY <1>3, <1>5 DEF UpRecord, Insert
  <2>2. CASE cur[r] # i \/ i \notin ImplicitCommit
    BY <1>1, <2>1, <2>2, DriftKept
  <2>3. CASE cur[r] = i /\ i \in ImplicitCommit
    <3>1. i \notin autoIds
      BY <2>1, <2>3, NotAuto
    <3> QED
      BY <1>1, <2>1, <2>3, <3>1, DriftUp DEF UpExec, DownExec, DownDelete
  <2> QED
    BY <2>2, <2>3
<1>6. CASE DownDelete(r)
  <2>1. /\ effects' = effects /\ cur[r] \in history /\ r \in Downers /\ pc[r] = "downDelete"
        /\ history' = IF cur[r] \in ImplicitCommit THEN history \ {cur[r]} ELSE history
    BY <1>2, <1>3, <1>6 DEF DownDelete, Delete
  <2>2. CASE cur[r] # i \/ i \notin ImplicitCommit
    BY <1>1, <2>1, <2>2, DriftKept
  <2>3. CASE cur[r] = i /\ i \in ImplicitCommit
    <3>1. i \notin autoIds
      BY <2>1, NotAuto
    <3> QED
      BY <1>1, <2>1, <2>3, <3>1, DriftDown DEF UpExec, DownExec, UpRecord
  <2> QED
    BY <2>2, <2>3
<1> QED
  BY <1>4, <1>5, <1>6

\* The kinds of steps.
Commits(r) ==
    \/ UpCommit(r) \/ UpCommitFails(r)
    \/ DownCommit(r) \/ DownCommitFails(r)

LEMMA StepKinds ==
    ASSUME TypeOK, NEW r \in Runners, RunnerStep(r)
    PROVE  \/ Neutral(r) \/ Commits(r)
           \/ UpExec(r) \/ UpRecord(r) \/ DownExec(r) \/ DownDelete(r) \/ AutoRecord(r)
BY QuitSteps DEF RunnerStep, UpStep, DownStep, AutoStep, Neutral, Commits

LEMMA CommitSteps ==
    ASSUME IInv, NoMix, OneDowner, NEW r \in Runners, Commits(r)
    PROVE  \A i \in Ids : Drift(i)' = Drift(i)
BY CommitKeepsDrift DEF Commits, UpCommit, UpCommitFails, DownCommit, DownCommitFails

LEMMA SetupFixed ==
    ASSUME TypeOK, [Next]_vars
    PROVE  setup' = setup
<1>1. ASSUME NEW r \in Runners, RunnerStep(r)
      PROVE  setup' = setup
  BY <1>1, StepKinds DEF Neutral, Commits, Quits, UpRead, UpLoad, UpNext, DownRead, DownLoad,
     AutoMigrate, UpCommit, UpCommitFails, DownCommit, DownCommitFails, UpExec, UpRecord, DownExec,
     DownDelete, AutoRecord, dirVars
<1>2. CASE Surroundings
  BY <1>2 DEF Surroundings, CreateMigration, MergeFile, Tick, vars, dirVars
<1> QED
  BY <1>1, <1>2, StepCases

LEMMA ExactStep == IInv /\ Exact /\ [Next]_vars => Exact'
<1> SUFFICES ASSUME IInv, Exact, [Next]_vars, OneDowner, NoMix, NEW i \in Ids \ ImplicitCommit
             PROVE  Drift(i)' = 0
  BY SetupFixed DEF IInv, Exact, OneDowner, NoMix, Downers, Autos, ImplicitCommit
<1>1. TypeOK /\ Drift(i) = 0
  BY DEF IInv, Exact
<1>2. ASSUME NEW r \in Runners, RunnerStep(r)
      PROVE  Drift(i)' = Drift(i)
  BY <1>1, <1>2, StepKinds, NeutralKeepsDrift, CommitSteps, ScriptDrift, AutoKeepsDrift
<1>3. CASE Surroundings
  BY <1>1, <1>3, DriftKept DEF Surroundings, CreateMigration, MergeFile, Tick, vars, dbVars
<1> QED
  BY <1>1, <1>2, <1>3, StepCases

\* Who stops between script and record of a migration that commits by itself, fails.
LEMMA QuitsAhead ==
    ASSUME IInv, NEW r \in Runners, Alone(r), RunnerStep(r), Quits(r),
           NEW i \in ImplicitCommit, Ahead(r, i) # 0
    PROVE  faults' = faults + 1
<1>1. TypeOK /\ Holds(r) /\ cur[r] = i /\ pc[r] \in {"upRecord", "downDelete"}
  BY DEF IInv, Ahead
<1>2. pc'[r] = "idle"
  BY <1>1, Returned DEF Quits
<1>3. ~UpRecordDuplicate(r)
  BY <1>1 DEF UpRecordDuplicate, Holds, Fresh, UpLabels
<1>4. UpRecordFails(r) \/ DownFails(r) \/ Crash(r)
  <2>1. ~(UpRecord(r) \/ DownDelete(r))
    BY <1>1, <1>2 DEF UpRecord, DownDelete, Goto, TypeOK
  <2> QED
    BY <1>1, <1>3, <2>1 DEF RunnerStep, UpStep, DownStep, AutoStep, UpRead, UpLoad, UpNext, UpDone,
       UpExec, UpExecFails, UpCommit, UpCommitFails, DownRead, DownLoad, DownNoFile, DownExec,
       DownCommit, DownCommitFails, AutoMigrate, AutoRecord, AutoRecordDuplicate, AutoRecordFails
<1> QED
  BY <1>4 DEF UpRecordFails, DownFails, Crash, Fail, Fault

LEMMA NearStep == IInv /\ Near /\ [Next]_vars => Near'
<1> SUFFICES ASSUME IInv, Near, [Next]_vars, NoMix, NEW r \in Runners, Alone(r),
                    NEW i \in ImplicitCommit
             PROVE  Drift(i)' - Ahead(r, i)' <= faults' /\ Ahead(r, i)' - Drift(i)' <= faults'
  BY SetupFixed DEF IInv, Near, NoMix, Alone, Uppers, Downers, Autos, ImplicitCommit
<1>1. /\ TypeOK /\ Holds(r) /\ i \in Ids /\ setup' = setup /\ faults \in Nat
      /\ Drift(i) - Ahead(r, i) <= faults /\ Ahead(r, i) - Drift(i) <= faults
  BY MigrationsAssumption, SetupFixed DEF IInv, Near, TypeOK, ImplicitCommit
<1>2. Drift(i) \in Int /\ Ahead(r, i) \in Int /\ Ahead(r, i) <= 1 /\ Ahead(r, i) >= -1
  BY <1>1 DEF Drift, Expected, Ahead, TypeOK
<1>3. OneDowner
  BY DEF Alone, OneDowner
<1>4. CASE Surroundings
  <2>1. Drift(i)' = Drift(i) /\ Ahead(r, i)' = Ahead(r, i) /\ faults' = faults
    BY <1>1, <1>4, DriftKept DEF Surroundings, CreateMigration, MergeFile, Tick, vars, dbVars, Ahead
  <2> QED
    BY <1>1, <2>1
<1>5. ASSUME NEW u \in Runners, RunnerStep(u)
      PROVE  u = r
  <2>1. u \in Uppers \cup Downers \cup Autos
    BY <1>1, <1>5 DEF RunnerStep, Crash, IInv, TypeOK, Labels, Holds, Roles
  <2> QED
    BY <2>1 DEF Alone
<1>6. ASSUME RunnerStep(r)
      PROVE  Drift(i)' - Ahead(r, i)' <= faults' /\ Ahead(r, i)' - Drift(i)' <= faults'
  <2>1. CASE Quits(r)
    <3>1. Drift(i)' = Drift(i)
      BY <1>1, <2>1, NeutralKeepsDrift DEF Neutral
    <3>2. Ahead(r, i)' = 0
      BY <1>1, <2>1, Returned DEF Quits, Ahead
    <3>3. faults' \in {faults, faults + 1} /\ (Ahead(r, i) # 0 => faults' = faults + 1)
      BY <1>6, <2>1, QuitsAhead DEF Quits
    <3> QED
      BY <1>1, <1>2, <3>1, <3>2, <3>3
  <2>2. CASE Neutral(r) /\ ~Quits(r)
    <3>1. Drift(i)' = Drift(i)
      BY <1>1, <2>2, NeutralKeepsDrift
    <3>2. Ahead(r, i)' = Ahead(r, i) /\ faults' = faults
      BY <1>1, <2>2 DEF Neutral, UpRead, UpLoad, UpNext, DownRead, DownLoad, AutoMigrate, Goto,
         TypeOK, Ahead
    <3> QED
      BY <1>1, <3>1, <3>2
  <2>3. CASE Commits(r)
    <3>1. Drift(i)' = Drift(i)
      BY <1>1, <1>3, <2>3, CommitSteps
    <3>2. pc[r] \in {"upCommit", "downCommit"} /\ pc'[r] \in {"idle", "upNext"}
      BY <1>1, <2>3, Returned DEF Commits, UpCommit, UpCommitFails, DownCommit, DownCommitFails,
         Goto, TypeOK
    <3>3. Ahead(r, i) = 0 /\ Ahead(r, i)' = 0
      BY <3>2 DEF Ahead
    <3>4. faults' \in {faults, faults + 1}
      BY <2>3 DEF Commits, UpCommit, UpCommitFails, DownCommit, DownCommitFails, Fault
    <3> QED
      BY <1>1, <1>2, <3>1, <3>3, <3>4
  <2>4. CASE AutoRecord(r)
    <3>1. Drift(i)' = Drift(i)
      BY <1>1, <2>4, AutoKeepsDrift
    <3>2. Ahead(r, i)' = Ahead(r, i) /\ faults' = faults
      BY <1>1, <2>4 DEF AutoRecord, Goto, TypeOK, Ahead
    <3> QED
      BY <1>1, <3>1, <3>2
  <2>5. CASE UpExec(r) \/ UpRecord(r) \/ DownExec(r) \/ DownDelete(r)
    <3>1. faults' = faults /\ cur'[r] = cur[r]
      BY <2>5 DEF UpExec, UpRecord, DownExec, DownDelete
    <3>2. CASE cur[r] # i
      <4>1. Drift(i)' = Drift(i) /\ Ahead(r, i) = 0 /\ Ahead(r, i)' = 0
        BY <1>1, <1>3, <2>5, <3>1, <3>2, ScriptDrift DEF Ahead
      <4> QED
        BY <1>1, <3>1, <4>1
    <3>3. CASE cur[r] = i /\ UpExec(r)
      <4>1. Ahead(r, i) = 0 /\ Ahead(r, i)' = 1
        BY <1>1, <3>1, <3>3 DEF UpExec, Goto, TypeOK, Ahead
      <4>2. Drift(i)' = Drift(i) + 1
        BY <1>1, <1>3, <3>3, ScriptDrift
      <4> QED
        BY <1>1, <1>2, <3>1, <4>1, <4>2
    <3>4. CASE cur[r] = i /\ UpRecord(r)
      <4>1. Ahead(r, i) = 1 /\ Ahead(r, i)' = 0
        BY <1>1, <3>1, <3>4 DEF UpRecord, Goto, TypeOK, Ahead
      <4>2. Drift(i)' = Drift(i) - 1
        BY <1>1, <1>3, <3>4, ScriptDrift
      <4> QED
        BY <1>1, <1>2, <3>1, <4>1, <4>2
    <3>5. CASE cur[r] = i /\ DownExec(r)
      <4>1. Ahead(r, i) = 0 /\ Ahead(r, i)' = -1
        BY <1>1, <3>1, <3>5 DEF DownExec, Goto, TypeOK, Ahead
      <4>2. Drift(i)' = Drift(i) - 1
        BY <1>1, <1>3, <3>5, ScriptDrift
      <4> QED
        BY <1>1, <1>2, <3>1, <4>1, <4>2
    <3>6. CASE cur[r] = i /\ DownDelete(r)
      <4>1. Ahead(r, i) = -1 /\ Ahead(r, i)' = 0
        BY <1>1, <3>1, <3>6 DEF DownDelete, Goto, TypeOK, Ahead
      <4>2. Drift(i)' = Drift(i) + 1
        BY <1>1, <1>3, <3>6, ScriptDrift
      <4> QED
        BY <1>1, <1>2, <3>1, <4>1, <4>2
    <3> QED
      BY <2>5, <3>2, <3>3, <3>4, <3>5, <3>6
  <2> QED
    BY <1>1, <1>6, <2>1, <2>2, <2>3, <2>4, <2>5, StepKinds
<1> QED
  BY <1>1, <1>4, <1>5, <1>6, StepCases

LEMMA TogetherAlways == Spec => []Together
<1>1. Together /\ IInv /\ [Next]_vars => Together'
  BY ExactStep, NearStep DEF Together
<1> QED
  BY <1>1, IInvInit, IInvAlways, PTL DEF Spec

-----------------------------------------------------------------------------
\* What a step records or takes back, where AutoMigrate records nothing.
LEMMA RecordEffect ==
    ASSUME IInv, Autos = {}, NEW r \in Runners, RunnerStep(r)
    PROVE  \/ UNCHANGED <<history, before>>
           \/ Insert(cur[r]) /\ pc[r] \in {"upRecord", "upCommit"}
           \/ Delete(cur[r]) /\ pc[r] \in DownLabels
<1>1. CASE Neutral(r) \/ UpExec(r) \/ DownExec(r)
  BY <1>1 DEF Neutral, Quits, UpRead, UpLoad, UpNext, DownRead, DownLoad, AutoMigrate, UpExec,
     DownExec, dbVars
<1>2. CASE UpRecord(r) \/ UpCommit(r) \/ UpCommitFails(r)
  BY <1>2 DEF UpRecord, UpCommit, UpCommitFails, UpCommitted, dbVars
<1>3. CASE DownDelete(r) \/ DownCommit(r) \/ DownCommitFails(r)
  BY <1>3 DEF DownDelete, DownCommit, DownCommitFails, DownCommitted, dbVars, DownLabels
<1>4. ~AutoRecord(r)
  BY DEF AutoRecord, IInv, Holds, Roles
<1> QED
  BY <1>1, <1>2, <1>3, <1>4, StepKinds DEF Commits, IInv

\* A step leaves the files alone, and what it loads are all of them.
LEMMA LoadEffect ==
    ASSUME TypeOK, NEW r \in Runners, RunnerStep(r)
    PROVE  /\ UNCHANGED <<setup, files, clock>>
           /\ loaded'[r] \in {{}, files, loaded[r]}
           /\ pc'[r] \in {"upExec", "upRecord", "upCommit"} =>
                  /\ loaded'[r] = loaded[r]
                  /\ \/ UpNext(r)
                     \/ cur'[r] = cur[r] /\ pc[r] \in {"upExec", "upRecord"}
<1> USE DEF dirVars, locals, Goto, TypeOK
<1>1. CASE Quits(r) \/ UpCommitFails(r) \/ DownCommit(r) \/ DownCommitFails(r)
  BY <1>1 DEF Quits, UpCommitFails, DownCommit, DownCommitFails, Return
<1>2. CASE UpRead(r) \/ UpLoad(r) \/ UpCommit(r)
  BY <1>2 DEF UpRead, UpLoad, UpCommit
<1>3. CASE UpNext(r) \/ UpExec(r) \/ UpRecord(r)
  BY <1>3 DEF UpNext, UpExec, UpRecord
<1>4. CASE DownRead(r) \/ DownLoad(r) \/ DownExec(r) \/ DownDelete(r)
  BY <1>4 DEF DownRead, DownLoad, DownExec, DownDelete
<1>5. CASE AutoMigrate(r) \/ AutoRecord(r)
  BY <1>5 DEF AutoMigrate, AutoRecord
<1> QED
  BY <1>1, <1>2, <1>3, <1>4, <1>5, StepKinds DEF Neutral, Commits

\* What goes down works on the last record of the history that it read.
LEMMA DownEffect ==
    ASSUME TypeOK, NEW r \in Runners, RunnerStep(r), pc'[r] \in DownLabels
    PROVE  \/ pc[r] \in DownLabels /\ cur'[r] = cur[r]
           \/ history' = history /\ \A i \in history : i <= cur'[r]
<1> USE DEF dirVars, dbVars, locals, Goto, TypeOK, DownLabels
<1>1. CASE Quits(r) \/ UpCommitFails(r) \/ DownCommit(r) \/ DownCommitFails(r)
  BY <1>1 DEF Quits, UpCommitFails, DownCommit, DownCommitFails, Return
<1>2. CASE UpRead(r) \/ UpLoad(r) \/ UpNext(r) \/ UpExec(r) \/ UpRecord(r) \/ UpCommit(r)
  BY <1>2 DEF UpRead, UpLoad, UpNext, UpExec, UpRecord, UpCommit
<1>3. CASE DownRead(r)
  <2>1. history' = history /\ cur'[r] = Greatest(history) /\ history # {}
    BY <1>3 DEF DownRead
  <2> QED
    BY <2>1, GreatestFacts
<1>4. CASE DownLoad(r) \/ DownExec(r) \/ DownDelete(r)
  BY <1>4 DEF DownLoad, DownExec, DownDelete
<1>5. CASE AutoMigrate(r) \/ AutoRecord(r)
  BY <1>5 DEF AutoMigrate, AutoRecord
<1> QED
  BY <1>1, <1>2, <1>3, <1>4, <1>5, StepKinds DEF Neutral, Commits

LEMMA SeenStep == IInv /\ Seen /\ [Next]_vars => Seen'
<1> SUFFICES ASSUME IInv, Seen, [Next]_vars
             PROVE  Seen'
  OBVIOUS
<1>1. /\ TypeOK /\ Ids = 1 .. MaxClock /\ MaxClock \in Nat
      /\ files \subseteq Nat /\ clock \in Nat
  BY MigrationsAssumption DEF IInv, Ids, TypeOK
<1>s. /\ \A i \in files : i <= clock
      /\ \A u \in Runners : /\ loaded[u] \subseteq files
                            /\ pc[u] \in {"upExec", "upRecord", "upCommit"} => cur[u] \in loaded[u]
      /\ Autos = {} => history \subseteq files
  BY DEF Seen
<1>2. CASE Surroundings
  <2>1. /\ UNCHANGED <<setup, loaded, pc, cur, history>> /\ files \subseteq files'
    BY <1>2 DEF Surroundings, CreateMigration, MergeFile, Tick, vars, dirVars, dbVars, locals
  <2>2. \A i \in files' : i <= clock'
    <3>1. CASE CreateMigration
      BY <1>1, <1>s, <3>1 DEF CreateMigration
    <3>2. CASE MergeFile
      <4>1. PICK k \in Mergeable : k < clock /\ files' = files \cup {k}
        BY <3>2 DEF MergeFile
      <4>2. k \in Nat /\ clock' = clock
        BY <1>1, <3>2, MigrationsAssumption DEF MergeFile, TypeOK, Mergeable
      <4> QED
        BY <1>1, <1>s, <4>1, <4>2
    <3>3. CASE Tick
      <4>1. files' = files /\ clock' = clock + 1
        BY <3>3 DEF Tick
      <4> QED
        BY <1>1, <1>s, <4>1
    <3>4. CASE UNCHANGED vars
      BY <1>s, <3>4 DEF vars, dirVars
    <3> QED
      BY <1>2, <3>1, <3>2, <3>3, <3>4 DEF Surroundings
  <2>3. \A u \in Runners : loaded[u] \subseteq files'
    BY <1>s, <2>1
  <2>4. Autos = {} => history \subseteq files'
    BY <1>s, <2>1
  <2> QED
    BY <1>s, <2>1, <2>2, <2>3, <2>4 DEF Seen, Autos
<1>3. ASSUME NEW r \in Runners, RunnerStep(r)
      PROVE  Seen'
  <2>1. UNCHANGED <<setup, files, clock>>
    BY <1>1, <1>3, LoadEffect
  <2>2. ASSUME NEW u \in Runners
        PROVE  /\ loaded'[u] \subseteq files
               /\ pc'[u] \in {"upExec", "upRecord", "upCommit"} => cur'[u] \in loaded'[u]
    <3>1. CASE u # r
      <4>1. Same(u)
        BY <1>1, <1>3, <3>1, OthersSame
      <4> QED
        BY <1>s, <4>1 DEF Same
    <3>2. CASE u = r
      <4>1. loaded'[r] \subseteq files
        BY <1>1, <1>3, <1>s, LoadEffect
      <4>2. ASSUME pc'[r] \in {"upExec", "upRecord", "upCommit"}, UpNext(r)
            PROVE  cur'[r] \in loaded[r]
        BY <1>1, <4>2, NextFile DEF UpNext, TypeOK
      <4> QED
        BY <1>1, <1>3, <1>s, <3>2, <4>1, <4>2, LoadEffect
    <3> QED
      BY <3>1, <3>2
  <2>3. Autos = {} => history' \subseteq files
    <3> SUFFICES ASSUME Autos = {}
                 PROVE  history' \subseteq files
      OBVIOUS
    <3>1. CASE Insert(cur[r]) /\ pc[r] \in {"upRecord", "upCommit"}
      <4>1. cur[r] \in files /\ history \subseteq files
        BY <1>s, <3>1
      <4> QED
        BY <3>1, <4>1 DEF Insert
    <3>2. CASE UNCHANGED <<history, before>> \/ Delete(cur[r])
      BY <1>s, <3>2 DEF Delete
    <3> QED
      BY <1>3, <3>1, <3>2, RecordEffect
  <2> QED
    BY <1>s, <2>1, <2>2, <2>3 DEF Seen, Autos
<1> QED
  BY <1>1, <1>2, <1>3, StepCases

LEMMA NewerStep == IInv /\ Seen /\ Newer /\ [Next]_vars => Newer'
<1> SUFFICES ASSUME IInv, Seen, Newer, [Next]_vars, Mergeable = {}, NEW u \in Runners,
                    NEW i \in files' \ loaded'[u], NEW j \in loaded'[u]
             PROVE  j < i
  BY SetupFixed DEF IInv, Newer, Mergeable
<1>1. TypeOK /\ Ids = 1 .. MaxClock /\ MaxClock \in Nat
  BY MigrationsAssumption DEF IInv, Ids
<1>2. CASE CreateMigration
  <2>1. files' = files \cup {clock} /\ clock \notin files /\ loaded' = loaded
    BY <1>2 DEF CreateMigration, locals
  <2>2. j \in files /\ j <= clock /\ j # clock /\ j \in Nat /\ clock \in Nat
    <3>1. \A k \in files : k \in Nat /\ k <= clock
      BY <1>1 DEF Seen, TypeOK
    <3>2. j \in files
      BY <2>1 DEF Seen
    <3> QED
      BY <1>1, <2>1, <3>1, <3>2 DEF TypeOK
  <2> QED
    BY <2>1, <2>2 DEF Newer
<1>3. CASE MergeFile \/ Tick \/ UNCHANGED vars
  <2>1. UNCHANGED <<files, loaded>>
    BY <1>3 DEF MergeFile, Tick, vars, dirVars, locals
  <2> QED
    BY <2>1 DEF Newer
<1>4. ASSUME NEW r \in Runners, RunnerStep(r)
      PROVE  j < i
  <2>1. files' = files
    BY <1>1, <1>4, LoadEffect
  <2>2. loaded'[u] \in {{}, files, loaded[u]}
    BY <1>1, <1>4, LoadEffect, OthersSame DEF Same
  <2> QED
    BY <2>1, <2>2 DEF Newer
<1> QED
  BY <1>1, <1>2, <1>3, <1>4, StepCases DEF Surroundings

LEMMA AscendingStep == IInv /\ Ordered /\ [Next]_vars => Ascending'
<1> SUFFICES ASSUME IInv, Ordered, [Next]_vars, NEW r \in Runners,
                    Mergeable = {}, Autos = {}, Alone(r)
             PROVE  /\ \A i \in files', j \in history' : i < j => i \in history'
                    /\ \A i, j \in history' : i < j => <<i, j>> \in before'
                    /\ pc'[r] \in DownLabels => \A i \in history' : i <= cur'[r]
  BY SetupFixed DEF IInv, Ascending, Mergeable, Autos, Alone, Uppers, Downers
<1>1. /\ TypeOK /\ Holds(r) /\ Ids = 1 .. MaxClock /\ MaxClock \in Nat
      /\ history \subseteq files /\ files \subseteq Nat
  BY MigrationsAssumption DEF IInv, Ids, Ordered, Seen, TypeOK
<1>2. /\ \A i \in files, j \in history : i < j => i \in history
      /\ \A i, j \in history : i < j => <<i, j>> \in before
      /\ pc[r] \in DownLabels => \A i \in history : i <= cur[r]
  BY DEF Ordered, Ascending
<1>3. CASE Surroundings
  <2>1. UNCHANGED <<history, before, pc, cur>>
    BY <1>3 DEF Surroundings, CreateMigration, MergeFile, Tick, vars, dbVars
  <2>2. files' = files \/ files' = files \cup {clock}
    BY <1>3 DEF Surroundings, CreateMigration, MergeFile, Tick, vars, dirVars
  <2>3. \A j \in history : ~(clock < j)
    BY <1>1 DEF Ordered, Seen, TypeOK
  <2> QED
    BY <1>2, <2>1, <2>2, <2>3
<1>4. ASSUME NEW u \in Runners, RunnerStep(u)
      PROVE  u = r
  <2>1. u \in Uppers \cup Downers \cup Autos
    BY <1>4 DEF RunnerStep, Crash, IInv, TypeOK, Labels, Holds, Roles
  <2> QED
    BY <2>1 DEF Alone
<1>5. CASE RunnerStep(r)
  <2>1. files' = files
    BY <1>1, <1>5, LoadEffect
  <2>2. history' \subseteq history => (pc'[r] \in DownLabels => \A i \in history' : i <= cur'[r])
    BY <1>1, <1>2, <1>5, DownEffect
  <2>3. CASE UNCHANGED <<history, before>>
    BY <1>2, <2>1, <2>2, <2>3
  <2>4. CASE Delete(cur[r]) /\ pc[r] \in DownLabels
    <3>1. /\ history' = history \ {cur[r]}
          /\ before' = before \cap (history' \X history')
      BY <2>4 DEF Delete
    <3>2. \A j \in history : ~(cur[r] < j)
      BY <1>1, <1>2, <2>4 DEF TypeOK
    <3> QED
      BY <1>2, <2>1, <2>2, <3>1, <3>2
  <2>5. CASE Insert(cur[r]) /\ pc[r] \in {"upRecord", "upCommit"}
    <3>1. history' = history \cup {cur[r]} /\ before' = before \cup (history \X {cur[r]})
      BY <2>5 DEF Insert
    <3>2. cur[r] \in loaded[r] /\ cur[r] \in files /\ cur[r] \in Nat
      <4>1. cur[r] \in loaded[r] /\ loaded[r] \subseteq files
        BY <2>5 DEF Ordered, Seen
      <4> QED
        BY <1>1, <4>1
    <3>3. \A i \in files : i < cur[r] => i \in history
      <4> SUFFICES ASSUME NEW i \in files, i < cur[r]
                   PROVE  i \in history
        OBVIOUS
      <4>1. i \in loaded[r]
        <5>1. i \in Nat /\ ~(cur[r] < i)
          BY <1>1, <3>2
        <5> QED
          BY <3>2, <5>1 DEF Ordered, Newer
      <4>2. {k \in loaded[r] : k < cur[r]} \subseteq history
        BY <1>1, <2>5 DEF Holds, Passed, UpLabels, Alone
      <4> QED
        BY <4>1, <4>2
    <3>4. \A j \in history : cur[r] < j => cur[r] \in history
      BY <1>2, <3>2
    <3>5. ~(cur[r] < cur[r])
      BY <3>2
    <3>6. pc'[r] \notin DownLabels
      <4>1. CASE UpRecord(r) \/ UpCommit(r)
        BY <1>1, <4>1 DEF UpRecord, UpCommit, Goto, TypeOK, DownLabels
      <4>2. CASE Return(r)
        BY <1>1, <4>2, Returned DEF DownLabels
      <4> QED
        BY <1>1, <1>5, <2>5, <4>1, <4>2 DEF RunnerStep, UpStep, DownStep, AutoStep, UpRead, UpLoad,
           UpNext, UpDone, UpExec, UpExecFails, UpRecordDuplicate, UpRecordFails, UpCommitFails,
           DownRead, DownLoad, DownNoFile, DownExec, DownDelete, DownFails, DownCommit,
           DownCommitFails, AutoMigrate, AutoRecord, AutoRecordDuplicate, AutoRecordFails, Crash,
           Fail, ReturnOnly
    <3>7. \A i \in files', j \in history' : i < j => i \in history'
      BY <1>2, <2>1, <3>1, <3>3
    <3>8. \A i, j \in history' : i < j => <<i, j>> \in before'
      BY <1>2, <3>1, <3>4, <3>5
    <3> QED
      BY <3>6, <3>7, <3>8
  <2> QED
    BY <1>5, <2>3, <2>4, <2>5, RecordEffect
<1> QED
  BY <1>1, <1>3, <1>4, <1>5, StepCases

LEMMA OrderedAlways == Spec => []Ordered
<1>1. Init => Ordered
  BY DEF Init, Ordered, Seen, Newer, Ascending, DownLabels
<1>2. IInv /\ Ordered /\ [Next]_vars => Ordered'
  BY SeenStep, NewerStep, AscendingStep DEF Ordered
<1> QED
  BY <1>1, <1>2, IInvAlways, PTL DEF Spec

-----------------------------------------------------------------------------
\* DriftBounded: whatever fails and whoever dies, each migration has taken effect as
\* often as the history says, where its script runs in the transaction, at most one
\* process reverts, and none where AutoMigrate leaves records. Where a script commits
\* by itself, and one process migrates, they drift by no more than one for each
\* failure, and one for a script that waits for its record.
THEOREM SchemaMatchesHistory == Spec => []DriftBounded
<1>1. IInv /\ Together => DriftBounded
  <2> SUFFICES ASSUME IInv, Together, OneDowner, NoMix, NEW i \in Ids,
                      i \in ImplicitCommit => \E r \in Runners : Alone(r)
               PROVE  LET bound == IF i \in ImplicitCommit THEN faults + Unrecorded(i) ELSE 0
                      IN  Drift(i) <= bound /\ -Drift(i) <= bound
    BY DEF DriftBounded, Drift, OneDowner, NoMix
  <2>1. CASE i \notin ImplicitCommit
    BY <2>1 DEF Together, Exact
  <2>2. CASE i \in ImplicitCommit
    <3>1. PICK r \in Runners : Alone(r)
      BY <2>2
    <3>2. TypeOK /\ Holds(r) /\ faults \in Nat
      BY DEF IInv, TypeOK
    <3>3. Drift(i) - Ahead(r, i) <= faults /\ Ahead(r, i) - Drift(i) <= faults
      BY <2>2, <3>1 DEF Together, Near
    <3>4. Drift(i) \in Int
      BY <3>2 DEF Drift, Expected, TypeOK
    <3> DEFINE between == {u \in Runners : /\ pc[u] \in {"upRecord", "downDelete"}
                                           /\ cur[u] = i
                                           /\ ~inTx[u]}
    <3>5. between \subseteq {r}
      BY <3>1 DEF IInv, Holds, Roles, UpLabels, DownLabels, Alone
    <3>6. CASE r \in between
      <4>1. between = {r}
        BY <3>5, <3>6
      <4>2. Unrecorded(i) = 1
        BY <4>1, FS_Singleton DEF Unrecorded
      <4>3. Ahead(r, i) \in {1, -1}
        BY <3>6 DEF Ahead
      <4> QED
        BY <2>2, <3>2, <3>3, <3>4, <4>2, <4>3
    <3>7. CASE r \notin between
      <4>1. between = {}
        BY <3>5, <3>7
      <4>2. Unrecorded(i) = 0
        BY <4>1, FS_EmptySet DEF Unrecorded
      <4>3. Ahead(r, i) = 0
        BY <2>2, <3>2, <3>7 DEF Ahead, Holds, InTransaction
      <4> QED
        BY <2>2, <3>2, <3>3, <3>4, <4>2, <4>3
    <3> QED
      BY <3>6, <3>7
  <2> QED
    BY <2>1, <2>2
<1> QED
  BY <1>1, IInvAlways, TogetherAlways, PTL

\* InOrder: MigrateUp commits a migration when every older one that it loaded is
\* recorded, unless somebody else reverts.
THEOREM OlderFirst == Spec => InOrder
<1>1. IInv => AppliesInOrder
  <2>1. IInv => Uppers \subseteq Runners
    BY MigrationsAssumption DEF IInv, TypeOK, Uppers
  <2> QED
    BY <2>1 DEF IInv, Holds, Passed, AppliesInOrder, UpCommit, UpLabels
<1> QED
  BY <1>1, IInvAlways, PTL DEF InOrder

\* SuccessMeansApplied: when MigrateUp returns nil, all that it loaded is recorded,
\* unless somebody else reverts.
THEOREM SuccessIsComplete == Spec => SuccessMeansApplied
<1>1. IInv => SucceedsWhenApplied
  <2> SUFFICES ASSUME IInv, NEW r \in Uppers, UpDone(r), Downers \subseteq {r}, NEW i \in loaded[r]
               PROVE  i \in history
    BY DEF SucceedsWhenApplied
  <2>1. r \in Runners /\ TypeOK
    BY MigrationsAssumption DEF IInv, TypeOK, Uppers
  <2>2. /\ snap[r] \subseteq history /\ {j \in loaded[r] : j < cur[r]} \subseteq history
        /\ cur[r] = 0 \/ cur[r] \in history
    BY <2>1 DEF IInv, Holds, Passed, UpDone, UpLabels
  <2>3. i \in Ids /\ Ids \subseteq Nat \ {0} /\ cur[r] \in Nat
    BY <2>1, MigrationsAssumption DEF TypeOK, Ids
  <2>4. i \in snap[r] \/ i <= cur[r]
    BY <2>3 DEF UpDone, Pending
  <2> QED
    BY <2>2, <2>3, <2>4
<1> QED
  BY <1>1, IInvAlways, PTL DEF SuccessMeansApplied

\* DownRevertsLatest: what MigrateDown takes back is what was recorded last, where one
\* process migrates, no older file arrives late, and AutoMigrate records nothing.
THEOREM LastInFirstOut == Spec => DownRevertsLatest
<1>1. IInv /\ Ordered => RevertsLatest
  <2> SUFFICES ASSUME IInv, Ordered, NEW r \in Downers, DownDelete(r), cur[r] \in history,
                      Mergeable = {}, Autos = {}, Alone(r), NEW i \in history \ {cur[r]}
               PROVE  <<i, cur[r]>> \in before
    BY DEF RevertsLatest
  <2>1. r \in Runners /\ TypeOK /\ history \subseteq Nat
    BY MigrationsAssumption DEF IInv, TypeOK, Downers, Ids
  <2>2. /\ \A k, j \in history : k < j => <<k, j>> \in before
        /\ \A k \in history : k <= cur[r]
    BY <2>1 DEF Ordered, Ascending, DownDelete, DownLabels
  <2>3. i < cur[r]
    <3>1. i \in Nat /\ cur[r] \in Nat /\ i <= cur[r] /\ i # cur[r]
      BY <2>1, <2>2
    <3> QED
      BY <3>1
  <2> QED
    BY <2>2, <2>3
<1> QED
  BY <1>1, IInvAlways, OrderedAlways, PTL DEF DownRevertsLatest
=============================================================================
