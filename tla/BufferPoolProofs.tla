-------------------------- MODULE BufferPoolProofs --------------------------
(***************************************************************************)
(* For any number of goroutines, buffers, downloads and cleanups: what Get *)
(* returns is intact, and the pool is bounded although poolSize is read,   *)
(* used and increased in three separate steps.                             *)
(***************************************************************************)
EXTENDS BufferPool, FiniteSetTheorems, TLAPS

ThreadStep(t) ==
    \/ TakePooled(t) \/ TakeNew(t)
    \/ Read(t) \/ ReadFailed(t) \/ CopyResult(t)
    \/ PutLarge(t) \/ PutFull(t) \/ PutAdmitted(t) \/ PutPooled(t) \/ PutCounted(t)

-----------------------------------------------------------------------------
\* Every step keeps the types.
LEMMA TypeStep == TypeOK /\ [Next]_vars => TypeOK'
<1> USE PoolAssumption DEF TypeOK, counters, cleanupVars, Goto, PCs
<1> SUFFICES ASSUME TypeOK, [Next]_vars
             PROVE  TypeOK'
  OBVIOUS
<1>1. ASSUME NEW t \in Threads, ThreadStep(t)
      PROVE  TypeOK'
  <2>1. CASE TakePooled(t)
    BY <2>1 DEF TakePooled, Take
  <2>2. CASE TakeNew(t)
    BY <2>2 DEF TakeNew, Take
  <2>3. CASE Read(t)
    <3>1. buf[t] \in Buffers
      BY <2>3 DEF Read
    <3> QED
      BY <2>3, <3>1 DEF Read
  <2>4. CASE ReadFailed(t)
    <3>1. buf[t] \in Buffers
      BY <2>4 DEF ReadFailed
    <3> QED
      BY <2>4, <3>1 DEF ReadFailed
  <2>5. CASE CopyResult(t)
    BY <2>5 DEF CopyResult
  <2>6. CASE PutLarge(t)
    BY <2>6 DEF PutLarge, Discard
  <2>7. CASE PutFull(t)
    BY <2>7 DEF PutFull, Discard
  <2>8. CASE PutAdmitted(t)
    BY <2>8 DEF PutAdmitted
  <2>9. CASE PutPooled(t)
    BY <2>9 DEF PutPooled
  <2>10. CASE PutCounted(t)
    BY <2>10 DEF PutCounted
  <2> QED
    BY <1>1, <2>1, <2>2, <2>3, <2>4, <2>5, <2>6, <2>7, <2>8, <2>9, <2>10
    DEF ThreadStep
<1>2. CASE CleanupReplace
  BY <1>2 DEF CleanupReplace
<1>3. CASE CleanupReset
  BY <1>3 DEF CleanupReset
<1>4. CASE Collect
  BY <1>4 DEF Collect
<1>5. CASE UNCHANGED vars
  BY <1>5 DEF vars
<1> QED
  BY <1>1, <1>2, <1>3, <1>4, <1>5 DEF Next, ThreadStep

-----------------------------------------------------------------------------
\* A buffer has one owner: a goroutine or the pool, never two of them; and what
\* a goroutine is about to copy is its own object.
Exclusive ==
    /\ \A t \in Threads : buf[t] \notin pool
    /\ \A t, u \in Threads : t # u /\ buf[t] = buf[u] => buf[t] = None
    /\ \A t \in Threads : pc[t] = "copy" => data[buf[t]] = t

\* Every step keeps buffers exclusive and results intact.
LEMMA ExclusiveStep ==
    TypeOK /\ Exclusive /\ ResultIntact /\ [Next]_vars => Exclusive' /\ ResultIntact'
<1> USE PoolAssumption
    DEF TypeOK, Exclusive, ResultIntact, counters, cleanupVars, Goto, PCs
<1> SUFFICES ASSUME TypeOK, Exclusive, ResultIntact, [Next]_vars
             PROVE  Exclusive' /\ ResultIntact'
  OBVIOUS
<1>1. ASSUME NEW t \in Threads, ThreadStep(t)
      PROVE  Exclusive' /\ ResultIntact'
  <2>1. CASE TakePooled(t)
    BY <2>1 DEF TakePooled, Take
  <2>2. CASE TakeNew(t)
    BY <2>2 DEF TakeNew, Take, Held
  <2>3. CASE Read(t)
    BY <2>3 DEF Read
  <2>4. CASE ReadFailed(t)
    BY <2>4 DEF ReadFailed
  <2>5. CASE CopyResult(t)
    BY <2>5 DEF CopyResult
  <2>6. CASE PutLarge(t)
    BY <2>6 DEF PutLarge, Discard
  <2>7. CASE PutFull(t)
    BY <2>7 DEF PutFull, Discard
  <2>8. CASE PutAdmitted(t)
    BY <2>8 DEF PutAdmitted
  <2>9. CASE PutPooled(t)
    BY <2>9 DEF PutPooled
  <2>10. CASE PutCounted(t)
    BY <2>10 DEF PutCounted
  <2> QED
    BY <1>1, <2>1, <2>2, <2>3, <2>4, <2>5, <2>6, <2>7, <2>8, <2>9, <2>10
    DEF ThreadStep
<1>2. CASE CleanupReplace
  BY <1>2 DEF CleanupReplace
<1>3. CASE CleanupReset
  BY <1>3 DEF CleanupReset
<1>4. CASE Collect
  BY <1>4 DEF Collect
<1>5. CASE UNCHANGED vars
  BY <1>5 DEF vars
<1> QED
  BY <1>1, <1>2, <1>3, <1>4, <1>5 DEF Next, ThreadStep

-----------------------------------------------------------------------------
N == Cardinality(Threads)

Admitted == {t \in Threads : pc[t] = "admitted"}

\* The cleanups that have reset poolSize.
Resets == IF cleaning THEN cleanups - 1 ELSE cleanups

\* While Cleanup holds mu no Put is admitted, so those admitted before can add
\* one buffer each to the new pool; the reset then forgets at most N of them.
Counted ==
    /\ SizeBounded
    /\ Cardinality(pool) <= poolSize + Cardinality(Counting) + Resets * N
    /\ cleaning => cleanups > 0 /\ Cardinality(pool) + Cardinality(Admitted) <= N

\* The sets that Counted counts are finite.
LEMMA Finite ==
    ASSUME TypeOK
    PROVE  /\ IsFiniteSet(pool) /\ IsFiniteSet(InFlight)
           /\ IsFiniteSet(Counting) /\ IsFiniteSet(Admitted)
           /\ Cardinality(pool) \in Nat /\ Cardinality(InFlight) \in Nat
           /\ Cardinality(Counting) \in Nat /\ Cardinality(Admitted) \in Nat
           /\ N \in Nat \ {0}
           /\ Cardinality(InFlight) <= N /\ Cardinality(Admitted) <= N
           /\ Cardinality(Counting) <= Cardinality(InFlight)
<1>1. IsFiniteSet(pool)
  BY PoolAssumption, FS_Subset DEF TypeOK
<1>2. /\ InFlight \in SUBSET Threads /\ Admitted \in SUBSET Threads
      /\ Counting \in SUBSET InFlight
  BY DEF InFlight, Counting, Admitted
<1>3. /\ IsFiniteSet(InFlight) /\ Cardinality(InFlight) <= N
      /\ IsFiniteSet(Admitted) /\ Cardinality(Admitted) <= N
  BY <1>2, PoolAssumption, FS_Subset DEF N
<1>4. IsFiniteSet(Counting) /\ Cardinality(Counting) <= Cardinality(InFlight)
  BY <1>2, <1>3, FS_Subset
<1>5. N \in Nat \ {0}
  BY PoolAssumption, FS_CardinalityType, FS_EmptySet DEF N
<1> QED
  BY <1>1, <1>3, <1>4, <1>5, FS_CardinalityType

\* Every step keeps Counted.
LEMMA CountedStep == TypeOK /\ TypeOK' /\ Exclusive /\ Counted /\ [Next]_vars => Counted'
<1> SUFFICES ASSUME TypeOK, TypeOK', Exclusive, Counted, [Next]_vars
             PROVE  Counted'
  OBVIOUS
<1>f. /\ IsFiniteSet(pool) /\ IsFiniteSet(InFlight)
      /\ IsFiniteSet(Counting) /\ IsFiniteSet(Admitted)
      /\ Cardinality(pool) \in Nat /\ Cardinality(InFlight) \in Nat
      /\ Cardinality(Counting) \in Nat /\ Cardinality(Admitted) \in Nat
      /\ N \in Nat \ {0}
      /\ Cardinality(InFlight) <= N /\ Cardinality(Admitted) <= N
  BY Finite
<1>n. poolSize \in Nat /\ cleanups \in Nat /\ MaxPoolSize \in Nat /\ cleaning \in BOOLEAN
  BY PoolAssumption DEF TypeOK
<1>r. Resets \in Int /\ Resets * N \in Int
  BY <1>n, <1>f DEF Resets
<1>s. ASSUME InFlight' = InFlight, Counting' = Counting, Admitted' = Admitted,
             UNCHANGED <<poolSize, cleanupVars>>,
             pool' = pool \/ \E b \in pool : pool' = pool \ {b}
      PROVE  Counted'
  <2>1. Cardinality(pool') \in Nat /\ Cardinality(pool') <= Cardinality(pool)
    BY <1>s, <1>f, FS_Subset, FS_CardinalityType
  <2>2. Resets' = Resets
    BY <1>s DEF Resets, cleanupVars
  <2> QED
    BY <1>s, <1>f, <1>n, <1>r, <2>1, <2>2 DEF Counted, SizeBounded, N, cleanupVars
<1>1. ASSUME NEW t \in Threads, ThreadStep(t)
      PROVE  Counted'
  <2>1. CASE TakePooled(t)
    <3>1. InFlight' = InFlight /\ Counting' = Counting /\ Admitted' = Admitted
      BY <2>1 DEF TakePooled, Take, Goto, InFlight, Counting, Admitted, TypeOK
    <3> QED
      BY <2>1, <3>1, <1>s DEF TakePooled, Take, cleanupVars
  <2>2. CASE \/ TakeNew(t) \/ Read(t) \/ ReadFailed(t) \/ CopyResult(t)
             \/ PutLarge(t) \/ PutFull(t)
    <3>1. PICK l \in {"read", "copy", "check", "idle"} :
              Goto(t, l) /\ pc[t] \notin {"admitted", "count"}
      BY <2>2 DEF TakeNew, Take, Read, ReadFailed, CopyResult, PutLarge, PutFull, Discard
    <3>2. InFlight' = InFlight /\ Counting' = Counting /\ Admitted' = Admitted
      BY <3>1 DEF Goto, InFlight, Counting, Admitted, TypeOK
    <3>3. UNCHANGED <<pool, poolSize, cleanupVars>>
      BY <2>2 DEF TakeNew, Take, Read, ReadFailed, CopyResult, PutLarge, PutFull, Discard
    <3> QED
      BY <3>2, <3>3, <1>s
  <2>3. CASE PutAdmitted(t)
    <3>1. /\ InFlight' = InFlight \cup {t} /\ Counting' = Counting
      BY <2>3 DEF PutAdmitted, Goto, InFlight, Counting, TypeOK
    <3>2. Cardinality(InFlight') \in Nat /\ Cardinality(InFlight') <= N
      BY Finite, PoolAssumption, FS_Subset, FS_CardinalityType DEF N, InFlight
    <3>3. Resets' = Resets
      BY <2>3 DEF PutAdmitted, Resets, cleanupVars
    <3> QED
      BY <2>3, <3>1, <3>2, <3>3, <1>f, <1>n, <1>r
      DEF PutAdmitted, Counted, SizeBounded, N, cleanupVars
  <2>4. CASE PutPooled(t)
    <3>1. /\ InFlight' = InFlight /\ Counting' = Counting \cup {t} /\ t \notin Counting
          /\ Admitted' = Admitted \ {t} /\ t \in Admitted
      BY <2>4 DEF PutPooled, Goto, InFlight, Counting, Admitted, TypeOK
    <3>2. /\ Cardinality(Counting') = Cardinality(Counting) + 1
          /\ Cardinality(Admitted') = Cardinality(Admitted) - 1
      BY <3>1, <1>f, FS_AddElement, FS_RemoveElement
    <3>3. /\ Cardinality(pool') \in Nat
          /\ Cardinality(pool') <= Cardinality(pool) + 1
      <4>1. pool' = pool \cup {buf[t]}
        BY <2>4 DEF PutPooled
      <4>2. Cardinality(pool \cup {buf[t]}) \in {Cardinality(pool), Cardinality(pool) + 1}
        BY <1>f, FS_AddElement
      <4> QED
        BY <4>1, <4>2, <1>f
    <3>4. Resets' = Resets
      BY <2>4 DEF PutPooled, Resets, cleanupVars
    <3> QED
      BY <2>4, <3>1, <3>2, <3>3, <3>4, <1>f, <1>n, <1>r
      DEF PutPooled, Counted, SizeBounded, N, cleanupVars
  <2>5. CASE PutCounted(t)
    <3>1. /\ InFlight' = InFlight \ {t} /\ t \in InFlight
          /\ Counting' = Counting \ {t} /\ t \in Counting
          /\ Admitted' = Admitted
      BY <2>5 DEF PutCounted, Goto, InFlight, Counting, Admitted, TypeOK
    <3>2. /\ Cardinality(Counting') = Cardinality(Counting) - 1
          /\ Cardinality(InFlight') = Cardinality(InFlight) - 1
      BY <3>1, <1>f, FS_RemoveElement
    <3>3. Resets' = Resets
      BY <2>5 DEF PutCounted, Resets, cleanupVars
    <3> QED
      BY <2>5, <3>1, <3>2, <3>3, <1>f, <1>n, <1>r
      DEF PutCounted, Counted, SizeBounded, N, cleanupVars
  <2> QED
    BY <1>1, <2>1, <2>2, <2>3, <2>4, <2>5 DEF ThreadStep
<1>2. CASE CleanupReplace
  <2>1. /\ InFlight' = InFlight /\ Counting' = Counting /\ Admitted' = Admitted
        /\ poolSize' = poolSize
    BY <1>2 DEF CleanupReplace, InFlight, Counting, Admitted
  <2>2. Cardinality(pool') = 0
    BY <1>2, FS_EmptySet DEF CleanupReplace
  <2>3. Resets' = Resets
    BY <1>2, <1>n DEF CleanupReplace, Resets
  <2>4. Resets * N >= 0
    BY <1>2, <1>n, <1>f DEF Resets, CleanupReplace
  <2> QED
    BY <1>2, <2>1, <2>2, <2>3, <2>4, <1>f, <1>n, <1>r
    DEF CleanupReplace, Counted, SizeBounded, N
<1>3. CASE CleanupReset
  <2>1. /\ InFlight' = InFlight /\ Counting' = Counting /\ pool' = pool
    BY <1>3 DEF CleanupReset, InFlight, Counting
  <2>2. Resets' = cleanups /\ cleanups >= 1
    BY <1>3, <1>n DEF CleanupReset, Resets, Counted
  <2>3. cleanups * N >= N
    BY <2>2, <1>n, <1>f
  <2>4. Cardinality(pool) <= N
    BY <1>3, <1>f DEF CleanupReset, Counted
  <2> QED
    BY <1>3, <2>1, <2>2, <2>3, <2>4, <1>f, <1>n
    DEF CleanupReset, Counted, SizeBounded, N
<1>4. CASE Collect
  <2>1. InFlight' = InFlight /\ Counting' = Counting /\ Admitted' = Admitted
    BY <1>4 DEF Collect, InFlight, Counting, Admitted
  <2> QED
    BY <1>4, <2>1, <1>s DEF Collect, cleanupVars
<1>5. CASE UNCHANGED vars
  <2>1. InFlight' = InFlight /\ Counting' = Counting /\ Admitted' = Admitted
    BY <1>5 DEF vars, InFlight, Counting, Admitted
  <2> QED
    BY <1>5, <2>1, <1>s DEF vars, cleanupVars
<1> QED
  BY <1>1, <1>2, <1>3, <1>4, <1>5 DEF Next, ThreadStep

-----------------------------------------------------------------------------
IInv == TypeOK /\ Exclusive /\ ResultIntact /\ Counted

LEMMA Invariance == Spec => []IInv
<1>1. Init => IInv
  <2> SUFFICES ASSUME Init
               PROVE  IInv
    OBVIOUS
  <2>1. TypeOK
    BY PoolAssumption DEF Init, TypeOK, PCs
  <2>2. Exclusive /\ ResultIntact
    BY DEF Init, Exclusive, ResultIntact
  <2>3. InFlight = {} /\ Counting = {}
    BY DEF Init, InFlight, Counting
  <2>4. Counted
    BY <2>1, <2>3, Finite, FS_EmptySet, PoolAssumption
    DEF Init, Counted, SizeBounded, Resets, N
  <2> QED
    BY <2>1, <2>2, <2>4 DEF IInv
<1>2. IInv /\ [Next]_vars => IInv'
  BY TypeStep, ExclusiveStep, CountedStep DEF IInv
<1> QED
  BY <1>1, <1>2, PTL DEF Spec

\* Types of the pool and of its users, for every value of the constants.
THEOREM TypeCorrect == Spec => []TypeOK
BY Invariance, PTL DEF IInv

\* Downloads never mix: what MinioClient.Get returns was read for that call,
\* although the buffers are shared through the pool.
THEOREM ResultsStayIntact == Spec => []ResultIntact
BY Invariance, PTL DEF IInv

\* poolSize passes MaxPoolSize by fewer than there are goroutines.
THEOREM PoolSizeBounded == Spec => []SizeBounded
BY Invariance, PTL DEF IInv, Counted

\* The number of pooled buffers is bounded, with and without cleanups.
THEOREM PooledBuffersBounded == Spec => []PoolBounded
<1>1. IInv => PoolBounded
  <2> SUFFICES ASSUME IInv
               PROVE  PoolBounded
    OBVIOUS
  <2>1. Resets \in Int /\ Resets <= cleanups /\ cleanups \in Nat
    BY DEF IInv, TypeOK, Resets
  <2>2. Resets * N <= cleanups * N /\ Resets * N \in Int /\ cleanups * N \in Int
    BY <2>1, Finite DEF IInv
  <2> QED
    BY <2>1, <2>2, Finite, PoolAssumption
    DEF IInv, TypeOK, Counted, SizeBounded, PoolBounded, N
<1> QED
  BY <1>1, Invariance, PTL
=============================================================================
