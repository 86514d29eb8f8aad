----------------------------- MODULE BufferPool -----------------------------
(***************************************************************************)
(* The pool of download buffers of package minio, and the part of          *)
(* MinioClient.Get that uses it for large objects: take a buffer, read the *)
(* object into it, copy the bytes out, put the buffer back.  Several       *)
(* goroutines do so at once, and Cleanup may empty the pool at any time.   *)
(*                                                                         *)
(* Sizes are abstracted to "larger than MaxBufferSize or not", an object   *)
(* to the goroutine that downloads it.  sync.Pool is external: a set from  *)
(* which Get takes some buffer or none, and from which the garbage         *)
(* collector removes buffers.                                              *)
(***************************************************************************)
EXTENDS Integers, FiniteSets

CONSTANTS
    Threads,      \* goroutines that call MinioClient.Get
    Buffers,      \* identities of buffers; that of a collected buffer is free
    MaxPoolSize,  \* BufferPoolConfig.MaxPoolSize
    MaxGets,      \* bound: calls of BufferPool.Get
    MaxCleanups,  \* bound: calls of BufferPool.Cleanup
    None          \* no buffer, no data

ASSUME PoolAssumption ==
    /\ IsFiniteSet(Threads) /\ Threads # {}
    /\ IsFiniteSet(Buffers)
    /\ MaxPoolSize \in Nat /\ MaxGets \in Nat /\ MaxCleanups \in Nat
    /\ None \notin Threads \cup Buffers

VARIABLES
    \* BufferPool
    pool,        \* buffers inside sync.Pool
    poolSize,
    created, reused, discarded,
    cleaning,    \* Cleanup holds mu and has replaced the pool
    cleanups,
    \* the buffers
    data,        \* whose object the bytes of a buffer are
    big,         \* buffers that outgrew MaxBufferSize
    \* the goroutines
    pc,
    buf,         \* the buffer a goroutine works with
    result       \* the bytes MinioClient.Get returned last

counters == <<created, reused, discarded>>
cleanupVars == <<cleaning, cleanups>>
vars == <<pool, poolSize, counters, cleanupVars, data, big, pc, buf, result>>

PCs == {"idle", "read", "copy", "check", "admitted", "count"}

Held == {buf[t] : t \in Threads} \ {None}

Init ==
    /\ pool = {}
    /\ poolSize = 0
    /\ created = 0
    /\ reused = 0
    /\ discarded = 0
    /\ cleaning = FALSE
    /\ cleanups = 0
    /\ data = [b \in Buffers |-> None]
    /\ big = {}
    /\ pc = [t \in Threads |-> "idle"]
    /\ buf = [t \in Threads |-> None]
    /\ result = [t \in Threads |-> None]

Goto(t, label) == pc' = [pc EXCEPT ![t] = label]

-----------------------------------------------------------------------------
\* BufferPool.Get: Reset, and totalBuffersReused for old and new buffers alike.
Take(t, b) ==
    /\ pc[t] = "idle"
    /\ reused < MaxGets
    /\ reused' = reused + 1
    /\ buf' = [buf EXCEPT ![t] = b]
    /\ data' = [data EXCEPT ![b] = None]
    /\ Goto(t, "read")
    /\ UNCHANGED <<poolSize, discarded, cleanupVars, result>>

TakePooled(t) ==
    \E b \in pool :
        /\ Take(t, b)
        /\ pool' = pool \ {b}
        /\ UNCHANGED <<created, big>>

\* sync.Pool found none (it may, even when there is one) and called New.
TakeNew(t) ==
    \E b \in Buffers \ (pool \cup Held) :
        /\ Take(t, b)
        /\ created' = created + 1
        /\ big' = big \ {b}
        /\ UNCHANGED pool

-----------------------------------------------------------------------------
\* MinioClient.Get between the Get and the Put of its buffer.

\* io.Copy read the object; the buffer grew as far as it had to.
Read(t) ==
    /\ pc[t] = "read"
    /\ data' = [data EXCEPT ![buf[t]] = t]
    /\ big' \in {big, big \cup {buf[t]}}
    /\ Goto(t, "copy")
    /\ UNCHANGED <<pool, poolSize, counters, cleanupVars, buf, result>>

\* io.Copy failed half way: no result, the buffer is put back all the same.
ReadFailed(t) ==
    /\ pc[t] = "read"
    /\ data' = [data EXCEPT ![buf[t]] = t]
    /\ big' \in {big, big \cup {buf[t]}}
    /\ result' = [result EXCEPT ![t] = None]
    /\ Goto(t, "check")
    /\ UNCHANGED <<pool, poolSize, counters, cleanupVars, buf>>

CopyResult(t) ==
    /\ pc[t] = "copy"
    /\ result' = [result EXCEPT ![t] = data[buf[t]]]
    /\ Goto(t, "check")
    /\ UNCHANGED <<pool, poolSize, counters, cleanupVars, data, big, buf>>

-----------------------------------------------------------------------------
\* BufferPool.Put.

\* Nobody refers to the buffer any more: its identity is free.
Discard(t) ==
    /\ discarded' = discarded + 1
    /\ buf' = [buf EXCEPT ![t] = None]
    /\ data' = [data EXCEPT ![buf[t]] = None]
    /\ big' = big \ {buf[t]}
    /\ Goto(t, "idle")
    /\ UNCHANGED <<pool, poolSize, created, reused, cleanupVars, result>>

PutLarge(t) ==
    /\ pc[t] = "check"
    /\ buf[t] \in big
    /\ Discard(t)

\* The size is read under RLock, which Cleanup excludes, and used after it.
PutFull(t) ==
    /\ pc[t] = "check"
    /\ buf[t] \notin big
    /\ ~cleaning
    /\ poolSize >= MaxPoolSize
    /\ Discard(t)

\* A mistake: poolSize is loaded without the lock, as it is an atomic anyway.
PutAdmittedUnlocked(t) ==
    /\ pc[t] = "check"
    /\ buf[t] \notin big
    /\ poolSize < MaxPoolSize
    /\ Goto(t, "admitted")
    /\ UNCHANGED <<pool, poolSize, counters, cleanupVars, data, big, buf, result>>

PutAdmitted(t) ==
    /\ pc[t] = "check"
    /\ buf[t] \notin big
    /\ ~cleaning
    /\ poolSize < MaxPoolSize
    /\ Goto(t, "admitted")
    /\ UNCHANGED <<pool, poolSize, counters, cleanupVars, data, big, buf, result>>

\* A mistake: the caller puts the same buffer twice (in a defer, say).
PutTwice(t) ==
    /\ pc[t] = "admitted"
    /\ pool' = pool \cup {buf[t]}
    /\ data' = [data EXCEPT ![buf[t]] = None]
    /\ \/ buf' = [buf EXCEPT ![t] = None] /\ Goto(t, "count")
       \/ buf' = buf /\ Goto(t, "check")
    /\ UNCHANGED <<poolSize, counters, cleanupVars, big, result>>

\* Reset and pool.Put: outside the lock, and before the counting.
PutPooled(t) ==
    /\ pc[t] = "admitted"
    /\ pool' = pool \cup {buf[t]}
    /\ data' = [data EXCEPT ![buf[t]] = None]
    /\ buf' = [buf EXCEPT ![t] = None]
    /\ Goto(t, "count")
    /\ UNCHANGED <<poolSize, counters, cleanupVars, big, result>>

PutCounted(t) ==
    /\ pc[t] = "count"
    /\ poolSize' = poolSize + 1
    /\ Goto(t, "idle")
    /\ UNCHANGED <<pool, counters, cleanupVars, data, big, buf, result>>

-----------------------------------------------------------------------------
\* BufferPool.Cleanup, under mu. A Get or Put that overlaps the replacement
\* works on the old pool or on the new one.
CleanupReplace ==
    /\ ~cleaning
    /\ cleanups < MaxCleanups
    /\ cleaning' = TRUE
    /\ cleanups' = cleanups + 1
    /\ pool' = {}
    /\ UNCHANGED <<poolSize, counters, data, big, pc, buf, result>>

CleanupReset ==
    /\ cleaning
    /\ cleaning' = FALSE
    /\ poolSize' = 0
    /\ UNCHANGED <<pool, counters, cleanups, data, big, pc, buf, result>>

\* The garbage collector empties a sync.Pool piece by piece.
Collect ==
    /\ \E b \in pool : pool' = pool \ {b}
    /\ UNCHANGED <<poolSize, counters, cleanupVars, data, big, pc, buf, result>>

-----------------------------------------------------------------------------
Next ==
    \/ \E t \in Threads :
          \/ TakePooled(t) \/ TakeNew(t)
          \/ Read(t) \/ ReadFailed(t) \/ CopyResult(t)
          \/ PutLarge(t) \/ PutFull(t) \/ PutAdmitted(t) \/ PutPooled(t) \/ PutCounted(t)
    \/ CleanupReplace
    \/ CleanupReset
    \/ Collect

Spec == Init /\ [][Next]_vars

-----------------------------------------------------------------------------
\* Types: the goroutine holds a buffer exactly while it works with one.
TypeOK ==
    /\ pool \in SUBSET Buffers
    /\ poolSize \in Nat
    /\ created \in Nat /\ reused \in Nat /\ discarded \in Nat
    /\ cleaning \in BOOLEAN
    /\ cleanups \in Nat
    /\ data \in [Buffers -> Threads \cup {None}]
    /\ big \in SUBSET Buffers
    /\ pc \in [Threads -> PCs]
    /\ buf \in [Threads -> Buffers \cup {None}]
    /\ \A t \in Threads : (buf[t] = None) <=> (pc[t] \in {"idle", "count"})
    /\ result \in [Threads -> Threads \cup {None}]

\* What MinioClient.Get returns is the object it was asked for: no other
\* download writes into the buffer between the read and the copy.
ResultIntact == \A t \in Threads : result[t] \in {t, None}

\* The goroutines between the check of poolSize and the end of Put.
Counting == {t \in Threads : pc[t] = "count"}
InFlight == {t \in Threads : pc[t] \in {"admitted", "count"}}

\* The check and the increment are apart, so poolSize can pass MaxPoolSize, but
\* by fewer than there are goroutines, those still on their way included.
SizeBounded ==
    poolSize + Cardinality(InFlight) <= MaxPoolSize + Cardinality(Threads) - 1

\* The pool retains a bounded number of buffers: fewer than a goroutine each
\* beyond MaxPoolSize, and one a goroutine more for each Cleanup, which forgets
\* the buffers that were put and counted between its two steps. Who checks
\* poolSize waits for Cleanup, so it forgets no more than one of each.
PoolBounded ==
    Cardinality(pool) <=
        MaxPoolSize + Cardinality(Threads) - 1 + cleanups * Cardinality(Threads)
=============================================================================
