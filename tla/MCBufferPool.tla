---------------------------- MODULE MCBufferPool ----------------------------
(* The instances of BufferPool that TLC explores.                          *)
EXTENDS BufferPool, TLC

\* Goroutines, and buffers, are interchangeable.
PoolSymmetry == Permutations(Threads) \cup Permutations(Buffers)
=============================================================================
