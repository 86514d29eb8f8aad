--------------------------- MODULE JobQueueProofs ---------------------------
(***************************************************************************)
(* What the locking clauses guarantee for every number of clients, of jobs *)
(* and of lost connections, in both dialects.                              *)
(*                                                                         *)
(* The argument is about rows: who has claimed a row holds the lock of its *)
(* builder on it until its transaction ends, locks on a row agree with     *)
(* each other, and a status changes only under a lock that excludes every  *)
(* claim but one FOR KEY SHARE.  There is no deadlock among those who lock *)
(* in the order of the key, since each waits for a row behind its own.     *)
(***************************************************************************)
EXTENDS JobQueue, SequenceTheorems, FiniteSetTheorems, TLAPS

Strengths == {"none", "KEY SHARE", "SHARE", "NO KEY UPDATE", "UPDATE"}
Places    == {"idle", "scan", "work", "finish", "failed", "stopped"}
Answers   == {"not yet", "not found", "found", "created", "no row", "duplicate"}
Codes     == {NoCode, "0A000", "55P03", "40P01", "08006"}
Unordered == {"update", "share, skip"}   \* claims that may end in a deadlock

TypeOK ==
    /\ \E s \in Setups : how = s.how
    /\ status \in [Jobs -> Statuses]
    /\ locks \in [Jobs -> [Clients -> Strengths]]
    /\ pc \in [Clients -> Places]
    /\ scan \in [Clients -> Seq(Jobs)]
    /\ rows \in [Clients -> SUBSET Jobs]
    /\ made \in [Producers -> Answers]
    /\ code \in [Clients -> Codes]

\* Who has claimed a row, and nobody else, has the lock of its builder on it.
Locked ==
    \A c \in Clients, j \in Jobs :
        locks[j][c] = IF j \in rows[c] THEN Builder(c).lock.strength ELSE "none"

\* No two locks on a row exclude each other.
Compatible ==
    \A j \in Jobs : \A c, d \in Clients : c # d => locks[j][c] \notin Excluded(locks[j][d])

\* Only workers change rows, and a query that is refused has none.
Bounds ==
    \A c \in Clients :
        /\ pc[c] = "finish" => c \in Workers
        /\ pc[c] \in {"idle", "stopped"} => rows[c] = {}
        /\ Refused(Builder(c)) => rows[c] = {} /\ pc[c] \notin {"scan", "work", "finish"}

\* Rows that are visited or claimed exist; those of an exclusive claim are still
\* pending.
Present ==
    \A c \in Clients :
        /\ \A i \in 1 .. Len(scan[c]) : status[scan[c][i]] # "absent"
        /\ \A j \in rows[c] : status[j] # "absent"

Claimed ==
    \A w \in Workers : how[w] \in Exclusive => \A j \in rows[w] : status[j] = "pending"

Ascending(s) == \A i, k \in 1 .. Len(s) : i < k => s[i] < s[k]

\* An ordered statement has claimed only rows in front of those it still visits.
Forward ==
    \A c \in Clients : Builder(c).ordered =>
        /\ Ascending(scan[c])
        /\ \A i \in 1 .. Len(scan[c]) : \A j \in rows[c] : j < scan[c][i]

\* A deadlock needs somebody who locks out of order or changes what is shared.
NoCycle == \A c \in Clients : code[c] = "40P01" => \E w \in Workers : how[w] \in Unordered

\* Job 1 is created once.
CreatedOnce ==
    /\ status[1] = "absent" => \A p \in Producers : made[p] \in {"not yet", "not found"}
    /\ \A p, q \in Producers : made[p] = "created" /\ made[q] = "created" => p = q
    /\ \A p \in Producers : how[p] = "on conflict do nothing" => made[p] # "duplicate"

Inv == Locked /\ Compatible /\ Bounds /\ Present /\ Claimed /\ Forward

IInv == TypeOK /\ Inv

-----------------------------------------------------------------------------
\* What the chains of calls build: the lock, and what the condition accepts.
LEMMA StrengthOfChain ==
    /\ \A kind \in {"skip locked", "nowait", "update", "ordered", "distinct", "grouped"} :
           Claim(kind).lock.strength = "UPDATE"
    /\ \A kind \in {"share", "share, skip"} : Claim(kind).lock.strength = "SHARE"
    /\ IF Dialect = "postgres"
       THEN /\ Claim("no key").lock.strength = "NO KEY UPDATE"
            /\ Claim("key share").lock.strength = "KEY SHARE"
       ELSE \A kind \in {"no key", "key share"} :
                Claim(kind).lock = NoLock /\ Claim(kind).lock.strength = "none"
<1> USE DEF Claim, Query, Where, Or, Not, Order, Limit, Distinct, Group, Having, Locking, ForUpdate,
            ForShare, ForUpdateSkipLocked, ForShareSkipLocked, ForUpdateNoWait, ForNoKeyUpdate,
            ForKeyShare, First, NoLock, NoLimit
<1>1. Claim("skip locked").lock.strength = "UPDATE" /\ Claim("nowait").lock.strength = "UPDATE"
  OBVIOUS
<1>2. Claim("update").lock.strength = "UPDATE" /\ Claim("ordered").lock.strength = "UPDATE"
  OBVIOUS
<1>3. Claim("distinct").lock.strength = "UPDATE" /\ Claim("grouped").lock.strength = "UPDATE"
  OBVIOUS
<1>4. Claim("share").lock.strength = "SHARE" /\ Claim("share, skip").lock.strength = "SHARE"
  OBVIOUS
<1>5. ASSUME Dialect = "postgres"
      PROVE  /\ Claim("no key").lock.strength = "NO KEY UPDATE"
             /\ Claim("key share").lock.strength = "KEY SHARE"
  BY <1>5
<1>6. ASSUME Dialect # "postgres"
      PROVE  /\ Claim("no key").lock = NoLock /\ Claim("key share").lock = NoLock
             /\ NoLock.strength = "none"
  BY <1>6
<1> HIDE DEF Claim
<1> QED
  BY <1>1, <1>2, <1>3, <1>4, <1>5, <1>6

LEMMA OptionOfChain ==
    /\ \A kind \in {"skip locked", "nowait", "share, skip"} : Claim(kind).lock.option # "wait"
    /\ \A kind \in {"ordered", "no key", "share", "key share"} : Claim(kind).ordered
    /\ \A kind \in {"distinct", "grouped"} : Claim(kind).grouped /\ Claim(kind).lock # NoLock
<1> USE DEF Claim, Query, Where, Or, Not, Order, Limit, Distinct, Group, Having, Locking, ForUpdate,
            ForShare, ForUpdateSkipLocked, ForShareSkipLocked, ForUpdateNoWait, ForNoKeyUpdate,
            ForKeyShare, First, NoLock, NoLimit
<1>1. /\ Claim("skip locked").lock.option # "wait" /\ Claim("nowait").lock.option # "wait"
      /\ Claim("share, skip").lock.option # "wait"
  OBVIOUS
<1>2. Claim("ordered").ordered /\ Claim("no key").ordered
  OBVIOUS
<1>3. Claim("share").ordered /\ Claim("key share").ordered
  OBVIOUS
<1>4. Claim("distinct").grouped /\ Claim("distinct").lock # NoLock
  OBVIOUS
<1>5. Claim("grouped").grouped /\ Claim("grouped").lock # NoLock
  OBVIOUS
<1> HIDE DEF Claim
<1> QED
  BY <1>1, <1>2, <1>3, <1>4, <1>5

\* A builder with one condition accepts what the condition does.
LEMMA OneCondition ==
    ASSUME NEW qb, NEW A, qb.where = <<{A}>>, NEW st
    PROVE  Accepts(qb, st) <=> st \in A
<1>1. Len(qb.where) = 1 /\ qb.where[1] = {A} /\ qb.where # <<>>
  OBVIOUS
<1> QED
  BY <1>1 DEF Accepts

LEMMA WhereOfChain ==
    /\ Claim("skip locked").where = <<{{"pending"}}>>
    /\ Claim("nowait").where = <<{Statuses \ {"done"}}>>
    /\ Claim("update").where = <<{{"pending"}}>>
    /\ Claim("ordered").where = <<{{"pending"}}>>
    /\ Claim("no key").where = <<{{"pending"}}>>
BY DEF Claim, Query, Where, Not, Order, Limit, Locking, ForUpdate, ForShare, ForUpdateSkipLocked,
       ForUpdateNoWait, ForNoKeyUpdate, First, NoLock, NoLimit

\* What the proofs use of the builder of a client.
LEMMA BuilderFacts ==
    ASSUME TypeOK, NEW c \in Clients
    PROVE  /\ how[c] \in Claims \cup Shares
           /\ c \in Workers => how[c] \in Claims
           /\ c \in Readers => how[c] \in Shares
           /\ Builder(c) = Claim(how[c])
<1>1. /\ c \in Workers => how[c] \in Claims
      /\ c \in Readers => how[c] \in Shares
  BY SetupsAssumption DEF TypeOK
<1>2. how[c] \in Claims \cup Shares
  BY <1>1 DEF Clients
<1> QED
  BY <1>1, <1>2 DEF Builder, Builders

LEMMA Strength ==
    ASSUME TypeOK, NEW c \in Clients
    PROVE  /\ Builder(c).lock.strength \in Strengths
           /\ Builder(c).lock # NoLock /\ c \in Workers =>
                  Builder(c).lock.strength \in {"SHARE", "NO KEY UPDATE", "UPDATE"}
           /\ how[c] \in Exclusive => Builder(c).lock.strength \in {"NO KEY UPDATE", "UPDATE"}
           /\ how[c] \in {"skip locked", "nowait"} =>
                  Builder(c).lock.strength = "UPDATE" /\ Builder(c).lock.option # "wait"
           /\ how[c] = "share" => Builder(c).lock.strength = "SHARE"
           /\ how[c] = "no key" => Builder(c).lock.strength # "UPDATE"
           /\ how[c] = "key share" => Builder(c).lock.strength \in {"none", "KEY SHARE"}
           /\ how[c] \in Wrong => Refused(Builder(c))
           /\ how[c] \notin Wrong \cup Unordered /\ Builder(c).lock.option = "wait" =>
                  Builder(c).ordered
<1>1. PICK b : b = Builder(c)
  OBVIOUS
<1>2. /\ b = Claim(how[c]) /\ how[c] \in Claims \cup Shares
      /\ c \in Workers => how[c] \in Claims
  BY <1>1, BuilderFacts
<1>3. how[c] \in {"skip locked", "nowait", "update", "ordered", "no key", "share", "share, skip",
                  "key share", "distinct", "grouped"}
  BY <1>2 DEF Claims, Shares, Exclusive, Wrong
<1>4. b.lock.strength \in Strengths
  BY <1>2, <1>3, StrengthOfChain DEF Strengths
<1>5. b.lock # NoLock /\ c \in Workers => b.lock.strength \in {"SHARE", "NO KEY UPDATE", "UPDATE"}
  BY <1>2, StrengthOfChain DEF Claims, Exclusive, Wrong
<1>6. how[c] \in Exclusive => b.lock.strength \in {"NO KEY UPDATE", "UPDATE"}
  BY <1>2, StrengthOfChain DEF Exclusive
<1>7. how[c] \in {"skip locked", "nowait"} => b.lock.strength = "UPDATE" /\ b.lock.option # "wait"
  BY <1>2, StrengthOfChain, OptionOfChain
<1>8. how[c] = "share" => b.lock.strength = "SHARE"
  BY <1>2, StrengthOfChain
<1>9. how[c] = "no key" => b.lock.strength # "UPDATE"
  BY <1>2, StrengthOfChain
<1>10. how[c] \in Wrong => Refused(b)
  BY <1>2, OptionOfChain DEF Wrong, Refused
<1>11. how[c] \notin Wrong \cup Unordered /\ b.lock.option = "wait" => b.ordered
  BY <1>2, <1>3, OptionOfChain DEF Wrong, Unordered
<1>12. how[c] = "key share" => b.lock.strength \in {"none", "KEY SHARE"}
  BY <1>2, StrengthOfChain
<1> QED
  BY <1>1, <1>4, <1>5, <1>6, <1>7, <1>8, <1>9, <1>10, <1>11, <1>12

\* An exclusive claim accepts pending jobs only.
LEMMA AcceptsPending ==
    ASSUME TypeOK, NEW c \in Clients, how[c] \in Exclusive, NEW st \in Statuses \ {"absent"},
           Accepts(Builder(c), st)
    PROVE  st = "pending"
<1>1. \E A \in {{"pending"}, Statuses \ {"done"}} : Builder(c).where = <<{A}>>
  BY BuilderFacts, WhereOfChain DEF Exclusive
<1> QED
  BY <1>1, OneCondition DEF Statuses

\* Locks exclude each other mutually.
LEMMA ExcludedSymmetric ==
    \A a, b \in Strengths : a \in Excluded(b) => b \in Excluded(a)
BY DEF Strengths, Excluded

-----------------------------------------------------------------------------
\* The rows a statement visits: an order of them is a sequence, and so is what
\* is left of one.
LEMMA OrderOfRows ==
    ASSUME NEW S \in SUBSET Jobs, NEW order \in SetToSeqs(S)
    PROVE  /\ order \in Seq(Jobs)
           /\ \A i \in 1 .. Len(order) : order[i] \in S
<1>1. IsFiniteSet(S)
  <2>1. IsFiniteSet(Jobs)
    BY JobsAssumption, FS_Interval DEF Jobs
  <2> QED
    BY <2>1, FS_Subset
<1>2. Cardinality(S) \in Nat
  BY <1>1, FS_CardinalityType
<1>3. order \in [1 .. Cardinality(S) -> S]
  BY DEF SetToSeqs
<1>4. order \in Seq(S)
  BY <1>2, <1>3, SeqDef
<1>5. \A i \in 1 .. Len(order) : order[i] \in S
  BY <1>4, ElementOfSeq
<1> QED
  BY <1>2, <1>3, <1>5, SeqDef

LEMMA Visited ==
    ASSUME NEW s \in Seq(Jobs), s # <<>>
    PROVE  /\ Head(s) \in Jobs /\ Head(s) = s[1]
           /\ Len(s) \in Nat \ {0}
           /\ Tail(s) \in Seq(Jobs) /\ Len(Tail(s)) = Len(s) - 1
           /\ \A i \in 1 .. Len(Tail(s)) : Tail(s)[i] = s[i + 1] /\ i + 1 \in 1 .. Len(s)
<1>1. Head(s) \in Jobs /\ Tail(s) \in Seq(Jobs) /\ Len(Tail(s)) = Len(s) - 1
  BY HeadTailProperties
<1>2. \A i \in 1 .. Len(Tail(s)) : Tail(s)[i] = s[i + 1]
  BY HeadTailProperties
<1>3. Len(s) \in Nat /\ Len(s) # 0
  BY EmptySeq, LenProperties
<1>4. Head(s) = s[1]
  OBVIOUS
<1> QED
  BY <1>1, <1>2, <1>3, <1>4

\* What is left of a statement's rows after a step on its first.
LEMMA AtRowFacts ==
    ASSUME TypeOK, NEW c \in Clients, AtRow(c)
    PROVE  /\ Head(scan[c]) \in Jobs /\ Head(scan[c]) = scan[c][1]
           /\ Len(scan[c]) \in Nat \ {0}
           /\ Tail(scan[c]) \in Seq(Jobs) /\ Len(Tail(scan[c])) = Len(scan[c]) - 1
           /\ \A i \in 1 .. Len(Tail(scan[c])) :
                  Tail(scan[c])[i] = scan[c][i + 1] /\ i + 1 \in 1 .. Len(scan[c])
           /\ pc[c] = "scan"
BY Visited DEF TypeOK, AtRow

LEMMA ReleasedFacts ==
    ASSUME TypeOK, NEW c \in Clients
    PROVE  /\ Released(c) \in [Jobs -> [Clients -> Strengths]]
           /\ \A j \in Jobs, d \in Clients :
                  Released(c)[j][d] = IF d = c THEN "none" ELSE locks[j][d]
BY DEF TypeOK, Released, Strengths

\* Every step keeps the types.
LEMMA TypeStep == TypeOK /\ [Next]_vars => TypeOK'
<1> SUFFICES ASSUME TypeOK, [Next]_vars
             PROVE  TypeOK'
  OBVIOUS
<1>t. /\ \E s \in Setups : how = s.how
      /\ status \in [Jobs -> Statuses]
      /\ locks \in [Jobs -> [Clients -> Strengths]]
      /\ pc \in [Clients -> Places]
      /\ scan \in [Clients -> Seq(Jobs)]
      /\ rows \in [Clients -> SUBSET Jobs]
      /\ made \in [Producers -> Answers]
      /\ code \in [Clients -> Codes]
  BY DEF TypeOK
<1>s. <<>> \in Seq(Jobs)
  OBVIOUS
<1>1. ASSUME NEW c \in Clients, Find(c)
      PROVE  TypeOK'
  <2> DEFINE found == {j \in Jobs : status[j] # "absent" /\ Accepts(Builder(c), status[j])}
  <2>1. \A order \in SetToSeqs(found) : order \in Seq(Jobs)
    BY OrderOfRows
  <2>2. scan' \in [Clients -> Seq(Jobs)]
    BY <1>t, <1>1, <2>1 DEF Find
  <2>3. pc' \in [Clients -> Places]
    BY <1>t, <1>1 DEF Find, Places
  <2>4. code' \in [Clients -> Codes]
    BY <1>t, <1>1 DEF Find, Codes
  <2> QED
    BY <1>t, <1>1, <2>2, <2>3, <2>4 DEF Find, TypeOK
<1>2. ASSUME NEW c \in Clients, LockRow(c)
      PROVE  TypeOK'
  <2> DEFINE j == Head(scan[c])
  <2>1. j \in Jobs /\ Tail(scan[c]) \in Seq(Jobs)
    BY <1>2, AtRowFacts DEF LockRow
  <2>2. scan' \in [Clients -> Seq(Jobs)]
    BY <1>t, <1>2, <2>1 DEF LockRow
  <2>3. locks' = locks \/ locks' = [locks EXCEPT ![j][c] = Builder(c).lock.strength]
    BY <1>2 DEF LockRow
  <2>4. rows' = rows \/ rows' = [rows EXCEPT ![c] = @ \cup {j}]
    BY <1>2 DEF LockRow
  <2> HIDE DEF j
  <2>5. locks' \in [Jobs -> [Clients -> Strengths]]
    <3>1. PICK l \in Strengths : l = Builder(c).lock.strength
      BY Strength
    <3>2. locks' = locks \/ locks' = [locks EXCEPT ![j] = [locks[j] EXCEPT ![c] = l]]
      BY <2>3, <3>1
    <3>3. [locks[j] EXCEPT ![c] = l] \in [Clients -> Strengths]
      BY <1>t, <2>1
    <3> QED
      BY <1>t, <3>2, <3>3
  <2>6. rows' \in [Clients -> SUBSET Jobs]
    <3>1. CASE rows' = rows
      BY <1>t, <3>1
    <3>2. CASE rows' = [rows EXCEPT ![c] = @ \cup {j}]
      <4>1. rows[c] \cup {j} \in SUBSET Jobs
        BY <1>t, <2>1
      <4> QED
        BY <1>t, <3>2, <4>1
    <3> QED
      BY <2>4, <3>1, <3>2
  <2> QED
    BY <1>t, <1>2, <2>2, <2>5, <2>6 DEF LockRow, TypeOK
<1>3. ASSUME NEW c \in Clients, RowHeld(c)
      PROVE  TypeOK'
  <2>1. Tail(scan[c]) \in Seq(Jobs)
    BY <1>3, AtRowFacts DEF RowHeld
  <2> QED
    BY <1>t, <1>3, <2>1 DEF RowHeld, TypeOK, Places, Codes
<1>4. ASSUME NEW c \in Clients, Found(c)
      PROVE  TypeOK'
  BY <1>t, <1>s, <1>4, ReleasedFacts DEF Found, TypeOK, Places
<1>5. ASSUME NEW c \in Clients, Work(c)
      PROVE  TypeOK'
  <2>1. locks' = locks \/ locks' = Released(c)
    BY <1>5 DEF Work
  <2>2. locks' \in [Jobs -> [Clients -> Strengths]]
    BY <1>t, <2>1, ReleasedFacts
  <2>3. pc' \in [Clients -> Places]
    BY <1>t, <1>5 DEF Work, Places
  <2> QED
    BY <1>t, <1>5, <2>2, <2>3 DEF Work, TypeOK
<1>6. ASSUME NEW c \in Clients, Commit(c)
      PROVE  TypeOK'
  <2>1. status' \in [Jobs -> Statuses]
    BY <1>t, <1>6 DEF Commit, Statuses
  <2> QED
    BY <1>t, <1>6, <2>1, ReleasedFacts DEF Commit, TypeOK, Places
<1>7. ASSUME NEW c \in Clients, Victim(c) \/ ConnectionLost(c)
      PROVE  TypeOK'
  BY <1>t, <1>7 DEF Victim, ConnectionLost, TypeOK, Places, Codes
<1>8. ASSUME NEW c \in Clients, Rollback(c)
      PROVE  TypeOK'
  <2>1. pc' \in [Clients -> Places]
    BY <1>t, <1>8 DEF Rollback, Places
  <2> QED
    BY <1>t, <1>s, <1>8, <2>1, ReleasedFacts DEF Rollback, TypeOK, Codes
<1>9. ASSUME NEW p \in Producers, Look(p) \/ Create(p)
      PROVE  TypeOK'
  <2>1. 1 \in Jobs
    BY JobsAssumption DEF Jobs
  <2> QED
    BY <1>t, <1>9, <2>1 DEF Look, Create, TypeOK, Statuses, Answers
<1>10. CASE UNCHANGED vars
  BY <1>t, <1>10 DEF vars, TypeOK
<1> QED
  BY <1>1, <1>2, <1>3, <1>4, <1>5, <1>6, <1>7, <1>8, <1>9, <1>10 DEF Next, ClientStep, Terminated

-----------------------------------------------------------------------------
\* What a step does to locks and claims: nothing, c takes row j, or the
\* transaction of c ends.
Takes(c, j) ==
    /\ AtRow(c) /\ j = Head(scan[c]) /\ j \in Jobs
    /\ Holders(c, j, Builder(c).lock.strength) = {}
    /\ Accepts(Builder(c), status[j])
    /\ locks' = [locks EXCEPT ![j][c] = Builder(c).lock.strength]
    /\ rows' = [rows EXCEPT ![c] = @ \cup {j}]
    /\ scan' = [scan EXCEPT ![c] = Tail(@)]
    /\ UNCHANGED <<status, pc>>

Releases(c) ==
    /\ locks' = Released(c)
    /\ rows' = [rows EXCEPT ![c] = {}]

LEMMA LockEffect ==
    ASSUME TypeOK, [Next]_vars
    PROVE  /\ how' = how
           /\ \/ UNCHANGED <<locks, rows>>
              \/ \E c \in Clients : Releases(c)
              \/ \E c \in Clients, j \in Jobs : Takes(c, j)
<1>1. ASSUME NEW c \in Clients, LockRow(c)
      PROVE  /\ how' = how
             /\ UNCHANGED <<locks, rows>> \/ \E j \in Jobs : Takes(c, j)
  BY <1>1, AtRowFacts DEF LockRow, Takes
<1>2. ASSUME NEW c \in Clients, Found(c)
      PROVE  how' = how /\ (UNCHANGED <<locks, rows>> \/ Releases(c))
  <2>1. CASE rows[c] = {}
    <3>1. rows' = [rows EXCEPT ![c] = {}]
      BY <1>2, <2>1 DEF Found, TypeOK
    <3> QED
      BY <1>2, <2>1, <3>1 DEF Found, Releases
  <2>2. CASE rows[c] # {}
    BY <1>2, <2>2 DEF Found
  <2> QED
    BY <2>1, <2>2
<1>3. ASSUME NEW c \in Clients, Work(c) \/ Commit(c) \/ Rollback(c)
      PROVE  how' = how /\ (UNCHANGED <<locks, rows>> \/ Releases(c))
  BY <1>3 DEF Work, Commit, Rollback, Releases
<1>4. ASSUME NEW c \in Clients, Find(c) \/ RowHeld(c) \/ Victim(c) \/ ConnectionLost(c)
      PROVE  how' = how /\ UNCHANGED <<locks, rows>>
  BY <1>4 DEF Find, RowHeld, Victim, ConnectionLost
<1>5. ASSUME NEW p \in Producers, Look(p) \/ Create(p)
      PROVE  how' = how /\ UNCHANGED <<locks, rows>>
  BY <1>5 DEF Look, Create
<1>6. CASE UNCHANGED vars
  BY <1>6 DEF vars
<1> QED
  BY <1>1, <1>2, <1>3, <1>4, <1>5, <1>6 DEF Next, ClientStep, Terminated

LEMMA StatusEffect ==
    ASSUME [Next]_vars
    PROVE  \/ status' = status
           \/ \E c \in Clients : Commit(c)
           \/ /\ status[1] = "absent" /\ status' = [status EXCEPT ![1] = "pending"]
              /\ UNCHANGED <<locks, rows, scan>>
BY DEF Next, ClientStep, Find, LockRow, RowHeld, Found, Work, Victim, ConnectionLost, Rollback,
       Look, Create, Terminated, vars

\* What Takes and Releases mean for a single lock and a single claim.
LEMMA TakesFacts ==
    ASSUME TypeOK, NEW c \in Clients, NEW j \in Jobs, Takes(c, j)
    PROVE  /\ \A i \in Jobs, d \in Clients :
                  locks'[i][d] = IF i = j /\ d = c THEN Builder(c).lock.strength ELSE locks[i][d]
           /\ \A d \in Clients : rows'[d] = IF d = c THEN rows[c] \cup {j} ELSE rows[d]
           /\ \A d \in Clients : scan'[d] = IF d = c THEN Tail(scan[c]) ELSE scan[d]
<1>1. PICK l : l = Builder(c).lock.strength
  OBVIOUS
<1>2. locks' = [locks EXCEPT ![j] = [locks[j] EXCEPT ![c] = l]]
  BY <1>1 DEF Takes
<1>3. \A i \in Jobs, d \in Clients :
          locks'[i][d] = IF i = j /\ d = c THEN l ELSE locks[i][d]
  BY <1>2 DEF TypeOK
<1> QED
  BY <1>1, <1>3 DEF Takes, TypeOK

LEMMA ReleasesFacts ==
    ASSUME TypeOK, NEW c \in Clients, Releases(c)
    PROVE  /\ \A i \in Jobs, d \in Clients :
                  locks'[i][d] = IF d = c THEN "none" ELSE locks[i][d]
           /\ \A d \in Clients : rows'[d] = IF d = c THEN {} ELSE rows[d]
BY ReleasedFacts DEF Releases, TypeOK

-----------------------------------------------------------------------------
\* Locks follow claims, and agree with each other.
LEMMA LockedStep == IInv /\ [Next]_vars => Locked'
<1> SUFFICES ASSUME IInv, [Next]_vars
             PROVE  Locked'
  OBVIOUS
<1>1. how' = how /\ \A c \in Clients, j \in Jobs :
          locks[j][c] = IF j \in rows[c] THEN Builder(c).lock.strength ELSE "none"
  BY LockEffect DEF IInv, Inv, Locked
<1>2. CASE UNCHANGED <<locks, rows>>
  BY <1>1, <1>2 DEF Locked, Builder
<1>3. ASSUME NEW c \in Clients, Releases(c)
      PROVE  Locked'
  BY <1>1, <1>3, ReleasesFacts DEF Locked, Builder, IInv
<1>4. ASSUME NEW c \in Clients, NEW j \in Jobs, Takes(c, j)
      PROVE  Locked'
  <2>1. TypeOK
    BY DEF IInv
  <2>2. /\ \A i \in Jobs, d \in Clients :
               locks'[i][d] = IF i = j /\ d = c THEN Builder(c).lock.strength ELSE locks[i][d]
        /\ \A d \in Clients : rows'[d] = IF d = c THEN rows[c] \cup {j} ELSE rows[d]
    BY <1>4, <2>1, TakesFacts
  <2>3. \A d \in Clients : Builder(d)' = Builder(d)
    BY <1>1 DEF Builder
  <2> QED
    BY <1>1, <2>2, <2>3 DEF Locked
<1> QED
  BY <1>2, <1>3, <1>4, LockEffect DEF IInv

LEMMA CompatibleStep == IInv /\ [Next]_vars => Compatible'
<1> SUFFICES ASSUME IInv, [Next]_vars
             PROVE  Compatible'
  OBVIOUS
<1>1. TypeOK /\ Compatible
  BY DEF IInv, Inv
<1>2. CASE UNCHANGED <<locks, rows>>
  BY <1>1, <1>2 DEF Compatible
<1>3. ASSUME NEW c \in Clients, Releases(c)
      PROVE  Compatible'
  <2>1. Excluded("none") = {} /\ \A l \in Strengths : "none" \notin Excluded(l)
    BY DEF Excluded, Strengths
  <2>2. \A i \in Jobs, d \in Clients : locks[i][d] \in Strengths
    BY <1>1 DEF TypeOK
  <2> QED
    BY <1>1, <1>3, <2>1, <2>2, ReleasesFacts DEF Compatible
<1>4. ASSUME NEW c \in Clients, NEW j \in Jobs, Takes(c, j)
      PROVE  Compatible'
  <2>1. PICK l \in Strengths : l = Builder(c).lock.strength
    BY <1>1, Strength
  <2>2. \A d \in Clients \ {c} : locks[j][d] \notin Excluded(l)
    BY <1>4, <2>1 DEF Takes, Holders
  <2>3. \A i \in Jobs, d \in Clients : locks[i][d] \in Strengths
    BY <1>1 DEF TypeOK
  <2>4. \A d \in Clients \ {c} : l \notin Excluded(locks[j][d])
    BY <2>1, <2>2, <2>3, ExcludedSymmetric
  <2>5. \A i \in Jobs, d \in Clients :
            locks'[i][d] = IF i = j /\ d = c THEN Builder(c).lock.strength ELSE locks[i][d]
    BY <1>1, <1>4, TakesFacts
  <2>6. locks'[j][c] = l
    BY <2>1, <2>5
  <2>7. \A i \in Jobs, d \in Clients : i # j \/ d # c => locks'[i][d] = locks[i][d]
    BY <2>5
  <2> QED
    BY <1>1, <2>2, <2>4, <2>6, <2>7 DEF Compatible
<1> QED
  BY <1>1, <1>2, <1>3, <1>4, LockEffect

LEMMA BoundsStep == IInv /\ [Next]_vars => Bounds'
<1> SUFFICES ASSUME IInv, [Next]_vars
             PROVE  Bounds'
  OBVIOUS
<1>1. /\ TypeOK /\ how' = how
      /\ \A c \in Clients :
            /\ pc[c] = "finish" => c \in Workers
            /\ pc[c] \in {"idle", "stopped"} => rows[c] = {}
            /\ Refused(Builder(c)) => rows[c] = {} /\ pc[c] \notin {"scan", "work", "finish"}
  BY LockEffect DEF IInv, Inv, Bounds
<1>2. SUFFICES \A c \in Clients :
            /\ pc'[c] = "finish" => c \in Workers
            /\ pc'[c] \in {"idle", "stopped"} => rows'[c] = {}
            /\ Refused(Builder(c)) => rows'[c] = {} /\ pc'[c] \notin {"scan", "work", "finish"}
  BY <1>1 DEF Bounds, Builder
<1>3. CASE \E c \in Clients : Find(c)
  BY <1>1, <1>3 DEF Find, TypeOK
<1>4. CASE \E c \in Clients : LockRow(c)
  BY <1>1, <1>4 DEF LockRow, AtRow, TypeOK
<1>5. CASE \E c \in Clients : RowHeld(c)
  BY <1>1, <1>5 DEF RowHeld, AtRow, TypeOK
<1>6. CASE \E c \in Clients : Found(c)
  BY <1>1, <1>6 DEF Found, TypeOK
<1>7. CASE \E c \in Clients : Work(c)
  BY <1>1, <1>7 DEF Work, TypeOK
<1>8. CASE \E c \in Clients : Commit(c)
  BY <1>1, <1>8 DEF Commit, TypeOK
<1>9. CASE \E c \in Clients : Victim(c)
  BY <1>1, <1>9 DEF Victim, TypeOK
<1>10. CASE \E c \in Clients : ConnectionLost(c)
  BY <1>1, <1>10 DEF ConnectionLost, TypeOK
<1>11. CASE \E c \in Clients : Rollback(c)
  BY <1>1, <1>11 DEF Rollback, TypeOK
<1>12. CASE \E p \in Producers : Look(p) \/ Create(p)
  BY <1>1, <1>12 DEF Look, Create
<1>13. CASE UNCHANGED vars
  BY <1>1, <1>13 DEF vars
<1> QED
  BY <1>3, <1>4, <1>5, <1>6, <1>7, <1>8, <1>9, <1>10, <1>11, <1>12, <1>13
     DEF Next, ClientStep, Terminated

-----------------------------------------------------------------------------
\* What a step does to the rows still to visit: nothing, or it drops the first or
\* all of them, or a statement starts with the rows it found, in its order.
Starts(c) ==
    /\ pc[c] = "idle" /\ UNCHANGED <<rows, status>>
    /\ \A i \in 1 .. Len(scan'[c]) : scan'[c][i] \in Jobs /\ status[scan'[c][i]] # "absent"
    /\ Builder(c).ordered => Ascending(scan'[c])

Drops(c) == AtRow(c) /\ scan'[c] = Tail(scan[c])

LEMMA ScanEffect ==
    ASSUME TypeOK, [Next]_vars, NEW c \in Clients
    PROVE  scan'[c] = scan[c] \/ scan'[c] = <<>> \/ Drops(c) \/ Starts(c)
<1>1. scan \in [Clients -> Seq(Jobs)]
  BY DEF TypeOK
<1>2. ASSUME NEW d \in Clients, Find(d)
      PROVE  scan'[c] = scan[c] \/ Starts(c)
  <2> DEFINE found == {j \in Jobs : status[j] # "absent" /\ Accepts(Builder(d), status[j])}
  <2>1. CASE Refused(Builder(d)) \/ c # d
    BY <1>1, <1>2, <2>1 DEF Find
  <2>2. CASE ~Refused(Builder(d)) /\ c = d
    <3>1. PICK order \in SetToSeqs(found) :
              /\ Builder(c).ordered => Ascending(order)
              /\ scan'[c] = order
      BY <1>1, <1>2, <2>2 DEF Find, IsSorted, Ascending
    <3>2. \A i \in 1 .. Len(order) : order[i] \in found
      BY OrderOfRows
    <3>3. pc[c] = "idle" /\ UNCHANGED <<rows, status>>
      BY <1>2, <2>2 DEF Find
    <3> QED
      BY <3>1, <3>2, <3>3 DEF Starts
  <2> QED
    BY <2>1, <2>2
<1>3. ASSUME NEW d \in Clients, LockRow(d) \/ RowHeld(d)
      PROVE  scan'[c] = scan[c] \/ Drops(c)
  BY <1>1, <1>3 DEF LockRow, RowHeld, Drops
<1>4. ASSUME NEW d \in Clients, Found(d) \/ Rollback(d)
      PROVE  scan'[c] = scan[c] \/ scan'[c] = <<>>
  BY <1>1, <1>4 DEF Found, Rollback
<1>5. CASE \E d \in Clients : Work(d) \/ Commit(d) \/ Victim(d) \/ ConnectionLost(d)
  BY <1>5 DEF Work, Commit, Victim, ConnectionLost
<1>6. CASE UNCHANGED vars \/ \E p \in Producers : Look(p) \/ Create(p)
  BY <1>6 DEF Look, Create, vars
<1> QED
  BY <1>2, <1>3, <1>4, <1>5, <1>6 DEF Next, ClientStep, Terminated

\* A job that exists stays.
LEMMA JobsStay ==
    ASSUME TypeOK, [Next]_vars, NEW j \in Jobs, status[j] # "absent"
    PROVE  status'[j] # "absent"
<1>1. status \in [Jobs -> Statuses]
  BY DEF TypeOK
<1>2. ASSUME NEW c \in Clients, Commit(c)
      PROVE  status'[j] # "absent"
  BY <1>2 DEF Commit
<1>3. ASSUME status' = [status EXCEPT ![1] = "pending"]
      PROVE  status'[j] # "absent"
  BY <1>1, <1>3
<1> QED
  BY <1>2, <1>3, StatusEffect

LEMMA PresentStep == IInv /\ [Next]_vars => Present'
<1> SUFFICES ASSUME IInv, [Next]_vars, NEW c \in Clients
             PROVE  /\ \A i \in 1 .. Len(scan'[c]) : status'[scan'[c][i]] # "absent"
                    /\ \A j \in rows'[c] : status'[j] # "absent"
  BY DEF Present
<1>1. /\ TypeOK
      /\ \A i \in 1 .. Len(scan[c]) : status[scan[c][i]] # "absent"
      /\ \A j \in rows[c] : status[j] # "absent"
  BY DEF IInv, Inv, Present
<1>2. \A j \in Jobs : status[j] # "absent" => status'[j] # "absent"
  BY <1>1, JobsStay
<1>3. \A i \in 1 .. Len(scan[c]) : scan[c][i] \in Jobs
  BY <1>1, ElementOfSeq DEF TypeOK
<1>4. \A i \in 1 .. Len(scan'[c]) : status'[scan'[c][i]] # "absent"
  <2>1. CASE scan'[c] = scan[c] \/ scan'[c] = <<>>
    BY <1>1, <1>2, <1>3, <2>1
  <2>2. CASE Drops(c)
    <3>1. \A i \in 1 .. Len(Tail(scan[c])) :
              Tail(scan[c])[i] = scan[c][i + 1] /\ i + 1 \in 1 .. Len(scan[c])
      BY <1>1, <2>2, AtRowFacts DEF Drops
    <3> QED
      BY <1>1, <1>2, <1>3, <2>2, <3>1 DEF Drops
  <2>3. CASE Starts(c)
    BY <2>3 DEF Starts
  <2> QED
    BY <1>1, <2>1, <2>2, <2>3, ScanEffect
<1>5. \A j \in rows'[c] : status'[j] # "absent"
  <2>1. rows[c] \subseteq Jobs
    BY <1>1 DEF TypeOK
  <2>2. ASSUME NEW d \in Clients, Releases(d)
        PROVE  rows'[c] \subseteq rows[c]
    BY <1>1, <2>2 DEF TypeOK, Releases
  <2>3. ASSUME NEW d \in Clients, NEW j \in Jobs, Takes(d, j)
        PROVE  rows'[c] \subseteq rows[c] \/ (rows'[c] = rows[c] \cup {j} /\ status[j] # "absent")
    <3>1. CASE c = d
      <4>1. j = scan[c][1] /\ Len(scan[c]) \in Nat \ {0}
        BY <1>1, <2>3, <3>1, AtRowFacts DEF Takes
      <4>2. status[j] # "absent"
        BY <1>1, <4>1
      <4> QED
        BY <1>1, <2>3, <3>1, <4>2 DEF Takes, TypeOK
    <3>2. CASE c # d
      BY <1>1, <2>3, <3>2 DEF Takes, TypeOK
    <3> QED
      BY <3>1, <3>2
  <2>4. \/ rows'[c] \subseteq rows[c]
        \/ \E j \in Jobs : rows'[c] = rows[c] \cup {j} /\ status[j] # "absent"
    BY <1>1, <2>2, <2>3, LockEffect
  <2> QED
    BY <1>1, <1>2, <2>1, <2>4
<1> QED
  BY <1>4, <1>5

\* A change of a row excludes those who have a lock other than FOR KEY SHARE.
LEMMA ChangesExclude ==
    ASSUME IInv, NEW c \in Clients, Commit(c), NEW j \in rows[c],
           NEW d \in Clients \ {c}, j \in rows[d]
    PROVE  Builder(d).lock.strength \in {"none", "KEY SHARE"}
<1>1. j \in Jobs /\ Builder(d).lock.strength \in Strengths
  BY Strength DEF IInv, TypeOK
<1>2. WaitsFor(c) = UNION {Holders(c, i, UpdateStrength) : i \in rows[c]}
  BY DEF Commit, WaitsFor, AtRow
<1>3. Holders(c, j, UpdateStrength) = {}
  BY <1>2 DEF Commit
<1>4. locks[j][d] \notin Excluded("NO KEY UPDATE")
  BY <1>3 DEF Holders, UpdateStrength
<1>5. locks[j][d] = Builder(d).lock.strength
  BY <1>1 DEF IInv, Inv, Locked
<1> QED
  BY <1>1, <1>4, <1>5 DEF Excluded, Strengths

LEMMA ClaimedStep == IInv /\ [Next]_vars => Claimed'
<1> SUFFICES ASSUME IInv, [Next]_vars, NEW w \in Workers, how'[w] \in Exclusive, NEW j \in rows'[w]
             PROVE  status'[j] = "pending"
  BY DEF Claimed
<1>1. TypeOK /\ how' = how /\ w \in Clients /\ \A i \in rows[w] : status[i] = "pending"
  BY LockEffect DEF IInv, Inv, Claimed, Clients
<1>2. rows[w] \subseteq Jobs /\ status \in [Jobs -> Statuses]
  BY <1>1 DEF TypeOK
<1>3. j \in Jobs /\ status[j] = "pending"
  <2>1. CASE j \in rows[w]
    BY <1>1, <1>2, <2>1
  <2>2. CASE j \notin rows[w]
    <3>1. Takes(w, j)
      <4>1. ASSUME NEW d \in Clients, Releases(d)
            PROVE  FALSE
        BY <1>1, <2>2, <4>1 DEF Releases, TypeOK
      <4>2. ASSUME NEW d \in Clients, NEW i \in Jobs, Takes(d, i)
            PROVE  d = w /\ i = j
        BY <1>1, <2>2, <4>2 DEF Takes, TypeOK
      <4> QED
        BY <1>1, <2>2, <4>1, <4>2, LockEffect
    <3>2. j \in Jobs /\ j = scan[w][1] /\ Len(scan[w]) \in Nat \ {0}
      BY <1>1, <3>1, AtRowFacts DEF Takes
    <3>3. status[j] \in Statuses \ {"absent"}
      BY <1>1, <1>2, <3>2 DEF IInv, Inv, Present
    <3>4. Accepts(Builder(w), status[j])
      BY <3>1 DEF Takes
    <3> QED
      BY <1>1, <3>2, <3>3, <3>4, AcceptsPending
  <2> QED
    BY <2>1, <2>2
<1>4. ASSUME NEW c \in Clients, Commit(c)
      PROVE  status'[j] = "pending"
  <2>1. c # w /\ j \in rows[w]
    BY <1>1, <1>4 DEF Commit, TypeOK
  <2>2. j \notin rows[c]
    <3>1. Builder(w).lock.strength \in {"NO KEY UPDATE", "UPDATE"}
      BY <1>1, Strength
    <3> QED
      BY <1>1, <1>4, <2>1, <3>1, ChangesExclude
  <2> QED
    BY <1>2, <1>3, <1>4, <2>2 DEF Commit
<1> QED
  BY <1>2, <1>3, <1>4, StatusEffect

-----------------------------------------------------------------------------
LEMMA ForwardStep == IInv /\ [Next]_vars => Forward'
<1> SUFFICES ASSUME IInv, [Next]_vars, NEW c \in Clients, Builder(c)'.ordered
             PROVE  /\ Ascending(scan'[c])
                    /\ \A i \in 1 .. Len(scan'[c]) : \A j \in rows'[c] : j < scan'[c][i]
  BY DEF Forward
<1>1. TypeOK /\ how' = how
  BY LockEffect DEF IInv
<1>2. /\ Ascending(scan[c])
      /\ \A i \in 1 .. Len(scan[c]) : \A j \in rows[c] : j < scan[c][i]
  BY <1>1 DEF IInv, Inv, Forward, Builder
<1>3. pc[c] = "idle" => rows[c] = {}
  BY DEF IInv, Inv, Bounds
<1>4. scan[c] \in Seq(Jobs) /\ Len(scan[c]) \in Nat
  BY <1>1, LenProperties DEF TypeOK
<1>5. CASE Drops(c)
  <2>1. /\ Head(scan[c]) = scan[c][1]
        /\ Len(scan[c]) \in Nat \ {0} /\ Len(Tail(scan[c])) = Len(scan[c]) - 1
        /\ \A i \in 1 .. Len(Tail(scan[c])) :
               Tail(scan[c])[i] = scan[c][i + 1] /\ i + 1 \in 1 .. Len(scan[c])
    BY <1>1, <1>5, AtRowFacts DEF Drops
  <2>2. rows'[c] \subseteq rows[c] \cup {scan[c][1]}
    <3>1. ASSUME NEW d \in Clients, Releases(d)
          PROVE  rows'[c] \subseteq rows[c]
      BY <1>1, <3>1 DEF TypeOK, Releases
    <3>2. ASSUME NEW d \in Clients, NEW j \in Jobs, Takes(d, j)
          PROVE  rows'[c] \subseteq rows[c] \cup {scan[c][1]}
      BY <1>1, <2>1, <3>2 DEF Takes, TypeOK
    <3> QED
      BY <1>1, <3>1, <3>2, LockEffect
  <2>3. \A i \in 1 .. Len(Tail(scan[c])) : scan[c][1] < Tail(scan[c])[i]
    <3>1. ASSUME NEW i \in 1 .. Len(Tail(scan[c]))
          PROVE  scan[c][1] < scan[c][i + 1]
      <4>1. 1 \in 1 .. Len(scan[c]) /\ i + 1 \in 1 .. Len(scan[c]) /\ 1 < i + 1
        BY <2>1
      <4> QED
        BY <1>2, <4>1 DEF Ascending
    <3> QED
      BY <2>1, <3>1
  <2>4. Ascending(Tail(scan[c]))
    BY <1>2, <2>1 DEF Ascending
  <2> QED
    BY <1>2, <1>5, <2>1, <2>2, <2>3, <2>4 DEF Drops
<1>6. CASE Starts(c)
  BY <1>1, <1>3, <1>6 DEF Starts, Builder
<1>7. CASE scan'[c] = <<>>
  BY <1>7 DEF Ascending
<1>8. CASE scan'[c] = scan[c] /\ ~Drops(c)
  <2>1. ASSUME NEW d \in Clients, Releases(d)
        PROVE  rows'[c] \subseteq rows[c]
    BY <1>1, <2>1 DEF TypeOK, Releases
  <2>2. ASSUME NEW d \in Clients, NEW j \in Jobs, Takes(d, j)
        PROVE  rows'[c] \subseteq rows[c]
    BY <1>1, <1>8, <2>2 DEF Takes, Drops, TypeOK
  <2>3. rows'[c] \subseteq rows[c]
    BY <1>1, <2>1, <2>2, LockEffect
  <2> QED
    BY <1>2, <1>8, <2>3
<1> QED
  BY <1>1, <1>5, <1>6, <1>7, <1>8, ScanEffect

-----------------------------------------------------------------------------
LEMMA IInvInit == Init => IInv
<1> SUFFICES ASSUME Init
             PROVE  IInv
  OBVIOUS
<1>1. TypeOK
  <2>1. \E s \in Setups : how = s.how
    BY DEF Init
  <2>2. status \in [Jobs -> Statuses]
    BY DEF Init, Statuses
  <2>3. /\ locks \in [Jobs -> [Clients -> Strengths]]
        /\ pc \in [Clients -> Places]
        /\ made \in [Producers -> Answers]
        /\ code \in [Clients -> Codes]
    BY DEF Init, Strengths, Places, Answers, Codes
  <2>4. scan \in [Clients -> Seq(Jobs)] /\ rows \in [Clients -> SUBSET Jobs]
    <3>1. <<>> \in Seq(Jobs)
      OBVIOUS
    <3> QED
      BY <3>1 DEF Init
  <2> QED
    BY <2>1, <2>2, <2>3, <2>4 DEF TypeOK
<1>2. \A c \in Clients : scan[c] = <<>> /\ rows[c] = {} /\ pc[c] = "idle"
  BY DEF Init
<1>3. \A c \in Clients, j \in Jobs : locks[j][c] = "none"
  BY DEF Init
<1>4. Locked /\ Compatible
  BY <1>2, <1>3 DEF Locked, Compatible, Excluded
<1>5. Bounds /\ Present /\ Claimed
  BY <1>2 DEF Bounds, Present, Claimed, Clients
<1>6. Forward
  BY <1>2 DEF Forward, Ascending
<1> QED
  BY <1>1, <1>4, <1>5, <1>6 DEF IInv, Inv

LEMMA IInvStep == IInv /\ [Next]_vars => IInv'
BY TypeStep, LockedStep, CompatibleStep, BoundsStep, PresentStep, ClaimedStep, ForwardStep
   DEF IInv, Inv

LEMMA IInvAlways == Spec => []IInv
BY IInvInit, IInvStep, PTL DEF Spec

-----------------------------------------------------------------------------
\* NoJobTwice: a job that a worker claimed with an exclusive lock is pending while
\* it works, and no other worker that locks at all has claimed it.
THEOREM ClaimsAreExclusive == Spec => []NoJobTwice
<1>1. IInv => NoJobTwice
  <2> SUFFICES ASSUME IInv, NEW w \in Workers, how[w] \in Exclusive, NEW j \in rows[w]
               PROVE  /\ status[j] = "pending"
                      /\ \A other \in Workers \ {w} :
                             Builder(other).lock # NoLock => j \notin rows[other]
    BY DEF NoJobTwice
  <2>1. TypeOK /\ Locked /\ Compatible /\ Workers \subseteq Clients
    BY DEF IInv, Inv, Clients
  <2>2. j \in Jobs
    BY <2>1 DEF TypeOK
  <2>3. status[j] = "pending"
    BY DEF IInv, Inv, Claimed
  <2>4. ASSUME NEW other \in Workers \ {w}, Builder(other).lock # NoLock, j \in rows[other]
        PROVE  FALSE
    <3>1. locks[j][w] \in {"NO KEY UPDATE", "UPDATE"}
      BY <2>1, <2>2, Strength DEF Locked
    <3>2. locks[j][other] \in {"SHARE", "NO KEY UPDATE", "UPDATE"}
      BY <2>1, <2>2, <2>4, Strength DEF Locked
    <3>3. locks[j][other] \notin Excluded(locks[j][w])
      BY <2>1, <2>2 DEF Compatible
    <3> QED
      BY <3>1, <3>2, <3>3 DEF Excluded
  <2> QED
    BY <2>3, <2>4
<1> QED
  BY <1>1, IInvAlways, PTL

\* SharedRowsDontChange: no step changes a row that a reader selected FOR SHARE
\* before the reader's transaction ends.
THEOREM SharedRowsStay == Spec => SharedRowsDontChange
<1>1. IInv /\ [Next]_vars => KeepsSharedRows
  <2> SUFFICES ASSUME IInv, [Next]_vars, NEW r \in Readers, how[r] = "share", NEW j \in rows[r]
               PROVE  status'[j] = status[j]
    BY DEF KeepsSharedRows
  <2>1. TypeOK /\ r \in Clients
    BY DEF IInv, Clients
  <2>2. j \in Jobs /\ status \in [Jobs -> Statuses]
    BY <2>1 DEF TypeOK
  <2>3. ASSUME NEW c \in Clients, Commit(c)
        PROVE  status'[j] = status[j]
    <3>1. c # r
      <4>1. c \in Workers
        BY <2>3 DEF IInv, Inv, Bounds, Commit
      <4>2. how[c] \in Claims
        BY <2>1, <4>1, BuilderFacts
      <4> QED
        BY <4>2 DEF Claims, Exclusive, Wrong
    <3>2. Builder(r).lock.strength = "SHARE"
      BY <2>1, Strength
    <3>3. j \notin rows[c]
      BY <2>1, <2>3, <3>1, <3>2, ChangesExclude
    <3> QED
      BY <2>2, <2>3, <3>3 DEF Commit
  <2>4. CASE status[1] = "absent" /\ status' = [status EXCEPT ![1] = "pending"]
    <3>1. status[j] # "absent"
      BY <2>1 DEF IInv, Inv, Present
    <3> QED
      BY <2>2, <2>4, <3>1
  <2> QED
    BY <2>3, <2>4, StatusEffect
<1> QED
  BY <1>1, IInvAlways, PTL DEF Spec, SharedRowsDontChange

-----------------------------------------------------------------------------
LEMMA CreatedOnceStep == TypeOK /\ CreatedOnce /\ [Next]_vars => CreatedOnce'
<1> SUFFICES ASSUME TypeOK, CreatedOnce, [Next]_vars
             PROVE  CreatedOnce'
  OBVIOUS
<1>1. 1 \in Jobs /\ status \in [Jobs -> Statuses] /\ made \in [Producers -> Answers]
  BY JobsAssumption DEF Jobs, TypeOK
<1>2. how' = how
  BY LockEffect
<1>3. status[1] # "absent" => status'[1] # "absent"
  BY <1>1, JobsStay
<1>4. CASE made' = made
  BY <1>2, <1>3, <1>4 DEF CreatedOnce
<1>5. ASSUME NEW p \in Producers, Look(p)
      PROVE  CreatedOnce'
  <2>1. \A q \in Producers : made'[q] =
            IF q = p THEN IF status[1] = "absent" THEN "not found" ELSE "found" ELSE made[q]
    BY <1>1, <1>5 DEF Look
  <2>2. status' = status
    BY <1>5 DEF Look
  <2> QED
    BY <1>2, <2>1, <2>2 DEF CreatedOnce
<1>6. ASSUME NEW p \in Producers, Create(p)
      PROVE  CreatedOnce'
  <2>1. CASE status[1] = "absent"
    <3>1. \A q \in Producers : made'[q] = IF q = p THEN "created" ELSE made[q]
      BY <1>1, <1>6, <2>1 DEF Create
    <3>2. status'[1] = "pending"
      BY <1>1, <1>6, <2>1 DEF Create
    <3> QED
      BY <1>2, <2>1, <3>1, <3>2 DEF CreatedOnce
  <2>2. CASE status[1] # "absent"
    <3>1. how[p] = "on conflict do nothing" => Insert(p).onConflict = "nothing"
      BY DEF Insert, OnConflict, Query
    <3>2. \A q \in Producers : made'[q] =
              IF q = p THEN IF Insert(p).onConflict = "nothing" THEN "no row" ELSE "duplicate"
                       ELSE made[q]
      BY <1>1, <1>6, <2>2 DEF Create
    <3> QED
      BY <1>2, <1>3, <2>2, <3>1, <3>2 DEF CreatedOnce
  <2> QED
    BY <2>1, <2>2
<1>7. made' = made \/ \E p \in Producers : Look(p) \/ Create(p)
  BY DEF Next, ClientStep, Find, LockRow, RowHeld, Found, Work, Commit, Victim, ConnectionLost,
         Rollback, Terminated, vars
<1> QED
  BY <1>4, <1>5, <1>6, <1>7

\* IdempotentCreate: one of those who create job 1 succeeds, the others learn that it
\* was there, and none that asked for DoNothing sees an error.
THEOREM JobsCreatedOnce == Spec => []IdempotentCreate
<1>1. Init => CreatedOnce
  BY DEF Init, CreatedOnce
<1>2. TypeOK /\ CreatedOnce => IdempotentCreate
  <2> SUFFICES ASSUME TypeOK, CreatedOnce
               PROVE  IdempotentCreate
    OBVIOUS
  <2> DEFINE created == {p \in Producers : made[p] = "created"}
  <2>1. Cardinality(created) <= 1
    <3>1. CASE created = {}
      BY <3>1, FS_EmptySet
    <3>2. CASE created # {}
      <4>1. PICK p : p \in created
        BY <3>2
      <4>2. \A q \in created : q = p
        BY <4>1 DEF CreatedOnce
      <4>3. created = {p}
        BY <4>1, <4>2
      <4>4. Cardinality({p}) = 1
        BY FS_Singleton
      <4> QED
        BY <4>3, <4>4
    <3> QED
      BY <3>1, <3>2
  <2> QED
    BY <2>1 DEF CreatedOnce, IdempotentCreate
<1> QED
  BY <1>1, <1>2, IInvAlways, CreatedOnceStep, PTL DEF Spec, IInv

-----------------------------------------------------------------------------
\* Who waits for whom.
Owners == {d \in Clients : \E j \in Jobs : locks[j][d] # "none"}

Waits(d) == WaitsFor(d) # {}

LEMMA Waiting ==
    ASSUME NEW d \in Clients, NEW e \in WaitsFor(d)
    PROVE  \/ /\ AtRow(d) /\ Builder(d).lock.option = "wait"
              /\ e \in Holders(d, Head(scan[d]), Builder(d).lock.strength)
           \/ /\ pc[d] = "finish"
              /\ \E j \in rows[d] : e \in Holders(d, j, UpdateStrength)
<1>1. CASE AtRow(d) /\ Builder(d).lock.option = "wait"
  BY <1>1 DEF WaitsFor
<1>2. CASE ~(AtRow(d) /\ Builder(d).lock.option = "wait") /\ pc[d] = "finish"
  BY <1>2 DEF WaitsFor
<1>3. CASE ~(AtRow(d) /\ Builder(d).lock.option = "wait") /\ pc[d] # "finish"
  BY <1>3 DEF WaitsFor
<1> QED
  BY <1>1, <1>2, <1>3

\* Whom somebody waits for has a lock on the row in question.
LEMMA WaitedFor ==
    ASSUME IInv, NEW d \in Clients, NEW e \in WaitsFor(d)
    PROVE  /\ e \in Owners /\ e # d
           /\ AtRow(d) => Head(scan[d]) \in rows[e]
<1>1. TypeOK /\ \A j \in Jobs : locks[j][e] # "none" => j \in rows[e]
  BY Waiting DEF IInv, Inv, Locked, Holders
<1>2. \A l : "none" \notin Excluded(l)
  BY DEF Excluded
<1>3. PICK j, l : /\ j \in Jobs /\ e \in Holders(d, j, l)
                  /\ AtRow(d) => j = Head(scan[d])
  <2>1. CASE AtRow(d)
    BY <1>1, <2>1, AtRowFacts, Waiting DEF AtRow
  <2>2. CASE ~AtRow(d)
    BY <1>1, <2>2, Waiting DEF TypeOK
  <2> QED
    BY <2>1, <2>2
<1>4. e \in Clients \ {d} /\ locks[j][e] # "none"
  BY <1>2, <1>3 DEF Holders
<1> QED
  BY <1>1, <1>3, <1>4 DEF Owners

\* The update of a row that is locked against other updates does not wait.
LEMMA UpdateDoesNotWait ==
    ASSUME IInv, NEW d \in Clients, pc[d] = "finish",
           Builder(d).lock.strength \in {"NO KEY UPDATE", "UPDATE"}
    PROVE  WaitsFor(d) = {}
<1> SUFFICES ASSUME NEW e \in WaitsFor(d)
             PROVE  FALSE
  OBVIOUS
<1>1. PICK j \in rows[d] : e \in Holders(d, j, UpdateStrength)
  BY Waiting DEF AtRow
<1>2. j \in Jobs /\ e \in Clients \ {d} /\ locks[j][e] \in Excluded("NO KEY UPDATE")
  BY <1>1 DEF IInv, TypeOK, Holders, UpdateStrength
<1>3. locks[j][d] \in {"NO KEY UPDATE", "UPDATE"}
  BY <1>1, <1>2 DEF IInv, Inv, Locked
<1>4. locks[j][e] \notin Excluded(locks[j][d])
  BY <1>2 DEF IInv, Inv, Compatible
<1> QED
  BY <1>2, <1>3, <1>4 DEF Excluded

\* Where nobody locks out of order or changes what is shared, the owner of a lock
\* that waits does so for a row behind all its own.
LEMMA WaitForward ==
    ASSUME IInv, \A w \in Workers : how[w] \notin Unordered,
           NEW d \in Owners, Waits(d)
    PROVE  /\ AtRow(d) /\ Head(scan[d]) \in Jobs
           /\ \A j \in rows[d] : j < Head(scan[d])
<1>1. TypeOK /\ d \in Clients
  BY DEF IInv, Owners
<1>2. PICK e : e \in WaitsFor(d)
  BY DEF Waits
<1>3. PICK j \in rows[d] : locks[j][d] # "none" /\ locks[j][d] = Builder(d).lock.strength
  BY <1>1 DEF Owners, IInv, Inv, Locked
<1>4. how[d] \notin Wrong
  BY <1>1, <1>3, Strength DEF IInv, Inv, Bounds
<1>5. pc[d] # "finish"
  <2> SUFFICES ASSUME pc[d] = "finish"
               PROVE  FALSE
    OBVIOUS
  <2>1. d \in Workers
    BY <1>1 DEF IInv, Inv, Bounds
  <2>2. Builder(d).lock.strength \in {"NO KEY UPDATE", "UPDATE"}
    <3>1. how[d] \in Exclusive \cup {"no key"}
      BY <1>1, <1>4, <2>1, BuilderFacts DEF Claims, Unordered
    <3>2. CASE how[d] \in Exclusive
      BY <1>1, <3>2, Strength
    <3>3. CASE how[d] = "no key"
      BY <1>1, <1>3, <3>3, BuilderFacts, StrengthOfChain
    <3> QED
      BY <3>1, <3>2, <3>3
  <2> QED
    BY <1>1, <1>2, <2>2, UpdateDoesNotWait
<1>6. AtRow(d) /\ Builder(d).lock.option = "wait"
  BY <1>1, <1>2, <1>5, Waiting
<1>7. Builder(d).ordered
  <2>1. how[d] \notin Unordered
    <3>1. CASE d \in Workers
      BY <3>1
    <3>2. CASE d \in Readers
      BY <1>1, <3>2, BuilderFacts DEF Shares, Unordered
    <3> QED
      BY <1>1, <3>1, <3>2 DEF Clients
  <2> QED
    BY <1>1, <1>4, <1>6, <2>1, Strength
<1>8. Head(scan[d]) \in Jobs /\ Head(scan[d]) = scan[d][1] /\ 1 \in 1 .. Len(scan[d])
  BY <1>1, <1>6, AtRowFacts
<1> QED
  BY <1>1, <1>6, <1>7, <1>8 DEF IInv, Inv, Forward

\* So nobody waits in the end for itself.
LEMMA NoDeadlock ==
    ASSUME IInv, \A w \in Workers : how[w] \notin Unordered, NEW c \in Clients
    PROVE  ~Deadlocked(c)
<1> SUFFICES ASSUME Deadlocked(c)
             PROVE  FALSE
  OBVIOUS
<1>1. ASSUME NEW S \in SUBSET Clients, \A d \in S \cup {c} : WaitsFor(d) \subseteq S
      PROVE  c \in S
  BY <1>1 DEF Deadlocked
<1>2. Owners \subseteq Clients /\ \A d \in Clients : WaitsFor(d) \subseteq Owners
  BY WaitedFor DEF Owners
<1>3. c \in Owners
  BY <1>1, <1>2
<1>4. Waits(c)
  BY <1>1 DEF Waits
<1> DEFINE h == Head(scan[c])
           S == {d \in Owners : Waits(d) => Head(scan[d]) > h}
<1>5. h \in Jobs
  BY <1>3, <1>4, WaitForward
<1>6. ASSUME NEW d \in S \cup {c}, NEW e \in WaitsFor(d)
      PROVE  e \in S
  <2>1. d \in Owners /\ d \in Clients /\ Waits(d)
    BY <1>2, <1>3, <1>6 DEF Waits
  <2>2. AtRow(d) /\ Head(scan[d]) \in Jobs /\ Head(scan[d]) \in rows[e] /\ e \in Owners
    BY <2>1, <1>6, WaitForward, WaitedFor
  <2>3. Head(scan[d]) >= h
    BY <1>5, <1>6, <2>1, <2>2 DEF Jobs
  <2>4. Waits(e) => Head(scan[e]) \in Jobs /\ Head(scan[d]) < Head(scan[e])
    BY <2>2, WaitForward
  <2> QED
    BY <1>5, <2>2, <2>3, <2>4 DEF Jobs
<1>7. c \notin S
  BY <1>4, <1>5 DEF Jobs
<1>8. S \in SUBSET Clients
  BY <1>2
<1> QED
  BY <1>1, <1>6, <1>7, <1>8

LEMMA NoCycleStep == IInv /\ NoCycle /\ [Next]_vars => NoCycle'
<1> SUFFICES ASSUME IInv, NoCycle, [Next]_vars
             PROVE  NoCycle'
  OBVIOUS
<1>1. how' = how
  BY LockEffect DEF IInv
<1>2. ASSUME NEW c \in Clients, Victim(c)
      PROVE  \E w \in Workers : how[w] \in Unordered
  BY <1>2, NoDeadlock DEF Victim
<1>3. CASE \A c \in Clients : ~Victim(c)
  <2>1. \A c \in Clients : code'[c] = "40P01" => code[c] = "40P01"
    <3>1. code \in [Clients -> Codes]
      BY DEF IInv, TypeOK
    <3>2. ASSUME NEW d \in Clients, ClientStep(d)
          PROVE  code' = code \/ \E x \in Codes \ {"40P01"} : code' = [code EXCEPT ![d] = x]
      <4>1. CASE Find(d) \/ RowHeld(d)
        BY <4>1 DEF Find, RowHeld, Codes
      <4>2. CASE LockRow(d) \/ Found(d) \/ Work(d) \/ Commit(d)
        BY <4>2 DEF LockRow, Found, Work, Commit
      <4>3. CASE ConnectionLost(d)
        BY <4>3 DEF ConnectionLost, Codes
      <4>4. CASE Rollback(d)
        BY <4>4 DEF Rollback, Codes, NoCode
      <4> QED
        BY <1>3, <3>2, <4>1, <4>2, <4>3, <4>4 DEF ClientStep
    <3>3. code' = code \/ \E d \in Clients : ClientStep(d)
      BY DEF Next, Look, Create, Terminated, vars
    <3> QED
      BY <3>1, <3>2, <3>3
  <2> QED
    BY <1>1, <2>1 DEF NoCycle
<1> QED
  BY <1>1, <1>2, <1>3 DEF NoCycle

\* ClaimersNeverWait: who claims with SKIP LOCKED or NOWAIT never waits, FOR KEY SHARE
\* does not wait for FOR NO KEY UPDATE, and who sees a deadlock shares the table with
\* somebody that locks rows in no order or changes rows that it claimed in share mode.
THEOREM NoBlockingClaims == Spec => []ClaimersNeverWait
<1>1. Init => NoCycle
  BY DEF Init, NoCycle, NoCode
<1>2. IInv /\ NoCycle => ClaimersNeverWait
  <2> SUFFICES ASSUME IInv, NoCycle
               PROVE  ClaimersNeverWait
    OBVIOUS
  <2>1. TypeOK
    BY DEF IInv
  <2>2. ASSUME NEW w \in Workers, how[w] \in {"skip locked", "nowait"}
        PROVE  WaitsFor(w) = {}
    <3>1. w \in Clients
      BY DEF Clients
    <3>2. Builder(w).lock.strength = "UPDATE" /\ Builder(w).lock.option # "wait"
      BY <2>1, <2>2, <3>1, Strength
    <3>3. CASE pc[w] = "finish"
      BY <3>1, <3>2, <3>3, UpdateDoesNotWait
    <3>4. CASE pc[w] # "finish"
      BY <3>2, <3>4 DEF WaitsFor
    <3> QED
      BY <3>3, <3>4
  <2>3. ASSUME NEW r \in Readers, how[r] = "key share", NEW w \in WaitsFor(r)
        PROVE  how[w] # "no key"
    <3>1. r \in Clients
      BY DEF Clients
    <3>2. pc[r] # "finish"
      <4>1. how[r] \notin Claims
        BY <2>3 DEF Claims, Exclusive, Wrong
      <4> QED
        BY <2>1, <3>1, <4>1, BuilderFacts DEF IInv, Inv, Bounds
    <3>3. AtRow(r) /\ w \in Holders(r, Head(scan[r]), Builder(r).lock.strength)
      BY <2>3, <3>1, <3>2, Waiting
    <3>4. Head(scan[r]) \in Jobs
      BY <2>1, <3>1, <3>3, AtRowFacts
    <3>5. w \in Clients /\ locks[Head(scan[r])][w] = "UPDATE"
      BY <2>1, <2>3, <3>1, <3>3, Strength DEF Holders, Excluded
    <3>6. Builder(w).lock.strength = "UPDATE"
      BY <3>4, <3>5 DEF IInv, Inv, Locked
    <3> QED
      BY <2>1, <3>5, <3>6, Strength
  <2> QED
    BY <2>2, <2>3 DEF ClaimersNeverWait, NoCycle, Unordered
<1> QED
  BY <1>1, <1>2, IInvAlways, NoCycleStep, PTL DEF Spec
=============================================================================
