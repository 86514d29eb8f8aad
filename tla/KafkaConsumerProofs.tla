------------------------ MODULE KafkaConsumerProofs ------------------------
(***************************************************************************)
(* What KafkaConsumer guarantees for every number of messages, users,      *)
(* workers and restarts: a single worker keeps the order and, with a       *)
(* single user, loses nothing and never takes a commit back; several lose  *)
(* no more than a message each; and the whole implements AckedQueue.       *)
(*                                                                         *)
(* A message travels from the reader to the worker, through the channel to *)
(* a user, and is committed there.  With one worker Top is the first       *)
(* offset that is not in the channel or past it: everything in front of    *)
(* Top is in order, and Pending is the offset the channel continues with   *)
(* when there is one user as well.                                         *)
(***************************************************************************)
EXTENDS KafkaConsumer, SequenceTheorems, FiniteSetTheorems, TLAPS

WorkerStates == {"loop", "fetch", "send", "done"}
UserStates   == {"receive", "process", "commit", "done"}

TypeOK ==
    /\ setup \in Setups
    /\ committed \in 0 .. NumMsgs /\ next \in 0 .. NumMsgs
    /\ worker \in [Started -> WorkerStates]
    /\ held \in [Started -> Offsets \cup {NoMsg}]
    /\ \A w \in Started : worker[w] = "send" => held[w] \in Offsets
    /\ out \in Seq(Offsets)
    /\ user \in [Readers -> UserStates]
    /\ cur \in [Readers -> Offsets \cup {NoMsg}]
    /\ \A u \in Readers : user[u] \in {"process", "commit"} => cur[u] \in Offsets
    /\ shutdown \in BOOLEAN /\ ctxDone \in BOOLEAN
    /\ readerClosed \in BOOLEAN /\ outClosed \in BOOLEAN
    /\ restarts \in 0 .. MaxRestarts
    /\ processed \subseteq Offsets

-----------------------------------------------------------------------------
\* What w, the only worker, has not handed over yet starts at Top.
Top(w) == IF worker[w] = "send" THEN held[w] ELSE next

\* The order, as an inductive invariant: the channel ascends, stays below Top,
\* and is ahead of every user.
Ordered(w) ==
    /\ worker[w] = "send" => next = held[w] + 1
    /\ \A i \in 1 .. Len(out) : out[i] < Top(w)
    /\ \A i, j \in 1 .. Len(out) : i < j => out[i] < out[j]
    /\ \A i \in 1 .. Len(out), u \in Readers : cur[u] < out[i]
    /\ \A u \in Readers : cur[u] < Top(w)

\* Before the first restart: a message below Top is processed, given up, in the
\* channel or with a user, or it is the one the worker dropped when it ended,
\* which nothing has overtaken.
Kept(m) ==
    \/ m \in processed \cup Poison
    \/ \E i \in 1 .. Len(out) : out[i] = m
    \/ \E u \in Readers : user[u] = "process" /\ cur[u] = m

Dropped(w, m) ==
    /\ worker[w] = "done" /\ m = next - 1
    /\ committed <= m
    /\ \A i \in 1 .. Len(out) : out[i] < m
    /\ \A u \in Readers : cur[u] < m

Accounted(w) ==
    /\ committed <= Top(w)
    /\ \A m \in Offsets : m < Top(w) => Kept(m) \/ Dropped(w, m)

\* With u as the only user: the offset it continues with.
Pending(u) == IF cur[u] = NoMsg THEN committed ELSE cur[u] + 1

Covered(n) == 0 .. n - 1 \subseteq processed \cup Poison

\* The channel and the worker continue Pending without a gap, and what lies
\* before the user's message was processed or given up.
Gapless(w, u) ==
    /\ \A i \in 1 .. Len(out) : out[i] = Pending(u) + i - 1
    /\ worker[w] = "send" => held[w] = Pending(u) + Len(out)
    /\ worker[w] \in {"loop", "fetch"} => next = Pending(u) + Len(out)
    /\ committed <= Pending(u)
    /\ user[u] = "process" => Covered(cur[u]) /\ committed <= cur[u]
    /\ user[u] # "process" => Covered(Pending(u))

-----------------------------------------------------------------------------
\* The channel of messages: what is appended and what is left of it.
LEMMA Appended ==
    ASSUME NEW S, NEW s \in Seq(S), NEW e \in S
    PROVE  /\ Append(s, e) \in Seq(S)
           /\ Len(Append(s, e)) = Len(s) + 1
           /\ \A i \in 1 .. Len(s) : Append(s, e)[i] = s[i]
           /\ Append(s, e)[Len(s) + 1] = e
BY AppendProperties

LEMMA TakenOff ==
    ASSUME NEW S, NEW s \in Seq(S), s # <<>>
    PROVE  /\ Head(s) \in S /\ Head(s) = s[1]
           /\ Tail(s) \in Seq(S)
           /\ Len(s) \in Nat \ {0}
           /\ Len(Tail(s)) = Len(s) - 1
           /\ \A i \in 1 .. Len(Tail(s)) : Tail(s)[i] = s[i + 1]
<1>1. Head(s) \in S /\ Tail(s) \in Seq(S) /\ Len(Tail(s)) = Len(s) - 1
  BY HeadTailProperties
<1>2. \A i \in 1 .. Len(Tail(s)) : Tail(s)[i] = s[i + 1]
  BY HeadTailProperties
<1>3. Len(s) \in Nat /\ Len(s) # 0
  BY EmptySeq, LenProperties
<1>4. Head(s) = s[1]
  OBVIOUS
<1> QED
  BY <1>1, <1>2, <1>3, <1>4

\* Offsets are numbers, and so is everything a state holds of them.
LEMMA Numbers ==
    /\ NumMsgs \in Nat /\ MaxRestarts \in Nat /\ ChanCap \in Nat
    /\ Offsets \subseteq Nat /\ NoMsg = -1
    /\ \A n \in Nat : n < NumMsgs => n \in Offsets
BY ConsumerAssumption DEF Offsets, NoMsg

-----------------------------------------------------------------------------
\* Every step keeps the types.
LEMMA TypeStep == TypeOK /\ [Next]_vars => TypeOK'
<1> USE Numbers
    DEF TypeOK, Started, Readers, Poison, Quitters,
        WorkerStates, UserStates
<1> USE DEF readerVars, workerVars, outVars, userVars, stopVars, WorkerGoto, UserGoto
<1> SUFFICES ASSUME TypeOK, [Next]_vars
             PROVE  TypeOK'
  OBVIOUS
<1>1. ASSUME NEW w \in Started, WorkerStep(w)
      PROVE  TypeOK'
  <2>1. CASE WorkerStop(w) \/ NoReader(w)
    BY <2>1 DEF WorkerStop, NoReader
  <2>2. CASE WorkerFetch(w)
    BY <2>2 DEF WorkerFetch
  <2>3. CASE FetchOk(w)
    BY <2>3 DEF FetchOk
  <2>4. CASE FetchCancelled(w)
    BY <2>4 DEF FetchCancelled
  <2>5. CASE FetchError(w)
    BY <2>5 DEF FetchError
  <2>6. CASE Send(w)
    <3>1. out' \in Seq(Offsets)
      BY <2>6, Appended DEF Send
    <3> QED
      BY <2>6, <3>1 DEF Send
  <2>7. CASE SendGivenUp(w)
    BY <2>7 DEF SendGivenUp
  <2> QED
    BY <1>1, <2>1, <2>2, <2>3, <2>4, <2>5, <2>6, <2>7 DEF WorkerStep
<1>2. CASE CloseOut
  BY <1>2 DEF CloseOut
<1>3. ASSUME NEW u \in Readers, UserStep(u)
      PROVE  TypeOK'
  <2>1. CASE Receive(u)
    <3>1. out' \in Seq(Offsets) /\ Head(out) \in Offsets
      BY <2>1, TakenOff DEF Receive
    <3> QED
      BY <2>1, <3>1 DEF Receive
  <2>2. CASE RangeEnds(u)
    BY <2>2 DEF RangeEnds
  <2>3. CASE Processed(u)
    BY <2>3 DEF Processed
  <2>4. CASE ProcessFails(u)
    BY <2>4 DEF ProcessFails
  <2>5. CASE CommitMsg(u)
    <3>1. cur[u] + 1 \in 0 .. NumMsgs
      BY <2>5 DEF CommitMsg, Offsets
    <3> QED
      BY <2>5, <3>1 DEF CommitMsg
  <2>6. CASE CommitFails(u)
    <3>1. committed' \in 0 .. NumMsgs
      BY <2>6 DEF CommitFails, Offsets
    <3> QED
      BY <2>6, <3>1 DEF CommitFails
  <2> QED
    BY <1>3, <2>1, <2>2, <2>3, <2>4, <2>5, <2>6 DEF UserStep
<1>4. CASE GracefulShutdown \/ CloseReader \/ CtxCancel
  <2>1. CASE GracefulShutdown
    BY <2>1 DEF GracefulShutdown
  <2>2. CASE CloseReader
    <3>1. readerClosed' \in BOOLEAN
      BY <2>2 DEF CloseReader
    <3> QED
      BY <2>2, <3>1 DEF CloseReader
  <2>3. CASE CtxCancel
    BY <2>3 DEF CtxCancel
  <2> QED
    BY <1>4, <2>1, <2>2, <2>3
<1>5. CASE Restart
  <2>1. out' \in Seq(Offsets)
    BY <1>5 DEF Restart
  <2>2. /\ worker' = [w \in Started |-> "loop"] /\ held' = [w \in Started |-> NoMsg]
        /\ user' = [u \in Readers |-> "receive"] /\ cur' = [u \in Readers |-> NoMsg]
        /\ next' = committed
    BY <1>5 DEF Restart, Fresh
  <2>3. restarts' \in 0 .. MaxRestarts
    BY <1>5 DEF Restart
  <2>4. UNCHANGED <<setup, committed, processed>> /\ ~outClosed' /\ ~shutdown' /\ ~ctxDone'
        /\ ~readerClosed'
    BY <1>5 DEF Restart
  <2>5. /\ worker' \in [Started -> WorkerStates] /\ held' \in [Started -> Offsets \cup {NoMsg}]
        /\ user' \in [Readers -> UserStates] /\ cur' \in [Readers -> Offsets \cup {NoMsg}]
    BY <2>2
  <2>6. /\ \A w \in Started : worker'[w] # "send"
        /\ \A u \in Readers : user'[u] \notin {"process", "commit"}
    BY <2>2
  <2>8. committed' \in 0 .. NumMsgs /\ next' \in 0 .. NumMsgs /\ processed' \subseteq Offsets
    BY <2>2, <2>4
  <2>9. /\ outClosed' \in BOOLEAN /\ shutdown' \in BOOLEAN /\ ctxDone' \in BOOLEAN
        /\ readerClosed' \in BOOLEAN
    BY <1>5 DEF Restart
  <2>10. setup' \in Setups /\ Started' = Started /\ Readers' = Readers
    BY <2>4
  <2>11. /\ \A w \in Started : worker'[w] = "send" => held'[w] \in Offsets
         /\ \A u \in Readers : user'[u] \in {"process", "commit"} => cur'[u] \in Offsets
    BY <2>6
  <2> HIDE DEF Started, Readers, WorkerStates, UserStates
  <2> QED
    BY <2>1, <2>3, <2>5, <2>8, <2>9, <2>10, <2>11, Zenon
<1>6. CASE UNCHANGED vars
  BY <1>6 DEF vars
<1> QED
  BY <1>1, <1>2, <1>3, <1>4, <1>5, <1>6 DEF Next, Terminated

LEMMA TypeInit == Init => TypeOK
<1> SUFFICES ASSUME Init
             PROVE  TypeOK
  OBVIOUS
<1>1. /\ worker = [w \in Started |-> "loop"] /\ held = [w \in Started |-> NoMsg]
      /\ user = [u \in Readers |-> "receive"] /\ cur = [u \in Readers |-> NoMsg]
      /\ next = 0
  BY DEF Init, Fresh
<1>2. out \in Seq(Offsets)
  BY DEF Init
<1>3. committed \in 0 .. NumMsgs /\ next \in 0 .. NumMsgs /\ restarts \in 0 .. MaxRestarts
  BY <1>1, Numbers DEF Init
<1>4. /\ worker \in [Started -> WorkerStates] /\ held \in [Started -> Offsets \cup {NoMsg}]
      /\ user \in [Readers -> UserStates] /\ cur \in [Readers -> Offsets \cup {NoMsg}]
  BY <1>1 DEF WorkerStates, UserStates
<1> QED
  BY <1>1, <1>2, <1>3, <1>4 DEF Init, TypeOK

\* Every variable keeps its type, and who sends or commits holds a message.
THEOREM TypeCorrect == Spec => []TypeOK
BY TypeInit, TypeStep, PTL DEF Spec

-----------------------------------------------------------------------------
\* The members of the channel, and where a worker and a user stand, as numbers.
LEMMA Measured ==
    ASSUME TypeOK
    PROVE  /\ Len(out) \in Nat
           /\ \A i \in 1 .. Len(out) : out[i] \in Offsets
           /\ committed \in Nat /\ next \in Nat
           /\ \A u \in Readers : cur[u] \in Int /\ (cur[u] = NoMsg \/ cur[u] \in Nat)
           /\ \A w \in Started : Top(w) \in Nat
<1> USE Numbers DEF TypeOK
<1>1. Len(out) \in Nat /\ \A i \in 1 .. Len(out) : out[i] \in Offsets
  BY ElementOfSeq, LenProperties
<1>2. committed \in Nat /\ next \in Nat
  OBVIOUS
<1>3. \A u \in Readers : cur[u] \in Int /\ (cur[u] = NoMsg \/ cur[u] \in Nat)
  <2>1. \A u \in Readers : cur[u] \in Offsets \/ cur[u] = NoMsg
    OBVIOUS
  <2>2. \A m \in Offsets : m \in Int /\ m \in Nat
    OBVIOUS
  <2>3. NoMsg \in Int
    BY DEF NoMsg
  <2> QED
    BY <2>1, <2>2, <2>3
<1>4. \A w \in Started : Top(w) \in Nat
  BY <1>2 DEF Top
<1> QED
  BY <1>1, <1>2, <1>3, <1>4

\* With one worker every step keeps the order.
LEMMA OrderedStep ==
    ASSUME NEW w \in Workers, Started = {w}, TypeOK, TypeOK', Ordered(w), [Next]_vars
    PROVE  Ordered(w)'
<1> USE Numbers DEF Ordered
<1> USE DEF readerVars, workerVars, outVars, userVars, stopVars, WorkerGoto, UserGoto,
            Started, Readers
<1>m. /\ Len(out) \in Nat /\ committed \in Nat /\ next \in Nat
      /\ \A i \in 1 .. Len(out) : out[i] \in Nat
      /\ \A u \in Readers : cur[u] \in Int
      /\ Top(w) \in Nat
  BY Measured
<1>t. /\ worker \in [Started -> WorkerStates] /\ held \in [Started -> Offsets \cup {NoMsg}]
      /\ user \in [Readers -> UserStates] /\ cur \in [Readers -> Offsets \cup {NoMsg}]
  BY DEF TypeOK
<1>1. ASSUME WorkerStep(w)
      PROVE  Ordered(w)'
  <2> USE <1>m, <1>t
  <2>1. CASE WorkerStop(w) \/ NoReader(w)
    BY <2>1 DEF WorkerStop, NoReader, Top
  <2>2. CASE WorkerFetch(w)
    BY <2>2 DEF WorkerFetch, Top
  <2>3. CASE FetchOk(w)
    BY <2>3 DEF FetchOk, Top
  <2>4. CASE FetchCancelled(w)
    BY <2>4 DEF FetchCancelled, Top
  <2>5. CASE FetchError(w)
    BY <2>5 DEF FetchError, Top
  <2>6. CASE Send(w)
    <3>1. /\ out \in Seq(Offsets) /\ held[w] \in Offsets
      BY <2>6 DEF Send, TypeOK
    <3>2. /\ Len(out') = Len(out) + 1
          /\ \A i \in 1 .. Len(out) : out'[i] = out[i]
          /\ out'[Len(out) + 1] = held[w]
      BY <2>6, <3>1, Appended DEF Send
    <3>3. /\ Top(w) = held[w] /\ Top(w)' = held[w] + 1
          /\ worker'[w] = "loop" /\ cur' = cur /\ setup' = setup
      BY <2>6 DEF Send, Top
    <3>4. \A i \in 1 .. Len(out') : i \in 1 .. Len(out) \/ i = Len(out) + 1
      BY <3>2
    <3>5. \A i \in 1 .. Len(out') : out'[i] < Top(w)'
      <4>1. \A i \in 1 .. Len(out) : out[i] < Top(w)
        BY DEF Ordered
      <4>2. \A i \in 1 .. Len(out) : out[i] \in Nat /\ out[i] < held[w]
        BY ONLY <1>m, <3>3, <4>1
      <4>3. held[w] \in Nat
        BY ONLY <3>1, Numbers
      <4>4. \A i \in 1 .. Len(out) : out'[i] < held[w] + 1
        BY ONLY <3>2, <4>2, <4>3
      <4>5. out'[Len(out) + 1] < held[w] + 1
        BY ONLY <3>2, <4>3
      <4> QED
        BY ONLY <3>3, <3>4, <4>4, <4>5
    <3>6. \A i, j \in 1 .. Len(out') : i < j => out'[i] < out'[j]
      <4>1. \A i, j \in 1 .. Len(out) : i < j => out'[i] < out'[j]
        BY <3>2
      <4>2. \A i \in 1 .. Len(out) : out'[i] < out'[Len(out) + 1]
        BY <3>2, <3>3
      <4>3. \A i, j \in 1 .. Len(out') : i < j => i \in 1 .. Len(out)
        BY <3>2
      <4> QED
        BY ONLY <3>4, <4>1, <4>2, <4>3
    <3>7. \A u \in Readers : cur'[u] < Top(w)'
      BY <3>1, <3>3
    <3>8. \A i \in 1 .. Len(out'), u \in Readers : cur'[u] < out'[i]
      BY <3>1, <3>2, <3>3, <3>4
    <3>9. Readers' = Readers
      BY <3>3
    <3> HIDE DEF Started, Readers
    <3> QED
      BY ONLY <3>3, <3>5, <3>6, <3>7, <3>8, <3>9 DEF Ordered
  <2>7. CASE SendGivenUp(w)
    <3>1. /\ Top(w) = held[w] /\ Top(w)' = held[w] + 1 /\ held[w] \in Nat
          /\ worker'[w] = "done" /\ out' = out /\ cur' = cur /\ setup' = setup
      BY <2>7 DEF SendGivenUp, Top, TypeOK
    <3> QED
      BY <3>1
  <2> QED
    BY <1>1, <2>1, <2>2, <2>3, <2>4, <2>5, <2>6, <2>7 DEF WorkerStep
<1>2. ASSUME NEW u \in Readers, UserStep(u)
      PROVE  Ordered(w)'
  <2> USE <1>m, <1>t
  <2>1. CASE Receive(u)
    <3>1. /\ Head(out) = out[1] /\ Len(out) \in Nat \ {0}
          /\ Len(out') = Len(out) - 1
          /\ \A i \in 1 .. Len(out') : out'[i] = out[i + 1]
      BY <2>1, TakenOff DEF Receive, TypeOK
    <3>2. /\ cur' = [cur EXCEPT ![u] = out[1]]
          /\ Top(w)' = Top(w) /\ setup' = setup /\ worker' = worker /\ next' = next /\ held' = held
      BY <2>1, <3>1 DEF Receive, Top
    <3>3. \A i \in 1 .. Len(out') : i + 1 \in 1 .. Len(out) /\ 1 \in 1 .. Len(out)
      BY <3>1
    <3>4. \A i \in 1 .. Len(out') : out'[i] < Top(w)'
      <4>1. \A i \in 1 .. Len(out') : out[i + 1] < Top(w)
        BY <3>3
      <4> QED
        BY <3>1, <3>2, <4>1
    <3>5. ASSUME NEW i \in 1 .. Len(out'), NEW j \in 1 .. Len(out'), i < j
          PROVE  out'[i] < out'[j]
      <4>1. i + 1 \in 1 .. Len(out) /\ j + 1 \in 1 .. Len(out) /\ i + 1 < j + 1
        BY <3>3, <3>5
      <4>2. out[i + 1] < out[j + 1]
        BY <4>1
      <4> QED
        BY <3>1, <4>2
    <3>6. \A v \in Readers : cur'[v] = IF v = u THEN out[1] ELSE cur[v]
      BY <3>2
    <3>7. \A v \in Readers : cur'[v] < Top(w)'
      BY <3>1, <3>2, <3>6
    <3>8. \A i \in 1 .. Len(out'), v \in Readers : cur'[v] < out'[i]
      <4>1. \A i \in 1 .. Len(out') : out[1] < out[i + 1]
        BY <3>3
      <4>2. \A i \in 1 .. Len(out'), v \in Readers : cur[v] < out[i + 1]
        BY <3>3
      <4> QED
        BY <3>1, <3>6, <4>1, <4>2
    <3>9. worker'[w] = "send" => next' = held'[w] + 1
      BY <3>2
    <3> QED
      BY <3>2, <3>4, <3>5, <3>7, <3>8, <3>9
  <2>2. CASE RangeEnds(u)
    BY <2>2 DEF RangeEnds, Top
  <2>3. CASE Processed(u)
    BY <2>3 DEF Processed, Top
  <2>4. CASE ProcessFails(u)
    BY <2>4 DEF ProcessFails, Top
  <2>5. CASE CommitMsg(u)
    BY <2>5 DEF CommitMsg, Top
  <2>6. CASE CommitFails(u)
    BY <2>6 DEF CommitFails, Top
  <2> QED
    BY <1>2, <2>1, <2>2, <2>3, <2>4, <2>5, <2>6 DEF UserStep
<1>3. CASE CloseOut
  BY <1>3 DEF CloseOut, Top
<1>4. CASE GracefulShutdown \/ CloseReader \/ CtxCancel
  BY <1>4 DEF GracefulShutdown, CloseReader, CtxCancel, Top
<1>5. CASE Restart
  <2>1. /\ out' = <<>> /\ worker'[w] = "loop" /\ next' = committed /\ setup' = setup
        /\ \A u \in Readers : cur'[u] = NoMsg
    BY <1>5 DEF Restart, Fresh
  <2> QED
    BY <1>m, <2>1 DEF Top
<1>6. CASE UNCHANGED vars
  BY <1>6 DEF vars, Top
<1> QED
  BY <1>1, <1>2, <1>3, <1>4, <1>5, <1>6 DEF Next, Terminated

\* With one worker a message below Top stays accounted for until a restart.
LEMMA AccountedStep ==
    ASSUME NEW w \in Workers, Started = {w}, TypeOK, TypeOK', Ordered(w), [Next]_vars,
           restarts = 0 => Accounted(w), restarts' = 0
    PROVE  Accounted(w)'
<1> USE Numbers
<1> USE DEF readerVars, workerVars, outVars, userVars, stopVars, WorkerGoto, UserGoto,
            Started, Readers, Poison
<1>m. /\ Len(out) \in Nat /\ committed \in Nat /\ next \in Nat
      /\ \A i \in 1 .. Len(out) : out[i] \in Nat
      /\ \A u \in Readers : cur[u] \in Int
      /\ Top(w) \in Nat
  BY Measured
<1>t. /\ worker \in [Started -> WorkerStates] /\ held \in [Started -> Offsets \cup {NoMsg}]
      /\ user \in [Readers -> UserStates] /\ cur \in [Readers -> Offsets \cup {NoMsg}]
  BY DEF TypeOK
<1>r. ~Restart
  BY DEF Restart, TypeOK
<1>a. Accounted(w)
  <2>1. CASE restarts' = restarts
    BY <2>1
  <2>2. CASE restarts' # restarts
    BY <1>r, <2>2 DEF Next, WorkerStep, UserStep, WorkerStop, NoReader, WorkerFetch, FetchOk, FetchCancelled,
          FetchError, Send, SendGivenUp, CloseOut, Receive, RangeEnds, Processed, ProcessFails,
          CommitMsg, CommitFails, GracefulShutdown, CloseReader, CtxCancel, Terminated, vars
  <2> QED
    BY <2>1, <2>2
<1> USE <1>m, <1>t, <1>a
<1>1. ASSUME WorkerStep(w)
      PROVE  Accounted(w)'
  <2>1. CASE WorkerStop(w) \/ NoReader(w)
    BY <2>1 DEF WorkerStop, NoReader, Accounted, Top, Kept, Dropped
  <2>2. CASE WorkerFetch(w)
    BY <2>2 DEF WorkerFetch, Accounted, Top, Kept, Dropped
  <2>3. CASE FetchOk(w)
    BY <2>3 DEF FetchOk, Accounted, Top, Kept, Dropped
  <2>4. CASE FetchCancelled(w)
    BY <2>4 DEF FetchCancelled, Accounted, Top, Kept, Dropped
  <2>5. CASE FetchError(w)
    BY <2>5 DEF FetchError, Accounted, Top, Kept, Dropped
  <2>6. CASE Send(w)
    <3>1. PICK h \in Offsets : held[w] = h
      BY <2>6 DEF Send, TypeOK
    <3>2. /\ Len(out') = Len(out) + 1
          /\ \A i \in 1 .. Len(out) : i \in 1 .. Len(out') /\ out'[i] = out[i]
          /\ Len(out) + 1 \in 1 .. Len(out') /\ out'[Len(out) + 1] = h
      BY <2>6, <3>1, Appended DEF Send, TypeOK
    <3>3. /\ Top(w) = h /\ Top(w)' = h + 1 /\ worker[w] = "send"
          /\ committed' = committed
      BY <2>6, <3>1 DEF Send, Top, Ordered
    <3>4. Kept(h)'
      BY <3>2 DEF Kept
    <3>5. \A m \in Offsets : Kept(m) => Kept(m)'
      BY <2>6, <3>2 DEF Kept, Send
    <3>6. \A m \in Offsets : m < h => Kept(m)
      BY <3>3 DEF Accounted, Dropped
    <3>7. \A m \in Offsets : m < h + 1 => m < h \/ m = h
      OBVIOUS
    <3> QED
      BY <3>3, <3>4, <3>5, <3>6, <3>7 DEF Accounted
  <2>7. CASE SendGivenUp(w)
    <3>1. PICK h \in Offsets : held[w] = h
      BY <2>7 DEF SendGivenUp, TypeOK
    <3>2. /\ Top(w) = h /\ Top(w)' = h + 1
          /\ worker[w] = "send" /\ worker'[w] = "done"
          /\ out' = out /\ cur' = cur /\ committed' = committed
          /\ next' = next /\ next = h + 1 /\ setup' = setup
      BY <2>7, <3>1 DEF SendGivenUp, Top, Ordered
    <3>3. Dropped(w, h)'
      BY <3>2 DEF Dropped, Ordered, Accounted
    <3>4. \A m \in Offsets : m < h => Kept(m)'
      BY <2>7, <3>2 DEF Accounted, Kept, Dropped, SendGivenUp
    <3>5. \A m \in Offsets : m < h + 1 => m < h \/ m = h
      OBVIOUS
    <3> QED
      BY <3>2, <3>3, <3>4, <3>5 DEF Accounted
  <2> QED
    BY <1>1, <2>1, <2>2, <2>3, <2>4, <2>5, <2>6, <2>7 DEF WorkerStep
<1>2. ASSUME NEW u \in Readers, UserStep(u)
      PROVE  Accounted(w)'
  <2>1. CASE Receive(u)
    <3>1. /\ Head(out) = out[1] /\ Len(out) \in Nat \ {0}
          /\ Len(out') = Len(out) - 1
          /\ \A i \in 1 .. Len(out') : out'[i] = out[i + 1]
      BY <2>1, TakenOff DEF Receive, TypeOK
    <3>2. /\ cur' = [cur EXCEPT ![u] = out[1]] /\ user' = [user EXCEPT ![u] = "process"]
          /\ user[u] = "receive"
          /\ Top(w)' = Top(w) /\ setup' = setup /\ worker' = worker /\ next' = next
          /\ committed' = committed /\ processed' = processed
      BY <2>1, <3>1 DEF Receive, Top
    <3>3. \A i \in 1 .. Len(out) : i = 1 \/ (i - 1 \in 1 .. Len(out') /\ out'[i - 1] = out[i])
      BY <3>1
    <3>4. \A v \in Readers : /\ cur'[v] = IF v = u THEN out[1] ELSE cur[v]
                             /\ user'[v] = IF v = u THEN "process" ELSE user[v]
      BY <3>2
    <3>5. \A m \in Offsets : Kept(m) => Kept(m)'
      <4> SUFFICES ASSUME NEW m \in Offsets, Kept(m)
                   PROVE  Kept(m)'
        OBVIOUS
      <4>1. CASE m \in processed \cup Poison
        BY <3>2, <4>1 DEF Kept
      <4>2. ASSUME NEW i \in 1 .. Len(out), out[i] = m
            PROVE  Kept(m)'
        BY <3>2, <3>3, <3>4, <4>2 DEF Kept
      <4>3. ASSUME NEW v \in Readers, user[v] = "process", cur[v] = m
            PROVE  Kept(m)'
        <5>1. user'[v] = "process" /\ cur'[v] = m
          BY <3>2, <3>4, <4>3
        <5> QED
          BY <3>2, <5>1 DEF Kept
      <4> QED
        BY <4>1, <4>2, <4>3 DEF Kept
    <3>6. \A i \in 1 .. Len(out') : i + 1 \in 1 .. Len(out) /\ 1 \in 1 .. Len(out)
      BY <3>1
    <3>7. \A m \in Offsets : Dropped(w, m) => Dropped(w, m)'
      BY <3>1, <3>2, <3>4, <3>6 DEF Dropped
    <3> QED
      BY <3>2, <3>5, <3>7 DEF Accounted
  <2>2. CASE RangeEnds(u)
    BY <2>2 DEF RangeEnds, Accounted, Top, Kept, Dropped
  <2>3. CASE Processed(u)
    BY <2>3 DEF Processed, Accounted, Top, Kept, Dropped
  <2>4. CASE ProcessFails(u)
    BY <2>4 DEF ProcessFails, Accounted, Top, Kept, Dropped
  <2>5. CASE CommitMsg(u) \/ CommitFails(u)
    <3>1. /\ committed' \in {committed, cur[u] + 1} /\ cur[u] \in Offsets /\ user[u] = "commit"
          /\ Top(w)' = Top(w) /\ setup' = setup /\ worker' = worker /\ next' = next
          /\ out' = out /\ cur' = cur /\ processed' = processed
          /\ user' = [user EXCEPT ![u] = "receive"]
      BY <2>5 DEF CommitMsg, CommitFails, Top, TypeOK
    <3>2. \A m \in Offsets : Kept(m) => Kept(m)'
      BY <3>1 DEF Kept
    <3>3. \A m \in Offsets : Dropped(w, m) => Dropped(w, m)'
      BY <3>1 DEF Dropped
    <3>4. cur[u] + 1 <= Top(w)
      BY <3>1 DEF Ordered
    <3> QED
      BY <3>1, <3>2, <3>3, <3>4 DEF Accounted
  <2> QED
    BY <1>2, <2>1, <2>2, <2>3, <2>4, <2>5 DEF UserStep
<1>3. CASE CloseOut
  BY <1>3 DEF CloseOut, Accounted, Top, Kept, Dropped
<1>4. CASE GracefulShutdown \/ CloseReader \/ CtxCancel
  BY <1>4 DEF GracefulShutdown, CloseReader, CtxCancel, Accounted, Top, Kept, Dropped
<1>5. CASE UNCHANGED vars
  BY <1>5 DEF vars, Accounted, Top, Kept, Dropped
<1> QED
  BY <1>r, <1>1, <1>2, <1>3, <1>4, <1>5 DEF Next, Terminated

\* With one worker and one user every step leaves the way of the messages
\* without a gap, a restart included.
LEMMA GaplessStep ==
    ASSUME NEW w \in Workers, NEW u \in Users, Started = {w}, Readers = {u},
           TypeOK, TypeOK', Ordered(w), Gapless(w, u), [Next]_vars
    PROVE  Gapless(w, u)'
<1> USE Numbers DEF Gapless, Pending, Covered
<1> USE DEF readerVars, workerVars, outVars, userVars, stopVars, WorkerGoto, UserGoto,
            Started, Readers, Poison
<1>m. /\ Len(out) \in Nat /\ committed \in Nat /\ next \in Nat
      /\ cur[u] \in Int /\ (cur[u] = NoMsg \/ cur[u] \in Nat)
      /\ user[u] \in {"process", "commit"} => cur[u] \in Offsets
  BY Measured DEF TypeOK
<1>t. /\ worker \in [Started -> WorkerStates] /\ held \in [Started -> Offsets \cup {NoMsg}]
      /\ user \in [Readers -> UserStates] /\ cur \in [Readers -> Offsets \cup {NoMsg}]
  BY DEF TypeOK
<1> USE <1>m, <1>t
<1>1. ASSUME WorkerStep(w)
      PROVE  Gapless(w, u)'
  <2>1. CASE WorkerStop(w) \/ NoReader(w)
    BY <2>1 DEF WorkerStop, NoReader
  <2>2. CASE WorkerFetch(w)
    BY <2>2 DEF WorkerFetch
  <2>3. CASE FetchOk(w)
    BY <2>3 DEF FetchOk
  <2>4. CASE FetchCancelled(w)
    BY <2>4 DEF FetchCancelled
  <2>5. CASE FetchError(w)
    BY <2>5 DEF FetchError
  <2>6. CASE Send(w)
    <3>1. /\ Len(out') = Len(out) + 1
          /\ \A i \in 1 .. Len(out) : out'[i] = out[i]
          /\ out'[Len(out) + 1] = held[w]
      BY <2>6, Appended DEF Send, TypeOK
    <3>2. /\ held[w] = Pending(u) + Len(out) /\ worker'[w] = "loop" /\ Pending(u)' = Pending(u)
          /\ user' = user /\ cur' = cur /\ committed' = committed /\ processed' = processed
          /\ setup' = setup /\ next' = next
      BY <2>6 DEF Send
    <3>3. next = held[w] + 1
      BY <2>6 DEF Send, Ordered
    <3>4. \A i \in 1 .. Len(out') : i \in 1 .. Len(out) \/ i = Len(out) + 1
      BY <3>1
    <3>5. \A i \in 1 .. Len(out') : out'[i] = Pending(u)' + i - 1
      <4>1. Pending(u) \in Int /\ Len(out) \in Nat
        OBVIOUS
      <4>2. \A i \in 1 .. Len(out) : out[i] = Pending(u) + i - 1
        OBVIOUS
      <4> HIDE <1>m, <1>t DEF Pending, Gapless, Ordered
      <4>3. \A i \in 1 .. Len(out) : out'[i] = Pending(u)' + i - 1
        BY <3>1, <3>2, <4>2
      <4>4. out'[Len(out) + 1] = Pending(u)' + (Len(out) + 1) - 1
        BY <3>1, <3>2, <4>1
      <4> QED
        BY <3>4, <4>3, <4>4
    <3>6. committed' <= Pending(u)'
      BY <3>2
    <3>7. /\ user'[u] = "process" => Covered(cur[u])' /\ committed' <= cur'[u]
          /\ user'[u] # "process" => Covered(Pending(u))'
      BY <3>2
    <3>8. worker'[w] \in {"loop", "fetch"} => next' = Pending(u)' + Len(out')
      <4>1. Pending(u) \in Int /\ Len(out) \in Nat
        OBVIOUS
      <4>2. next' = (Pending(u) + Len(out)) + 1
        BY <3>2, <3>3
      <4> HIDE <1>m, <1>t DEF Pending, Gapless, Ordered
      <4> QED
        BY <3>1, <3>2, <4>1, <4>2
    <3> QED
      BY <3>2, <3>5, <3>6, <3>7, <3>8
  <2>7. CASE SendGivenUp(w)
    BY <2>7 DEF SendGivenUp
  <2> QED
    BY <1>1, <2>1, <2>2, <2>3, <2>4, <2>5, <2>6, <2>7 DEF WorkerStep
<1>2. ASSUME UserStep(u)
      PROVE  Gapless(w, u)'
  <2>1. CASE Receive(u)
    <3>1. /\ Head(out) = out[1] /\ Len(out) \in Nat \ {0}
          /\ Len(out') = Len(out) - 1
          /\ \A i \in 1 .. Len(out') : out'[i] = out[i + 1]
      BY <2>1, TakenOff DEF Receive, TypeOK
    <3>2. out[1] = Pending(u) /\ out[1] \in Offsets
      BY <3>1, Measured
    <3>3. /\ cur'[u] = out[1] /\ user'[u] = "process" /\ user[u] = "receive"
          /\ committed' = committed /\ processed' = processed /\ setup' = setup
          /\ worker' = worker /\ held' = held /\ next' = next
      BY <2>1, <3>1 DEF Receive
    <3>4. Pending(u)' = Pending(u) + 1
      BY <3>2, <3>3
    <3>5. \A i \in 1 .. Len(out') : out'[i] = Pending(u)' + i - 1
      BY <3>1, <3>4
    <3>6. Covered(cur[u])' /\ committed' <= cur'[u]
      BY <3>2, <3>3
    <3>7. /\ worker'[w] = "send" => held'[w] = Pending(u)' + Len(out')
          /\ worker'[w] \in {"loop", "fetch"} => next' = Pending(u)' + Len(out')
      <4>1. Pending(u) \in Int
        OBVIOUS
      <4> HIDE DEF Pending
      <4> QED
        BY <3>1, <3>3, <3>4, <4>1
    <3>8. committed' <= Pending(u)'
      BY <3>3, <3>4
    <3> QED
      BY <3>3, <3>5, <3>6, <3>7, <3>8
  <2>2. CASE RangeEnds(u)
    BY <2>2 DEF RangeEnds
  <2>3. CASE Processed(u)
    BY <2>3 DEF Processed
  <2>4. CASE ProcessFails(u)
    BY <2>4 DEF ProcessFails
  <2>5. CASE CommitMsg(u)
    BY <2>5 DEF CommitMsg
  <2>6. CASE CommitFails(u)
    BY <2>6 DEF CommitFails
  <2> QED
    BY <1>2, <2>1, <2>2, <2>3, <2>4, <2>5, <2>6 DEF UserStep
<1>3. CASE CloseOut
  BY <1>3 DEF CloseOut
<1>4. CASE GracefulShutdown \/ CloseReader \/ CtxCancel
  BY <1>4 DEF GracefulShutdown, CloseReader, CtxCancel
<1>5. CASE Restart
  <2>1. /\ out' = <<>> /\ worker'[w] = "loop" /\ next' = committed /\ setup' = setup
        /\ cur'[u] = NoMsg /\ user'[u] = "receive"
        /\ committed' = committed /\ processed' = processed
    BY <1>5 DEF Restart, Fresh
  <2>2. Covered(committed)
    OBVIOUS
  <2> QED
    BY <2>1, <2>2
<1>6. CASE UNCHANGED vars
  BY <1>6 DEF vars
<1> QED
  BY <1>1, <1>2, <1>3, <1>4, <1>5, <1>6 DEF Next, Terminated

-----------------------------------------------------------------------------
\* The invariant of a consumer with the one worker w.
Single(w) ==
    Started = {w} => Ordered(w) /\ (restarts = 0 => Accounted(w))

\* ... and with the one user u.
Pair(w, u) == Started = {w} /\ Readers = {u} => Gapless(w, u)

LEMMA SetupFixed == [Next]_vars => setup' = setup
BY DEF Next, WorkerStep, UserStep, WorkerStop, NoReader, WorkerFetch, FetchOk, FetchCancelled, FetchError,
       Send, SendGivenUp, CloseOut, Receive, RangeEnds, Processed, ProcessFails, CommitMsg,
       CommitFails, GracefulShutdown, CloseReader, CtxCancel, Restart, Terminated, vars

LEMMA SingleInvariance == ASSUME NEW w \in Workers PROVE Spec => []Single(w)
<1>1. Init => Single(w)
  <2> SUFFICES ASSUME Init, Started = {w}
               PROVE  Ordered(w) /\ Accounted(w)
    BY DEF Single
  <2>1. /\ out = <<>> /\ worker[w] = "loop" /\ next = 0 /\ committed = 0
        /\ \A u \in Readers : cur[u] = NoMsg
    BY DEF Init, Fresh
  <2> QED
    BY <2>1, Numbers DEF Ordered, Accounted, Top
<1>2. TypeOK /\ TypeOK' /\ Single(w) /\ [Next]_vars => Single(w)'
  <2> SUFFICES ASSUME TypeOK, TypeOK', Single(w), [Next]_vars, Started' = {w}
               PROVE  Ordered(w)' /\ (restarts' = 0 => Accounted(w)')
    BY DEF Single
  <2>1. Started = {w} /\ Ordered(w) /\ (restarts = 0 => Accounted(w))
    BY SetupFixed DEF Started, Single
  <2>2. Ordered(w)'
    BY <2>1, OrderedStep
  <2>3. restarts' = 0 => Accounted(w)'
    BY <2>1, AccountedStep
  <2> QED
    BY <2>2, <2>3
<1> QED
  BY <1>1, <1>2, TypeCorrect, PTL DEF Spec

LEMMA PairInvariance ==
    ASSUME NEW w \in Workers, NEW u \in Users PROVE Spec => []Pair(w, u)
<1>1. Init => Pair(w, u)
  <2> SUFFICES ASSUME Init, Started = {w}, Readers = {u}
               PROVE  Gapless(w, u)
    BY DEF Pair
  <2>1. /\ out = <<>> /\ worker[w] = "loop" /\ next = 0 /\ committed = 0
        /\ cur[u] = NoMsg /\ user[u] = "receive"
    BY DEF Init, Fresh
  <2> QED
    BY <2>1, Numbers DEF Gapless, Pending, Covered
<1>2. TypeOK /\ TypeOK' /\ Single(w) /\ Pair(w, u) /\ [Next]_vars => Pair(w, u)'
  <2> SUFFICES ASSUME TypeOK, TypeOK', Single(w), Pair(w, u), [Next]_vars,
                      Started' = {w}, Readers' = {u}
               PROVE  Gapless(w, u)'
    BY DEF Pair
  <2>1. Started = {w} /\ Readers = {u}
    BY SetupFixed DEF Started, Readers
  <2>2. Ordered(w) /\ Gapless(w, u)
    BY <2>1 DEF Single, Pair
  <2> QED
    BY <2>1, <2>2, GaplessStep
<1> QED
  BY <1>1, <1>2, TypeCorrect, SingleInvariance, PTL DEF Spec

\* With one worker the users receive the messages of the partition in order,
\* whatever fails, stops or restarts.
THEOREM MessagesInOrder == Spec => []InOrder
<1>1. (\A w \in Workers : Single(w)) /\ TypeOK => InOrder
  BY DEF InOrder, Alone, Single, Ordered, Top, Started, Readers
<1>2. Spec => [](\A w \in Workers : Single(w))
  BY SingleInvariance
<1> QED
  BY <1>1, <1>2, TypeCorrect, PTL

\* With one worker and one user no restart, shutdown or failing commit loses a
\* message; with several users none is lost before the first restart.
THEOREM NothingLostAlone == Spec => []NoLossAlone
<1>1. /\ \A w \in Workers : Single(w)
      /\ \A w \in Workers, u \in Users : Pair(w, u)
      /\ TypeOK
      => NoLossAlone
  <2> SUFFICES ASSUME \A w \in Workers : Single(w), TypeOK,
                      \A w \in Workers, u \in Users : Pair(w, u),
                      NEW w \in Workers, Started = {w}
               PROVE  /\ OneUser => 0 .. committed - 1 \subseteq processed \cup Poison
                      /\ restarts = 0 =>
                           0 .. committed - 1 \subseteq processed \cup Poison \cup InFlight
    BY DEF NoLossAlone, Alone
  <2>1. ASSUME OneUser
        PROVE  0 .. committed - 1 \subseteq processed \cup Poison
    <3> PICK u \in Users : Readers = {u}
      BY <2>1 DEF OneUser
    <3>1. Gapless(w, u)
      BY DEF Pair
    <3>2. Pending(u) \in Int /\ cur[u] \in Int /\ committed \in Nat
      BY Measured DEF Pending
    <3> QED
      BY <3>1, <3>2 DEF Gapless, Covered
  <2>2. ASSUME restarts = 0
        PROVE  0 .. committed - 1 \subseteq processed \cup Poison \cup InFlight
    <3>1. Accounted(w) /\ committed \in 0 .. NumMsgs /\ Top(w) \in Nat
      BY <2>2, Measured DEF Single, TypeOK
    <3>2. \A m \in 0 .. committed - 1 : m \in Offsets /\ m < Top(w) /\ ~Dropped(w, m)
      BY <3>1, Numbers DEF Accounted, Dropped, Offsets
    <3>3. \A m \in 0 .. committed - 1 : Kept(m)
      BY <3>1, <3>2 DEF Accounted
    <3> QED
      BY <3>3 DEF Kept, InFlight, Hands
  <2> QED
    BY <2>1, <2>2
<1>2. Spec => [](\A w \in Workers : Single(w))
  BY SingleInvariance
<1>3. Spec => [](\A w \in Workers, u \in Users : Pair(w, u))
  BY PairInvariance
<1> QED
  BY <1>1, <1>2, <1>3, TypeCorrect, PTL

\* With one worker and one user no step takes the committed offset back: what the
\* user commits is the message in front of everything still on its way.
THEOREM CommitsNeverGoBack == Spec => CommittedOnlyGrows
<1>1. /\ \A w \in Workers, u \in Users : Pair(w, u)
      /\ TypeOK
      /\ [Next]_vars
      => [Alone /\ OneUser => committed' >= committed]_vars
  <2> SUFFICES ASSUME \A w \in Workers, u \in Users : Pair(w, u), TypeOK, [Next]_vars,
                      NEW w \in Workers, Started = {w}, NEW u \in Users, Readers = {u}
               PROVE  committed' >= committed
    BY DEF Alone, OneUser
  <2>1. committed \in Nat /\ (user[u] = "commit" => cur[u] \in Nat /\ committed <= cur[u] + 1)
    <3>1. Gapless(w, u)
      BY DEF Pair
    <3>2. user[u] = "commit" => cur[u] \in Nat /\ cur[u] # NoMsg
      <4>1. user[u] = "commit" => cur[u] \in Offsets
        BY DEF TypeOK
      <4>2. \A m \in Offsets : m \in Nat /\ m # NoMsg
        BY Numbers
      <4> QED
        BY <4>1, <4>2
    <3> QED
      BY <3>1, <3>2, Measured DEF Gapless, Pending
  <2>2. committed' = committed \/ (user[u] = "commit" /\ committed' = cur[u] + 1)
    <3>1. ASSUME NEW v \in Readers, UserStep(v)
          PROVE  committed' = committed \/ (user[v] = "commit" /\ committed' = cur[v] + 1)
      BY <3>1 DEF UserStep, Receive, RangeEnds, Processed, ProcessFails, CommitMsg, CommitFails
    <3>2. (\A v \in Readers : ~UserStep(v)) => committed' = committed
      BY DEF Next, WorkerStep, WorkerStop, NoReader, WorkerFetch, FetchOk, FetchCancelled,
             FetchError, Send, SendGivenUp, CloseOut, GracefulShutdown, CloseReader, CtxCancel,
             Restart, Terminated, vars
    <3> QED
      BY <3>1, <3>2
  <2> QED
    BY <2>1, <2>2
<1>2. Spec => [](\A w \in Workers, u \in Users : Pair(w, u))
  BY PairInvariance
<1> QED
  BY <1>1, <1>2, TypeCorrect, PTL DEF Spec, CommittedOnlyGrows

-----------------------------------------------------------------------------
(* Any number of workers and users. *)

Sending(w)  == worker[w] = "send"
Handling(u) == user[u] \in {"process", "commit"}

\* A message that was fetched is in one place only: with one worker, at one
\* place of the channel, or with one user; and a user commits what was processed.
Once ==
    /\ \A w \in Started : IF Sending(w) THEN held[w] < next ELSE held[w] = NoMsg
    /\ \A i \in 1 .. Len(out) : out[i] < next
    /\ \A u \in Readers : Handling(u) => cur[u] < next
    /\ \A v, w \in Started : Sending(v) /\ Sending(w) /\ v # w => held[v] # held[w]
    /\ \A i, j \in 1 .. Len(out) : i # j => out[i] # out[j]
    /\ \A u, v \in Readers : Handling(u) /\ Handling(v) /\ u # v => cur[u] # cur[v]
    /\ \A w \in Started, i \in 1 .. Len(out) : Sending(w) => held[w] # out[i]
    /\ \A w \in Started, u \in Readers : Sending(w) /\ Handling(u) => held[w] # cur[u]
    /\ \A i \in 1 .. Len(out), u \in Readers : Handling(u) => out[i] # cur[u]
    /\ \A u \in Readers : user[u] = "commit" => cur[u] \in processed

\* The types, as the steps below need them.
LEMMA Typed ==
    ASSUME TypeOK
    PROVE  /\ worker \in [Started -> WorkerStates] /\ held \in [Started -> Offsets \cup {NoMsg}]
           /\ user \in [Readers -> UserStates] /\ cur \in [Readers -> Offsets \cup {NoMsg}]
           /\ out \in Seq(Offsets) /\ Len(out) \in Nat /\ next \in 0 .. NumMsgs /\ next \in Nat
           /\ \A i \in 1 .. Len(out) : out[i] \in Offsets
           /\ \A w \in Started : Sending(w) => held[w] \in Offsets
           /\ \A u \in Readers : Handling(u) => cur[u] \in Offsets
<1>1. Len(out) \in Nat /\ \A i \in 1 .. Len(out) : out[i] \in Offsets
  BY Measured
<1> QED
  BY <1>1, Numbers DEF TypeOK, Sending, Handling

\* What the steps that move a message do with it.
LEMMA SendEffect ==
    ASSUME TypeOK, NEW w \in Started, Send(w)
    PROVE  /\ Sending(w) /\ held[w] \in Offsets
           /\ worker' = [worker EXCEPT ![w] = "loop"] /\ held' = [held EXCEPT ![w] = NoMsg]
           /\ Len(out') = Len(out) + 1
           /\ \A i \in 1 .. Len(out) : out'[i] = out[i]
           /\ out'[Len(out) + 1] = held[w]
           /\ \A i \in 1 .. Len(out') : i \in 1 .. Len(out) \/ i = Len(out) + 1
           /\ UNCHANGED <<setup, committed, readerVars, userVars, stopVars, restarts, processed>>
<1>1. Sending(w) /\ held[w] \in Offsets /\ out \in Seq(Offsets) /\ Len(out) \in Nat
  BY Typed DEF Send, Sending
<1>2. out' = Append(out, held[w])
  BY DEF Send
<1>3. /\ Len(out') = Len(out) + 1
      /\ \A i \in 1 .. Len(out) : out'[i] = out[i]
      /\ out'[Len(out) + 1] = held[w]
  BY <1>1, <1>2, Appended
<1>4. \A i \in 1 .. Len(out') : i \in 1 .. Len(out) \/ i = Len(out) + 1
  BY <1>1, <1>3
<1> QED
  BY <1>1, <1>3, <1>4 DEF Send, WorkerGoto

LEMMA ReceiveEffect ==
    ASSUME TypeOK, NEW u \in Readers, Receive(u)
    PROVE  /\ user[u] = "receive" /\ out[1] \in Offsets /\ Len(out) \in Nat \ {0}
           /\ user' = [user EXCEPT ![u] = "process"] /\ cur' = [cur EXCEPT ![u] = out[1]]
           /\ Len(out') = Len(out) - 1
           /\ \A i \in 1 .. Len(out') : out'[i] = out[i + 1] /\ i + 1 \in 1 .. Len(out)
           /\ \A i \in 1 .. Len(out) : i = 1 \/ (i - 1 \in 1 .. Len(out') /\ out'[i - 1] = out[i])
           /\ UNCHANGED <<setup, committed, readerVars, workerVars, stopVars, restarts, processed>>
<1>1. out \in Seq(Offsets) /\ out # <<>> /\ out' = Tail(out)
  BY Typed DEF Receive
<1>2. /\ Head(out) = out[1] /\ Head(out) \in Offsets /\ Len(out) \in Nat \ {0}
      /\ Len(out') = Len(out) - 1
      /\ \A i \in 1 .. Len(out') : out'[i] = out[i + 1]
  BY <1>1, TakenOff
<1>3. /\ \A i \in 1 .. Len(out') : i + 1 \in 1 .. Len(out)
      /\ \A i \in 1 .. Len(out) : i = 1 \/ i - 1 \in 1 .. Len(out')
  BY <1>2
<1>4. \A i \in 1 .. Len(out) : i - 1 \in 1 .. Len(out') => out'[i - 1] = out[i]
  BY <1>2
<1> QED
  BY <1>2, <1>3, <1>4 DEF Receive, UserGoto

LEMMA OnceStep == TypeOK /\ Once /\ [Next]_vars => Once'
<1> SUFFICES ASSUME TypeOK, Once, [Next]_vars
             PROVE  Once'
  OBVIOUS
<1> USE Typed, Numbers
<1> USE DEF readerVars, workerVars, outVars, userVars, stopVars, WorkerGoto, UserGoto,
            Started, Readers, Sending, Handling
<1>1. ASSUME NEW w \in Started, WorkerStep(w)
      PROVE  Once'
  <2>1. CASE WorkerStop(w) \/ NoReader(w) \/ WorkerFetch(w) \/ FetchCancelled(w) \/ FetchError(w)
    <3>1. /\ worker[w] # "send" /\ \E label \in {"loop", "fetch", "done"} :
                                       worker' = [worker EXCEPT ![w] = label]
          /\ UNCHANGED <<setup, held, next, out, user, cur, processed>>
      BY <2>1 DEF WorkerStop, NoReader, WorkerFetch, FetchCancelled, FetchError
    <3>2. \A v \in Started : worker'[v] = "send" <=> worker[v] = "send"
      BY <3>1
    <3> QED
      BY <3>1, <3>2 DEF Once
  <2>2. CASE FetchOk(w)
    <3>1. /\ worker[w] = "fetch" /\ worker' = [worker EXCEPT ![w] = "send"]
          /\ held' = [held EXCEPT ![w] = next] /\ next' = next + 1
          /\ UNCHANGED <<setup, out, user, cur, processed>>
      BY <2>2 DEF FetchOk
    <3>2. \A v \in Started : /\ worker'[v] = IF v = w THEN "send" ELSE worker[v]
                             /\ held'[v] = IF v = w THEN next ELSE held[v]
      BY <3>1
    <3>3. /\ \A v \in Started : worker[v] = "send" => held[v] < next /\ held[v] \in Nat
          /\ \A i \in 1 .. Len(out) : out[i] < next /\ out[i] \in Nat
          /\ \A u \in Readers : Handling(u) => cur[u] < next /\ cur[u] \in Nat
      BY DEF Once
    <3> QED
      BY <3>1, <3>2, <3>3 DEF Once
  <2>3. CASE Send(w)
    <3>1. \A v \in Started : /\ worker'[v] = IF v = w THEN "loop" ELSE worker[v]
                             /\ held'[v] = IF v = w THEN NoMsg ELSE held[v]
      BY <2>3, SendEffect
    <3>2. \A i \in 1 .. Len(out') :
              \/ i \in 1 .. Len(out) /\ out'[i] = out[i]
              \/ i = Len(out) + 1 /\ out'[i] = held[w] /\ i \notin 1 .. Len(out)
      BY <2>3, SendEffect
    <3>3. Sending(w) /\ UNCHANGED <<setup, next, user, cur, processed>>
      BY <2>3, SendEffect
    <3>4. /\ \A v \in Started : IF Sending(v)' THEN held'[v] < next' ELSE held'[v] = NoMsg
          /\ \A v, x \in Started : Sending(v)' /\ Sending(x)' /\ v # x => held'[v] # held'[x]
          /\ \A v \in Started, u \in Readers : Sending(v)' /\ Handling(u)' => held'[v] # cur'[u]
      BY <3>1, <3>3 DEF Once
    <3>5. /\ \A i \in 1 .. Len(out') : out'[i] < next'
          /\ \A i \in 1 .. Len(out'), u \in Readers : Handling(u)' => out'[i] # cur'[u]
      <4>1. \A i \in 1 .. Len(out') : out'[i] = held[w] \/ \E k \in 1 .. Len(out) : out'[i] = out[k]
        BY <3>2
      <4>2. /\ held[w] < next /\ \A k \in 1 .. Len(out) : out[k] < next
            /\ \A u \in Readers : Handling(u) =>
                   held[w] # cur[u] /\ \A k \in 1 .. Len(out) : out[k] # cur[u]
        BY <3>3 DEF Once
      <4>3. \A u \in Readers : Handling(u)' = Handling(u) /\ cur'[u] = cur[u]
        BY <3>3
      <4> QED
        BY <3>3, <4>1, <4>2, <4>3
    <3>6. \A i, j \in 1 .. Len(out') : i # j => out'[i] # out'[j]
      BY <3>2, <3>3 DEF Once
    <3>7. \A v \in Started, i \in 1 .. Len(out') : Sending(v)' => held'[v] # out'[i]
      BY <3>1, <3>2, <3>3 DEF Once
    <3> QED
      BY <3>3, <3>4, <3>5, <3>6, <3>7 DEF Once
  <2>4. CASE SendGivenUp(w)
    <3>1. /\ worker' = [worker EXCEPT ![w] = "done"] /\ held' = [held EXCEPT ![w] = NoMsg]
          /\ UNCHANGED <<setup, next, out, user, cur, processed>>
      BY <2>4 DEF SendGivenUp
    <3>2. \A v \in Started : /\ worker'[v] = IF v = w THEN "done" ELSE worker[v]
                             /\ held'[v] = IF v = w THEN NoMsg ELSE held[v]
      BY <3>1
    <3> QED
      BY <3>1, <3>2 DEF Once
  <2> QED
    BY <1>1, <2>1, <2>2, <2>3, <2>4 DEF WorkerStep
<1>2. ASSUME NEW u \in Readers, UserStep(u)
      PROVE  Once'
  <2>1. CASE Receive(u)
    <3>1. \A v \in Readers : /\ user'[v] = IF v = u THEN "process" ELSE user[v]
                             /\ cur'[v] = IF v = u THEN out[1] ELSE cur[v]
      BY <2>1, ReceiveEffect
    <3>2. /\ 1 \in 1 .. Len(out) /\ user[u] = "receive"
          /\ \A i \in 1 .. Len(out') : out'[i] = out[i + 1] /\ i + 1 \in 1 .. Len(out) /\ i + 1 # 1
          /\ UNCHANGED <<setup, next, worker, held, processed>>
      BY <2>1, ReceiveEffect
    <3>3. \A i, j \in 1 .. Len(out') : i # j => i + 1 # j + 1
      OBVIOUS
    <3>4. /\ \A i \in 1 .. Len(out') : out'[i] < next'
          /\ \A i, j \in 1 .. Len(out') : i # j => out'[i] # out'[j]
      BY <3>2, <3>3 DEF Once
    <3>5. /\ \A v \in Readers : Handling(v)' => cur'[v] < next'
          /\ \A v, x \in Readers : Handling(v)' /\ Handling(x)' /\ v # x => cur'[v] # cur'[x]
          /\ \A v \in Readers : user'[v] = "commit" => cur'[v] \in processed'
      BY <3>1, <3>2 DEF Once
    <3>6. \A v \in Started, i \in 1 .. Len(out') : Sending(v)' => held'[v] # out'[i]
      BY <3>2 DEF Once
    <3>7. \A v \in Started, x \in Readers : Sending(v)' /\ Handling(x)' => held'[v] # cur'[x]
      BY <3>1, <3>2 DEF Once
    <3>8. \A i \in 1 .. Len(out'), v \in Readers : Handling(v)' => out'[i] # cur'[v]
      BY <3>1, <3>2 DEF Once
    <3> QED
      BY <3>2, <3>4, <3>5, <3>6, <3>7, <3>8 DEF Once
  <2>2. CASE RangeEnds(u) \/ ProcessFails(u) \/ CommitMsg(u) \/ CommitFails(u)
    <3>1. /\ \E label \in {"done", "receive"} : user' = [user EXCEPT ![u] = label]
          /\ UNCHANGED <<setup, next, worker, held, out, cur, processed>>
      BY <2>2 DEF RangeEnds, ProcessFails, CommitMsg, CommitFails
    <3>2. \A v \in Readers :
              user'[v] \in {"process", "commit"} => v # u /\ user'[v] = user[v]
      BY <3>1
    <3> QED
      BY <3>1, <3>2 DEF Once
  <2>3. CASE Processed(u)
    <3>1. /\ user' = [user EXCEPT ![u] = "commit"] /\ user[u] = "process"
          /\ processed' = processed \cup {cur[u]}
          /\ UNCHANGED <<setup, next, worker, held, out, cur>>
      BY <2>3 DEF Processed
    <3>2. \A v \in Readers : user'[v] = IF v = u THEN "commit" ELSE user[v]
      BY <3>1
    <3> QED
      BY <3>1, <3>2 DEF Once
  <2> QED
    BY <1>2, <2>1, <2>2, <2>3 DEF UserStep
<1>3. CASE CloseOut \/ GracefulShutdown \/ CloseReader \/ CtxCancel \/ UNCHANGED vars
  BY <1>3 DEF CloseOut, GracefulShutdown, CloseReader, CtxCancel, vars, Once
<1>4. CASE Restart
  <2>1. /\ out' = <<>> /\ worker' = [w \in Started |-> "loop"]
        /\ held' = [w \in Started |-> NoMsg] /\ user' = [u \in Readers |-> "receive"]
        /\ setup' = setup
    BY <1>4 DEF Restart, Fresh
  <2>2. Len(out') = 0
    BY <2>1
  <2> QED
    BY <2>1, <2>2 DEF Once
<1> QED
  BY <1>1, <1>2, <1>3, <1>4 DEF Next, Terminated

LEMMA OnceAlways == Spec => []Once
<1>1. Init => Once
  BY DEF Init, Fresh, Once, Sending, Handling
<1> QED
  BY <1>1, OnceStep, TypeCorrect, PTL DEF Spec

Ended == {w \in Started : worker[w] = "done"}

Known(m) == m \in processed \cup Poison \cup InFlight

Finite == IsFiniteSet(Missing) /\ IsFiniteSet(Ended)

LEMMA Counted == Spec => []Finite
<1>1. TypeOK => Finite
  <2> SUFFICES ASSUME TypeOK PROVE Finite
    OBVIOUS
  <2>1. IsFiniteSet(0 .. next - 1)
    <3>1. 0 \in Int /\ next - 1 \in Int
      BY Typed
    <3> QED
      BY <3>1, FS_Interval
  <2>2. Missing \in SUBSET (0 .. next - 1)
    BY DEF Missing
  <2>3. Ended \in SUBSET Workers /\ IsFiniteSet(Workers)
    BY ConsumerAssumption DEF Ended, TypeOK, Started
  <2> QED
    BY <2>1, <2>2, <2>3, FS_Subset DEF Finite
<1> QED
  BY <1>1, TypeCorrect, PTL

\* A step loses a message at most together with the worker that had it.
LEMMA LostStep ==
    ASSUME TypeOK, TypeOK', Once, [Next]_vars, ~Restart
    PROVE  \/ Missing' \subseteq Missing /\ Ended \subseteq Ended'
           \/ \E w \in Started, m \in Offsets :
                  /\ Missing' \subseteq Missing \cup {m}
                  /\ w \notin Ended /\ Ended' = Ended \cup {w}
<1> DEFINE Harmless == Missing' \subseteq Missing /\ Ended \subseteq Ended'
<1> USE Typed, Numbers
<1> USE DEF readerVars, workerVars, outVars, userVars, stopVars, WorkerGoto, UserGoto,
            Started, Readers, Poison, Sending, Handling
<1>h. ASSUME \A m \in 0 .. next' - 1 : Known(m) => Known(m)',
             next' = next \/ (next' = next + 1 /\ \A m \in {next} : Known(m)'),
             setup' = setup, \A w \in Started : worker[w] = "done" => worker'[w] = "done"
      PROVE  Harmless
  <2>1. \A m \in Missing' : m \in 0 .. next' - 1 /\ ~Known(m)'
    BY DEF Missing, Known
  <2>2. \A m \in Missing' : ~Known(m)
    BY <1>h, <2>1
  <2>3. \A m \in Missing' : m \in 0 .. next - 1
    <3>1. next \in Nat
      BY Typed
    <3>2. CASE next' = next
      BY <2>1, <3>2
    <3>3. CASE next' = next + 1 /\ \A m \in {next} : Known(m)'
      <4>1. \A m \in Missing' : m # next
        BY <2>1, <3>3
      <4> QED
        BY <2>1, <3>1, <3>3, <4>1
    <3> QED
      BY <1>h, <3>2, <3>3
  <2>4. Missing' \subseteq Missing
    BY <2>2, <2>3 DEF Missing, Known
  <2>5. Ended \subseteq Ended'
    BY <1>h DEF Ended
  <2> QED
    BY <2>4, <2>5
<1>1. ASSUME NEW w \in Started, WorkerStep(w), ~SendGivenUp(w)
      PROVE  Harmless
  <2>1. CASE WorkerStop(w) \/ NoReader(w) \/ WorkerFetch(w) \/ FetchCancelled(w) \/ FetchError(w)
    <3>1. /\ worker[w] # "done" /\ \E label \in {"loop", "fetch", "done"} :
                                       worker' = [worker EXCEPT ![w] = label]
          /\ UNCHANGED <<setup, held, next, out, user, cur, processed>>
      BY <2>1 DEF WorkerStop, NoReader, WorkerFetch, FetchCancelled, FetchError
    <3>2. Missing' = Missing
      BY <3>1 DEF Missing, InFlight, Hands
    <3>3. Ended \subseteq Ended'
      BY <3>1 DEF Ended
    <3> QED
      BY <3>2, <3>3
  <2>2. CASE FetchOk(w)
    <3>1. /\ worker[w] = "fetch" /\ worker' = [worker EXCEPT ![w] = "send"]
          /\ held' = [held EXCEPT ![w] = next] /\ next' = next + 1
          /\ UNCHANGED <<setup, out, user, cur, processed>>
      BY <2>2 DEF FetchOk
    <3>2. held[w] = NoMsg
      BY <3>1 DEF Once
    <3>3. /\ \A m \in Nat : m \in InFlight => m \in InFlight'
          /\ next \in InFlight'
      <4>1. \A v \in Started : held'[v] = IF v = w THEN next ELSE held[v]
        BY <3>1
      <4>2. NoMsg \notin Nat
        BY DEF NoMsg
      <4> QED
        BY <3>1, <3>2, <4>1, <4>2 DEF InFlight, Hands
    <3>4. \A m \in 0 .. next' - 1 : Known(m) => Known(m)'
      BY <3>1, <3>3 DEF Known
    <3>5. \A v \in Started : worker[v] = "done" => worker'[v] = "done"
      BY <3>1
    <3>6. (\A m \in {next} : Known(m)') /\ next' = next + 1 /\ setup' = setup
      BY <3>1, <3>3 DEF Known
    <3> QED
      BY <1>h, <3>4, <3>5, <3>6
  <2>3. CASE Send(w)
    <3>1. /\ \A v \in Started : held'[v] = IF v = w THEN NoMsg ELSE held[v]
          /\ \A v \in Started : worker[v] = "done" => worker'[v] = "done"
          /\ \A i \in 1 .. Len(out) : i \in 1 .. Len(out') /\ out'[i] = out[i]
          /\ Len(out) + 1 \in 1 .. Len(out') /\ out'[Len(out) + 1] = held[w]
          /\ UNCHANGED <<setup, next, user, cur, processed>>
      BY <2>3, SendEffect
    <3>2. \A m \in Nat : m \in InFlight => m \in InFlight'
      <4> SUFFICES ASSUME NEW m \in Nat, m \in InFlight
                   PROVE  m \in InFlight'
        OBVIOUS
      <4>1. CASE m \in Hands
        BY <3>1, <4>1 DEF InFlight, Hands
      <4>2. ASSUME NEW i \in 1 .. Len(out), out[i] = m
            PROVE  m \in InFlight'
        BY <3>1, <4>2 DEF InFlight
      <4>3. ASSUME NEW v \in Started, held[v] = m
            PROVE  m \in InFlight'
        <5>1. CASE v = w
          BY <3>1, <4>3, <5>1 DEF InFlight
        <5>2. CASE v # w
          BY <3>1, <4>3, <5>2 DEF InFlight
        <5> QED
          BY <5>1, <5>2
      <4> QED
        BY <4>1, <4>2, <4>3 DEF InFlight
    <3>3. \A m \in 0 .. next' - 1 : Known(m) => Known(m)'
      BY <3>1, <3>2 DEF Known
    <3> QED
      BY <1>h, <3>1, <3>3
  <2> QED
    BY <1>1, <2>1, <2>2, <2>3 DEF WorkerStep
<1>2. ASSUME NEW w \in Started, SendGivenUp(w)
      PROVE  /\ held[w] \in Offsets
             /\ Missing' \subseteq Missing \cup {held[w]}
             /\ w \notin Ended /\ Ended' = Ended \cup {w}
  <2>1. /\ worker[w] = "send" /\ worker' = [worker EXCEPT ![w] = "done"]
        /\ held' = [held EXCEPT ![w] = NoMsg]
        /\ UNCHANGED <<setup, next, out, user, cur, processed>>
    BY <1>2 DEF SendGivenUp
  <2>2. \A m \in InFlight : m = held[w] \/ m \in InFlight'
    BY <2>1 DEF InFlight, Hands
  <2>3. Missing' \subseteq Missing \cup {held[w]}
    BY <2>1, <2>2 DEF Missing
  <2>4. w \notin Ended /\ Ended' = Ended \cup {w}
    BY <2>1 DEF Ended
  <2> QED
    BY <2>1, <2>3, <2>4
<1>3. ASSUME NEW u \in Readers, UserStep(u)
      PROVE  Harmless
  <2>1. CASE Receive(u)
    <3>1. /\ \A v \in Readers : /\ user'[v] = IF v = u THEN "process" ELSE user[v]
                                /\ cur'[v] = IF v = u THEN out[1] ELSE cur[v]
          /\ \A i \in 1 .. Len(out) : i = 1 \/ (i - 1 \in 1 .. Len(out') /\ out'[i - 1] = out[i])
          /\ user[u] = "receive" /\ UNCHANGED <<setup, next, worker, held, processed>>
      BY <2>1, ReceiveEffect
    <3>2. \A m \in Nat : m \in InFlight => m \in InFlight'
      <4> SUFFICES ASSUME NEW m \in Nat, m \in InFlight
                   PROVE  m \in InFlight'
        OBVIOUS
      <4>1. ASSUME NEW v \in Readers, user[v] = "process", cur[v] = m
            PROVE  m \in InFlight'
        <5>1. user'[v] = "process" /\ cur'[v] = m
          BY <3>1, <4>1
        <5> QED
          BY <3>1, <5>1 DEF InFlight, Hands
      <4>2. ASSUME NEW i \in 1 .. Len(out), out[i] = m
            PROVE  m \in InFlight'
        <5>1. CASE i = 1
          <6>1. user'[u] = "process" /\ cur'[u] = m
            BY <3>1, <4>2, <5>1
          <6> QED
            BY <3>1, <6>1 DEF InFlight, Hands
        <5>2. CASE i # 1
          BY <3>1, <4>2, <5>2 DEF InFlight
        <5> QED
          BY <5>1, <5>2
      <4>3. ASSUME NEW v \in Started, held[v] = m
            PROVE  m \in InFlight'
        BY <3>1, <4>3 DEF InFlight
      <4> QED
        BY <4>1, <4>2, <4>3 DEF InFlight, Hands
    <3>3. \A m \in 0 .. next' - 1 : Known(m) => Known(m)'
      BY <3>1, <3>2 DEF Known
    <3> QED
      BY <1>h, <3>1, <3>3
  <2>2. CASE RangeEnds(u) \/ Processed(u) \/ ProcessFails(u) \/ CommitMsg(u) \/ CommitFails(u)
    <3>1. /\ processed \subseteq processed'
          /\ UNCHANGED <<setup, next, worker, held, out, cur>>
      BY <2>2 DEF RangeEnds, Processed, ProcessFails, CommitMsg, CommitFails
    <3>2. user[u] = "process" => cur[u] \in processed' \cup Poison
      BY <2>2 DEF RangeEnds, Processed, ProcessFails, CommitMsg, CommitFails
    <3>3. \A v \in Readers : v # u => user'[v] = user[v]
      BY <2>2 DEF RangeEnds, Processed, ProcessFails, CommitMsg, CommitFails
    <3>4. \A m \in InFlight : m \in InFlight' \/ m \in processed' \cup Poison
      BY <3>1, <3>2, <3>3 DEF InFlight, Hands
    <3>5. \A m \in 0 .. next' - 1 : Known(m) => Known(m)'
      BY <3>1, <3>4 DEF Known
    <3> QED
      BY <1>h, <3>1, <3>5
  <2> QED
    BY <1>3, <2>1, <2>2 DEF UserStep
<1>4. CASE CloseOut \/ GracefulShutdown \/ CloseReader \/ CtxCancel \/ UNCHANGED vars
  BY <1>4 DEF CloseOut, GracefulShutdown, CloseReader, CtxCancel, vars, Missing, InFlight, Hands,
              Ended
<1> QED
  BY <1>1, <1>2, <1>3, <1>4 DEF Next, Terminated

\* With any number of workers a process loses no more of what it fetched than one
\* message for each worker that has ended.
LEMMA MissingBounded == Spec => []OneLostPerWorker
<1>1. Init => OneLostPerWorker
  <2> SUFFICES ASSUME Init
               PROVE  Cardinality(Missing) <= Cardinality(Ended)
    BY DEF OneLostPerWorker, Ended
  <2>1. Missing = {} /\ Ended = {}
    BY DEF Init, Fresh, Missing, Ended
  <2> QED
    BY <2>1, FS_EmptySet
<1>2. TypeOK /\ TypeOK' /\ Finite /\ Finite' /\ Once /\ OneLostPerWorker /\ [Next]_vars => OneLostPerWorker'
  <2> SUFFICES ASSUME TypeOK, TypeOK', Finite, Finite', Once, OneLostPerWorker, [Next]_vars, restarts' = 0
               PROVE  Cardinality(Missing') <= Cardinality(Ended')
    BY DEF OneLostPerWorker, Ended
  <2>1. ~Restart /\ restarts = 0
    <3>1. ~Restart
      BY DEF Restart, TypeOK
    <3> QED
      BY <3>1 DEF Next, WorkerStep, UserStep, WorkerStop, NoReader, WorkerFetch, FetchOk, FetchCancelled,
          FetchError, Send, SendGivenUp, CloseOut, Receive, RangeEnds, Processed, ProcessFails,
          CommitMsg, CommitFails, GracefulShutdown, CloseReader, CtxCancel, Terminated, vars
  <2>2. Cardinality(Missing) <= Cardinality(Ended)
    BY <2>1 DEF OneLostPerWorker, Ended
  <2>3. /\ IsFiniteSet(Missing) /\ IsFiniteSet(Ended)
        /\ IsFiniteSet(Missing') /\ IsFiniteSet(Ended')
    BY DEF Finite
  <2>4. /\ Cardinality(Missing) \in Nat /\ Cardinality(Ended) \in Nat
        /\ Cardinality(Missing') \in Nat /\ Cardinality(Ended') \in Nat
    BY <2>3, FS_CardinalityType
  <2>5. CASE Missing' \subseteq Missing /\ Ended \subseteq Ended'
    <3>1. Cardinality(Missing') <= Cardinality(Missing)
      BY <2>3, <2>5, FS_Subset
    <3>2. Cardinality(Ended) <= Cardinality(Ended')
      BY <2>3, <2>5, FS_Subset
    <3> QED
      BY <2>2, <2>4, <3>1, <3>2
  <2>6. ASSUME NEW w \in Started, NEW m \in Offsets, Missing' \subseteq Missing \cup {m},
               w \notin Ended, Ended' = Ended \cup {w}
        PROVE  Cardinality(Missing') <= Cardinality(Ended')
    <3>1. /\ IsFiniteSet(Missing \cup {m})
          /\ Cardinality(Missing \cup {m}) <= Cardinality(Missing) + 1
      <4>1. /\ IsFiniteSet(Missing \cup {m})
            /\ Cardinality(Missing \cup {m}) \in {Cardinality(Missing), Cardinality(Missing) + 1}
        BY <2>3, FS_AddElement
      <4> QED
        BY <2>4, <4>1
    <3>2. Cardinality(Missing') <= Cardinality(Missing \cup {m})
      BY <2>6, <3>1, FS_Subset
    <3>3. Cardinality(Ended') = Cardinality(Ended) + 1
      BY <2>3, <2>6, FS_AddElement
    <3>4. Cardinality(Missing \cup {m}) \in Nat
      BY <3>1, FS_CardinalityType
    <3> QED
      BY <2>2, <2>4, <3>1, <3>2, <3>3, <3>4
  <2> QED
    BY <2>1, <2>5, <2>6, LostStep
<1> QED
  BY <1>1, <1>2, Counted, TypeCorrect, OnceAlways, PTL DEF Spec

\* With one worker and one user nothing is lost, and whatever runs no more than a
\* message for each worker that has ended.
THEOREM LossBounded == Spec => []BoundedLoss
<1>1. NoLossAlone /\ OneLostPerWorker => BoundedLoss
  BY DEF BoundedLoss
<1> QED
  BY <1>1, NothingLostAlone, MissingBounded, PTL

-----------------------------------------------------------------------------
(* The queue that the consumer implements. *)

\* A worker or the channel has m.
OnWay(m) == (\E w \in Started : held[w] = m) \/ (\E i \in 1 .. Len(out) : out[i] = m)

\* Where messages are decides what a step is to the queue.
LEMMA Places ==
    ASSUME TypeOK
    PROVE  /\ \A m \in Offsets : m \in Taken <=>
                  /\ m < next
                  /\ \A w \in Started : held[w] # m
                  /\ \A i \in 1 .. Len(out) : out[i] # m
           /\ Taken \subseteq Offsets /\ Hands \subseteq Offsets
           /\ Stopping \in BOOLEAN
<1>1. 0 .. next - 1 \subseteq Offsets /\ \A m \in Offsets : m \in 0 .. next - 1 <=> m < next
  BY Typed, Numbers DEF Offsets
<1>2. Hands \subseteq Offsets
  BY Typed DEF Hands, Handling
<1> QED
  BY <1>1, <1>2 DEF Taken, Stopping

LEMMA QueueStep ==
    TypeOK /\ TypeOK' /\ Once /\ Once' /\ [Next]_vars => [Queue!Next]_(Queue!vars)
<1> SUFFICES ASSUME TypeOK, TypeOK', Once, Once', [Next]_vars
             PROVE  Queue!Next \/ UNCHANGED Queue!vars
  OBVIOUS
<1> USE Typed, Numbers
<1> USE DEF readerVars, workerVars, outVars, userVars, stopVars, WorkerGoto, UserGoto,
            Started, Readers, Sending, Handling
<1> DEFINE Still == UNCHANGED <<processed, committed, Stopping>>
<1>s. (UNCHANGED <<Taken, Hands>> /\ Still) => UNCHANGED Queue!vars
  BY DEF Queue!vars
<1>t. /\ Taken = {m \in 0 .. next - 1 : ~OnWay(m)}
      /\ Taken' = {m \in 0 .. next' - 1 : ~OnWay(m)'}
  BY DEF Taken, OnWay
<1>1. ASSUME NEW w \in Started, WorkerStep(w)
      PROVE  Queue!Next \/ UNCHANGED Queue!vars
  <2>1. CASE WorkerStop(w) \/ NoReader(w) \/ WorkerFetch(w) \/ FetchCancelled(w) \/ FetchError(w)
    <3>1. UNCHANGED <<setup, held, next, out, user, cur, processed, committed, shutdown, ctxDone>>
      BY <2>1 DEF WorkerStop, NoReader, WorkerFetch, FetchCancelled, FetchError
    <3>2. UNCHANGED <<Taken, Hands>> /\ Still
      BY <3>1 DEF Taken, Hands, Stopping
    <3> QED
      BY <1>s, <3>2
  <2>2. CASE FetchOk(w)
    <3>1. /\ worker[w] = "fetch" /\ held' = [held EXCEPT ![w] = next] /\ next' = next + 1
          /\ UNCHANGED <<setup, out, user, cur, processed, committed, shutdown, ctxDone>>
      BY <2>2 DEF FetchOk
    <3>2. held[w] = NoMsg
      BY <3>1 DEF Once
    <3>3. \A v \in Started : held'[v] = IF v = w THEN next ELSE held[v]
      BY <3>1
    <3>4. /\ \A m \in 0 .. next' - 1 : m \in 0 .. next - 1 \/ m = next
          /\ \A m \in 0 .. next - 1 : m \in 0 .. next' - 1 /\ m # next /\ m # NoMsg
      BY <3>1 DEF NoMsg
    <3>5. \A m \in 0 .. next - 1 : OnWay(m) <=> OnWay(m)'
      BY <3>1, <3>2, <3>3, <3>4 DEF OnWay
    <3>6. \A m \in {next} : OnWay(m)'
      BY <3>1, <3>3 DEF OnWay
    <3>7. Taken' = Taken
      <4>1. \A m \in Taken' : m \in 0 .. next - 1 /\ ~OnWay(m)
        BY <1>t, <3>4, <3>5, <3>6
      <4>2. \A m \in Taken : m \in 0 .. next' - 1 /\ ~OnWay(m)'
        BY <1>t, <3>4, <3>5
      <4> QED
        BY <1>t, <4>1, <4>2
    <3>8. Hands' = Hands /\ Still
      BY <3>1 DEF Hands, Stopping
    <3> QED
      BY <1>s, <3>7, <3>8
  <2>3. CASE Send(w)
    <3>1. /\ \A v \in Started : held'[v] = IF v = w THEN NoMsg ELSE held[v]
          /\ \A i \in 1 .. Len(out) : i \in 1 .. Len(out') /\ out'[i] = out[i]
          /\ Len(out) + 1 \in 1 .. Len(out') /\ out'[Len(out) + 1] = held[w]
          /\ \A i \in 1 .. Len(out') : i \in 1 .. Len(out) \/ i = Len(out) + 1
          /\ UNCHANGED <<setup, next, user, cur, processed, committed, shutdown, ctxDone>>
      BY <2>3, SendEffect
    <3>2. \A m \in 0 .. next - 1 : m # NoMsg
      BY DEF NoMsg
    <3>3. \A m \in 0 .. next - 1 : OnWay(m) <=> OnWay(m)'
      <4> SUFFICES ASSUME NEW m \in 0 .. next - 1
                   PROVE  OnWay(m) <=> OnWay(m)'
        OBVIOUS
      <4>1. ASSUME NEW v \in Started, held[v] = m PROVE OnWay(m)'
        BY <3>1, <4>1 DEF OnWay
      <4>2. ASSUME NEW v \in Started, held'[v] = m PROVE OnWay(m)
        BY <3>1, <3>2, <4>2 DEF OnWay
      <4>3. ASSUME NEW i \in 1 .. Len(out), out[i] = m PROVE OnWay(m)'
        BY <3>1, <4>3 DEF OnWay
      <4>4. ASSUME NEW i \in 1 .. Len(out'), out'[i] = m PROVE OnWay(m)
        BY <3>1, <4>4 DEF OnWay
      <4> QED
        BY <3>1, <4>1, <4>2, <4>3, <4>4 DEF OnWay
    <3>4. Taken' = Taken
      BY <1>t, <3>1, <3>3
    <3>5. Hands' = Hands /\ Still
      BY <3>1 DEF Hands, Stopping
    <3> QED
      BY <1>s, <3>4, <3>5
  <2>4. CASE SendGivenUp(w)
    <3>1. PICK m \in Offsets : held[w] = m
      BY <2>4 DEF SendGivenUp
    <3>2. /\ Sending(w) /\ Stopping /\ held' = [held EXCEPT ![w] = NoMsg]
          /\ UNCHANGED <<setup, next, out, user, cur, processed, committed, shutdown, ctxDone>>
      BY <2>4 DEF SendGivenUp, Stopping
    <3>3. \A v \in Started : held'[v] = IF v = w THEN NoMsg ELSE held[v]
      BY <3>2
    <3>4. m \in 0 .. next - 1 /\ NoMsg \notin 0 .. next - 1
      BY <3>1, <3>2 DEF Once, NoMsg
    <3>5. /\ \A v \in Started \ {w} : held[v] # m
          /\ \A i \in 1 .. Len(out) : out[i] # m
      <4>1. ASSUME NEW v \in Started \ {w} PROVE held[v] # m
        BY <3>1, <3>2, <3>4 DEF Once
      <4> QED
        BY <3>1, <3>2, <4>1 DEF Once
    <3>6. m \notin Taken /\ Taken' = Taken \cup {m}
      BY <3>1, <3>2, <3>3, <3>4, <3>5 DEF Taken
    <3>7. Hands' = Hands /\ Still
      BY <3>2 DEF Hands, Stopping
    <3> QED
      BY <3>2, <3>6, <3>7 DEF Queue!Next, Queue!Drop
  <2> QED
    BY <1>1, <2>1, <2>2, <2>3, <2>4 DEF WorkerStep
<1>2. ASSUME NEW u \in Readers, UserStep(u)
      PROVE  Queue!Next \/ UNCHANGED Queue!vars
  <2>1. CASE Receive(u)
    <3>1. PICK m \in Offsets : out[1] = m
      BY <2>1, ReceiveEffect
    <3>2. /\ \A v \in Readers : /\ user'[v] = IF v = u THEN "process" ELSE user[v]
                                /\ cur'[v] = IF v = u THEN m ELSE cur[v]
          /\ user[u] = "receive" /\ 1 \in 1 .. Len(out)
          /\ \A i \in 1 .. Len(out') : out'[i] = out[i + 1] /\ i + 1 \in 1 .. Len(out) /\ i + 1 # 1
          /\ \A i \in 1 .. Len(out) : i = 1 \/ (i - 1 \in 1 .. Len(out') /\ out'[i - 1] = out[i])
          /\ UNCHANGED <<setup, next, worker, held, processed, committed, shutdown, ctxDone>>
      BY <2>1, <3>1, ReceiveEffect
    <3>3. /\ m \in 0 .. next - 1 /\ m \in {out[i] : i \in 1 .. Len(out)}
          /\ m \notin {out'[i] : i \in 1 .. Len(out')}
          /\ m \notin {held[v] : v \in Started}
      <4>1. m \in 0 .. next - 1 /\ m \in {out[i] : i \in 1 .. Len(out)}
        BY <3>1, <3>2 DEF Once
      <4>2. \A i \in 1 .. Len(out') : out'[i] # m
        BY <3>1, <3>2 DEF Once
      <4>3. \A v \in Started : held[v] # m
        <5>1. m # NoMsg
          BY <3>1 DEF NoMsg
        <5> QED
          BY <3>1, <3>2, <5>1 DEF Once
      <4> QED
        BY <4>1, <4>2, <4>3
    <3>4. \A k \in 0 .. next - 1 : k # m => (OnWay(k) <=> OnWay(k)')
      <4> SUFFICES ASSUME NEW k \in 0 .. next - 1, k # m
                   PROVE  OnWay(k) <=> OnWay(k)'
        OBVIOUS
      <4>1. ASSUME NEW i \in 1 .. Len(out), out[i] = k PROVE OnWay(k)'
        BY <3>1, <3>2, <4>1 DEF OnWay
      <4>2. ASSUME NEW i \in 1 .. Len(out'), out'[i] = k PROVE OnWay(k)
        BY <3>2, <4>2 DEF OnWay
      <4> QED
        BY <3>2, <4>1, <4>2 DEF OnWay
    <3>5. m \notin Taken /\ Taken' = Taken \cup {m}
      <4>1. OnWay(m) /\ ~OnWay(m)'
        BY <3>2, <3>3 DEF OnWay
      <4> QED
        BY <1>t, <3>2, <3>3, <3>4, <4>1
    <3>6. Hands' = Hands \cup {m}
      BY <3>2 DEF Hands
    <3>7. Still
      BY <3>2 DEF Stopping
    <3> QED
      BY <3>5, <3>6, <3>7 DEF Queue!Next, Queue!Deliver
  <2>2. CASE RangeEnds(u) \/ (CommitFails(u) /\ committed' = committed)
    <3>1. /\ user[u] # "process" /\ \E label \in {"done", "receive"} :
                                         user' = [user EXCEPT ![u] = label]
          /\ UNCHANGED <<setup, next, held, out, cur, processed, committed, shutdown, ctxDone>>
      BY <2>2 DEF RangeEnds, CommitFails
    <3>2. \A v \in Readers : user'[v] = "process" <=> user[v] = "process"
      BY <3>1
    <3>3. UNCHANGED <<Taken, Hands>> /\ Still
      BY <3>1, <3>2 DEF Taken, Hands, Stopping
    <3> QED
      BY <1>s, <3>3
  <2>3. CASE Processed(u) \/ ProcessFails(u)
    <3>1. PICK m \in Offsets : cur[u] = m
      BY <2>3 DEF Processed, ProcessFails
    <3>2. /\ user[u] = "process" /\ \E label \in {"commit", "receive"} :
                                         user' = [user EXCEPT ![u] = label]
          /\ UNCHANGED <<setup, next, held, out, cur, committed, shutdown, ctxDone>>
          /\ processed' = processed \cup {m} \/ processed' = processed
      BY <2>3, <3>1 DEF Processed, ProcessFails
    <3>3. \A v \in Readers : user'[v] = "process" <=> v # u /\ user[v] = "process"
      BY <3>2
    <3>4. \A v \in Readers : v # u /\ user[v] = "process" => cur[v] # m
      BY <3>1, <3>2 DEF Once
    <3>5. m \in Hands /\ Hands' = Hands \ {m}
      BY <3>1, <3>2, <3>3, <3>4 DEF Hands
    <3>6. Taken' = Taken /\ UNCHANGED <<committed, Stopping>>
      BY <3>2 DEF Taken, Stopping
    <3> QED
      BY <3>2, <3>5, <3>6 DEF Queue!Next, Queue!Process, Queue!GiveUp
  <2>4. CASE CommitMsg(u) \/ (CommitFails(u) /\ committed' = cur[u] + 1)
    <3>1. PICK m \in Offsets : cur[u] = m
      BY <2>4 DEF CommitMsg, CommitFails
    <3>2. /\ user[u] = "commit" /\ committed' = m + 1 /\ user' = [user EXCEPT ![u] = "receive"]
          /\ UNCHANGED <<setup, next, held, out, cur, processed, shutdown, ctxDone>>
      BY <2>4, <3>1 DEF CommitMsg, CommitFails
    <3>3. m \in Taken
      <4>1. m < next /\ \A i \in 1 .. Len(out) : out[i] # m
        BY <3>1, <3>2 DEF Once
      <4>2. \A v \in Started : held[v] # m
        <5>1. m # NoMsg
          BY <3>1 DEF NoMsg
        <5> QED
          BY <3>1, <3>2, <5>1 DEF Once
      <4> QED
        BY <4>1, <4>2, Places
    <3>4. m \in processed /\ m \notin Hands
      BY <3>1, <3>2 DEF Once, Hands
    <3>5. \A v \in Readers : user'[v] = "process" <=> user[v] = "process"
      BY <3>2
    <3>6. UNCHANGED <<Taken, Hands, Stopping>>
      BY <3>2, <3>5 DEF Taken, Hands, Stopping
    <3> QED
      BY <3>2, <3>3, <3>4, <3>6 DEF Queue!Next, Queue!Acknowledge
  <2> QED
    BY <1>2, <2>1, <2>2, <2>3, <2>4 DEF UserStep, CommitFails
<1>3. CASE GracefulShutdown \/ CtxCancel
  <2>1. /\ Stopping' = TRUE
        /\ UNCHANGED <<setup, next, held, out, user, cur, processed, committed>>
    BY <1>3 DEF GracefulShutdown, CtxCancel, Stopping
  <2>2. UNCHANGED <<Taken, Hands>>
    BY <2>1 DEF Taken, Hands
  <2> QED
    BY <2>1, <2>2 DEF Queue!Next, Queue!Stop
<1>4. CASE CloseOut \/ CloseReader \/ UNCHANGED vars
  <2>1. UNCHANGED <<setup, next, held, out, user, cur, processed, committed, shutdown, ctxDone>>
    BY <1>4 DEF CloseOut, CloseReader, vars
  <2>2. UNCHANGED <<Taken, Hands>> /\ Still
    BY <2>1 DEF Taken, Hands, Stopping
  <2> QED
    BY <1>s, <2>2
<1>5. CASE Restart
  <2>1. /\ out' = <<>> /\ \A w \in Started : held'[w] = NoMsg
        /\ \A u \in Readers : user'[u] = "receive"
        /\ next' = committed /\ ~shutdown' /\ ~ctxDone'
        /\ UNCHANGED <<setup, processed, committed>>
    BY <1>5 DEF Restart, Fresh
  <2>2. committed \in 0 .. NumMsgs
    BY DEF TypeOK
  <2>3. Taken' = {m \in Offsets : m < committed}
    <3>1. Len(out') = 0
      BY <2>1
    <3>2. 0 .. next' - 1 = {m \in Offsets : m < committed}
      BY <2>1, <2>2 DEF Offsets
    <3>3. \A m \in 0 .. next' - 1 : m # NoMsg
      BY DEF NoMsg
    <3> QED
      BY <2>1, <3>1, <3>2, <3>3 DEF Taken
  <2>4. Hands' = {} /\ Stopping' = FALSE
    BY <2>1 DEF Hands, Stopping
  <2> QED
    BY <2>1, <2>3, <2>4 DEF Queue!Next, Queue!Restart
<1> QED
  BY <1>1, <1>2, <1>3, <1>4, <1>5 DEF Next, Terminated

\* The consumer implements AckedQueue: however many workers and users run, stop
\* and restart, each message goes to one user once, and commits follow processing.
THEOREM ImplementsQueue == Spec => DeliversOnce
<1>1. Init => Queue!Init
  <2> SUFFICES ASSUME Init PROVE Queue!Init
    OBVIOUS
  <2>1. Taken = {} /\ Hands = {} /\ Stopping = FALSE
    BY DEF Init, Fresh, Taken, Hands, Stopping
  <2> QED
    BY <2>1 DEF Init, Queue!Init
<1> QED
  BY <1>1, QueueStep, TypeCorrect, OnceAlways, PTL DEF Spec, DeliversOnce, Queue!Spec
=============================================================================
