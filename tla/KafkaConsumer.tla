--------------------------- MODULE KafkaConsumer ---------------------------
(***************************************************************************)
(* The consumer of package kafka: ConsumeParallel starts workers that      *)
(* fetch messages through one reader and hand them to the users through    *)
(* one channel; users process a message and commit it; GracefulShutdown    *)
(* stops the workers and closes the reader.                                *)
(*                                                                         *)
(* One partition, a message is its offset.  The reader and the broker are  *)
(* external: the reader hands out each offset once, from the committed     *)
(* offset on, and what it has buffered also after it was closed; a commit  *)
(* of an offset waits for the broker, which sets the committed offset to   *)
(* the one after it, whatever was committed before.                        *)
(***************************************************************************)
EXTENDS Integers, Sequences, FiniteSets

CONSTANTS
    Workers,      \* goroutines that may be workers
    Users,        \* goroutines that may range over the channel
    Setups,       \* how many are started, and what users may do
    NumMsgs,      \* bound: messages in the partition
    ChanCap,      \* capacity of the channel, 100 * numWorkers in the code
    MaxRestarts   \* bound: deaths of the process, each followed by a restart

Offsets == 0 .. NumMsgs - 1
NoMsg   == -1

ASSUME ConsumerAssumption ==
    /\ IsFiniteSet(Workers)
    /\ NumMsgs \in Nat /\ MaxRestarts \in Nat /\ ChanCap \in Nat \ {0}
    /\ \A s \in Setups : s.workers \subseteq Workers /\ s.users \subseteq Users
    /\ \A s \in Setups : s.quitters \subseteq s.users /\ s.poison \subseteq Offsets
    /\ \A s \in Setups : s.refused \subseteq Offsets
    /\ \A s \in Setups : s.reader \in BOOLEAN

VARIABLES
    setup,
    \* the broker and the reader
    committed, next, readerClosed,
    \* ConsumeParallel
    worker, held, out, outClosed,
    \* its users
    user, cur,
    \* GracefulShutdown, the caller's context, the process
    shutdown, ctxDone, restarts,
    \* auxiliary: what was processed with success
    processed

readerVars == <<next, readerClosed>>
workerVars == <<worker, held>>
outVars    == <<out, outClosed>>
userVars   == <<user, cur>>
stopVars   == <<shutdown, ctxDone>>
vars == <<committed, readerVars, workerVars, outVars, userVars, stopVars, restarts,
          processed, setup>>

Started   == setup.workers    \* the goroutines of ConsumeParallel (one for Consume)
Readers   == setup.users      \* the goroutines that range over the channel
Quitters  == setup.quitters   \* users that may leave their loop
Poison    == setup.poison     \* offsets whose processing may fail
Refused   == setup.refused    \* offsets whose commit may fail at the broker
HasReader == setup.reader     \* the client is configured as a consumer

\* What a new process starts with; it resumes after the committed offset.
Fresh(from) ==
    [next |-> from, readerClosed |-> FALSE,
     worker |-> [w \in Started |-> "loop"], held |-> [w \in Started |-> NoMsg],
     user |-> [u \in Readers |-> "receive"], cur |-> [u \in Readers |-> NoMsg]]

Init ==
    /\ setup \in Setups
    /\ committed = 0
    /\ next = Fresh(0).next
    /\ readerClosed = FALSE
    /\ worker = Fresh(0).worker
    /\ held = Fresh(0).held
    /\ out = <<>>
    /\ outClosed = FALSE
    /\ user = Fresh(0).user
    /\ cur = Fresh(0).cur
    /\ shutdown = FALSE
    /\ ctxDone = FALSE
    /\ restarts = 0
    /\ processed = {}

-----------------------------------------------------------------------------
\* consumeWorker.

WorkerGoto(w, label) == worker' = [worker EXCEPT ![w] = label]

WorkerStop(w) ==
    /\ worker[w] = "loop"
    /\ shutdown \/ ctxDone
    /\ WorkerGoto(w, "done")
    /\ UNCHANGED <<setup, committed, readerVars, held, outVars, userVars, stopVars, restarts,
                   processed>>

\* default: take the reader under RLock; the client of a producer has none.
NoReader(w) ==
    /\ worker[w] = "loop"
    /\ ~shutdown /\ ~ctxDone
    /\ ~HasReader
    /\ WorkerGoto(w, "done")
    /\ UNCHANGED <<setup, committed, readerVars, held, outVars, userVars, stopVars, restarts,
                   processed>>

\* ... and call FetchMessage.
WorkerFetch(w) ==
    /\ worker[w] = "loop"
    /\ ~shutdown /\ ~ctxDone
    /\ HasReader
    /\ WorkerGoto(w, "fetch")
    /\ UNCHANGED <<setup, committed, readerVars, held, outVars, userVars, stopVars, restarts,
                   processed>>

\* A closed reader still hands out what it had buffered.
FetchOk(w) ==
    /\ worker[w] = "fetch"
    /\ next < NumMsgs
    /\ held' = [held EXCEPT ![w] = next]
    /\ next' = next + 1
    /\ WorkerGoto(w, "send")
    /\ UNCHANGED <<setup, committed, readerClosed, outVars, userVars, stopVars, restarts, processed>>

\* context.Canceled or DeadlineExceeded ends the worker.
FetchCancelled(w) ==
    /\ worker[w] = "fetch"
    /\ ctxDone
    /\ WorkerGoto(w, "done")
    /\ UNCHANGED <<setup, committed, readerVars, held, outVars, userVars, stopVars, restarts,
                   processed>>

\* Any other error, the end of a closed reader included: back to the loop.
FetchError(w) ==
    /\ worker[w] = "fetch"
    /\ WorkerGoto(w, "loop")
    /\ UNCHANGED <<setup, committed, readerVars, held, outVars, userVars, stopVars, restarts,
                   processed>>

\* A mistake: a full channel drops the message instead of blocking.
SendOrDrop(w) ==
    /\ worker[w] = "send"
    /\ out' = IF Len(out) < ChanCap THEN Append(out, held[w]) ELSE out
    /\ held' = [held EXCEPT ![w] = NoMsg]
    /\ WorkerGoto(w, "loop")
    /\ UNCHANGED <<setup, committed, readerVars, outClosed, userVars, stopVars, restarts, processed>>

\* A mistake: after the send the worker may send the same message again.
SendAgain(w) ==
    /\ worker[w] = "send"
    /\ Len(out) < ChanCap
    /\ out' = Append(out, held[w])
    /\ \/ held' = [held EXCEPT ![w] = NoMsg] /\ WorkerGoto(w, "loop")
       \/ UNCHANGED workerVars
    /\ UNCHANGED <<setup, committed, readerVars, outClosed, userVars, stopVars, restarts, processed>>

Send(w) ==
    /\ worker[w] = "send"
    /\ Len(out) < ChanCap
    /\ out' = Append(out, held[w])
    /\ held' = [held EXCEPT ![w] = NoMsg]
    /\ WorkerGoto(w, "loop")
    /\ UNCHANGED <<setup, committed, readerVars, outClosed, userVars, stopVars, restarts, processed>>

\* Stopped while sending: the fetched message is dropped, even if there is
\* room in the channel.
SendGivenUp(w) ==
    /\ worker[w] = "send"
    /\ shutdown \/ ctxDone
    /\ held' = [held EXCEPT ![w] = NoMsg]
    /\ WorkerGoto(w, "done")
    /\ UNCHANGED <<setup, committed, readerVars, outVars, userVars, stopVars, restarts, processed>>

\* workerWg.Wait returned: close(outChan), wg.Done.
CloseOut ==
    /\ ~outClosed
    /\ \A w \in Started : worker[w] = "done"
    /\ outClosed' = TRUE
    /\ UNCHANGED <<setup, committed, readerVars, workerVars, out, userVars, stopVars, restarts,
                   processed>>

-----------------------------------------------------------------------------
\* A user: for msg := range ch { process; msg.CommitMsg() }.

UserGoto(u, label) == user' = [user EXCEPT ![u] = label]

Receive(u) ==
    /\ user[u] = "receive"
    /\ out # <<>>
    /\ cur' = [cur EXCEPT ![u] = Head(out)]
    /\ out' = Tail(out)
    /\ UserGoto(u, "process")
    /\ UNCHANGED <<setup, committed, readerVars, workerVars, outClosed, stopVars, restarts,
                   processed>>

RangeEnds(u) ==
    /\ user[u] = "receive"
    /\ \/ outClosed /\ out = <<>>
       \/ u \in Quitters
    /\ UserGoto(u, "done")
    /\ UNCHANGED <<setup, committed, readerVars, workerVars, outVars, cur, stopVars, restarts,
                   processed>>

Processed(u) ==
    /\ user[u] = "process"
    /\ processed' = processed \cup {cur[u]}
    /\ UserGoto(u, "commit")
    /\ UNCHANGED <<setup, committed, readerVars, workerVars, outVars, cur, stopVars, restarts>>

\* The documented loop continues without a commit.
ProcessFails(u) ==
    /\ user[u] = "process"
    /\ cur[u] \in Poison
    /\ UserGoto(u, "receive")
    /\ UNCHANGED <<setup, committed, readerVars, workerVars, outVars, cur, stopVars, restarts,
                   processed>>

\* A mistake: the commit names the next offset to fetch, not the message's.
CommitFetched(u) ==
    /\ user[u] = "commit"
    /\ ~readerClosed
    /\ committed' = next
    /\ UserGoto(u, "receive")
    /\ UNCHANGED <<setup, readerVars, workerVars, outVars, cur, stopVars, restarts, processed>>

\* A mistake: off by one, the message itself is not covered by its commit.
CommitBefore(u) ==
    /\ user[u] = "commit"
    /\ ~readerClosed
    /\ committed' = cur[u]
    /\ UserGoto(u, "receive")
    /\ UNCHANGED <<setup, readerVars, workerVars, outVars, cur, stopVars, restarts, processed>>

CommitMsg(u) ==
    /\ user[u] = "commit"
    /\ ~readerClosed
    /\ committed' = cur[u] + 1
    /\ UserGoto(u, "receive")
    /\ UNCHANGED <<setup, readerVars, workerVars, outVars, cur, stopVars, restarts, processed>>

\* CommitMsg returns the error of the broker, or of a reader that is closed, which
\* the documented loop logs. The broker may have done what it was asked for.
CommitFails(u) ==
    /\ user[u] = "commit"
    /\ cur[u] \in Refused \/ readerClosed
    /\ committed' \in {committed, cur[u] + 1}
    /\ UserGoto(u, "receive")
    /\ UNCHANGED <<setup, readerVars, workerVars, outVars, cur, stopVars, restarts, processed>>

-----------------------------------------------------------------------------
\* GracefulShutdown: shutdownSignal first (Once), the reader after it.

GracefulShutdown ==
    /\ ~shutdown
    /\ shutdown' = TRUE
    /\ UNCHANGED <<setup, committed, readerVars, workerVars, outVars, userVars, ctxDone, restarts,
                   processed>>

\* A mistake: the reader is closed when the workers are gone.
CloseReaderLast ==
    /\ shutdown
    /\ HasReader /\ ~readerClosed
    /\ outClosed
    /\ readerClosed' = TRUE
    /\ UNCHANGED <<setup, committed, next, workerVars, outVars, userVars, stopVars, restarts,
                   processed>>

CloseReader ==
    /\ shutdown
    /\ HasReader /\ ~readerClosed
    /\ readerClosed' = TRUE
    /\ UNCHANGED <<setup, committed, next, workerVars, outVars, userVars, stopVars, restarts,
                   processed>>

CtxCancel ==
    /\ ~ctxDone
    /\ ctxDone' = TRUE
    /\ UNCHANGED <<setup, committed, readerVars, workerVars, outVars, userVars, shutdown, restarts,
                   processed>>

\* A mistake: the new reader begins with the first message of the partition.
RestartFromFirst ==
    /\ restarts < MaxRestarts
    /\ restarts' = restarts + 1
    /\ next' = Fresh(0).next
    /\ readerClosed' = FALSE
    /\ worker' = Fresh(0).worker
    /\ held' = Fresh(0).held
    /\ out' = <<>>
    /\ outClosed' = FALSE
    /\ user' = Fresh(0).user
    /\ cur' = Fresh(0).cur
    /\ shutdown' = FALSE
    /\ ctxDone' = FALSE
    /\ UNCHANGED <<setup, committed, processed>>

\* The process dies, or ends, and a new one consumes from the committed offset.
Restart ==
    /\ restarts < MaxRestarts
    /\ restarts' = restarts + 1
    /\ next' = Fresh(committed).next
    /\ readerClosed' = FALSE
    /\ worker' = Fresh(committed).worker
    /\ held' = Fresh(committed).held
    /\ out' = <<>>
    /\ outClosed' = FALSE
    /\ user' = Fresh(committed).user
    /\ cur' = Fresh(committed).cur
    /\ shutdown' = FALSE
    /\ ctxDone' = FALSE
    /\ UNCHANGED <<setup, committed, processed>>

\* The last process: nothing is left to do.
Terminated ==
    /\ outClosed
    /\ \A u \in Readers : user[u] = "done"
    /\ UNCHANGED vars

-----------------------------------------------------------------------------
WorkerStep(w) ==
    \/ WorkerStop(w) \/ NoReader(w) \/ WorkerFetch(w)
    \/ FetchOk(w) \/ FetchCancelled(w) \/ FetchError(w)
    \/ Send(w) \/ SendGivenUp(w)

UserStep(u) ==
    \/ Receive(u) \/ RangeEnds(u)
    \/ Processed(u) \/ ProcessFails(u)
    \/ CommitMsg(u) \/ CommitFails(u)

Next ==
    \/ \E w \in Started : WorkerStep(w)
    \/ CloseOut
    \/ \E u \in Readers : UserStep(u)
    \/ GracefulShutdown
    \/ CloseReader
    \/ CtxCancel
    \/ Restart
    \/ Terminated

\* A worker goes on but for FetchMessage, which blocks in an open reader without
\* messages: there a message that the reader has is fetched when it is tried often
\* enough, and no error need come. A closed reader does not block. Users run, and
\* a GracefulShutdown that has begun closes the reader. Nothing forces a
\* shutdown, the end of the context or a restart.
Proceeds(w) ==
    \/ WorkerStop(w) \/ NoReader(w) \/ WorkerFetch(w)
    \/ readerClosed /\ (FetchOk(w) \/ FetchError(w))
    \/ FetchCancelled(w)
    \/ Send(w) \/ SendGivenUp(w)

Fairness ==
    /\ \A w \in Workers :
        /\ WF_vars(w \in Started /\ Proceeds(w))
        /\ SF_vars(w \in Started /\ ~readerClosed /\ FetchOk(w))
    /\ WF_vars(CloseOut)
    /\ \A u \in Users : WF_vars(u \in Readers /\ UserStep(u))
    /\ WF_vars(CloseReader)

Spec     == Init /\ [][Next]_vars
FairSpec == Spec /\ Fairness

-----------------------------------------------------------------------------
\* Messages that users are processing.
Hands == {cur[u] : u \in {v \in Readers : user[v] = "process"}}

\* Messages the process still has.
InFlight ==
    {held[w] : w \in Started}
        \cup {out[i] : i \in 1 .. Len(out)}
        \cup Hands

\* doc of CommitMsg: it informs Kafka that the message has been successfully
\* processed. A message below the committed offset is not delivered again, so
\* it was processed, or a worker, the channel or a user still has it.
NoLoss == 0 .. committed - 1 \subseteq processed \cup InFlight

Alone   == \E w \in Workers : Started = {w}
OneUser == \E u \in Users : Readers = {u}

\* With one worker and one user, a message below the committed offset was
\* processed or is one the user gave up. With several users it may still be
\* in their hands: a restart then loses it.
NoLossAlone ==
    Alone =>
        /\ OneUser => 0 .. committed - 1 \subseteq processed \cup Poison
        /\ restarts = 0 => 0 .. committed - 1 \subseteq processed \cup Poison \cup InFlight

\* What became of a message is unknown: fetched, and then neither processed nor
\* given up, and no longer in the hands of the process.
Missing == {m \in 0 .. next - 1 : m \notin processed \cup Poison \cup InFlight}

\* However many workers there are: of what a process fetched no more gets lost on
\* the way than one message for each worker that has ended.
OneLostPerWorker ==
    restarts = 0 => Cardinality(Missing) <= Cardinality({w \in Started : worker[w] = "done"})

\* What may get lost at all: with one worker and one user nothing, and in any
\* configuration no more than a message for each worker that has ended.
BoundedLoss == NoLossAlone /\ OneLostPerWorker

\* With one worker the users see the messages of a partition in order.
InOrder ==
    Alone =>
        /\ \A i, j \in 1 .. Len(out) : i < j => out[i] < out[j]
        /\ \A i \in 1 .. Len(out), u \in Readers : cur[u] < out[i]
        /\ \A i \in 1 .. Len(out), w \in Started : worker[w] = "send" => out[i] < held[w]

\* With one worker and one user the committed offset is never taken back, also
\* where a process dies, or a commit takes effect that was answered by an error:
\* nothing that was committed is delivered a second time. (The later commit of two
\* users may be of the earlier message.)
CommittedOnlyGrows == [][Alone /\ OneUser => committed' >= committed]_vars

\* Messages that left the channel or were dropped: all that were fetched or lie
\* below the offset the process began with, but for those still on their way.
Taken ==
    0 .. next - 1 \ ({held[w] : w \in Started} \cup {out[i] : i \in 1 .. Len(out)})

Stopping == shutdown \/ ctxDone

Queue == INSTANCE AckedQueue WITH
    Messages <- Offsets,
    taken    <- Taken,
    hands    <- Hands,
    done     <- processed,
    acked    <- committed,
    stopping <- Stopping

\* Whatever workers and users do at the same time, each message goes to one user
\* once, until the process restarts, and what is committed was processed.
DeliversOnce == Queue!Spec

\* With one worker and one user that stays, a message that was processed is
\* committed, also when the process dies in between and when commits of other
\* messages fail, unless its own commit may fail or the consumer is stopped.
ProcessedIsCommitted ==
    Alone /\ OneUser /\ Quitters = {} =>
        \A m \in Offsets :
            m \in processed ~> committed > m \/ m \in Refused \cup Poison \/ Stopping

\* With one worker and one user that stays, every message that can be is
\* processed in the end, unless the consumer is stopped.
EventuallyProcessed ==
    Alone /\ OneUser /\ Quitters = {} /\ HasReader =>
        \A m \in Offsets : <>(m \in processed \cup Poison \/ Stopping)

\* A shutdown or the end of the context ends all workers and closes the channel,
\* also those that wait in FetchMessage or for room in a channel that nobody
\* reads; and so does a client that has no reader.
ConsumeEnds == (Stopping \/ ~HasReader) ~> outClosed \/ (~Stopping /\ HasReader)
=============================================================================
