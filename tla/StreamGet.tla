----------------------------- MODULE StreamGet -----------------------------
(***************************************************************************)
(* MinioClient.StreamGet of object_utils.go: a goroutine reads an object   *)
(* into one buffer and sends copies of it over an unbuffered channel,      *)
(* until the end, an error, or the end of the context.  An object is what  *)
(* a variable of this module's user holds when the download opens it, and  *)
(* consists of the chunks <<object, 1>> ... <<object, NChunks>>.           *)
(***************************************************************************)
EXTENDS Naturals, Sequences

CONSTANT NChunks    \* reads that return data, the last of them perhaps with io.EOF

ASSUME ChunksAssumption == NChunks \in Nat

VARIABLES
    g,          \* where the goroutine is
    reading,    \* the object that it has opened
    pos,        \* chunks read
    pending,    \* the error that came with the last chunk
    received,   \* what the receiver got from dataCh
    errCh,      \* what is in errCh
    open,       \* which of dataCh, errCh are open
    user,       \* the receiver: "ranges", or "gone"
    ctx         \* "live" or "done"

streamVars == <<g, reading, pos, pending, received, errCh, open, user, ctx>>

NoError == "nil"
Nothing == "no object"

StreamInit(at) ==
    /\ g = at /\ reading = Nothing /\ pos = 0 /\ pending = NoError
    /\ received = <<>> /\ errCh = <<>> /\ open = {"dataCh", "errCh"}
    /\ user = "ranges" /\ ctx = "live"

\* errCh has room for one error: the goroutine does not wait for its reader.
EndWith(err) ==
    /\ g' = "end"
    /\ errCh' = Append(errCh, err)

\* GetObject
StreamOpen(object) ==
    /\ g = "start"
    /\ \/ g' = "loop" /\ reading' = object /\ UNCHANGED errCh
       \/ EndWith("failed to get object") /\ UNCHANGED reading
    /\ UNCHANGED <<pos, pending, received, open, user, ctx>>

\* The select at the head of the loop.
StreamCheck ==
    /\ g = "loop"
    /\ IF ctx = "done" THEN EndWith("ctx.Err()") ELSE g' = "read" /\ UNCHANGED errCh
    /\ UNCHANGED <<reading, pos, pending, received, open, user, ctx>>

\* reader.Read: data, perhaps with io.EOF, or an error, perhaps after data. The
\* context ends it too.
ReadResults ==
    {r \in [n : {0, 1}, err : {NoError, "EOF", "failed", "ctx.Err()"}] :
        /\ r.n = 1 => pos < NChunks
        /\ r.n = 0 => r.err # NoError
        /\ r.err = "EOF" => pos + r.n = NChunks
        /\ r.err = "ctx.Err()" => ctx = "done" /\ r.n = 0}

\* A mistake: the slice of the buffer is sent, and the next read overwrites what
\* the receiver has.
StreamReadShared ==
    /\ g = "read"
    /\ \E r \in ReadResults :
          /\ pos' = pos + r.n
          /\ pending' = r.err
          /\ received' = IF r.n = 1 THEN [i \in DOMAIN received |-> <<reading, pos + 1>>]
                                    ELSE received
          /\ g' = IF r.n = 1 THEN "send" ELSE "after"
    /\ UNCHANGED <<reading, errCh, open, user, ctx>>

StreamRead ==
    /\ g = "read"
    /\ \E r \in ReadResults :
          /\ pos' = pos + r.n
          /\ pending' = r.err
          /\ g' = IF r.n = 1 THEN "send" ELSE "after"
    /\ UNCHANGED <<reading, received, errCh, open, user, ctx>>

\* The receiver takes the chunk.
StreamSend ==
    /\ g = "send" /\ user = "ranges"
    /\ received' = Append(received, <<reading, pos>>)
    /\ g' = "after"
    /\ UNCHANGED <<reading, pos, pending, errCh, open, user, ctx>>

\* A mistake: a send without the select.
SendWithoutCtx == g = "send" /\ ctx = "done" /\ UNCHANGED streamVars

\* Or the context ends while nobody takes it.
StreamSendGivenUp ==
    /\ g = "send" /\ ctx = "done"
    /\ EndWith("ctx.Err()")
    /\ UNCHANGED <<reading, pos, pending, received, open, user, ctx>>

StreamAfter ==
    /\ g = "after"
    /\ CASE pending = NoError -> g' = "loop" /\ UNCHANGED errCh
         [] pending = "EOF"   -> g' = "end" /\ UNCHANGED errCh
         [] OTHER             -> EndWith(pending)
    /\ UNCHANGED <<reading, pos, pending, received, open, user, ctx>>

\* The deferred calls: errCh is closed before dataCh.
StreamClose ==
    /\ g = "end"
    /\ IF "errCh" \in open
       THEN open' = open \ {"errCh"} /\ UNCHANGED g
       ELSE open' = open \ {"dataCh"} /\ g' = "gone"
    /\ UNCHANGED <<reading, pos, pending, received, errCh, user, ctx>>

\* The receiver goes away, as it may; the context ends.
UserLeaves ==
    /\ user = "ranges" /\ g \notin {"none", "gone"}
    /\ user' = "gone"
    /\ UNCHANGED <<g, reading, pos, pending, received, errCh, open, ctx>>

CtxDone ==
    /\ ctx = "live" /\ g \notin {"none", "gone"}
    /\ ctx' = "done"
    /\ UNCHANGED <<g, reading, pos, pending, received, errCh, open, user>>

StreamStep ==
    \/ StreamCheck \/ StreamRead \/ StreamSend \/ StreamSendGivenUp \/ StreamAfter
    \/ StreamClose

StreamNext(object) == StreamOpen(object) \/ StreamStep \/ UserLeaves \/ CtxDone

-----------------------------------------------------------------------------
\* What arrives is the beginning of one object, in order. When a receiver that
\* stayed sees dataCh closed, errCh has its error already, at most one, or is closed
\* without, and then it has the whole object.
WholeOrError ==
    /\ received = [i \in 1 .. Len(received) |-> <<reading, i>>]
    /\ "dataCh" \notin open => "errCh" \notin open /\ Len(errCh) <= 1
    /\ user = "ranges" /\ "dataCh" \notin open /\ errCh = <<>> => Len(received) = NChunks

\* The goroutine does not outlive the context, also when the receiver is gone; and
\* with a receiver that stays it ends by itself.
StreamEnds ==
    /\ ctx = "done" ~> g = "gone"
    /\ g = "start" ~> g = "gone" \/ user = "gone"
=============================================================================
