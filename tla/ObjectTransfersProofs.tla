------------------------ MODULE ObjectTransfersProofs ------------------------
(***************************************************************************)
(* What holds of transfers for every size of a file and of a part, every   *)
(* number of uploads, of chunks and of failed requests: the parts are such *)
(* that the server takes them and the ranges such that they make up the    *)
(* object, URLs are expired when they are said to be, and a stream that    *)
(* ends without an error has delivered the whole object.                   *)
(***************************************************************************)
EXTENDS ObjectTransfers, FiniteSetTheorems, TLAPS

LEMMA Division ==
    ASSUME NEW a \in Nat, NEW b \in Nat \ {0}
    PROVE  /\ a \div b \in Nat
           /\ (a \div b) * b <= a
           /\ a < (a \div b) * b + b
<1>1. a \div b \in Int /\ a % b \in 0 .. (b - 1) /\ a = b * (a \div b) + (a % b)
  BY Z3
<1> QED
  BY <1>1, Z3

\* CeilDiv(a, b) is the least number of b that reach a.
LEMMA CeilDivIsLeast ==
    ASSUME NEW a \in Nat, NEW b \in Nat \ {0}
    PROVE  /\ CeilDiv(a, b) \in Nat
           /\ CeilDiv(a, b) * b >= a
           /\ (CeilDiv(a, b) - 1) * b < a
<1> DEFINE q == (a + b - 1) \div b
<1>1. a + b - 1 \in Nat
  OBVIOUS
<1>2. q \in Nat /\ q * b <= a + b - 1 /\ a + b - 1 < q * b + b
  BY <1>1, Division
<1> HIDE DEF q
<1>3. (q - 1) * b = q * b - b /\ q * b \in Int
  BY <1>2
<1>4. CeilDiv(a, b) = q
  BY DEF CeilDiv, q
<1> QED
  BY <1>2, <1>3, <1>4

\* Who has room for a in n parts of b needs at most n of them.
LEMMA CeilDivAtMost ==
    ASSUME NEW a \in Nat, NEW b \in Nat \ {0}, NEW n \in Nat, a <= n * b
    PROVE  CeilDiv(a, b) <= n
<1> DEFINE q == CeilDiv(a, b)
<1>1. q \in Nat /\ (q - 1) * b < a
  BY CeilDivIsLeast
<1> HIDE DEF q
<1>2. ASSUME q >= n + 1 PROVE FALSE
  <2>1. PICK k \in Nat : q - 1 = n + k
    BY <1>1, <1>2
  <2>2. (q - 1) * b = n * b + k * b /\ k * b >= 0
    BY <2>1
  <2> QED
    BY <1>1, <2>2
<1> QED
  BY <1>1, <1>2 DEF q

LEMMA PartSizeSuffices ==
    ASSUME NEW fileSize \in Nat
    PROVE  /\ PartSize(fileSize) \in Nat \ {0}
           /\ PartSize(fileSize) >= MinPart
           /\ fileSize <= LimitPartCount * PartSize(fileSize)
<1> DEFINE share == CeilDiv(fileSize, LimitPartCount)
           even  == RoundUp(share)
           least == MinPart
<1>1. least \in Nat \ {0}
  BY PartAssumption DEF MinPart, DefaultPartSize
<1>2. share \in Nat /\ fileSize <= share * LimitPartCount
  BY PartAssumption, CeilDivIsLeast
<1> HIDE DEF share
<1>3. even \in Nat /\ share <= even
  BY <1>2, PartAssumption, CeilDivIsLeast DEF RoundUp
<1> HIDE DEF even, least
<1>4. PartSize(fileSize) = IF fileSize < 10 * least \/ even < least THEN least ELSE even
  BY DEF PartSize, even, share, least
<1>5. CASE fileSize < 10 * least
  <2>1. 10 * least <= LimitPartCount * least
    BY <1>1, PartAssumption
  <2>2. LimitPartCount * least \in Nat
    BY <1>1, PartAssumption
  <2> QED
    BY <1>1, <1>4, <1>5, <2>1, <2>2 DEF least
<1>6. CASE ~(fileSize < 10 * least)
  <2> DEFINE p == PartSize(fileSize)
  <2>1. p \in Nat \ {0} /\ p >= least /\ p >= share
    BY <1>1, <1>2, <1>3, <1>4, <1>6
  <2> HIDE DEF p
  <2>2. share * LimitPartCount <= LimitPartCount * p
    BY <1>2, <2>1, PartAssumption
  <2> QED
    BY <1>2, <2>1, <2>2, PartAssumption DEF p, least
<1> QED
  BY <1>5, <1>6

\* A file of any size, under any positive least size of a part, is cut into parts
\* that the server takes, at most as many as it takes, the last of them not empty.
THEOREM EveryFileIsCut == \A fileSize \in Nat : UploadCut(fileSize)
<1> SUFFICES ASSUME NEW fileSize \in Nat PROVE UploadCut(fileSize)
  OBVIOUS
<1>1. /\ PartSize(fileSize) \in Nat \ {0} /\ PartSize(fileSize) >= MinPart
      /\ fileSize <= LimitPartCount * PartSize(fileSize)
  BY PartSizeSuffices
<1>2. LimitPartCount \in Nat
  BY PartAssumption
<1>3. PartCount(fileSize) <= LimitPartCount
  BY <1>1, <1>2, CeilDivAtMost DEF PartCount
<1> QED
  BY <1>1, <1>3, CeilDivIsLeast DEF UploadCut, PartCount

\* An object of any size is put together from ranges of any size, none of them
\* empty, that follow each other from its first byte to its last.
THEOREM EveryObjectIsCovered ==
    \A totalSize, partSize \in Nat : DownloadCut(totalSize, partSize)
<1> SUFFICES ASSUME NEW totalSize \in Nat, NEW partSize \in Nat
             PROVE  DownloadCut(totalSize, partSize)
  OBVIOUS
<1> DEFINE p == DownloadPartSize(partSize)
           n == CeilDiv(totalSize, p)
<1>1. p \in Nat \ {0}
  BY PartAssumption DEF DownloadPartSize, DefaultPartSize
<1> HIDE DEF p
<1>2. n \in Nat /\ n * p >= totalSize /\ (n - 1) * p < totalSize
  BY <1>1, CeilDivIsLeast
<1> HIDE DEF n
<1>3. ASSUME NEW i \in 1 .. n, i < n
      PROVE  /\ i * p < totalSize
             /\ EndByte(totalSize, p, i) = i * p - 1
  <2>1. PICK k \in Nat : n - 1 = i + k
    BY <1>2, <1>3
  <2>2. (n - 1) * p = i * p + k * p /\ k * p >= 0 /\ i * p \in Nat
    BY <1>1, <2>1
  <2>3. i * p < totalSize
    BY <1>1, <1>2, <2>1, <2>2
  <2> QED
    BY <2>2, <2>3 DEF EndByte
<1>4. n \in 1 .. n => EndByte(totalSize, p, n) = totalSize - 1
  BY <1>1, <1>2 DEF EndByte
<1>5. ASSUME NEW i \in 1 .. n
      PROVE  StartByte(p, i) = (i - 1) * p /\ (i - 1) * p = i * p - p /\ i * p \in Nat
  BY <1>1, <1>2 DEF StartByte
<1>6. ASSUME NEW i \in 1 .. n PROVE StartByte(p, i) <= EndByte(totalSize, p, i)
  <2>1. CASE i < n
    <3>1. EndByte(totalSize, p, i) = i * p - 1 /\ StartByte(p, i) = i * p - p /\ i * p \in Nat
      BY <1>3, <1>5, <2>1
    <3> QED
      BY <1>1, <3>1
  <2>2. CASE i = n
    <3>1. EndByte(totalSize, p, i) = totalSize - 1 /\ StartByte(p, i) = (n - 1) * p
      BY <1>4, <1>5, <2>2
    <3>2. (n - 1) * p \in Int
      BY <1>1, <1>2
    <3> QED
      BY <1>2, <3>1, <3>2
  <2> QED
    BY <1>2, <2>1, <2>2
<1>7. ASSUME NEW i \in 1 .. n, i + 1 \in 1 .. n
      PROVE  StartByte(p, i + 1) = EndByte(totalSize, p, i) + 1
  <2>1. StartByte(p, i + 1) = i * p
    BY <1>2 DEF StartByte
  <2> QED
    BY <1>2, <1>3, <1>5, <1>7, <2>1
<1>8. ASSUME NEW i \in 1 .. n, i + 1 \notin 1 .. n PROVE i = n
  BY <1>2, <1>8
<1>9. Parts(totalSize, partSize) = 1 .. n
  BY DEF Parts, n, p
<1> QED
  BY <1>4, <1>6, <1>7, <1>8, <1>9 DEF DownloadCut, p

\* In particular the sizes that the run looks at.
THEOREM FilesAlwaysCut == FilesCut
<1>1. {0, 1, MiB, DefaultPartSize} \subseteq Nat
  BY PartAssumption DEF DefaultPartSize
<1>2. PlanSizes \subseteq Nat
  BY DEF PlanSizes
<1> QED
  BY <1>1, <1>2, EveryFileIsCut, EveryObjectIsCovered DEF FilesCut

-----------------------------------------------------------------------------
(* Streams *)

\* Where the goroutine is tells how much the receiver has.
StreamHolds ==
    /\ received \in Seq({reading} \X Nat) /\ pos \in 0 .. NChunks
    /\ \A i \in 1 .. Len(received) : received[i] = <<reading, i>>
    /\ g \in {"none", "start", "loop", "read", "send", "after", "end", "gone"}
    /\ g \in {"none", "start"} => received = << >> /\ pos = 0
    /\ g \in {"loop", "read", "after"} => Len(received) = pos
    /\ g = "send" => Len(received) = pos - 1
    /\ g \in {"send", "after"} /\ pending = "EOF" => pos = NChunks
    /\ errCh = << >> \/ Len(errCh) = 1
    /\ g \notin {"end", "gone"} => errCh = << >>
    /\ g # "gone" => "dataCh" \in open
    /\ g = "gone" => "errCh" \notin open
    /\ g \in {"end", "gone"} /\ errCh = << >> => Len(received) = NChunks

LEMMA StreamBegins == ASSUME NEW at \in {"none", "start"}, StreamInit(at) PROVE StreamHolds
BY ChunksAssumption DEF StreamInit, StreamHolds

\* The goroutine ends with an error.
LEMMA ErrorHolds ==
    ASSUME StreamHolds, NEW err, g' = "end", errCh' = Append(errCh, err),
           g \notin {"end", "gone"}, reading' = reading, pos' = pos, received' = received,
           open' = open
    PROVE  StreamHolds'
<1>1. errCh = << >>
  BY DEF StreamHolds
<1>2. errCh' = <<err>>
  <2>1. Append(<< >>, err) = <<err>>
    OBVIOUS
  <2> QED
    BY <1>1, <2>1
<1>3. Len(errCh') = 1 /\ errCh' # << >>
  BY <1>2
<1> QED
  BY <1>3 DEF StreamHolds

LEMMA StreamStepHolds ==
    ASSUME StreamHolds, NEW opened, StreamNext(opened)
    PROVE  StreamHolds'
<1>1. ASSUME StreamOpen(opened) PROVE StreamHolds'
  <2>1. CASE EndWith("failed to get object") /\ UNCHANGED reading
    BY <1>1, <2>1, ErrorHolds DEF StreamOpen, EndWith
  <2>2. CASE g' = "loop" /\ reading' = opened /\ UNCHANGED errCh
    <3>1. received' = << >> /\ pos' = 0
      BY <1>1 DEF StreamOpen, StreamHolds
    <3> QED
      BY <1>1, <2>2, <3>1, ChunksAssumption DEF StreamOpen, StreamHolds
  <2> QED
    BY <1>1, <2>1, <2>2 DEF StreamOpen
<1>2. ASSUME StreamCheck PROVE StreamHolds'
  <2>1. CASE ctx = "done"
    BY <1>2, <2>1, ErrorHolds DEF StreamCheck, EndWith
  <2>2. CASE ctx # "done"
    BY <1>2, <2>2 DEF StreamCheck, StreamHolds
  <2> QED
    BY <2>1, <2>2
<1>3. ASSUME StreamRead PROVE StreamHolds'
  <2>1. PICK n \in {0, 1}, err \in {NoError, "EOF", "failed", "ctx.Err()"} :
            /\ n = 1 => pos < NChunks
            /\ err = "EOF" => pos + n = NChunks
            /\ pos' = pos + n /\ pending' = err
            /\ g' = IF n = 1 THEN "send" ELSE "after"
    BY <1>3 DEF StreamRead, ReadResults
  <2>2. g = "read" /\ UNCHANGED <<reading, received, errCh, open>>
    BY <1>3 DEF StreamRead
  <2>3. pos' \in 0 .. NChunks /\ (g' = "send" => Len(received) = pos' - 1)
        /\ (g' = "after" => Len(received) = pos')
    BY <2>1, <2>2, ChunksAssumption DEF StreamHolds
  <2>4. g' \in {"send", "after"} /\ (pending' = "EOF" => pos' = NChunks)
    BY <2>1
  <2> QED
    BY <2>2, <2>3, <2>4 DEF StreamHolds
<1>4. ASSUME StreamSend PROVE StreamHolds'
  <2>1. received' = Append(received, <<reading, pos>>) /\ pos = Len(received) + 1
        /\ UNCHANGED <<reading, pos, pending, errCh, open>> /\ g = "send" /\ g' = "after"
    BY <1>4, ChunksAssumption DEF StreamSend, StreamHolds
  <2>2. received' \in Seq({reading} \X Nat) /\ Len(received') = pos
    BY <2>1, ChunksAssumption DEF StreamHolds
  <2>3. ASSUME NEW i \in 1 .. Len(received') PROVE received'[i] = <<reading, i>>
    BY <2>1, <2>3 DEF StreamHolds
  <2> QED
    BY <2>1, <2>2, <2>3 DEF StreamHolds
<1>5. ASSUME StreamSendGivenUp PROVE StreamHolds'
  BY <1>5, ErrorHolds DEF StreamSendGivenUp, EndWith
<1>6. ASSUME StreamAfter PROVE StreamHolds'
  <2>1. CASE pending \in {NoError, "EOF"}
    BY <1>6, <2>1 DEF StreamAfter, StreamHolds, NoError
  <2>2. CASE pending \notin {NoError, "EOF"}
    BY <1>6, <2>2, ErrorHolds DEF StreamAfter, EndWith
  <2> QED
    BY <2>1, <2>2
<1>7. ASSUME StreamClose PROVE StreamHolds'
  BY <1>7 DEF StreamClose, StreamHolds
<1>8. ASSUME UserLeaves \/ CtxDone PROVE StreamHolds'
  BY <1>8 DEF UserLeaves, CtxDone, StreamHolds
<1> QED
  BY <1>1, <1>2, <1>3, <1>4, <1>5, <1>6, <1>7, <1>8 DEF StreamNext, StreamStep

-----------------------------------------------------------------------------
\* A URL works no longer than until the time that is returned with it.
URLsHold ==
    /\ now \in Nat /\ DOMAIN pc = Uploads
    /\ urls \in [Uploads -> Seq(Nat)] /\ expiresAt \in [Uploads -> Nat]
    /\ \A u \in Uploads :
        /\ pc[u] = "idle" => urls[u] = << >>
        /\ pc[u] = "signing" => \A n \in DOMAIN urls[u] : urls[u][n] <= now + ExpiryDuration
        /\ pc[u] = "given" => \A n \in DOMAIN urls[u] : urls[u][n] <= expiresAt[u]

LEMMA URLsBegin == ASSUME NEW active, UploadInit(active) PROVE URLsHold
BY DEF UploadInit, URLsHold

\* Steps that sign nothing.
LEMMA NothingSigned ==
    ASSUME URLsHold, UNCHANGED <<urls, expiresAt>>, now' \in Nat, now' >= now,
           DOMAIN pc' = Uploads,
           \A u \in Uploads : pc'[u] \in {"idle", "given"} => pc'[u] = pc[u],
           \A u \in Uploads : pc'[u] = "signing" => pc[u] \in {"idle", "signing"}
    PROVE  URLsHold'
<1>1. ASSUME NEW u \in Uploads, pc'[u] = "signing", NEW n \in DOMAIN urls[u]
      PROVE  urls[u][n] <= now' + ExpiryDuration
  <2>1. urls[u][n] \in Nat /\ urls[u][n] <= now + ExpiryDuration
    BY <1>1 DEF URLsHold
  <2> QED
    BY <2>1, UploadAssumption DEF URLsHold
<1> QED
  BY <1>1 DEF URLsHold

LEMMA UploadStepHolds ==
    ASSUME URLsHold, UploadNext
    PROVE  URLsHold'
<1>1. ASSUME NEW u \in Uploads, SignPart(u) PROVE URLsHold'
  <2>1. /\ urls' = [urls EXCEPT ![u] = Append(@, now + ExpiryDuration)]
        /\ UNCHANGED <<now, pc, expiresAt>> /\ pc[u] = "signing"
    BY <1>1 DEF SignPart
  <2>2. now + ExpiryDuration \in Nat
    BY UploadAssumption DEF URLsHold
  <2>3. urls' \in [Uploads -> Seq(Nat)]
    BY <2>1, <2>2 DEF URLsHold
  <2>4. ASSUME NEW n \in DOMAIN urls'[u] PROVE urls'[u][n] <= now + ExpiryDuration
    BY <2>1, <2>2, <2>4 DEF URLsHold
  <2>5. \A v \in Uploads \ {u} : urls'[v] = urls[v]
    BY <2>1 DEF URLsHold
  <2> QED
    BY <2>1, <2>3, <2>4, <2>5 DEF URLsHold
<1>2. ASSUME NEW u \in Uploads, ReturnURLs(u) PROVE URLsHold'
  <2>1. /\ expiresAt' = [expiresAt EXCEPT ![u] = now + ExpiryDuration]
        /\ pc' = [pc EXCEPT ![u] = "given"] /\ UNCHANGED <<now, urls>> /\ pc[u] = "signing"
    BY <1>2 DEF ReturnURLs
  <2> QED
    BY <2>1, UploadAssumption DEF URLsHold
<1>3. ASSUME NEW u \in Uploads, NEW to, pc' = [pc EXCEPT ![u] = to], to \notin {"idle", "given"},
             to = "signing" => pc[u] = "idle", UNCHANGED <<now, urls, expiresAt>>
      PROVE  URLsHold'
  BY <1>3, NothingSigned DEF URLsHold
<1>4. ASSUME NEW u \in Uploads, Complete(u) PROVE URLsHold'
  <2>1. CASE UNCHANGED pc
    BY <1>4, <2>1, NothingSigned DEF Complete, URLsHold
  <2>2. CASE \E to \in {"no parts", "NoSuchUpload", "InvalidPart", "InvalidPartOrder", "OK"} :
                pc' = [pc EXCEPT ![u] = to]
    BY <1>3, <1>4, <2>2 DEF Complete
  <2> QED
    BY <1>4, <2>1, <2>2 DEF Complete, Answer
<1>5. ASSUME NEW u \in Uploads, Initiate(u) PROVE URLsHold'
  BY <1>3, <1>5 DEF Initiate
<1>6. ASSUME NEW u \in Uploads, SignFails(u) \/ SignAndAbortFail(u) \/ Abort(u) PROVE URLsHold'
  BY <1>3, <1>6 DEF SignFails, SignAndAbortFail, Abort
<1>7. ASSUME NEW u \in Uploads, PutPart(u) PROVE URLsHold'
  BY <1>7, NothingSigned DEF PutPart, userVars, URLsHold
<1>8. ASSUME Cleanup PROVE URLsHold'
  BY <1>8, NothingSigned DEF Cleanup, CleanupList, CleanupSpares, CleanupAborts, CleanupFails,
        userVars, URLsHold
<1>9. ASSUME Tick PROVE URLsHold'
  BY <1>9, NothingSigned DEF Tick, userVars, URLsHold
<1> QED
  BY <1>1, <1>2, <1>4, <1>5, <1>6, <1>7, <1>8, <1>9 DEF UploadNext, UserStep

-----------------------------------------------------------------------------
\* Part numbers in any order, each once: those up to v are v many.
LEMMA NumbersUpTo ==
    ASSUME NEW n \in Nat, NEW f \in [1 .. n -> 1 .. n], NEW v \in 1 .. n,
           \A i, j \in 1 .. n : i # j => f[i] # f[j]
    PROVE  Cardinality({j \in 1 .. n : f[j] <= v}) = v
<1> DEFINE D == {j \in 1 .. n : f[j] <= v}
           low == [j \in D |-> f[j]]
<1>1. IsFiniteSet(1 .. n) /\ Cardinality(1 .. n) = n /\ IsFiniteSet(1 .. v) /\ Cardinality(1 .. v) = v
  BY FS_Interval
<1>2. f \in Injection(1 .. n, 1 .. n)
  BY DEF Injection, IsInjective
<1>3. f \in Surjection(1 .. n, 1 .. n)
  BY <1>1, <1>2, FS_Injection
<1>4. low \in Injection(D, 1 .. v)
  BY DEF Injection, IsInjective
<1>5. low \in Surjection(D, 1 .. v)
  <2>1. ASSUME NEW w \in 1 .. v PROVE \E j \in D : low[j] = w
    <3>1. w \in 1 .. n /\ w <= v
      OBVIOUS
    <3>2. PICK j \in 1 .. n : f[j] = w
      BY <1>3, <3>1 DEF Surjection
    <3>3. j \in D
      BY <3>1, <3>2
    <3> QED
      BY <3>2, <3>3
  <2>2. low \in [D -> 1 .. v]
    OBVIOUS
  <2> QED
    BY <2>1, <2>2 DEF Surjection
<1>6. Cardinality(D) = Cardinality(1 .. v)
  BY <1>1, <1>4, <1>5, FS_Injection
<1> QED
  BY <1>1, <1>6

\* However the parts are listed, in order they are the parts from the first to the last.
LEMMA OrderIsThatOfNumbers ==
    ASSUME NEW n \in Nat, NEW numbers \in SetToSeqs(1 .. n)
    PROVE  PartsInOrder(numbers) = [i \in 1 .. n |-> i]
<1>1. Cardinality(1 .. n) = n
  BY FS_Interval
<1>2. numbers \in [1 .. n -> 1 .. n] /\ \A i, j \in 1 .. n : i # j => numbers[i] # numbers[j]
  BY <1>1 DEF SetToSeqs
<1> DEFINE Place(k) == {j \in DOMAIN numbers :
                            numbers[j] < numbers[k] \/ (numbers[j] = numbers[k] /\ j <= k)}
<1>3. ASSUME NEW k \in 1 .. n PROVE Cardinality(Place(k)) = numbers[k]
  <2>1. Place(k) = {j \in 1 .. n : numbers[j] <= numbers[k]}
    <3>1. DOMAIN numbers = 1 .. n
      BY <1>2
    <3>2. ASSUME NEW j \in 1 .. n
          PROVE  numbers[j] <= numbers[k] <=>
                     numbers[j] < numbers[k] \/ (numbers[j] = numbers[k] /\ j <= k)
      <4>1. numbers[j] \in Nat /\ numbers[k] \in Nat
        <5>1. numbers[j] \in 1 .. n /\ numbers[k] \in 1 .. n
          BY <1>2, Zenon
        <5> QED
          BY <5>1
      <4>2. numbers[j] = numbers[k] => j = k
        BY <1>2
      <4> QED
        BY <4>1, <4>2
    <3> QED
      BY <3>1, <3>2
  <2>2. numbers[k] \in 1 .. n
    BY <1>2
  <2>3. Cardinality({j \in 1 .. n : numbers[j] <= numbers[k]}) = numbers[k]
    BY <1>2, <2>2, NumbersUpTo
  <2> QED
    BY <2>1, <2>3
<1>4. ASSUME NEW i \in 1 .. n
      PROVE  numbers[CHOOSE k \in DOMAIN numbers : Cardinality(Place(k)) = i] = i
  <2>1. numbers \in Surjection(1 .. n, 1 .. n)
    BY <1>1, <1>2, FS_Interval, FS_Injection DEF Injection, IsInjective
  <2>2. PICK k \in 1 .. n : numbers[k] = i
    BY <2>1 DEF Surjection
  <2>3. \E j \in DOMAIN numbers : Cardinality(Place(j)) = i
    BY <1>2, <1>3, <2>2
  <2> HIDE DEF Place
  <2> QED
    BY <1>2, <1>3, <2>3
<1> QED
  BY <1>2, <1>4 DEF PartsInOrder

\* What the object consists of, and that its upload is under way or over.
WholeHolds ==
    /\ size \in [Uploads -> Nat] /\ DOMAIN pc = Uploads
    /\ object # Initial =>
          /\ object.by \in Uploads /\ pc[object.by] # "idle"
          /\ object.parts = [i \in 1 .. PartCount(size[object.by]) |-> i]
    /\ \A u \in Uploads : pc[u] # "InvalidPartOrder"

LEMMA WholeBegins == ASSUME NEW active, UploadInit(active) PROVE WholeHolds
BY DEF UploadInit, WholeHolds

\* Steps that complete nothing.
LEMMA WholeStays ==
    ASSUME WholeHolds, object' = object, DOMAIN pc' = Uploads, size' \in [Uploads -> Nat],
           \A u \in Uploads : pc[u] # "idle" => pc'[u] # "idle" /\ size'[u] = size[u],
           \A u \in Uploads : pc'[u] # "InvalidPartOrder"
    PROVE  WholeHolds'
BY DEF WholeHolds

LEMMA WholeStep ==
    ASSUME WholeHolds, UploadNext
    PROVE  WholeHolds'
<1>1. ASSUME NEW u \in Uploads, Complete(u) PROVE WholeHolds'
  <2> DEFINE n == PartCount(size[u])
  <2>1. n \in Nat
    BY PartSizeSuffices, CeilDivIsLeast DEF PartCount, WholeHolds
  <2>2. PICK numbers \in SetToSeqs(1 .. n) :
            LET parts  == PartsInOrder(numbers)
                answer == IF numbers = <<>> THEN "no parts" ELSE Answer(u, parts)
            IN  /\ pc' = [pc EXCEPT ![u] = answer] \/ UNCHANGED pc
                /\ IF answer = "OK"
                   THEN object' = [by |-> u, parts |-> parts]
                   ELSE UNCHANGED object
    BY <1>1 DEF Complete, serverVars
  <2> DEFINE parts  == PartsInOrder(numbers)
             answer == IF numbers = <<>> THEN "no parts" ELSE Answer(u, parts)
  <2>3. parts = [i \in 1 .. n |-> i]
    BY <2>1, OrderIsThatOfNumbers
  <2>4. size' = size /\ pc[u] = "given"
    BY <1>1 DEF Complete
  <2>5. answer \in {"no parts", "NoSuchUpload", "InvalidPart", "OK"}
    <3>1. ~ \E i, j \in DOMAIN parts : i < j /\ parts[i] >= parts[j]
      BY <2>1, <2>3
    <3> QED
      BY <3>1 DEF Answer
  <2>6. /\ pc' = [pc EXCEPT ![u] = answer] \/ UNCHANGED pc
        /\ object' = [by |-> u, parts |-> parts] \/ UNCHANGED object
    BY <2>2
  <2> HIDE DEF n, parts, answer
  <2>7. DOMAIN pc' = Uploads /\ \A v \in Uploads : pc'[v] # "InvalidPartOrder"
    BY <2>5, <2>6 DEF WholeHolds
  <2>8. \A v \in Uploads : pc[v] # "idle" => pc'[v] # "idle"
    BY <2>5, <2>6 DEF WholeHolds
  <2>9. CASE UNCHANGED object
    BY <2>4, <2>7, <2>8, <2>9, WholeStays DEF WholeHolds
  <2>10. CASE object' = [by |-> u, parts |-> parts]
    <3>1. object'.by = u /\ object'.parts = [i \in 1 .. n |-> i]
      BY <2>3, <2>10
    <3> QED
      BY <2>4, <2>7, <2>8, <3>1 DEF WholeHolds, n, PartCount, PartSize, MinPart
  <2> QED
    BY <2>6, <2>9, <2>10
<1>2. ASSUME NEW u \in Uploads, Initiate(u) PROVE WholeHolds'
  <2>1. PICK s \in Sizes : size' = [size EXCEPT ![u] = s]
    BY <1>2 DEF Initiate
  <2>2. s \in Nat
    BY UploadAssumption
  <2> QED
    BY <1>2, <2>1, <2>2, WholeStays DEF Initiate, WholeHolds
<1>3. ASSUME NEW u \in Uploads,
             SignPart(u) \/ SignFails(u) \/ SignAndAbortFail(u) \/ ReturnURLs(u) \/ PutPart(u) \/ Abort(u)
      PROVE  WholeHolds'
  <2>1. UNCHANGED <<object, size>>
    BY <1>3 DEF SignPart, SignFails, SignAndAbortFail, ReturnURLs, PutPart, Abort, serverVars, userVars
  <2>2. pc' = pc \/ pc' = [pc EXCEPT ![u] = "failed"] \/ pc' = [pc EXCEPT ![u] = "given"]
    BY <1>3 DEF SignPart, SignFails, SignAndAbortFail, ReturnURLs, PutPart, Abort, userVars
  <2> QED
    BY <2>1, <2>2, WholeStays DEF WholeHolds
<1>4. ASSUME Cleanup \/ Tick PROVE WholeHolds'
  <2>1. UNCHANGED <<object, size, pc>>
    BY <1>4 DEF Cleanup, CleanupList, CleanupSpares, CleanupAborts, CleanupFails, Tick,
          serverVars, userVars
  <2> QED
    BY <2>1, WholeStays DEF WholeHolds
<1> QED
  BY <1>1, <1>2, <1>3, <1>4 DEF UploadNext, UserStep

-----------------------------------------------------------------------------
LEMMA TransfersBegin == Init => StreamHolds /\ URLsHold /\ WholeHolds
BY StreamBegins, URLsBegin, WholeBegins DEF Init

LEMMA TransfersStep ==
    StreamHolds /\ URLsHold /\ WholeHolds /\ [Next]_<<uploadVars, streamVars>>
        => StreamHolds' /\ URLsHold' /\ WholeHolds'
<1> SUFFICES ASSUME StreamHolds, URLsHold, WholeHolds, [Next]_<<uploadVars, streamVars>>
             PROVE  StreamHolds' /\ URLsHold' /\ WholeHolds'
  OBVIOUS
<1>1. UNCHANGED uploadVars => URLsHold' /\ WholeHolds'
  BY WholeStays DEF uploadVars, userVars, serverVars, URLsHold, WholeHolds
<1>2. UNCHANGED streamVars => StreamHolds'
  BY DEF streamVars, StreamHolds
<1>3. UploadNext => URLsHold' /\ WholeHolds'
  BY UploadStepHolds, WholeStep
<1>4. StreamNext(object.by) => StreamHolds'
  BY StreamStepHolds
<1> QED
  BY <1>1, <1>2, <1>3, <1>4 DEF Next, Terminated

\* A receiver that stays and sees no error has the whole of one object, of however
\* many chunks it consists.
THEOREM StreamsAreWhole == Spec => []WholeOrError
<1>1. StreamHolds => received = [i \in 1 .. Len(received) |-> <<reading, i>>]
  <2> SUFFICES ASSUME StreamHolds PROVE received = [i \in 1 .. Len(received) |-> <<reading, i>>]
    OBVIOUS
  <2>1. DOMAIN received = 1 .. Len(received) /\ received = [i \in DOMAIN received |-> received[i]]
    BY DEF StreamHolds
  <2> QED
    BY <2>1 DEF StreamHolds
<1>2. StreamHolds => Len(errCh) <= 1
  <2> SUFFICES ASSUME StreamHolds PROVE Len(errCh) <= 1
    OBVIOUS
  <2>1. errCh = << >> \/ Len(errCh) = 1
    BY DEF StreamHolds
  <2> QED
    BY <2>1, Len(<< >>) = 0
<1>3. StreamHolds => WholeOrError
  BY <1>1, <1>2 DEF StreamHolds, WholeOrError
<1> QED
  BY <1>3, TransfersBegin, TransfersStep, PTL DEF Spec

\* None of the URLs works when IsExpired says that their upload is expired,
\* however long the signing of however many parts takes.
THEOREM NoURLOutlivesItsUpload == Spec => []ExpiredMeansExpired
<1>1. ASSUME URLsHold, NEW u \in Uploads, pc[u] = "given", IsExpired(u), NEW n \in DOMAIN urls[u]
      PROVE  now > urls[u][n]
  <2>1. now \in Nat /\ expiresAt[u] \in Nat /\ urls[u][n] \in Nat /\ urls[u][n] <= expiresAt[u]
    BY <1>1 DEF URLsHold
  <2> QED
    BY <1>1, <2>1 DEF IsExpired
<1>2. URLsHold => ExpiredMeansExpired
  BY <1>1 DEF ExpiredMeansExpired
<1> QED
  BY <1>2, TransfersBegin, TransfersStep, PTL DEF Spec

\* A completed upload is the whole file in the order of its parts, for a file of any
\* size and parts listed in any order; the server never refuses the order.
THEOREM UploadsAreWhole == Spec => []ObjectWhole
<1>1. WholeHolds => ObjectWhole
  BY DEF WholeHolds, ObjectWhole
<1> QED
  BY <1>1, TransfersBegin, TransfersStep, PTL DEF Spec
==============================================================================
