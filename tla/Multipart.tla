----------------------------- MODULE Multipart -----------------------------
(***************************************************************************)
(* presigned_put_utils.go: multipart uploads whose parts somebody else     *)
(* uploads with presigned URLs, from GenerateMultipartUploadURLs to        *)
(* CompleteMultipartUpload, AbortMultipartUpload or a                      *)
(* CleanupIncompleteUploads.  All of them write one object.                *)
(***************************************************************************)
EXTENDS PartSizes, SequencesExt

CONSTANTS
    Uploads,
    Sizes,            \* sizes of the files that users ask for
    MaxObjectSize,    \* UploadConfig.MaxObjectSize
    ExpiryDuration,
    OlderThan,        \* argument of CleanupIncompleteUploads
    MaxTime,          \* bound: ticks of the clock
    MaxFaults         \* bound: requests that fail, or whose answers get lost

ASSUME UploadAssumption ==
    /\ Sizes \subseteq Nat /\ MaxObjectSize \in Nat
    /\ ExpiryDuration \in Nat /\ OlderThan \in Nat
    /\ MaxTime \in Nat /\ MaxFaults \in Nat

VARIABLES
    now, faults,
    server,      \* server[u]: an upload as the server keeps it
    pc,          \* pc[u]: how far its user is
    size,        \* size[u]: of the file
    urls,        \* urls[u]: when the URL of each part stops to work
    expiresAt,   \* expiresAt[u]: MultipartUploadInfo.ExpiresAt
    cleanup,     \* the uploads that a cleanup has still to look at, and its cutoff
    object       \* what the object consists of: the upload, and its parts

serverVars == <<server, object>>
userVars   == <<pc, size, urls, expiresAt>>
uploadVars == <<now, faults, serverVars, userVars, cleanup>>

Initial == [by |-> "somebody else", parts |-> <<>>]

\* The uploads that are not active were left by users that are gone.
UploadInit(active) ==
    /\ now = 0 /\ faults = 0
    /\ server = [u \in Uploads |-> [state |-> IF u \in active THEN "none" ELSE "open",
                                     initiated |-> 0, parts |-> {}]]
    /\ pc = [u \in Uploads |-> IF u \in active THEN "idle" ELSE "failed"]
    /\ size = [u \in Uploads |-> 0]
    /\ urls = [u \in Uploads |-> <<>>]
    /\ expiresAt = [u \in Uploads |-> 0]
    /\ cleanup = [pc |-> "idle", left |-> <<>>, cutoff |-> 0]
    /\ object = Initial

Fault == faults < MaxFaults /\ faults' = faults + 1

-----------------------------------------------------------------------------
\* GenerateMultipartUploadURLs up to initiateMultipartUpload: the server creates
\* the upload; the answer may get lost, and with it the upload ID.
Initiate(u) ==
    /\ pc[u] = "idle"
    /\ now + OlderThan < MaxTime      \* or it would not get old within the bound
    /\ \E s \in Sizes :
          /\ s <= MaxObjectSize
          /\ size' = [size EXCEPT ![u] = s]
    /\ server' = [server EXCEPT ![u] = [state |-> "open", initiated |-> now, parts |-> {}]]
    /\ \/ pc' = [pc EXCEPT ![u] = "signing"] /\ UNCHANGED faults
       \/ pc' = [pc EXCEPT ![u] = "failed"] /\ Fault
    /\ UNCHANGED <<now, urls, expiresAt, cleanup, object>>

\* generatePartPresignedURL, for the next part
SignPart(u) ==
    /\ pc[u] = "signing" /\ Len(urls[u]) < PartCount(size[u])
    /\ urls' = [urls EXCEPT ![u] = Append(@, now + ExpiryDuration)]
    /\ UNCHANGED <<now, faults, serverVars, pc, size, expiresAt, cleanup>>

\* A URL cannot be signed: the upload is aborted, and a failure of that ignored.
SignFails(u) ==
    /\ pc[u] = "signing" /\ Len(urls[u]) < PartCount(size[u])
    /\ Fault
    /\ pc' = [pc EXCEPT ![u] = "failed"]
    /\ server' = [server EXCEPT ![u].state = "aborted"]
    /\ UNCHANGED <<now, size, urls, expiresAt, cleanup, object>>

SignAndAbortFail(u) ==
    /\ pc[u] = "signing" /\ Len(urls[u]) < PartCount(size[u])
    /\ Fault
    /\ pc' = [pc EXCEPT ![u] = "failed"]
    /\ UNCHANGED <<now, serverVars, size, urls, expiresAt, cleanup>>

\* A mistake: the time is taken when signing begins.
ReturnFirstExpiry(u) ==
    /\ pc[u] = "signing" /\ Len(urls[u]) = PartCount(size[u])
    /\ expiresAt' = [expiresAt EXCEPT ![u] = server[u].initiated + ExpiryDuration]
    /\ pc' = [pc EXCEPT ![u] = "given"]
    /\ UNCHANGED <<now, faults, serverVars, size, urls, cleanup>>

\* All URLs are signed: now the time is taken from which on they are expired.
ReturnURLs(u) ==
    /\ pc[u] = "signing" /\ Len(urls[u]) = PartCount(size[u])
    /\ expiresAt' = [expiresAt EXCEPT ![u] = now + ExpiryDuration]
    /\ pc' = [pc EXCEPT ![u] = "given"]
    /\ UNCHANGED <<now, faults, serverVars, size, urls, cleanup>>

\* MultipartUpload.IsExpired
IsExpired(u) == now > expiresAt[u]

-----------------------------------------------------------------------------
\* A user of the URLs puts a part, in any order, as long as the URL works.
PutPart(u) ==
    /\ pc[u] = "given" /\ server[u].state = "open"
    /\ \E n \in 1 .. Len(urls[u]) :
          /\ now <= urls[u][n]
          /\ server' = [server EXCEPT ![u].parts = @ \cup {n}]
          /\ server' # server
    /\ UNCHANGED <<now, faults, userVars, cleanup, object>>

\* A mistake: in the order in which the caller lists them.
PartsAsListed(numbers) == numbers

\* CompleteMultipartUpload sorts the parts by their numbers: each comes to the place
\* that is the count of those not above it.
PartsInOrder(numbers) ==
    LET place(k) == Cardinality({j \in DOMAIN numbers :
            numbers[j] < numbers[k] \/ (numbers[j] = numbers[k] /\ j <= k)})
    IN  [i \in DOMAIN numbers |-> numbers[CHOOSE k \in DOMAIN numbers : place(k) = i]]

\* What the server answers to the list of parts.
Answer(u, parts) ==
    IF server[u].state # "open" THEN "NoSuchUpload"
    ELSE IF ~(ToSet(parts) \subseteq server[u].parts) THEN "InvalidPart"
    ELSE IF \E i, j \in DOMAIN parts : i < j /\ parts[i] >= parts[j] THEN "InvalidPartOrder"
    ELSE "OK"

\* The user has put every part and lists them in the order of the uploads. When the
\* answer gets lost the user does not know, and calls again.
Complete(u) ==
    /\ pc[u] = "given"
    /\ \/ server[u].state # "open"
       \/ server[u].parts = 1 .. PartCount(size[u])
    /\ \E numbers \in SetToSeqs(1 .. PartCount(size[u])) :
          LET parts  == PartsInOrder(numbers)
              answer == IF numbers = <<>> THEN "no parts" ELSE Answer(u, parts)
          IN  /\ \/ pc' = [pc EXCEPT ![u] = answer] /\ UNCHANGED faults
                 \/ UNCHANGED pc /\ Fault
              /\ IF answer = "OK"
                 THEN /\ server' = [server EXCEPT ![u].state = "completed"]
                      /\ object' = [by |-> u, parts |-> parts]
                 ELSE UNCHANGED serverVars
    /\ UNCHANGED <<now, size, urls, expiresAt, cleanup>>

\* AbortMultipartUpload
Abort(u) ==
    /\ pc[u] = "given"
    /\ pc' = [pc EXCEPT ![u] = "failed"]
    /\ \/ server' = [server EXCEPT ![u].state = IF @ = "open" THEN "aborted" ELSE @]
          /\ UNCHANGED faults
       \/ UNCHANGED server /\ Fault
    /\ UNCHANGED <<now, size, urls, expiresAt, cleanup, object>>

-----------------------------------------------------------------------------
\* CleanupIncompleteUploads: ListIncompleteUploads, then the cutoff.
CleanupList ==
    /\ cleanup.pc = "idle"
    /\ \E list \in SetToSeqs({u \in Uploads : server[u].state = "open"}) :
          cleanup' = [pc |-> "listed", left |-> list, cutoff |-> now - OlderThan]
    /\ cleanup'.left # <<>>
    /\ UNCHANGED <<now, faults, serverVars, userVars>>

CleanupDone == [pc |-> "idle", left |-> <<>>, cutoff |-> 0]

Rest(c) == IF Len(c.left) = 1 THEN CleanupDone ELSE [c EXCEPT !.left = Tail(@)]

\* A mistake: the operands of Before the other way round.
TooYoung(u) == cleanup.cutoff < server[u].initiated

\* upload.Initiated.Before(cutoffTime)
TooOld(u) == server[u].initiated < cleanup.cutoff

CleanupSpares ==
    /\ cleanup.pc = "listed"
    /\ ~TooOld(Head(cleanup.left))
    /\ cleanup' = Rest(cleanup)
    /\ UNCHANGED <<now, faults, serverVars, userVars>>

CleanupAborts ==
    /\ cleanup.pc = "listed"
    /\ LET u == Head(cleanup.left)
       IN  /\ TooOld(u)
           /\ server[u].state = "open"
           /\ server' = [server EXCEPT ![u].state = "aborted"]
    /\ cleanup' = Rest(cleanup)
    /\ UNCHANGED <<now, faults, userVars, object>>

\* The upload is gone since it was listed, or the request fails: the cleanup ends
\* without a look at the others.
CleanupFails ==
    /\ cleanup.pc = "listed"
    /\ LET u == Head(cleanup.left)
       IN  /\ TooOld(u)
           /\ \/ server[u].state # "open" /\ UNCHANGED faults
              \/ Fault
    /\ cleanup' = CleanupDone
    /\ UNCHANGED <<now, serverVars, userVars>>

Tick ==
    /\ now < MaxTime
    /\ now' = now + 1
    /\ UNCHANGED <<faults, serverVars, userVars, cleanup>>

UserStep(u) ==
    \/ Initiate(u) \/ SignPart(u) \/ SignFails(u) \/ SignAndAbortFail(u) \/ ReturnURLs(u)
    \/ PutPart(u) \/ Complete(u) \/ Abort(u)

Cleanup == CleanupList \/ CleanupSpares \/ CleanupAborts \/ CleanupFails

UploadNext == (\E u \in Uploads : UserStep(u)) \/ Cleanup \/ Tick

-----------------------------------------------------------------------------
\* A completed upload is the whole file, part after part, however its parts came;
\* the server never refuses the order of the list.
ObjectWhole ==
    /\ object # Initial => object.parts = [i \in 1 .. PartCount(size[object.by]) |-> i]
    /\ \A u \in Uploads : pc[u] # "InvalidPartOrder"

\* "After this time, the presigned URLs will no longer be valid": none of the URLs
\* works when IsExpired says that the upload is expired. (The converse does not
\* hold: those signed first end a little earlier.)
ExpiredMeansExpired ==
    \A u \in Uploads : pc[u] = "given" /\ IsExpired(u) =>
        \A n \in DOMAIN urls[u] : now > urls[u][n]

\* Whatever a user does, or fails to do, no upload stays on the server for ever:
\* not the one whose ID got lost, nor the one of an empty file, which has no part
\* and cannot be completed.
NoUploadLeaks ==
    \A u \in Uploads : server[u].state = "open" ~> server[u].state # "open"
=============================================================================
