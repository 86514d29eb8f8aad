--------------------------- MODULE ObjectTransfers ---------------------------
(***************************************************************************)
(* Uploads in parts and a download as a stream, of the same object: an     *)
(* upload that completes replaces the object under a download.             *)
(***************************************************************************)
EXTENDS Multipart, StreamGet

CONSTANT Active    \* uploads that begin; the others were left by users that are gone

ASSUME ActiveAssumption == Active \subseteq Uploads

\* Sizes at which the arithmetic changes course, in units of MiB / 4.
PlanSizes ==
    LET around(n) == {n - 1, n, n + 1}
    IN  ({0, 1} \cup around(MinPart) \cup around(10 * MinPart)
            \cup around(LimitPartCount) \cup around(LimitPartCount * MinPart)
            \cup around(LimitPartCount * (MinPart + MiB)) \cup {MaxObjectSize - 1, MaxObjectSize}) \cap Nat

\* Uploads, or a download during a cleanup.
Init ==
    \/ UploadInit(Active) /\ StreamInit("none")
    \/ UploadInit({}) /\ StreamInit("start")

Terminated ==
    /\ g \in {"none", "gone"}
    /\ \A u \in Uploads : server[u].state # "open" /\ pc[u] # "signing"
    /\ UNCHANGED <<uploadVars, streamVars>>

Next ==
    \/ UploadNext /\ UNCHANGED streamVars
    \/ StreamNext(object.by) /\ UNCHANGED uploadVars
    \/ Terminated

\* Cleanups run again and again; users of uploads may do nothing.
Spec ==
    /\ Init /\ [][Next]_<<uploadVars, streamVars>>
    /\ WF_uploadVars(Cleanup) /\ WF_uploadVars(Tick)
    /\ WF_streamVars(StreamOpen(object.by) \/ StreamStep)

\* Every file up to the maximum can be uploaded in the parts that the package
\* recommends, and every object be put together from the ranges that it gives.
FilesCut ==
    \A fileSize \in PlanSizes :
        /\ fileSize <= MaxObjectSize => UploadCut(fileSize)
        /\ fileSize <= 8 * DefaultPartSize =>
               \A partSize \in {0, 1, MiB, DefaultPartSize} : DownloadCut(fileSize, partSize)
=============================================================================
