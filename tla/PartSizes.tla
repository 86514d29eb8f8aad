----------------------------- MODULE PartSizes -----------------------------
(***************************************************************************)
(* The arithmetic of presigned_put_utils.go and presigned_get_utils.go:    *)
(* into how many parts of which size an object is cut.  Sizes are in any   *)
(* unit of which MiB is a multiple.                                        *)
(***************************************************************************)
EXTENDS Integers

CONSTANTS
    MiB,
    MinPartSize,       \* UploadConfig.MinPartSize, 0 when not set
    LimitPartCount     \* minioLimitPartCount

ASSUME PartAssumption ==
    /\ MiB \in Nat \ {0} /\ MinPartSize \in Nat
    /\ LimitPartCount \in Nat /\ LimitPartCount >= 10

\* minPartSizeForUpload, MultipartDownloadDefaultPartSize
DefaultPartSize == 5 * MiB

\* math.Ceil(float64(a) / float64(b)), exact for sizes below 2^53
CeilDiv(a, b) == (a + b - 1) \div b

MinPart == IF MinPartSize > 0 THEN MinPartSize ELSE DefaultPartSize

\* A mistake: down to the nearest MiB.
RoundDown(size) == MiB * (size \div MiB)

\* ((partSize + 1024*1024 - 1) / (1024 * 1024)) * (1024 * 1024)
RoundUp(size) == MiB * CeilDiv(size, MiB)

\* calculateOptimalPartSize: few parts of the least size, or parts that are large
\* enough for the limit on their number.
PartSize(fileSize) ==
    LET even == RoundUp(CeilDiv(fileSize, LimitPartCount))
    IN  IF fileSize < 10 * MinPart \/ even < MinPart THEN MinPart ELSE even

PartCount(fileSize) == CeilDiv(fileSize, PartSize(fileSize))

-----------------------------------------------------------------------------
\* GenerateMultipartPresignedGetURLs: part i of n, its first and its last byte.
DownloadPartSize(partSize) == IF partSize = 0 THEN DefaultPartSize ELSE partSize

StartByte(partSize, i) == (i - 1) * partSize

EndByte(totalSize, partSize, i) ==
    IF i * partSize - 1 >= totalSize THEN totalSize - 1 ELSE i * partSize - 1

Parts(totalSize, partSize) == 1 .. CeilDiv(totalSize, DownloadPartSize(partSize))

-----------------------------------------------------------------------------
\* An upload of that size can be completed: parts that the server takes, not more
\* than it takes, none empty, and together the whole file.
UploadCut(fileSize) ==
    LET n == PartCount(fileSize)
        p == PartSize(fileSize)
    IN  /\ n <= LimitPartCount
        /\ p >= MinPart
        /\ n * p >= fileSize
        /\ (n - 1) * p < fileSize

\* The ranges of a download follow each other from the first byte to the last.
DownloadCut(totalSize, partSize) ==
    LET p == DownloadPartSize(partSize)
        ps == Parts(totalSize, partSize)
    IN  /\ \A i \in ps : StartByte(p, i) <= EndByte(totalSize, p, i)
        /\ \A i \in ps : i + 1 \in ps => StartByte(p, i + 1) = EndByte(totalSize, p, i) + 1
        /\ \A i \in ps : i + 1 \notin ps => EndByte(totalSize, p, i) = totalSize - 1
=============================================================================
