---------------------------- MODULE MCFileResponse ----------------------------
(* Small files and pages for FileResponse. *)
EXTENDS FileResponse

UpTo(n) == 0..n
AllSizes == UpTo(7)

\* The sizes for which the last chunk does not fill the buffer: with an empty
\* file, all but the multiples of the chunk.
OddSizes == {0} \cup {n \in UpTo(32) : n % ChunkSize # 0}
=============================================================================
