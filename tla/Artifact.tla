------------------------------ MODULE Artifact ------------------------------
(***************************************************************************)
(* core/artifact.py: a file kept for forensics.  It is written under a     *)
(* temporary name; close() hashes what was written and renames the file to *)
(* its hash.  A record stands for the object: whether its handle is open,  *)
(* what was written, and where the file is.  Data is a sequence of chunks. *)
(***************************************************************************)
EXTENDS Sequences

NoArtifact == [fp |-> "none", data |-> <<>>, at |-> "nowhere"]

NewArtifact == [fp |-> "open", data |-> <<>>, at |-> "temp"]

\* Writing to a closed handle raises: CanWrite is what the callers rely on.
CanWrite(a) == a.fp = "open"
Written(a, chunk) == [a EXCEPT !.data = Append(@, chunk)]

\* __exit__ and tftp's clean-up close the handle and nothing else.
HandleClosed(a) == IF a.fp = "open" THEN [a EXCEPT !.fp = "closed"] ELSE a

\* close(): on a closed handle fp.tell() raises before anything is done; an
\* empty file is removed and its handle stays open; any other is hashed and
\* renamed, or removed when the same content is there already.
Closed(a) ==
    IF a.fp # "open" THEN a
    ELSE IF a.data = <<>> THEN [a EXCEPT !.at = "removed"]
    ELSE [a EXCEPT !.fp = "closed", !.at = "hash"]

\* The set of artifacts whose chunks are taken from Chunk.
ArtifactType(Chunk) ==
    [fp : {"none", "open", "closed"}, data : Seq(Chunk),
     at : {"nowhere", "temp", "removed", "hash"}]
=============================================================================
