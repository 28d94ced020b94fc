---------------------------- MODULE MCBlobManager ----------------------------
\* Instances of BlobManager for TLC.
EXTENDS BlobManager, TLC

\* Callers, flights and handlers are interchangeable, and so are blobs.
Symmetry == Permutations(Blob) \cup Permutations(Caller) \cup Permutations(Flight)
            \cup Permutations(Handler)
=============================================================================
