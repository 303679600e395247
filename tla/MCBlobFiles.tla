----------------------------- MODULE MCBlobFiles -----------------------------
(* Small instances of BlobFiles: two or three interchangeable clients. *)
EXTENDS BlobFiles, TLC
CONSTANTS c1, c2, c3
TwoClients == {c1, c2}
ThreeClients == {c1, c2, c3}
Symmetric == Permutations(Clients)
=============================================================================
