---------------------------- MODULE CacheStoreMC ----------------------------
(* One URI that comes by HTTP and one that expires, both large; three       *)
(* entries for them, so that invalid ones stay around.                      *)
EXTENDS CacheStore

CONSTANTS u1, u2, c1, c2, e1, e2, e3

\* Entries and connection structures are interchangeable.
Interchangeable == Permutations(Entries) \cup Permutations(Conns)
=============================================================================
