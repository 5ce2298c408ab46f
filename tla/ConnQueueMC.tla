---------------------------- MODULE ConnQueueMC ----------------------------
(* Small instances of ConnQueue: a URI of each of two hosts and a local     *)
(* file, which has none; or one URI of a host and a local file.             *)
EXTENDS ConnQueue

CONSTANTS c1, c2, c3, d1, d2, a1, b1, file, hostA, hostB

TwoHosts == (a1 :> hostA) @@ (b1 :> hostB) @@ (file :> NoHost)
HostAndFile == (a1 :> hostA) @@ (file :> NoHost)

\* Connection structures and downloads are interchangeable.
Interchangeable == Permutations(Conns) \cup Permutations(Downloads)
=============================================================================
