-------------------------- MODULE CacheFragmentsMC --------------------------
(* A document of at most MaxEnd bytes in two versions.                      *)
EXTENDS CacheFragments

CONSTANTS v1, v2

Versions == Permutations(Bytes)
=============================================================================
