----------------------------- MODULE InterlinkMC -----------------------------
(* Three processes of one user that look for each other.                    *)
EXTENDS Interlink
=============================================================================
