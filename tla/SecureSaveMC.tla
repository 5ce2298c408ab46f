---------------------------- MODULE SecureSaveMC ----------------------------
(* A file of two records per version, on each kind of file and with every  *)
(* setting of the options; enough inodes for every save the bounds allow.  *)
EXTENDS SecureSave
=============================================================================
