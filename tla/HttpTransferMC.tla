---------------------------- MODULE HttpTransferMC ----------------------------
(* A document that changes once.                                             *)
EXTENDS HttpTransfer

MCLength == <<3, 2>>
AllServers == [ranges : {"none", "right", "late"}, tagged : {TRUE}]
=============================================================================
