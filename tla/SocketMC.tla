------------------------------- MODULE SocketMC -------------------------------
(* Hosts that are not found, that have forbidden addresses before, after    *)
(* or instead of usable ones, and one that is tried twice.                  *)
EXTENDS Socket

MCHosts == {<<>>, <<"usable", "usable">>, <<"family", "remote">>, <<"remote", "usable">>, <<"usable", "family">>, <<"family">>}
MCFd == 1 .. 3
=============================================================================
