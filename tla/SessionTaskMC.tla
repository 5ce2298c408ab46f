---------------------------- MODULE SessionTaskMC ----------------------------
(* A page and a form that redirect to each other; the form yields a file.   *)
EXTENDS SessionTask

MCUris == {"page", "form"}
MCAnswers == [u \in MCUris |-> {None} \cup (MCUris \ {u})]
MCFiles == {"form"}
MCForms == {"form"}
MCLocs == 1 .. 3
=============================================================================
