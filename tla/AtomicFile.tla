----------------------------- MODULE AtomicFile -----------------------------
(***************************************************************************)
(* What util/secsave.c promises to the owner of a data file (histories,    *)
(* cookies, bookmarks, configuration): whoever reads the file finds either *)
(* what was there before or the whole of what was saved.  How far that     *)
(* goes depends on the options and on the kind of the file:                *)
(*   "all"   written aside and synchronised: also after a loss of power    *)
(*   "kill"  written aside: whenever the program ends, but not the power   *)
(*   "none"  written in place: no promise                                  *)
(* The data is a sequence of records that may change while they are saved, *)
(* so what is published is each record as it was at some moment since the  *)
(* save began; records are ordered by their age.                           *)
(***************************************************************************)
EXTENDS Naturals, Sequences

CONSTANTS
    Contents    \* what a file, or the memory of the program, may hold

VARIABLES
    promise,    \* "all", "kill" or "none"
    mem,        \* the data in the program
    began,      \* the data when the save of it began
    content,    \* what a reader of the file finds
    durable,    \* what a reader finds after a loss of power
    losses      \* how often the power was lost

vars == <<promise, mem, began, content, durable, losses>>

\* Every record of s is as old as that of a or newer, and not newer than that
\* of b; none is missing.
Between(a, s, b) ==
    /\ Len(a) = Len(s) /\ Len(s) = Len(b)
    /\ \A i \in 1 .. Len(s) : a[i] <= s[i] /\ s[i] <= b[i]

Init ==
    /\ promise \in {"all", "kill", "none"}
    /\ mem \in Contents
    /\ began = mem
    /\ content = mem
    /\ durable = mem
    /\ losses = 0

\* The program changes its data, which no reader of the file notices.
Edit ==
    /\ mem' \in Contents
    /\ UNCHANGED <<promise, began, content, durable, losses>>

\* A save of the data begins.
Begin ==
    /\ began' = mem
    /\ UNCHANGED <<promise, mem, content, durable, losses>>

\* The whole of the data replaces the file in one step.
Publish ==
    /\ content' \in Contents
    /\ Between(began, content', mem)
    /\ durable' \in {durable, content'}
    /\ UNCHANGED <<promise, mem, began, losses>>

\* The operating system puts on the disk what readers see already.
Settle ==
    /\ durable' = content
    /\ UNCHANGED <<promise, mem, began, content, losses>>

\* The program starts again and reads its file.
Restart ==
    /\ mem' = content /\ began' = content
    /\ UNCHANGED <<promise, content, durable, losses>>

\* Only a synchronised file is sure to come back whole.
PowerLoss ==
    /\ losses' = losses + 1
    /\ content' \in Contents
    /\ promise = "all" => content' = durable
    /\ durable' = content'
    /\ UNCHANGED <<promise, mem, began>>

\* A file written in place may be seen half written at any time, and is
\* truncated when its save begins.
InPlace ==
    /\ promise = "none"
    /\ content' \in Contents
    /\ durable' \in Contents
    /\ began' \in {began, mem}
    /\ UNCHANGED <<promise, mem, losses>>

Next == Edit \/ Begin \/ Publish \/ Settle \/ Restart \/ PowerLoss \/ InPlace

Spec == Init /\ [][Next]_vars
=============================================================================
