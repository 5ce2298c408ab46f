------------------------------ MODULE Interlink ------------------------------
(***************************************************************************)
(* The session ring: main/interlink.c, by which the processes that share a *)
(* home directory find each other.  The first one binds a socket there and *)
(* keeps the state for all; the windows of the others are its terminals.   *)
(* Each window that is opened looks for the socket anew (init_next()), so  *)
(* that a process which has lost its master may become one, and a master   *)
(* connects to itself.                                                     *)
(*                                                                         *)
(* Not modelled: the delays between two attempts, a backlog that is full,  *)
(* descriptors that run out, and the events that go over a connection.     *)
(***************************************************************************)
EXTENDS Integers, FiniteSets

CONSTANTS
    Procs,              \* the processes of one user
    MaxConnectTries,    \* MAX_CONNECT_TRIES
    MaxBindTries,       \* MAX_BIND_TRIES
    Overlap,            \* a process may start while another one does
    None, Stale         \* no file at the path; the file of a socket that was closed

ASSUME InterlinkAssumption ==
    /\ IsFiniteSet(Procs)
    /\ MaxConnectTries \in Nat \ {0} /\ MaxBindTries \in Nat \ {0}
    /\ Overlap \in BOOLEAN
    /\ None \notin Procs /\ Stale \notin Procs /\ None # Stale

VARIABLES
    at,         \* process -> where it is in init_interlink(), "up" or "off"
    attempts,   \* process -> attempts of its loop
    master,     \* process -> it has run attach_terminal() and keeps state
    listen,     \* process -> s_info_listen: "none", "bound" or "listening"
    path,       \* the file: None, Stale or the process whose socket it is
    backlog,    \* <<p, q>>: p has connected to q, which has not accepted yet
    terms,      \* <<p, q>>: a window of p is a terminal of q
    denied      \* the directory cannot be written

interlinkVars == <<at, attempts, master, listen, path, backlog, terms, denied>>

InterlinkTypeOK ==
    /\ at \in [Procs -> {"off", "connect", "bind", "bound", "up"}]
    /\ attempts \in [Procs -> 0 .. MaxConnectTries + MaxBindTries]
    /\ master \in [Procs -> BOOLEAN]
    /\ listen \in [Procs -> {"none", "bound", "listening"}]
    /\ path \in Procs \cup {None, Stale}
    /\ path \in Procs => listen[path] # "none"
    /\ backlog \subseteq Procs \X Procs /\ terms \subseteq Procs \X Procs
    /\ denied \in BOOLEAN

InitInterlink ==
    /\ at = [p \in Procs |-> "off"] /\ attempts = [p \in Procs |-> 0]
    /\ master = [p \in Procs |-> FALSE] /\ listen = [p \in Procs |-> "none"]
    /\ denied \in BOOLEAN
    /\ path \in IF denied THEN {None} ELSE {None, Stale}
    /\ backlog = {} /\ terms = {}

Starting(p) == at[p] \in {"connect", "bind", "bound"}

-----------------------------------------------------------------------------
\* init_next(): a process starts, or one that runs opens a window.
Open(p) ==
    /\ at[p] \in {"off", "up"}
    /\ Overlap \/ \A q \in Procs : ~Starting(q)
    /\ at' = [at EXCEPT ![p] = "connect"] /\ attempts' = [attempts EXCEPT ![p] = 0]
    /\ UNCHANGED <<master, listen, path, backlog, terms, denied>>

\* connect_to_af_unix(), when a socket at the path listens
Connect(p) ==
    /\ at[p] = "connect" /\ path \in Procs /\ listen[path] = "listening"
    /\ backlog' = backlog \cup {<<p, path>>}
    /\ at' = [at EXCEPT ![p] = "up"]
    /\ UNCHANGED <<attempts, master, listen, path, terms, denied>>

\* ECONNREFUSED or ENOENT; after the last attempt bind_to_af_unix() begins.
ConnectFails(p) ==
    /\ at[p] = "connect" /\ (path \in Procs => listen[path] # "listening")
    /\ IF attempts[p] + 1 < MaxConnectTries
       THEN UNCHANGED at /\ attempts' = [attempts EXCEPT ![p] = @ + 1]
       ELSE at' = [at EXCEPT ![p] = "bind"] /\ attempts' = [attempts EXCEPT ![p] = 0]
    /\ UNCHANGED <<master, listen, path, backlog, terms, denied>>

CanBind == path = None /\ ~denied

\* bind_to_af_unix().  The variable of an older socket of the process is
\* overwritten.
Bind(p) ==
    /\ at[p] = "bind" /\ CanBind
    /\ path' = p
    /\ listen' = [listen EXCEPT ![p] = "bound"]
    /\ at' = [at EXCEPT ![p] = "bound"]
    /\ UNCHANGED <<attempts, master, backlog, terms, denied>>

\* unlink_unix()
Unlinked == IF denied THEN path ELSE None

\* The end of init_interlink() without a connection: attach_terminal()
Alone(p) ==
    /\ at' = [at EXCEPT ![p] = "up"]
    /\ master' = [master EXCEPT ![p] = TRUE]

Listen(p) ==
    /\ at[p] = "bound"
    /\ listen' = [listen EXCEPT ![p] = "listening"]
    /\ Alone(p)
    /\ UNCHANGED <<attempts, path, backlog, terms, denied>>

\* mutant: attempts are not counted while there is a file
BindFailsOn(p) ==
    /\ at[p] = "bind" /\ ~CanBind /\ denied
    /\ attempts' = [attempts EXCEPT ![p] = @ + 1]
    /\ IF attempts'[p] <= MaxBindTries
       THEN UNCHANGED <<at, master, listen>>
       ELSE listen' = [listen EXCEPT ![p] = "none"] /\ Alone(p)
    /\ UNCHANGED <<path, backlog, terms, denied>>

\* EADDRINUSE, or an error that is reported: the file goes before the last
\* attempt, and once more in done_interlink() after it, whosever it is.
BindFails(p) ==
    /\ at[p] = "bind" /\ ~CanBind
    /\ attempts' = [attempts EXCEPT ![p] = @ + 1]
    /\ path' = IF attempts'[p] >= MaxBindTries THEN Unlinked ELSE path
    /\ IF attempts'[p] <= MaxBindTries
       THEN UNCHANGED <<at, master, listen>>
       ELSE listen' = [listen EXCEPT ![p] = "none"] /\ Alone(p)
    /\ UNCHANGED <<backlog, terms, denied>>

-----------------------------------------------------------------------------
\* af_unix_connection()
Accept(p, q) ==
    /\ <<p, q>> \in backlog /\ listen[q] = "listening"
    /\ backlog' = backlog \ {<<p, q>>} /\ terms' = terms \cup {<<p, q>>}
    /\ UNCHANGED <<at, attempts, master, listen, path, denied>>

\* The end of a process closes its sockets, on which the others free their
\* windows.
Gone(p) ==
    /\ at' = [at EXCEPT ![p] = "off"] /\ attempts' = [attempts EXCEPT ![p] = 0]
    /\ master' = [master EXCEPT ![p] = FALSE] /\ listen' = [listen EXCEPT ![p] = "none"]
    /\ backlog' = {c \in backlog : p \notin {c[1], c[2]}}
    /\ terms' = {c \in terms : p \notin {c[1], c[2]}}

\* mutant: done_interlink() unlinks without a look at s_info_listen.addr
QuitUnlinks(p) ==
    /\ at[p] = "up"
    /\ Gone(p)
    /\ path' = Unlinked
    /\ UNCHANGED denied

\* terminate_all_subsystems(): done_interlink() of one that has bound unlinks
\* whatever is at the path.
Quit(p) ==
    /\ at[p] = "up"
    /\ Gone(p)
    /\ path' = IF listen[p] # "none" THEN Unlinked ELSE path
    /\ UNCHANGED denied

\* The process is killed; the file stays.
Killed(p) ==
    /\ at[p] # "off"
    /\ Gone(p)
    /\ path' = IF path = p THEN Stale ELSE path
    /\ UNCHANGED denied

Step(p) == Connect(p) \/ ConnectFails(p) \/ Bind(p) \/ BindFails(p) \/ Listen(p)

NextInterlink == \E p \in Procs :
    Open(p) \/ Step(p) \/ Quit(p) \/ Killed(p) \/ \E q \in Procs : Accept(q, p)

\* Both threads go on: the one that opens windows, and the loop, which takes
\* the connections of the backlog in their order.
SpecInterlink ==
    /\ InitInterlink /\ [][NextInterlink]_interlinkVars
    /\ \A p \in Procs : WF_interlinkVars(Step(p)) /\ \A q \in Procs : WF_interlinkVars(Accept(q, p))

-----------------------------------------------------------------------------
\* Properties

\* "all instances of ELinks are interconnected and share state" (the option
\* session-ring): the one that keeps the state is reached at the path,
\* whoever has crashed, quit or lost a master before.  This needs that nobody
\* takes the file of another process away, which bind_to_af_unix() and
\* done_interlink() do without a look.
Interlinked ==
    \A p \in Procs : ~denied /\ at[p] = "up" /\ master[p] => listen[p] = "listening" /\ path = p

\* Two processes never keep state, and save it to the same files, at once.
OneRing == \A p, q \in Procs : ~denied /\ master[p] /\ master[q] => p = q

\* Every window comes up, with a state of its own or over a connection that
\* is accepted, unless it or its master ends; a stale file or a directory
\* that cannot be written never stops it.
WindowsOpen ==
    \A p \in Procs :
        /\ Starting(p) ~> ~Starting(p)
        /\ \A q \in Procs : <<p, q>> \in backlog ~> <<p, q>> \notin backlog
=============================================================================
