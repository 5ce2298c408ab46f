----------------------------- MODULE ConnQueue -----------------------------
(***************************************************************************)
(* The connection queue of src/src/network/connection.c: the connections   *)
(* waiting for or holding a slot, the downloads attached to them, the      *)
(* per-host counters, the keepalive connections and the passes of          *)
(* check_queue() that hand the slots out.                                  *)
(*                                                                         *)
(* The select-loop thread runs check_queue() (a bottom half), the          *)
(* keepalive timer and the protocol handlers.  load_uri(),                 *)
(* cancel_download() and the like are called by download callbacks, which  *)
(* run in the middle of a pass of check_queue(), and by the user interface *)
(* thread, which takes no lock.  A step is one such call, or one turn of a *)
(* loop of check_queue(); pc says which loop the select-loop thread is in. *)
(***************************************************************************)
EXTENDS Naturals, Integers, FiniteSets, SequencesExt

CONSTANTS
    Conns,              \* the connection structures that can be allocated
    Downloads,          \* struct download, embedded in sessions and files
    Uris,               \* what load_uri() is asked for
    Hosts,              \* the hosts of these URIs
    HostOf,             \* Uris -> Hosts \cup {NoHost}; file:// has no host
    PostUris,           \* the URIs with POST data
    QuitUris,           \* the URIs whose keepalive has a done callback (NNTP)
    MaxConns,           \* option connection.max_connections
    MaxConnsToHost,     \* option connection.max_connections_to_host
    Retries,            \* option connection.retries; 0 is "try forever"
    MaxKeepalive,       \* MAX_KEEPALIVE_CONNECTIONS
    PRI_CANCEL,         \* the last priority: nobody wants the connection
    MaxOrphaned,        \* bound: times one connection may lose its last owner
    NoConn, NoUri, NoHost

ASSUME ConnsAssumption == IsFiniteSet(Conns) /\ NoConn \notin Conns
ASSUME DownloadsAssumption == IsFiniteSet(Downloads)
ASSUME UrisAssumption ==
    /\ NoHost \notin Hosts
    /\ NoUri \notin Uris
    /\ HostOf \in [Uris -> Hosts \cup {NoHost}]
    /\ PostUris \subseteq Uris
    /\ QuitUris \subseteq {u \in Uris : HostOf[u] # NoHost}
ASSUME LimitsAssumption ==
    /\ MaxConns \in Nat \ {0}
    /\ MaxConnsToHost \in Nat \ {0}
    /\ Retries \in Nat
    /\ MaxKeepalive \in Nat
    /\ MaxOrphaned \in Nat
    /\ PRI_CANCEL \in Nat \ {0}

VARIABLES
    queue,      \* connection_queue, first to last
    conn,       \* the fields of each struct connection; FreeConn when freed
    dl,         \* the fields of each struct download
    active,     \* active_connections
    hostRefs,   \* the reference count of each host_connection; 0: none
    keep,       \* keepalive_connections, newest first, as the URIs they had
    keepTimer,  \* keepalive_timeout is installed
    pending,    \* check_queue is registered as a bottom half
    pc,         \* where the select-loop thread is
    visit       \* next entry check_keepalive_connections() looks at

vars == <<queue, conn, dl, active, hostRefs, keep, keepTimer, pending, pc, visit>>
slots == <<active, hostRefs>>
keepalives == <<keep, keepTimer, visit>>

Pris == 0 .. PRI_CANCEL
Wanted == 0 .. (PRI_CANCEL - 1)

ConnRecord ==
    [uri : Uris \cup {NoUri}, state : {"free", "wait", "work", "quit"},
     running : BOOLEAN, pri : [Pris -> Int], dls : SUBSET Downloads,
     detached : BOOLEAN, tries : Nat]

DownloadRecord ==
    [state : {"result", "progress"}, conn : Conns \cup {NoConn}, pri : Pris]

FreeConn ==
    [uri |-> NoUri, state |-> "free", running |-> FALSE,
     pri |-> [p \in Pris |-> 0], dls |-> {}, detached |-> FALSE, tries |-> 0]

\* A download in a result state: whatever it points to is not looked at.
Idle == [state |-> "result", conn |-> NoConn, pri |-> 0]

-----------------------------------------------------------------------------
(* The fields of connections and their place in the queue.                 *)

get_priority(r) ==
    IF \E p \in Pris : r.pri[p] # 0
    THEN CHOOSE p \in Pris : r.pri[p] # 0 /\ \A q \in Pris : q < p => r.pri[q] = 0
    ELSE PRI_CANCEL + 1

HostOfUri(u) == IF u = NoUri THEN NoHost ELSE HostOf[u]
Host(c) == HostOfUri(conn[c].uri)
IsPost(u) == u \in PostUris

Running == {c \in Conns : conn[c].running}
RunningOn(h) == {c \in Running : Host(c) = h}

\* add_to_queue(): behind every connection of the same or a better priority.
\* The set has one member when q is sorted.
Enqueued(q, cs, c) ==
    {InsertAt(q, i, c) : i \in
        {i \in 1 .. (Len(q) + 1) :
            /\ \A j \in 1 .. (i - 1) : get_priority(cs[q[j]]) <= get_priority(cs[c])
            /\ i <= Len(q) => get_priority(cs[q[i]]) > get_priority(cs[c])}}

\* del_from_list() on every connection of C.  One member.
Without(q, C) ==
    LET Kept == {i \in DOMAIN q : q[i] \notin C}
        N == Cardinality(Kept)
    IN  {[i \in 1 .. N |-> q[s[i]]] : s \in
            {s \in [1 .. N -> Kept] : \A i, j \in 1 .. N : i < j => s[i] < s[j]}}

\* sort_queue() swaps neighbours until none is out of order, which leaves
\* connections of one priority in the order they had.  One member.
Sorted(q, cs) ==
    LET Before(s, i, j) ==
            /\ s[i] # s[j]
            /\ \/ get_priority(cs[q[s[i]]]) < get_priority(cs[q[s[j]]])
               \/ get_priority(cs[q[s[i]]]) = get_priority(cs[q[s[j]]]) /\ s[i] < s[j]
    IN  {[i \in 1 .. Len(q) |-> q[s[i]]] : s \in
            {s \in [1 .. Len(q) -> 1 .. Len(q)] :
                \A i, j \in 1 .. Len(q) : i < j => Before(s, i, j)}}

\* A download of priority p comes to the connection ...
JoinedUncounted(r, d, p) == [r EXCEPT !.dls = @ \cup {d}]  \* mutant: no pri[p]++
Joined(r, d, p) == [r EXCEPT !.pri[p] = @ + 1, !.dls = @ \cup {d}]

\* ... and goes.
Left(r, d, p) == [r EXCEPT !.pri[p] = @ - 1, !.dls = @ \ {d}]

\* Nobody is left: the connection goes on for the cache, in the background.
Orphaned(r) == [r EXCEPT !.pri[PRI_CANCEL] = @ + 1]

-----------------------------------------------------------------------------
(* What ends, frees or starts a connection.                                *)

\* done_host_connection(): nothing to unlock when the host has no entry.
Unlocked(h, n) == IF n <= hostRefs[h] THEN hostRefs[h] - n ELSE 0

\* set_connection_state(result), interrupt_connection() on those that run and
\* done_connection(), for the connections of C.
FreeConns(C) ==
    /\ conn' = [c \in Conns |-> IF c \in C THEN FreeConn ELSE conn[c]]
    /\ dl' = [d \in Downloads |->
                IF \E c \in C : d \in conn[c].dls THEN Idle ELSE dl[d]]
    /\ active' = active - Cardinality(C \cap Running)
    /\ hostRefs' = [h \in Hosts |-> Unlocked(h, Cardinality(C \cap RunningOn(h)))]

\* add_host_connection() and active_connections++
TakeSlot(host) ==
    /\ active' = active + 1
    /\ hostRefs' = [h \in Hosts |->
                      IF h = host THEN hostRefs[h] + 1 ELSE hostRefs[h]]

\* get_keepalive_connection(): the first entry for the host, scheme and user
\* of u, which HostOf stands for.
Matches(u) == {i \in DOMAIN keep : HostOf[u] # NoHost /\ HostOf[keep[i]] = HostOf[u]}
IsFirst(i, I) == i \in I /\ \A j \in I : i <= j
IsLast(i, I) == i \in I /\ \A j \in I : j <= i

\* has_keepalive_connection(), the first thing the protocol handlers do: take
\* over the socket of the first match and drop the entry.
\*
\* mutant: the entry stays
ShareKeepalive(u) == UNCHANGED keep
TakeKeepalive(u) ==
    \/ Matches(u) = {} /\ UNCHANGED keep
    \/ \E i \in DOMAIN keep : IsFirst(i, Matches(u)) /\ keep' = RemoveAt(keep, i)

\* The attempts a handler can have used up when it returns with the connection
\* in progress: connect_socket() may fail at once and retry_connection() runs
\* the handler again.  A kept socket needs no connect.
TriesAfterRun(r) ==
    {r.tries} \cup
    {t \in (r.tries + 1) .. (Retries - 1) : Matches(r.uri) = {} /\ ~IsPost(r.uri)}

-----------------------------------------------------------------------------
(* The interface: download callbacks and the user interface thread.        *)

\* The connection load_uri() joins: the first in the queue for this URI.
\*
\* mutant: only one that still waits for its slot
JoinableWaiting(u) ==
    {i \in DOMAIN queue : conn[queue[i]].uri = u /\ conn[queue[i]].state = "wait"}
Joinable(u) ==
    {i \in DOMAIN queue : conn[queue[i]].uri = u /\ ~conn[queue[i]].detached}

LoadUriJoin(d, u, p) ==
    /\ dl[d].state = "result"
    /\ \E i \in DOMAIN queue :
         LET c == queue[i]
         IN  /\ IsFirst(i, Joinable(u))
             /\ conn[c].pri[PRI_CANCEL] < MaxOrphaned
             /\ conn' = [conn EXCEPT ![c] = Joined(@, d, p)]
             /\ dl' = [dl EXCEPT ![d] = [state |-> "progress", conn |-> c, pri |-> p]]
             /\ \/ /\ get_priority(conn[c]) > p
                   /\ \E q \in Without(queue, {c}) : queue' \in Enqueued(q, conn', c)
                   /\ pending' = TRUE
                \/ /\ get_priority(conn[c]) <= p
                   /\ UNCHANGED <<queue, pending>>
    /\ UNCHANGED <<slots, keepalives, pc>>

LoadUriNew(d, u, p) ==
    /\ dl[d].state = "result"
    /\ Joinable(u) = {}
    /\ \E c \in Conns :
         /\ conn[c].state = "free"
         /\ conn' = [conn EXCEPT ![c] =
                       [FreeConn EXCEPT !.uri = u, !.state = "wait",
                                        !.pri[p] = 1, !.dls = {d}]]
         /\ dl' = [dl EXCEPT ![d] = [state |-> "progress", conn |-> c, pri |-> p]]
         /\ queue' \in Enqueued(queue, conn', c)
    /\ pending' = TRUE
    /\ UNCHANGED <<slots, keepalives, pc>>

\* cancel_download(d, interrupt)
CancelDownload(d, interrupt) ==
    /\ dl[d].state = "progress"
    /\ LET c == dl[d].conn
           less == Left(conn[c], d, dl[d].pri)
           abort == less.dls = {} /\ (conn[c].detached \/ interrupt)
       IN  \/ /\ abort
              /\ FreeConns({c})
              /\ \E q \in Without(queue, {c}) : queue' \in Sorted(q, conn')
           \/ /\ ~abort
              /\ conn' = [conn EXCEPT ![c] =
                            IF less.dls = {} THEN Orphaned(less) ELSE less]
              /\ dl' = [dl EXCEPT ![d] = Idle]
              /\ queue' \in Sorted(queue, conn')
              /\ UNCHANGED slots
    /\ pending' = TRUE
    /\ UNCHANGED <<keepalives, pc>>

\* move_download(old, new, p) with old still in progress; cancel_download(old)
\* finds new on the list, so the connection is not orphaned.
MoveDownload(old, new, p) ==
    /\ dl[old].state = "progress"
    /\ dl[new].state = "result"
    /\ LET c == dl[old].conn
           more == Joined(conn[c], new, p)
       IN  /\ conn' = [conn EXCEPT ![c] = Left(more, old, dl[old].pri)]
           /\ dl' = [dl EXCEPT ![new] = [state |-> "progress", conn |-> c, pri |-> p],
                               ![old] = Idle]
           /\ \E q1 \in Sorted(queue, [conn EXCEPT ![c] = more]) :
                queue' \in Sorted(q1, conn')
    /\ pending' = TRUE
    /\ UNCHANGED <<slots, keepalives, pc>>

\* detach_connection(d): only when d is the one owner left.  Its callers call
\* it for a connection that transfers.
DetachConnection(d) ==
    /\ dl[d].state = "progress"
    /\ LET c == dl[d].conn
       IN  /\ conn[c].state = "work"
           /\ ~conn[c].detached
           /\ \E p \in Wanted :
                /\ conn[c].pri[p] = 1
                /\ \A q \in Wanted \ {p} : conn[c].pri[q] = 0
           /\ conn' = [conn EXCEPT ![c].detached = TRUE]
    /\ UNCHANGED <<queue, dl, slots, keepalives, pending, pc>>

\* abort_connection() on every connection of C, the queue walked once.
AbortConnections(C) ==
    /\ C # {}
    /\ FreeConns(C)
    /\ queue' \in Without(queue, C)
    /\ pending' = TRUE

AbortBackgroundConnections ==
    /\ AbortConnections({c \in ToSet(queue) : get_priority(conn[c]) >= PRI_CANCEL})
    /\ UNCHANGED <<keepalives, pc>>

\* abort_all_connections(), then abort_all_keepalive_connections() step by step.
AbortAllConnections ==
    /\ pc = "idle"
    /\ AbortConnections(ToSet(queue))
    /\ pc' = "drop"
    /\ UNCHANGED keepalives

Api ==
    \/ \E d \in Downloads, u \in Uris, p \in Wanted :
         LoadUriJoin(d, u, p) \/ LoadUriNew(d, u, p)
    \/ \E d \in Downloads, i \in BOOLEAN : CancelDownload(d, i)
    \/ \E d, e \in Downloads, p \in Wanted : MoveDownload(d, e, p)
    \/ \E d \in Downloads : DetachConnection(d)
    \/ AbortBackgroundConnections
    \/ AbortAllConnections

-----------------------------------------------------------------------------
(* The protocol handlers and their timeouts, in the select-loop thread.    *)

\* abort_connection(): the transfer ended, failed or was refused.
\*
\* mutant: check_queue() is not registered
EndUnnoticed(c) ==
    /\ pc = "idle"
    /\ conn[c].running
    /\ FreeConns({c})
    /\ queue' \in Without(queue, {c})
    /\ UNCHANGED <<keepalives, pending, pc>>
EndConnection(c) ==
    /\ pc = "idle"
    /\ conn[c].running
    /\ FreeConns({c})
    /\ queue' \in Without(queue, {c})
    /\ pending' = TRUE
    /\ UNCHANGED <<keepalives, pc>>

\* add_keepalive_connection(): the transfer ended, the socket is kept.
\*
\* mutant: the connection stays in the queue
EndKeepaliveQueued(c) ==
    /\ pc = "idle"
    /\ conn[c].running
    /\ conn[c].state = "work"
    /\ Host(c) # NoHost
    /\ keep' = <<conn[c].uri>> \o keep
    /\ FreeConns({c})
    /\ pending' = TRUE
    /\ UNCHANGED <<queue, keepTimer, visit, pc>>
EndKeepalive(c) ==
    /\ pc = "idle"
    /\ conn[c].running
    /\ conn[c].state = "work"
    /\ Host(c) # NoHost
    /\ keep' = <<conn[c].uri>> \o keep
    /\ FreeConns({c})
    /\ queue' \in Without(queue, {c})
    /\ pending' = TRUE
    /\ UNCHANGED <<keepTimer, visit, pc>>

\* retry_connection() up to run_connection() and the handler it calls.
OutOfTries(r) == IsPost(r.uri) \/ (Retries # 0 /\ r.tries + 1 >= Retries)

RetryConnection(c) ==
    /\ pc = "idle"
    /\ conn[c].running
    /\ \/ /\ OutOfTries(conn[c])
          /\ FreeConns({c})
          /\ queue' \in Without(queue, {c})
          /\ pending' = TRUE
          /\ UNCHANGED keep
       \/ /\ ~OutOfTries(conn[c])
          /\ TakeKeepalive(conn[c].uri)
          /\ LET r == [conn[c] EXCEPT !.tries = IF Retries = 0 THEN @ ELSE @ + 1]
             IN  \E t \in TriesAfterRun(r) :
                   conn' = [conn EXCEPT ![c] = [r EXCEPT !.state = "work", !.tries = t]]
          /\ UNCHANGED <<queue, dl, slots, pending>>
    /\ UNCHANGED <<keepTimer, visit, pc>>

Transfer(c) == EndConnection(c) \/ EndKeepalive(c) \/ RetryConnection(c)

-----------------------------------------------------------------------------
(* check_keepalive_connections()                                           *)

\* The connection do_keepalive_connection_callback() makes to say QUIT.  It is
\* counted and run with no look at the limits; the entry it consumes is the
\* first match for the host.
QuitConnection(u) ==
    \E c \in Conns :
      /\ conn[c].state = "free"
      /\ conn' = [conn EXCEPT ![c] =
                    [FreeConn EXCEPT !.uri = u, !.state = "quit",
                                     !.pri[PRI_CANCEL] = 1, !.running = TRUE]]
      /\ queue' \in Enqueued(queue, conn', c)
      /\ TakeSlot(HostOf[u])
      /\ TakeKeepalive(u)

\* With no memory for a connection the socket is closed without a QUIT.
CanQuit(u) == u \in QuitUris /\ \E c \in Conns : conn[c].state = "free"

\* done_keepalive_connection() on the i-th entry
DoneKeepalive(i) ==
    \/ /\ CanQuit(keep[i])
       /\ QuitConnection(keep[i])
    \/ /\ ~CanQuit(keep[i])
       /\ keep' = RemoveAt(keep, i)
       /\ UNCHANGED <<queue, conn, slots>>

TooMany == Len(keep) > MaxKeepalive

Checking == pc \in {"again", "timer"}

\* The entry is neither readable nor too old.
KeepaliveSurvives ==
    /\ Checking
    /\ visit \in DOMAIN keep
    /\ visit' = visit + 1
    /\ UNCHANGED <<queue, conn, dl, slots, keep, keepTimer, pending, pc>>

KeepaliveExpires ==
    /\ Checking
    /\ visit \in DOMAIN keep
    /\ DoneKeepalive(visit)
    /\ UNCHANGED <<dl, keepTimer, visit, pending, pc>>

\* More than MaxKeepalive survived: the oldest go.
KeepaliveTrim ==
    /\ Checking
    /\ visit > Len(keep)
    /\ TooMany
    /\ DoneKeepalive(Len(keep))
    /\ visit' = visit - 1
    /\ UNCHANGED <<dl, keepTimer, pending, pc>>

KeepaliveChecked ==
    /\ Checking
    /\ visit > Len(keep)
    /\ ~TooMany
    /\ keepTimer' = (keep # <<>>)
    /\ visit' = 1
    /\ pc' = IF pc = "again" THEN "scan" ELSE "idle"
    /\ UNCHANGED <<queue, conn, dl, slots, keep, pending>>

\* The keepalive timer expires.
KeepaliveTimer ==
    /\ pc = "idle"
    /\ keepTimer
    /\ keepTimer' = FALSE
    /\ pc' = "timer"
    /\ UNCHANGED <<queue, conn, dl, slots, keep, visit, pending>>

\* abort_all_keepalive_connections()
DropKeepalive ==
    /\ pc = "drop"
    /\ keep # <<>>
    /\ DoneKeepalive(1)
    /\ UNCHANGED <<dl, keepTimer, visit, pending, pc>>

DropDone ==
    /\ pc = "drop"
    /\ keep = <<>>
    /\ keepTimer' = FALSE
    /\ pc' = "idle"
    /\ UNCHANGED <<queue, conn, dl, slots, keep, visit, pending>>

KeepaliveCheck ==
    KeepaliveSurvives \/ KeepaliveExpires \/ KeepaliveTrim \/ KeepaliveChecked

-----------------------------------------------------------------------------
(* check_queue()                                                           *)

PriAt(i) == get_priority(conn[queue[i]])

\* check_bottom_halves() takes check_queue off its list and calls it.
StartCheckQueue ==
    /\ pc = "idle"
    /\ pending
    /\ pending' = FALSE
    /\ pc' = "again"
    /\ keepTimer' = FALSE
    /\ UNCHANGED <<queue, conn, dl, slots, keep, visit>>

\* try_to_suspend_connection(): the last connection that may give way to the
\* i-th, all behind it having a worse priority than the i-th; on host h, or on
\* any host when h is NoHost.
\*
\* mutant: a connection gives way to one of its own priority
VictimsOrEqual(i, h) ==
    {j \in DOMAIN queue :
        /\ \A k \in j .. Len(queue) : PriAt(k) >= PriAt(i)
        /\ conn[queue[j]].state # "wait"
        /\ ~(IsPost(conn[queue[j]].uri) /\ PriAt(j) < PRI_CANCEL)
        /\ h = NoHost \/ Host(queue[j]) = h}
Victims(i, h) ==
    {j \in DOMAIN queue :
        /\ \A k \in j .. Len(queue) : PriAt(k) > PriAt(i)
        /\ conn[queue[j]].state # "wait"
        /\ ~(IsPost(conn[queue[j]].uri) /\ PriAt(j) < PRI_CANCEL)
        /\ h = NoHost \/ Host(queue[j]) = h}

HostFull(i) ==
    /\ Host(queue[i]) # NoHost
    /\ hostRefs[Host(queue[i])] >= MaxConnsToHost
FullAboveMax == active > MaxConns      \* mutant: one more than the option says
AllFull == active >= MaxConns

\* The host a victim must be on.
VictimHost(i) == IF HostFull(i) THEN Host(queue[i]) ELSE NoHost
CanRun(i) == ~HostFull(i) /\ ~AllFull
CanSuspend(i) == ~CanRun(i) /\ Victims(i, VictimHost(i)) # {}

\* The order check_queue() tries them in: by runs of one priority, in each run
\* those with a keepalive connection first.
Group(i) == Cardinality({j \in 1 .. (i - 1) : PriAt(j) # PriAt(j + 1)})
Ahead(i, j) ==
    LET Class(k) == IF Matches(conn[queue[k]].uri) # {} THEN 0 ELSE 1
    IN  \/ Group(i) < Group(j)
        \/ Group(i) = Group(j) /\ Class(i) < Class(j)
        \/ Group(i) = Group(j) /\ Class(i) = Class(j) /\ i < j

\* The waiting connections for which try_connection() is not 0.
Candidates ==
    {i \in DOMAIN queue :
        conn[queue[i]].state = "wait" /\ (CanRun(i) \/ CanSuspend(i))}
IsNext(i) == i \in Candidates /\ \A j \in Candidates \ {i} : Ahead(i, j)

Again ==
    /\ pc' = "again"
    /\ keepTimer' = FALSE
    /\ UNCHANGED visit

\* run_connection(): the handler leaves the connection in progress.
RunConnection(i) ==
    LET c == queue[i]
    IN  /\ pc = "scan"
        /\ IsNext(i) /\ CanRun(i)
        /\ \E t \in TriesAfterRun(conn[c]) :
             conn' = [conn EXCEPT ![c] =
                        [@ EXCEPT !.state = "work", !.running = TRUE, !.tries = t]]
        /\ TakeSlot(Host(c))
        /\ TakeKeepalive(conn[c].uri)
        /\ Again
        /\ UNCHANGED <<queue, dl, pending>>

\* run_connection(): the handler ends the connection before it returns.
RunConnectionEnds(i) ==
    LET c == queue[i]
    IN  /\ pc = "scan"
        /\ IsNext(i) /\ CanRun(i)
        /\ FreeConns({c})
        /\ queue' \in Without(queue, {c})
        /\ TakeKeepalive(conn[c].uri)
        /\ pending' = TRUE
        /\ Again

\* mutant: the state is S_WAIT already when free_connection_data() looks at it
KeepHostSlot(c) == active' = active - 1 /\ UNCHANGED hostRefs
GiveSlotBack(c) ==
    /\ active' = active - 1
    /\ hostRefs' = [h \in Hosts |->
                      IF h = Host(c) THEN Unlocked(h, 1) ELSE hostRefs[h]]

\* suspend_connection()
SuspendConnection(i) ==
    /\ pc = "scan"
    /\ IsNext(i) /\ CanSuspend(i)
    /\ \E j \in DOMAIN queue :
         /\ IsLast(j, Victims(i, VictimHost(i)))
         /\ conn' = [conn EXCEPT ![queue[j]] =
                       [@ EXCEPT !.state = "wait", !.running = FALSE]]
         /\ GiveSlotBack(queue[j])
    /\ Again
    /\ UNCHANGED <<queue, dl, keep, pending>>

ScanDone ==
    /\ pc = "scan"
    /\ Candidates = {}
    /\ pc' = "reap"
    /\ UNCHANGED <<queue, conn, dl, slots, keepalives, pending>>

\* The waiting connections nobody wants, from the end of the queue.
Unwanted ==
    {i \in DOMAIN queue :
        /\ conn[queue[i]].state = "wait"
        /\ \A j \in i .. Len(queue) : PriAt(j) >= PRI_CANCEL}

Reap(i) ==
    /\ pc = "reap"
    /\ IsLast(i, Unwanted)
    /\ FreeConns({queue[i]})
    /\ queue' \in Without(queue, {queue[i]})
    /\ UNCHANGED <<keepalives, pending, pc>>

CheckQueueDone ==
    /\ pc = "reap"
    /\ Unwanted = {}
    /\ pc' = "idle"
    /\ UNCHANGED <<queue, conn, dl, slots, keepalives, pending>>

CheckQueue ==
    \/ StartCheckQueue
    \/ KeepaliveCheck
    \/ \E i \in DOMAIN queue :
         RunConnection(i) \/ RunConnectionEnds(i) \/ SuspendConnection(i) \/ Reap(i)
    \/ ScanDone
    \/ CheckQueueDone

-----------------------------------------------------------------------------
Init ==
    /\ queue = <<>>
    /\ conn = [c \in Conns |-> FreeConn]
    /\ dl = [d \in Downloads |-> Idle]
    /\ active = 0
    /\ hostRefs = [h \in Hosts |-> 0]
    /\ keep = <<>>
    /\ keepTimer = FALSE
    /\ pending = FALSE
    /\ pc = "idle"
    /\ visit = 1

Next ==
    \/ Api
    \/ \E c \in Conns : Transfer(c)
    \/ CheckQueue
    \/ KeepaliveTimer
    \/ DropKeepalive
    \/ DropDone

Spec == Init /\ [][Next]_vars

\* The loops of check_queue() run to their end.  check_bottom_halves() follows
\* every handler and every timer, so a registered check_queue() is run however
\* often the keepalive timer fires.  A connection that receives nothing is timed
\* out (set_connection_timeout), so each that runs ends or is retried.  The
\* interface is under no obligation.
Fairness ==
    /\ WF_vars(CheckQueue)
    /\ SF_vars(StartCheckQueue)
    /\ WF_vars(DropKeepalive \/ DropDone)
    /\ \A c \in Conns : SF_vars(Transfer(c))

FairSpec == Spec /\ Fairness

-----------------------------------------------------------------------------
(* Safety                                                                  *)

\* Every variable has the type its declaration in connection.c gives it, and
\* the queue holds connections that are allocated.
TypeOK ==
    /\ queue \in Seq(Conns)
    /\ conn \in [Conns -> ConnRecord]
    /\ dl \in [Downloads -> DownloadRecord]
    /\ active \in Int
    /\ hostRefs \in [Hosts -> Nat]
    /\ keep \in Seq({u \in Uris : HostOf[u] # NoHost})
    /\ keepTimer \in BOOLEAN
    /\ pending \in BOOLEAN
    /\ pc \in {"idle", "again", "timer", "scan", "reap", "drop"}
    /\ visit \in Nat \ {0}

\* active_connections is the number of connections that run, and each host
\* entry counts those that run on its host (check_queue_bugs: "bad number of
\* active connections"; free_connection_data: "active connections underflow").
\* A connection takes its slot in run_connection() and may give it back in
\* abort, retry, keepalive or suspend.
SlotsCounted ==
    /\ active = Cardinality(Running)
    /\ \A h \in Hosts : hostRefs[h] = Cardinality(RunningOn(h))

\* Options connection.max_connections and connection.max_connections_to_host
\* ("Maximum number of concurrent connections") hold at every moment, with
\* retries, keepalive reuse and suspensions in between.
WithinLimits ==
    /\ active <= MaxConns
    /\ \A h \in Hosts : hostRefs[h] <= MaxConnsToHost

\* The sockets of running and of kept connections together stay bounded,
\* although the kept ones are trimmed only when check_queue() next runs.
SocketBudget == Len(keep) + active <= MaxKeepalive + MaxConns

\* The queue holds exactly the allocated connections, each once, and a
\* connection runs only while it is there: none is leaked by a handler, none is
\* used after it was freed.
QueueHoldsLive ==
    /\ \A i, j \in DOMAIN queue : queue[i] = queue[j] => i = j
    /\ ToSet(queue) = {c \in Conns : conn[c].state # "free"}
    /\ \A c \in Conns : conn[c].running <=> conn[c].state \in {"work", "quit"}

\* The download list of a connection and the conn pointers of the downloads
\* agree, and pri[] counts the attached downloads of each priority: what a
\* cancel, a move or a join takes is what an earlier call gave
\* (cancel_download: "priority counter underflow").  A connection that no
\* download wants is counted under PRI_CANCEL (get_priority: "Connection has no
\* owner"), and the queue is in the order of the counters, for the passes stop
\* at the first better priority (check_queue_bugs: "queue is not sorted").
DownloadsAttached ==
    /\ \A c \in Conns : conn[c].dls =
         {d \in Downloads : dl[d].state = "progress" /\ dl[d].conn = c}
    /\ \A d \in Downloads : dl[d].state = "progress" => dl[d].conn # NoConn

PriCountsDownloads ==
    /\ DownloadsAttached
    /\ \A c \in Conns, p \in Wanted :
         conn[c].pri[p] = Cardinality({d \in conn[c].dls : dl[d].pri = p})
    /\ \A c \in Conns :
         conn[c].state # "free" => \E p \in Pris : conn[c].pri[p] > 0
    /\ \A i, j \in DOMAIN queue : i < j => PriAt(i) <= PriAt(j)

\* Two downloads of one URI share a connection unless one was detached: there
\* are never two that could be joined.
OneConnectionPerUri ==
    \A c, e \in Conns :
        /\ conn[c].state # "free" /\ ~conn[c].detached
        /\ conn[e].state # "free" /\ ~conn[e].detached
        /\ conn[c].uri = conn[e].uri
        => c = e

\* When the queue was changed, a slot freed or a keepalive entry added,
\* check_queue() is registered: with the loop idle and nothing registered, no
\* waiting connection could be given a slot, no unwanted one waits, and the
\* timer will look at the kept sockets again.
NoMissedWork ==
    pc = "idle" /\ ~pending =>
        /\ Candidates = {} /\ Unwanted = {}
        /\ keep # <<>> => keepTimer

-----------------------------------------------------------------------------
(* Action properties                                                       *)

\* A connection loses its slot to another only if the other has a better
\* priority, and one with POST data that somebody still wants never does.
SuspendsOnlyWorse ==
    [][\A c \in Conns :
         conn[c].running /\ conn'[c].state = "wait" =>
            /\ \E i \in DOMAIN queue :
                 /\ conn[queue[i]].state = "wait"
                 /\ PriAt(i) < get_priority(conn[c])
            /\ IsPost(conn[c].uri) => get_priority(conn[c]) >= PRI_CANCEL]_vars

-----------------------------------------------------------------------------
(* Liveness                                                                *)

\* From some point on nobody calls the interface.
Quiet == <>[][~Api]_vars

\* Once left alone, check_queue() hands the slots out until every download has
\* its result: none waits for ever behind suspensions, full hosts or retries.
DownloadsServed ==
    Quiet => <>[](\A d \in Downloads : dl[d].state = "result")

\* check_queue() starts over after each connection it runs or suspends; left
\* alone it always comes to an end.
CheckQueueTerminates == Quiet => []<>(pc = "idle")
=============================================================================
