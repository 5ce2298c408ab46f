-------------------------------- MODULE Socket --------------------------------
(***************************************************************************)
(* The socket of one connection: network/socket.c, the host lookup of      *)
(* network/dns.c, and the operations socket->ops of network/connection.c.  *)
(* The code calls back and forth within one event of the main loop: dns.c  *)
(* calls socket.c, which calls connection.c, which may call the protocol   *)
(* again.  The variable calls holds what is still to be done in the event, *)
(* innermost first, so that what a call leaves behind is what its caller   *)
(* goes on with.                                                           *)
(***************************************************************************)
EXTENDS Naturals, Sequences, FiniteSetsExt

CONSTANTS
    Hosts,      \* what lookups find: sequences of addresses, <<>> for none
    Fd,         \* the descriptor numbers of the process
    MaxTries,   \* the option connection.retries; 0: no limit
    CancelAt,   \* calls of ops->set_state whose callbacks may end the connection
    MaxAge      \* bounds the age of the DNS cache entry; at MaxAge it is too old

Address == {"usable", "remote", "family"}   \* forbidden by localhost, by the family options

ASSUME SocketAssumption ==
    /\ \A h \in Hosts : h \in Seq(Address)
    /\ Fd \subseteq Nat \ {0} /\ IsFiniteSet(Fd)
    /\ MaxTries \in Nat /\ MaxAge \in Nat \ {0}
    /\ CancelAt \subseteq {"connect", "done", "write", "read"}

None == 0                           \* fd -1 of the code
NoInfo == [addr |-> <<>>, tried |-> 0, there |-> FALSE]
Info(a) == [addr |-> a, tried |-> 0, there |-> TRUE]

VARIABLES
    conn,       \* "none", "waiting" in the queue, "running"
    tries,      \* conn->tries
    timer,      \* conn->timer is installed
    fd,         \* socket->fd
    info,       \* socket->connect_info; tried: number of the last tried address
    buffers,    \* which of write_buffer and read_buffer there are
    onclose,    \* socket->state: "retry", "end", "closed"
    open,       \* descriptor -> "closed", "ours" or "theirs", another part's
    handler,    \* descriptor -> the select handler of the socket
    dns,        \* the DNS cache entry of the host: [addr, age]
    calls       \* what is left to do in this event

connVars == <<conn, tries, timer>>
sockVars == <<fd, info, buffers, onclose>>
fdVars == <<open, handler>>
vars == <<connVars, sockVars, fdVars, dns, calls>>

Call == [op : {"make", "complete", "done", "rearm", "free", "response"}]
        \cup [op : {"connect", "retry"}, state : {"S_CONN", "result"}]
        \cup [op : {"abort"}, state : {"S_LOCAL_ONLY", "result"}]
        \cup [op : {"try"}, state : {"S_CONN", "result"}, first : BOOLEAN, any : BOOLEAN,
              errno : BOOLEAN, remote : BOOLEAN, silent : BOOLEAN]
        \cup [op : {"read"}, state : {"S_SENT", "S_TRANS"}]

TypeOK ==
    /\ conn \in {"none", "waiting", "running"}
    /\ tries \in Nat /\ (MaxTries > 0 => tries < MaxTries)
    /\ timer \in BOOLEAN
    /\ fd \in Fd \cup {None}
    /\ info \in [addr : Hosts \cup {<<>>}, tried : Nat, there : BOOLEAN]
    /\ info.tried <= Len(info.addr) /\ (info.there \/ info = NoInfo)
    /\ buffers \subseteq {"write", "read"}
    /\ onclose \in {"retry", "end", "closed"}
    /\ open \in [Fd -> {"closed", "ours", "theirs"}]
    /\ handler \in [Fd -> {"none", "connected", "write_select", "read_select"}]
    /\ dns \in [addr : Hosts \cup {<<>>}, age : 0 .. MaxAge]
    /\ calls \in Seq(Call)

Init ==
    /\ conn = "none" /\ tries = 0 /\ timer = FALSE
    /\ fd = None /\ info = NoInfo /\ buffers = {} /\ onclose = "retry"
    /\ open = [f \in Fd |-> "closed"] /\ handler = [f \in Fd |-> "none"]
    /\ dns = [addr |-> <<>>, age |-> 0]
    /\ calls = <<>>

-----------------------------------------------------------------------------
\* The parts the handlers share

Idle == calls = <<>>                    \* the main loop waits in select()
At(op) == calls # <<>> /\ Head(calls).op = op
Then(c) == calls' = c \o Tail(calls)    \* what the innermost call does next
Do(op) == [op |-> op]
Retry(s) == [op |-> "retry", state |-> s]
Abort(s) == [op |-> "abort", state |-> s]

\* close_socket(): the descriptor, its handlers, fd.
CloseKeepsFd ==                         \* mutant: fd is not reset
    /\ open' = IF fd = None THEN open ELSE [open EXCEPT ![fd] = "closed"]
    /\ handler' = IF fd = None THEN handler ELSE [handler EXCEPT ![fd] = "none"]
    /\ fd' = fd
CloseKeepsHandlers ==                   \* mutant: clear_handlers() is forgotten
    /\ open' = IF fd = None THEN open ELSE [open EXCEPT ![fd] = "closed"]
    /\ handler' = handler
    /\ fd' = None
CloseSocket ==
    /\ open' = IF fd = None THEN open ELSE [open EXCEPT ![fd] = "closed"]
    /\ handler' = IF fd = None THEN handler ELSE [handler EXCEPT ![fd] = "none"]
    /\ fd' = None

\* free_connection_data(): done_socket() and the timer.
Interrupt ==
    /\ CloseSocket
    /\ info' = NoInfo
    /\ buffers' = {}
    /\ timer' = FALSE

\* The connection ends, and the memory of its socket is freed.
End ==
    /\ Interrupt
    /\ conn' = "none" /\ tries' = 0
    /\ onclose' = "retry"

\* Callbacks of a progress state may cancel the last download.
Cancelled(place) ==
    /\ place \in CancelAt
    /\ End

SetHandlers(f, h) == handler' = [handler EXCEPT ![f] = h]

-----------------------------------------------------------------------------
\* The queue of connection.c

Load ==
    /\ Idle /\ conn = "none"
    /\ conn' = "waiting"
    /\ UNCHANGED <<tries, timer, sockVars, fdVars, dns, calls>>

RunConnection ==
    /\ Idle /\ conn = "waiting"
    /\ conn' = "running"
    /\ calls' = <<Do("make")>>
    /\ UNCHANGED <<tries, timer, sockVars, fdVars, dns>>

SuspendConnection ==
    /\ Idle /\ conn = "running"
    /\ Interrupt
    /\ conn' = "waiting"
    /\ UNCHANGED <<tries, onclose, dns, calls>>

CancelDownload ==
    /\ Idle /\ conn # "none"
    /\ End
    /\ UNCHANGED <<dns, calls>>

\* retry_connection() gives up at the limit, and else runs the protocol again.
\*
\* mutant: the tries are not counted
RetryUncounted ==
    /\ At("retry") /\ conn = "running"
    /\ Interrupt
    /\ Then(<<Do("make")>>)
    /\ UNCHANGED <<conn, tries, onclose, dns>>

RetryConnection ==
    /\ At("retry") /\ conn = "running"
    /\ IF MaxTries > 0 /\ tries + 1 >= MaxTries
       THEN End /\ calls' = Tail(calls)
       ELSE /\ Interrupt
            /\ tries' = IF MaxTries > 0 THEN tries + 1 ELSE tries
            /\ Then(<<Do("make")>>)
            /\ UNCHANGED <<conn, onclose>>
    /\ UNCHANGED dns

AbortConnection ==
    /\ At("abort") /\ conn = "running"
    /\ End
    /\ calls' = Tail(calls)
    /\ UNCHANGED dns

-----------------------------------------------------------------------------
\* Lookups.  init_async_dns_lookup() starts with a return, so all of a lookup
\* happens within find_host().

\* dns_found(): an answer without addresses ends the connection.
Found(a) ==
    IF a = <<>>
    THEN info' = Info(<<>>) /\ Then(<<Abort("result")>>)
    ELSE info' = Info(a) /\ Then(<<[op |-> "connect", state |-> "S_CONN"]>>)

\* make_connection() and find_host(), with a young entry of the cache...
FromCache ==
    /\ At("make") /\ conn = "running"
    /\ dns.addr # <<>> /\ dns.age < MaxAge
    /\ timer' = TRUE
    /\ Found(dns.addr)
    /\ UNCHANGED <<conn, tries, fd, buffers, onclose, fdVars, dns>>

\* ... or with a lookup, which a forced reload wants whatever the cache holds,
\* and which falls back on the entry when it fails.
Lookup ==
    /\ At("make") /\ conn = "running"
    /\ timer' = TRUE
    /\ \E a \in Hosts :
          IF a = <<>>
          THEN Found(dns.addr) /\ UNCHANGED dns
          ELSE Found(a) /\ dns' = [addr |-> a, age |-> 0]
    /\ UNCHANGED <<conn, tries, fd, buffers, onclose, fdVars>>

Aging ==
    /\ Idle
    /\ dns.addr # <<>> /\ dns.age < MaxAge
    /\ dns' = [dns EXCEPT !.age = @ + 1]
    /\ UNCHANGED <<connVars, sockVars, fdVars, calls>>

ShrinkDnsCache ==
    /\ Idle
    /\ dns.addr # <<>>
    /\ dns' = [addr |-> <<>>, age |-> 0]
    /\ UNCHANGED <<connVars, sockVars, fdVars, calls>>

-----------------------------------------------------------------------------
\* Connecting

\* connect_socket() up to the loop: the state, whose callbacks run when it is
\* a progress state, and the end of the previous attempt.  It goes on whatever
\* the callbacks did.
ConnectSocket ==
    /\ At("connect") /\ conn = "running"
    /\ LET state == Head(calls).state
       IN /\ Then(<<[op |-> "try", state |-> state, first |-> info.tried = 0, any |-> FALSE,
                     errno |-> FALSE, remote |-> FALSE, silent |-> FALSE]>>)
          /\ \/ CloseSocket /\ UNCHANGED <<connVars, info, buffers, onclose>>
             \/ state = "S_CONN" /\ Cancelled("connect")
    /\ UNCHANGED dns

Trying == At("try") /\ conn = "running" /\ info.tried < Len(info.addr)
Candidate == info.addr[info.tried + 1]
NextAddress == info' = [info EXCEPT !.tried = @ + 1]      \* connect_info->triedno++
Again(c) == Then(<<[c EXCEPT !.any = TRUE]>>)

\* The options forbid the address.
SkipAddress ==
    /\ Trying /\ NextAddress
    /\ \/ Candidate = "remote" /\ Again([Head(calls) EXCEPT !.remote = TRUE])
       \/ Candidate = "family" /\ Again([Head(calls) EXCEPT !.silent = TRUE])
    /\ UNCHANGED <<connVars, fd, buffers, onclose, fdVars, dns>>

\* What socket() returns: the lowest free descriptor, if there is one.
Lowest == {f \in Fd : open[f] = "closed" /\ \A g \in Fd : g < f => open[g] # "closed"}

WithErrno == [Head(calls) EXCEPT !.errno = TRUE, !.silent = FALSE]

\* socket() or set_nonblocking_fd() fails.
NoSocket ==
    /\ Trying /\ Candidate = "usable" /\ NextAddress
    /\ Again(WithErrno)
    /\ UNCHANGED <<connVars, fd, buffers, onclose, fdVars, dns>>

\* connect() fails at once: the descriptor is closed, and fd keeps its number.
ConnectFails ==
    /\ Trying /\ Candidate = "usable" /\ NextAddress
    /\ fd' \in Lowest
    /\ Again(WithErrno)
    /\ UNCHANGED <<connVars, buffers, onclose, fdVars, dns>>

\* connect() succeeds at once.
ConnectDone ==
    /\ Trying /\ Candidate = "usable" /\ NextAddress
    /\ fd' \in Lowest /\ open' = [open EXCEPT ![fd'] = "ours"]
    /\ Then(<<Do("complete")>>)
    /\ UNCHANGED <<connVars, buffers, onclose, handler, dns>>

\* connect() will take some time: connected() is the handler, and the state
\* tells the callbacks.
ConnectStarts ==
    /\ Trying /\ Candidate = "usable" /\ Lowest # {}
    /\ \/ /\ NextAddress
          /\ fd' \in Lowest /\ open' = [open EXCEPT ![fd'] = "ours"]
          /\ SetHandlers(fd', "connected")
          /\ calls' = Tail(calls)
          /\ UNCHANGED <<connVars, buffers, onclose>>
       \/ Cancelled("connect") /\ calls' = Tail(calls)
    /\ UNCHANGED dns

\* Everything was tried.
Exhausted ==
    /\ At("try") /\ conn = "running" /\ info.tried = Len(info.addr)
    /\ LET c == Head(calls)
       IN Then(<<IF c.remote /\ ~c.errno THEN Abort("S_LOCAL_ONLY")
                 ELSE Retry(IF \/ c.any /\ ~c.silent
                               \/ c.first /\ c.silent
                            THEN "result" ELSE c.state)>>)
    /\ UNCHANGED <<connVars, sockVars, fdVars, dns>>

\* connected(): the outcome of a connect() that took its time.
ConnectedHandler ==
    /\ Idle /\ fd # None /\ handler[fd] = "connected"
    /\ \/ calls' = <<Do("complete")>>
       \/ calls' = <<[op |-> "connect", state |-> "result"]>>     \* also dns_exception()
    /\ UNCHANGED <<connVars, sockVars, fdVars, dns>>

\* complete_connect_socket(): first the protocol, then done_connection_info().
CompleteConnect ==
    /\ At("complete") /\ conn = "running"
    /\ Then(<<Do("done"), Do("free")>>)
    /\ UNCHANGED <<connVars, sockVars, fdVars, dns>>

DoneConnectionInfo ==
    /\ At("free") /\ conn = "running" /\ info.there
    /\ info' = NoInfo
    /\ calls' = Tail(calls)
    /\ UNCHANGED <<connVars, fd, buffers, onclose, fdVars, dns>>

\* connection_timeout() and timeout_socket()
TimeoutSocket ==
    /\ Idle /\ timer
    /\ timer' = FALSE
    /\ calls' = IF info.there THEN <<[op |-> "connect", state |-> "result"], Do("rearm")>>
                              ELSE <<Retry("result")>>
    /\ UNCHANGED <<conn, tries, sockVars, fdVars, dns>>

\* mutant: the timeout starts anew only where no address is left
RearmNever ==
    /\ At("rearm") /\ conn = "running"
    /\ timer' = (timer \/ ~info.there)
    /\ calls' = Tail(calls)
    /\ UNCHANGED <<conn, tries, sockVars, fdVars, dns>>

\* The rest of timeout_socket(), unless the memory is freed.
RearmTimeout ==
    /\ At("rearm") /\ conn = "running"
    /\ timer' = (timer \/ info.there)
    /\ calls' = Tail(calls)
    /\ UNCHANGED <<conn, tries, sockVars, fdVars, dns>>

-----------------------------------------------------------------------------
\* Requests and answers

\* connect_info->done: the protocol sends its request with
\* request_from_socket(), which says what the end of the connection means, and
\* write_to_socket(), or cannot make one.
SendRequest ==
    /\ At("done") /\ conn = "running"
    /\ \/ /\ timer' = TRUE
          /\ buffers' = buffers \cup {"write"}
          /\ onclose' \in {"retry", "end"}
          /\ SetHandlers(fd, "write_select")
          /\ calls' = Tail(calls)
          /\ UNCHANGED <<conn, tries, fd, info, open>>
       \/ Cancelled("write") /\ calls' = Tail(calls)
       \/ "done" \in CancelAt /\ Then(<<Abort("result")>>) /\ UNCHANGED <<connVars, sockVars, fdVars>>
    /\ UNCHANGED dns

Selected(h) == Idle /\ fd # None /\ handler[fd] = h

\* write_select(): a part is written, which restarts the timeout...
WritePart ==
    /\ Selected("write_select")
    /\ timer' = TRUE
    /\ UNCHANGED <<conn, tries, sockVars, fdVars, dns, calls>>

\* ... or the last of it, and then read_response_from_socket() follows...
WriteDone ==
    /\ Selected("write_select")
    /\ timer' = TRUE
    /\ SetHandlers(fd, "none")
    /\ buffers' = buffers \ {"write"}
    /\ calls' = <<Do("response")>>
    /\ UNCHANGED <<conn, tries, fd, info, onclose, open, dns>>

\* ... or it fails, as exception() and a failing read do.
IOFails ==
    /\ Idle /\ fd # None /\ handler[fd] \in {"write_select", "read_select"}
    /\ calls' = <<Retry("result")>>
    /\ UNCHANGED <<connVars, sockVars, fdVars, dns>>

\* alloc_read_buffer() and read_from_socket()
ReadResponse ==
    /\ At("response") /\ conn = "running"
    /\ Then(<<[op |-> "read", state |-> "S_SENT"]>>)
    /\ UNCHANGED <<connVars, sockVars, fdVars, dns>>

\* mutant: the weak reference is not looked at
ReadUnguarded ==
    /\ At("read") /\ conn = "running"
    /\ \/ /\ timer' = TRUE
          /\ buffers' = buffers \cup {"read"}
          /\ SetHandlers(fd, "read_select")
          /\ calls' = Tail(calls)
          /\ UNCHANGED <<conn, tries, fd, info, onclose, open>>
       \/ Cancelled("read") /\ UNCHANGED calls
    /\ UNCHANGED dns

\* read_from_socket(): set_state() may end the connection, which the weak
\* reference tells.
ReadFromSocket ==
    /\ At("read") /\ conn = "running"
    /\ \/ /\ timer' = TRUE
          /\ buffers' = buffers \cup {"read"}
          /\ SetHandlers(fd, "read_select")
          /\ UNCHANGED <<conn, tries, fd, info, onclose, open>>
       \/ Cancelled("read")
    /\ calls' = Tail(calls)
    /\ UNCHANGED dns

\* read_select() of a part of the answer: the protocol wants more, having said
\* anew what the end of the connection means, as http_got_header() does, or it
\* is done, or it tries again.
ReadData ==
    /\ Selected("read_select")
    /\ timer' = TRUE
    /\ SetHandlers(fd, "none")
    /\ \/ calls' = <<[op |-> "read", state |-> "S_TRANS"]>> /\ onclose' \in {"retry", "end"}
       \/ calls' = <<Abort("result")>> /\ UNCHANGED onclose
       \/ calls' = <<Retry("result")>> /\ UNCHANGED onclose
    /\ UNCHANGED <<conn, tries, fd, info, buffers, open, dns>>

\* read_select() of the end: an answer to retry, or the last call of the
\* protocol, which is done, or tries again as http_got_header() does.
ReadClosed ==
    /\ Selected("read_select")
    /\ timer' = TRUE
    /\ SetHandlers(fd, "none")
    /\ IF onclose = "retry"
       THEN calls' = <<Retry("result")>> /\ UNCHANGED onclose
       ELSE /\ calls' \in {<<Abort("result")>>, <<Retry("result")>>}
            /\ onclose' = "closed"
    /\ UNCHANGED <<conn, tries, fd, info, buffers, open, dns>>

\* A call of an ended connection reads freed memory, where fd is still -1 and
\* connect_info the NULL that done_socket() left there; connect_socket() looks
\* at the addresses that were freed with it, and is taken to find none left.
AfterTheEnd ==
    /\ calls # <<>> /\ conn # "running"
    /\ calls' = Tail(calls)
    /\ UNCHANGED <<connVars, sockVars, fdVars, dns>>

-----------------------------------------------------------------------------
\* Other parts open and close descriptors between events.

OthersOpen ==
    /\ Idle
    /\ \E f \in Lowest : open' = [open EXCEPT ![f] = "theirs"]
    /\ UNCHANGED <<connVars, sockVars, handler, dns, calls>>

OthersClose ==
    /\ Idle
    /\ \E f \in Fd : open[f] = "theirs" /\ open' = [open EXCEPT ![f] = "closed"]
    /\ UNCHANGED <<connVars, sockVars, handler, dns, calls>>

Nested ==
    \/ RetryConnection \/ AbortConnection \/ FromCache \/ Lookup
    \/ ConnectSocket \/ SkipAddress \/ NoSocket \/ ConnectFails \/ ConnectDone \/ ConnectStarts
    \/ Exhausted \/ CompleteConnect \/ DoneConnectionInfo \/ RearmTimeout
    \/ SendRequest \/ ReadResponse \/ ReadFromSocket \/ AfterTheEnd

PeerProgress == ConnectedHandler \/ WritePart \/ WriteDone \/ IOFails \/ ReadData \/ ReadClosed

User == Load \/ SuspendConnection \/ CancelDownload

Next ==
    \/ Nested \/ PeerProgress \/ User
    \/ RunConnection \/ TimeoutSocket
    \/ Aging \/ ShrinkDnsCache \/ OthersOpen \/ OthersClose

\* What is called returns, timers expire, and the queue is looked at; what
\* peers and users do is up to them.
Spec == Init /\ [][Next]_vars
        /\ WF_vars(Nested) /\ WF_vars(TimeoutSocket) /\ WF_vars(RunConnection)

-----------------------------------------------------------------------------
\* Properties

\* A handler is only ever installed on a descriptor that is open and is the
\* socket's own, so that the main loop calls none for a closed connection; and
\* what the socket opened and has not closed is in fd, so that none is lost.
DescriptorsOwned ==
    /\ TypeOK
    /\ \A f \in Fd : /\ handler[f] # "none" => open[f] = "ours"
                     /\ open[f] = "ours" => fd = f

\* The socket closes nothing but its own descriptor, though connect_socket()
\* may leave a closed number in fd: when fd names a number, no other part has it.
NoForeignClose == fd # None => open[fd] # "theirs"

\* What runs after another call of the same event never finds the connection
\* ended: read_from_socket() is told by a weak reference.  Three callers are
\* not: connect_socket() after its first set_state(), timeout_socket() and
\* complete_connect_socket().
CallersSurvive == calls # <<>> /\ conn # "running" => At("try") \/ At("rearm") \/ At("free")

\* The comment in timeout_socket() has the timeout reset "if connect_socket()
\* started a new attempt to connect"; the socket is looked at in any case.
RearmsLiveSocket == At("rearm") => conn = "running"

\* With a limit on tries, one event never keeps the program busy for ever.
EventsEnd == calls # <<>> ~> Idle

\* A connection whose peer says nothing more comes to an end, or to the queue.
SilenceEnds == []<>(conn # "running") \/ []<><<PeerProgress>>_vars
=============================================================================
