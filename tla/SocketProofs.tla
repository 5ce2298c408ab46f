---------------------------- MODULE SocketProofs ----------------------------
(***************************************************************************)
(* What holds of Socket for every set of descriptors, every outcome of     *)
(* lookups and every limit: handlers only on the socket's own descriptor,  *)
(* no descriptor lost, none closed that is another part's, and which       *)
(* callers may find the connection ended under them.                       *)
(***************************************************************************)
EXTENDS Socket, SequenceTheorems, TLAPS

ConnTyped ==
    /\ conn \in {"none", "waiting", "running"}
    /\ tries \in Nat /\ (MaxTries > 0 => tries < MaxTries)
    /\ timer \in BOOLEAN

SockTyped ==
    /\ info \in [addr : Hosts \cup {<<>>}, tried : Nat, there : BOOLEAN]
    /\ info.tried <= Len(info.addr) /\ (info.there \/ info = NoInfo)
    /\ buffers \subseteq {"write", "read"}
    /\ onclose \in {"retry", "end", "closed"}

FdTyped ==
    /\ fd \in Fd \cup {None}
    /\ open \in [Fd -> {"closed", "ours", "theirs"}]
    /\ handler \in [Fd -> {"none", "connected", "write_select", "read_select"}]

DnsTyped == dns \in [addr : Hosts \cup {<<>>}, age : 0 .. MaxAge]

CallsTyped == calls \in Seq(Call)

\* A call that waits for another to return is timeout_socket() or
\* complete_connect_socket(); nothing else goes on after what it called.
Waiting(s) == \A i \in 2 .. Len(s) : s[i].op \in {"rearm", "free"}
Callers == Waiting(calls)

\* A connection that does not run has no descriptor, no timer and no
\* connect_info.
Ended == conn # "running" => fd = None /\ ~timer /\ ~info.there

Owned ==
    \A f \in Fd : /\ handler[f] # "none" => open[f] = "ours"
                  /\ open[f] = "ours" => fd = f

\* connect_socket() has closed the descriptor of the attempt before.
Attempting == At("try") => \A f \in Fd : open[f] # "ours"

\* What the protocol is called for has a descriptor.
Connected ==
    At("complete") \/ At("done") \/ At("response") \/ At("read") =>
        fd # None /\ open[fd] = "ours"

\* Only an attempt that failed leaves a closed number in fd, until the next
\* attempt, a retry or the end of the connection resets it.
Settled ==
    At("try") \/ At("retry") \/ At("abort") \/ fd = None \/ open[fd] = "ours"

Typed == ConnTyped /\ SockTyped /\ FdTyped /\ DnsTyped /\ CallsTyped
Stack == Callers /\ CallersSurvive
Descr == Owned /\ Attempting /\ Connected /\ Settled /\ NoForeignClose

IInv == Typed /\ Stack /\ Ended /\ Descr

-----------------------------------------------------------------------------
(* Calls: what is pushed and what is left.                                 *)

LEMMA CallTypes ==
    /\ \A x \in {"make", "complete", "done", "rearm", "free", "response"} :
         Do(x) \in Call /\ Do(x).op = x
    /\ \A s \in {"S_CONN", "result"} :
         /\ Retry(s) \in Call /\ Retry(s).op = "retry"
         /\ [op |-> "connect", state |-> s] \in Call
    /\ \A s \in {"S_LOCAL_ONLY", "result"} : Abort(s) \in Call /\ Abort(s).op = "abort"
    /\ \A s \in {"S_SENT", "S_TRANS"} : [op |-> "read", state |-> s] \in Call
    /\ \A s \in {"S_CONN", "result"}, b1, b2, b3, b4, b5 \in BOOLEAN :
         [op |-> "try", state |-> s, first |-> b1, any |-> b2, errno |-> b3,
          remote |-> b4, silent |-> b5] \in Call
<1>1. \A x \in {"make", "complete", "done", "rearm", "free", "response"} :
         Do(x) \in Call /\ Do(x).op = x
  BY DEF Call, Do
<1>2. \A s \in {"S_CONN", "result"} :
         /\ Retry(s) \in Call /\ Retry(s).op = "retry"
         /\ [op |-> "connect", state |-> s] \in Call
  BY DEF Call, Retry
<1>3. \A s \in {"S_LOCAL_ONLY", "result"} : Abort(s) \in Call /\ Abort(s).op = "abort"
  BY DEF Call, Abort
<1>4. \A s \in {"S_SENT", "S_TRANS"} : [op |-> "read", state |-> s] \in Call
  BY DEF Call
<1>5. \A s \in {"S_CONN", "result"}, b1, b2, b3, b4, b5 \in BOOLEAN :
         [op |-> "try", state |-> s, first |-> b1, any |-> b2, errno |-> b3,
          remote |-> b4, silent |-> b5] \in Call
  BY DEF Call
<1> QED
  BY <1>1, <1>2, <1>3, <1>4, <1>5

\* A call returns.
LEMMA Returns ==
    ASSUME NEW s \in Seq(Call), s # <<>>, Waiting(s)
    PROVE  /\ Tail(s) \in Seq(Call)
           /\ Waiting(Tail(s))
           /\ Tail(s) # <<>> => Head(Tail(s)).op \in {"rearm", "free"}
<1>1. Tail(s) \in Seq(Call) /\ Len(s) \in Nat \ {0} /\ Len(Tail(s)) = Len(s) - 1
  OBVIOUS
<1>2. \A i \in 1 .. Len(Tail(s)) : Tail(s)[i] = s[i + 1] /\ i + 1 \in 2 .. Len(s)
  BY <1>1
<1>3. \A i \in 1 .. Len(Tail(s)) : Tail(s)[i].op \in {"rearm", "free"}
  BY <1>2 DEF Waiting
<1>4. Waiting(Tail(s))
  BY <1>1, <1>3 DEF Waiting
<1>5. ASSUME Tail(s) # <<>> PROVE Head(Tail(s)).op \in {"rearm", "free"}
  <2>1. Head(Tail(s)) = Tail(s)[1] /\ 1 \in 1 .. Len(Tail(s))
    BY <1>1, <1>5
  <2> QED
    BY <2>1, <1>3
<1> QED
  BY <1>1, <1>4, <1>5

\* A call calls another and returns with it.
LEMMA Pushes ==
    ASSUME NEW s \in Seq(Call), s # <<>>, Waiting(s), NEW c \in Call
    PROVE  /\ <<c>> \o Tail(s) \in Seq(Call)
           /\ Waiting(<<c>> \o Tail(s))
           /\ <<c>> \o Tail(s) # <<>>
           /\ Head(<<c>> \o Tail(s)) = c
<1> DEFINE r == <<c>> \o Tail(s)
<1>1. Tail(s) \in Seq(Call) /\ Len(s) \in Nat \ {0} /\ Len(Tail(s)) = Len(s) - 1
  OBVIOUS
<1>2. r \in Seq(Call) /\ Len(r) = Len(s) /\ r[1] = c
  BY <1>1
<1>3. \A i \in 2 .. Len(s) : r[i] = s[i]
  BY <1>1
<1>4. Waiting(r)
  BY <1>2, <1>3 DEF Waiting
<1>5. r # <<>> /\ Head(r) = c
  BY <1>1, <1>2
<1> QED
  BY <1>2, <1>4, <1>5

\* The first call of an event.
LEMMA Starts ==
    ASSUME NEW c \in Call
    PROVE  /\ <<c>> \in Seq(Call) /\ Waiting(<<c>>) /\ <<c>> # <<>>
           /\ Head(<<c>>) = c
BY DEF Waiting


-----------------------------------------------------------------------------
(* The descriptor of the socket.                                           *)

LEMMA CloseFacts ==
    ASSUME FdTyped, Owned, NoForeignClose, CloseSocket
    PROVE  /\ fd' = None /\ FdTyped'
           /\ \A f \in Fd : open'[f] # "ours" /\ handler'[f] = "none"
<1> USE SocketAssumption
<1>1. CASE fd = None
  BY <1>1 DEF FdTyped, Owned, CloseSocket, None
<1>2. CASE fd # None
  <2>1. fd \in Fd /\ None \notin Fd
    BY <1>2 DEF FdTyped, None
  <2> QED
    BY <1>2, <2>1 DEF FdTyped, Owned, CloseSocket
<1> QED
  BY <1>1, <1>2

\* done_socket(), with the connection gone on or ended.
LEMMA InterruptFacts ==
    ASSUME FdTyped, Owned, NoForeignClose, Interrupt
    PROVE  /\ fd' = None /\ FdTyped' /\ info' = NoInfo /\ buffers' = {} /\ ~timer'
           /\ timer' \in BOOLEAN
           /\ \A f \in Fd : open'[f] # "ours" /\ handler'[f] = "none"
BY CloseFacts DEF Interrupt

LEMMA NoInfoTyped ==
    /\ NoInfo \in [addr : Hosts \cup {<<>>}, tried : Nat, there : BOOLEAN]
    /\ NoInfo.tried <= Len(NoInfo.addr) /\ ~NoInfo.there
BY DEF NoInfo

LEMMA InfoTyped ==
    ASSUME NEW a \in Hosts \cup {<<>>}
    PROVE  /\ Info(a) \in [addr : Hosts \cup {<<>>}, tried : Nat, there : BOOLEAN]
           /\ Info(a).tried <= Len(Info(a).addr) /\ Info(a).there
BY SocketAssumption DEF Info

LEMMA EndFacts ==
    ASSUME FdTyped, Owned, NoForeignClose, End
    PROVE  /\ ConnTyped' /\ SockTyped' /\ FdTyped' /\ Ended'
           /\ conn' = "none" /\ fd' = None
           /\ \A f \in Fd : open'[f] # "ours" /\ handler'[f] = "none"
<1>1. /\ conn' = "none" /\ tries' = 0 /\ onclose' = "retry" /\ Interrupt
  BY DEF End
<1>2. /\ fd' = None /\ FdTyped' /\ info' = NoInfo /\ buffers' = {} /\ ~timer'
      /\ timer' \in BOOLEAN
      /\ \A f \in Fd : open'[f] # "ours" /\ handler'[f] = "none"
  BY <1>1, InterruptFacts
<1>3. ConnTyped'
  BY <1>1, <1>2, SocketAssumption DEF ConnTyped
<1>4. SockTyped' /\ Ended'
  BY <1>1, <1>2, NoInfoTyped DEF SockTyped, Ended
<1> QED
  BY <1>1, <1>2, <1>3, <1>4

\* Without a descriptor nothing about it can be wrong.
LEMMA NoDescriptor ==
    ASSUME fd' = None, \A f \in Fd : open'[f] # "ours" /\ handler'[f] = "none",
           ~(At("complete") \/ At("done") \/ At("response") \/ At("read"))'
    PROVE  Descr'
BY DEF Descr, Owned, Attempting, Connected, Settled, NoForeignClose

\* The descriptor of a socket that is not None is one of the process.
LEMMA OwnFd == ASSUME FdTyped, fd # None PROVE fd \in Fd
BY DEF FdTyped


-----------------------------------------------------------------------------
(* The actions, one by one.                                                *)


LEMMA LoadKeeps ==
    ASSUME IInv, Load
    PROVE  IInv'
<1> USE DEF IInv, Typed, Stack, Descr
<1>1. /\ CallsTyped' /\ Callers'
      /\ UNCHANGED calls
  BY DEF Load, CallsTyped, Callers
<1>2. ConnTyped'
  BY SocketAssumption DEF Load, connVars, sockVars, fdVars, ConnTyped
<1>3. SockTyped'
  BY SocketAssumption DEF Load, connVars, sockVars, fdVars, SockTyped
<1>4. FdTyped'
  BY SocketAssumption DEF Load, connVars, sockVars, fdVars, FdTyped
<1>5. DnsTyped'
  BY SocketAssumption DEF Load, connVars, sockVars, fdVars, DnsTyped
<1>6. CallersSurvive'
  BY SocketAssumption DEF Load, connVars, sockVars, fdVars, CallersSurvive, At
<1>7. Ended'
  BY SocketAssumption DEF Load, connVars, sockVars, fdVars, Ended
<1>8. Descr'
  <2>1. Owned'
    BY <1>1 DEF Load, connVars, sockVars, fdVars, Owned, Attempting, Connected, Settled, NoForeignClose, FdTyped, At, Idle
  <2>2. Attempting'
    BY <1>1 DEF Load, connVars, sockVars, fdVars, Owned, Attempting, Connected, Settled, NoForeignClose, FdTyped, At, Idle
  <2>3. Connected'
    BY <1>1 DEF Load, connVars, sockVars, fdVars, Owned, Attempting, Connected, Settled, NoForeignClose, FdTyped, At, Idle
  <2>4. Settled'
    BY <1>1 DEF Load, connVars, sockVars, fdVars, Owned, Attempting, Connected, Settled, NoForeignClose, FdTyped, At, Idle
  <2>5. NoForeignClose'
    BY <1>1 DEF Load, connVars, sockVars, fdVars, Owned, Attempting, Connected, Settled, NoForeignClose, FdTyped, At, Idle
  <2> QED
    BY <2>1, <2>2, <2>3, <2>4, <2>5
<1> QED
  BY <1>1, <1>2, <1>3, <1>4, <1>5, <1>6, <1>7, <1>8


LEMMA RunConnectionKeeps ==
    ASSUME IInv, RunConnection
    PROVE  IInv'
<1> USE DEF IInv, Typed, Stack, Descr
<1>1. /\ CallsTyped' /\ Callers'
      /\ calls' # <<>> /\ Head(calls').op = "make"
  BY CallTypes, Starts DEF RunConnection, CallsTyped, Callers
<1>2. ConnTyped'
  BY SocketAssumption DEF RunConnection, connVars, sockVars, fdVars, ConnTyped
<1>3. SockTyped'
  BY SocketAssumption DEF RunConnection, connVars, sockVars, fdVars, SockTyped
<1>4. FdTyped'
  BY SocketAssumption DEF RunConnection, connVars, sockVars, fdVars, FdTyped
<1>5. DnsTyped'
  BY SocketAssumption DEF RunConnection, connVars, sockVars, fdVars, DnsTyped
<1>6. CallersSurvive'
  BY SocketAssumption DEF RunConnection, connVars, sockVars, fdVars, CallersSurvive, At
<1>7. Ended'
  BY SocketAssumption DEF RunConnection, connVars, sockVars, fdVars, Ended
<1>8. Descr'
  <2>1. Owned'
    BY <1>1 DEF RunConnection, connVars, sockVars, fdVars, Owned, Attempting, Connected, Settled, NoForeignClose, FdTyped, At, Idle
  <2>2. Attempting'
    BY <1>1 DEF RunConnection, connVars, sockVars, fdVars, Owned, Attempting, Connected, Settled, NoForeignClose, FdTyped, At, Idle
  <2>3. Connected'
    BY <1>1 DEF RunConnection, connVars, sockVars, fdVars, Owned, Attempting, Connected, Settled, NoForeignClose, FdTyped, At, Idle
  <2>4. Settled'
    BY <1>1 DEF RunConnection, connVars, sockVars, fdVars, Owned, Attempting, Connected, Settled, NoForeignClose, FdTyped, At, Idle
  <2>5. NoForeignClose'
    BY <1>1 DEF RunConnection, connVars, sockVars, fdVars, Owned, Attempting, Connected, Settled, NoForeignClose, FdTyped, At, Idle
  <2> QED
    BY <2>1, <2>2, <2>3, <2>4, <2>5
<1> QED
  BY <1>1, <1>2, <1>3, <1>4, <1>5, <1>6, <1>7, <1>8


LEMMA SuspendConnectionKeeps ==
    ASSUME IInv, SuspendConnection
    PROVE  IInv'
<1> USE DEF IInv, Typed, Stack, Descr
<1>0. /\ fd' = None /\ FdTyped' /\ info' = NoInfo /\ buffers' = {} /\ ~timer'
      /\ timer' \in BOOLEAN
      /\ \A f \in Fd : open'[f] # "ours" /\ handler'[f] = "none"
  BY InterruptFacts DEF SuspendConnection
<1>1. /\ CallsTyped' /\ Callers'
      /\ UNCHANGED calls
  BY DEF SuspendConnection, CallsTyped, Callers
<1>2. ConnTyped'
  BY <1>0 DEF SuspendConnection, ConnTyped
<1>3. SockTyped'
  BY <1>0, NoInfoTyped DEF SuspendConnection, SockTyped
<1>4. FdTyped'
  BY <1>0
<1>5. DnsTyped'
  BY SocketAssumption DEF SuspendConnection, connVars, sockVars, fdVars, DnsTyped
<1>6. CallersSurvive'
  BY <1>1 DEF SuspendConnection, Idle, CallersSurvive
<1>7. Ended'
  BY <1>0, NoInfoTyped DEF Ended
<1>8. Descr'
  BY <1>0, <1>1, NoDescriptor DEF SuspendConnection, Idle, At
<1> QED
  BY <1>1, <1>2, <1>3, <1>4, <1>5, <1>6, <1>7, <1>8


LEMMA CancelDownloadKeeps ==
    ASSUME IInv, CancelDownload
    PROVE  IInv'
<1> USE DEF IInv, Typed, Stack, Descr
<1>0. /\ ConnTyped' /\ SockTyped' /\ FdTyped' /\ Ended'
      /\ conn' = "none" /\ fd' = None
      /\ \A f \in Fd : open'[f] # "ours" /\ handler'[f] = "none"
  BY EndFacts DEF CancelDownload
<1>1. /\ CallsTyped' /\ Callers'
      /\ UNCHANGED calls
  BY DEF CancelDownload, CallsTyped, Callers
<1>2. ConnTyped'
  BY <1>0
<1>3. SockTyped'
  BY <1>0
<1>4. FdTyped'
  BY <1>0
<1>5. DnsTyped'
  BY DEF CancelDownload, DnsTyped
<1>6. CallersSurvive'
  BY <1>1 DEF CancelDownload, Idle, CallersSurvive
<1>7. Ended'
  BY <1>0
<1>8. Descr'
  BY <1>0, <1>1, NoDescriptor DEF CancelDownload, Idle, At
<1> QED
  BY <1>1, <1>2, <1>3, <1>4, <1>5, <1>6, <1>7, <1>8


\* retry_connection()
LEMMA RetryConnectionKeeps ==
    ASSUME IInv, RetryConnection
    PROVE  IInv'
<1> USE DEF IInv, Typed, Stack, Descr
<1>0. calls # <<>> /\ calls \in Seq(Call) /\ Waiting(calls) /\ conn = "running"
  BY DEF RetryConnection, At, CallsTyped, Callers
<1>1. DnsTyped'
  BY DEF RetryConnection, DnsTyped
<1>2. CASE End /\ calls' = Tail(calls)
  <2>1. /\ ConnTyped' /\ SockTyped' /\ FdTyped' /\ Ended'
        /\ conn' = "none" /\ fd' = None
        /\ \A f \in Fd : open'[f] # "ours" /\ handler'[f] = "none"
    BY <1>2, EndFacts
  <2>2. CallsTyped' /\ Callers' /\ (calls' # <<>> => Head(calls').op \in {"rearm", "free"})
    BY <1>0, <1>2, Returns DEF CallsTyped, Callers
  <2>3. CallersSurvive'
    BY <2>2 DEF CallersSurvive, At
  <2>4. Descr'
    BY <2>1, <2>2, NoDescriptor DEF At
  <2> QED
    BY <1>1, <2>1, <2>2, <2>3, <2>4
<1>3. CASE /\ ~(MaxTries > 0 /\ tries + 1 >= MaxTries)
           /\ Interrupt
           /\ tries' = IF MaxTries > 0 THEN tries + 1 ELSE tries
           /\ Then(<<Do("make")>>)
           /\ UNCHANGED <<conn, onclose>>
  <2>1. /\ fd' = None /\ FdTyped' /\ info' = NoInfo /\ buffers' = {} /\ ~timer'
        /\ timer' \in BOOLEAN
        /\ \A f \in Fd : open'[f] # "ours" /\ handler'[f] = "none"
    BY <1>3, InterruptFacts
  <2>2. CallsTyped' /\ Callers' /\ calls' # <<>> /\ Head(calls').op = "make"
    BY <1>0, <1>3, CallTypes, Pushes DEF Then, CallsTyped, Callers
  <2>3. CallersSurvive' /\ Ended'
    BY <1>0, <1>3 DEF CallersSurvive, Ended
  <2>4. ConnTyped'
    BY <1>3, <2>1, SocketAssumption DEF ConnTyped
  <2>5. SockTyped'
    BY <1>3, <2>1, NoInfoTyped DEF SockTyped
  <2>6. Descr'
    BY <2>1, <2>2, NoDescriptor DEF At
  <2> QED
    BY <1>1, <2>1, <2>2, <2>3, <2>4, <2>5, <2>6
<1> QED
  BY <1>2, <1>3 DEF RetryConnection


LEMMA AbortConnectionKeeps ==
    ASSUME IInv, AbortConnection
    PROVE  IInv'
<1> USE DEF IInv, Typed, Stack, Descr
<1>0. /\ ConnTyped' /\ SockTyped' /\ FdTyped' /\ Ended'
      /\ conn' = "none" /\ fd' = None
      /\ \A f \in Fd : open'[f] # "ours" /\ handler'[f] = "none"
  BY EndFacts DEF AbortConnection
<1>1. /\ CallsTyped' /\ Callers'
      /\ (calls' # <<>> => Head(calls').op \in {"rearm", "free"})
  BY Returns DEF AbortConnection, CallsTyped, Callers, At
<1>2. ConnTyped'
  BY <1>0
<1>3. SockTyped'
  BY <1>0
<1>4. FdTyped'
  BY <1>0
<1>5. DnsTyped'
  BY DEF AbortConnection, DnsTyped
<1>6. CallersSurvive'
  BY <1>1 DEF CallersSurvive, At
<1>7. Ended'
  BY <1>0
<1>8. Descr'
  BY <1>0, <1>1, NoDescriptor DEF At
<1> QED
  BY <1>1, <1>2, <1>3, <1>4, <1>5, <1>6, <1>7, <1>8


\* dns_found()
LEMMA FoundFacts ==
    ASSUME IInv, NEW a \in Hosts \cup {<<>>}, Found(a), calls # <<>>,
           UNCHANGED <<buffers, onclose>>
    PROVE  /\ calls' # <<>> /\ CallsTyped' /\ Callers'
           /\ Head(calls').op \in {"abort", "connect"}
           /\ SockTyped' /\ info'.there
<1> USE DEF IInv, Typed, Stack
<1>1. calls \in Seq(Call) /\ Waiting(calls)
  BY DEF CallsTyped, Callers
<1>2. /\ Abort("result") \in Call /\ Abort("result").op = "abort"
      /\ [op |-> "connect", state |-> "S_CONN"] \in Call
  BY CallTypes
<1>3. /\ calls' # <<>> /\ CallsTyped' /\ Callers'
      /\ Head(calls').op \in {"abort", "connect"}
  <2>1. PICK c \in Call : c.op \in {"abort", "connect"} /\ calls' = <<c>> \o Tail(calls)
    BY <1>2 DEF Found, Then
  <2> QED
    BY <1>1, <2>1, Pushes DEF CallsTyped, Callers
<1>4. info' = Info(a)
  BY DEF Found
<1>5. SockTyped' /\ info'.there
  BY <1>4, InfoTyped DEF SockTyped
<1> QED
  BY <1>3, <1>5


LEMMA FromCacheKeeps ==
    ASSUME IInv, FromCache
    PROVE  IInv'
<1> USE DEF IInv, Typed, Stack, Descr
<1>0. /\ calls' # <<>> /\ CallsTyped' /\ Callers'
      /\ Head(calls').op \in {"abort", "connect"}
      /\ SockTyped' /\ info'.there
  BY FoundFacts DEF FromCache, At, DnsTyped
<1>1. /\ CallsTyped' /\ Callers'
      /\ calls' # <<>> /\ Head(calls').op \in {"abort", "connect"}
  BY <1>0
<1>2. ConnTyped'
  BY SocketAssumption DEF FromCache, connVars, sockVars, fdVars, ConnTyped
<1>3. SockTyped'
  BY <1>0
<1>4. FdTyped'
  BY SocketAssumption DEF FromCache, connVars, sockVars, fdVars, FdTyped
<1>5. DnsTyped'
  BY SocketAssumption DEF FromCache, connVars, sockVars, fdVars, DnsTyped
<1>6. CallersSurvive'
  BY <1>0 DEF CallersSurvive, FromCache
<1>7. Ended'
  BY DEF FromCache, Ended
<1>8. Descr'
  <2>1. Owned'
    BY <1>1 DEF FromCache, connVars, sockVars, fdVars, Owned, Attempting, Connected, Settled, NoForeignClose, FdTyped, At, Idle
  <2>2. Attempting'
    BY <1>1 DEF FromCache, connVars, sockVars, fdVars, Owned, Attempting, Connected, Settled, NoForeignClose, FdTyped, At, Idle
  <2>3. Connected'
    BY <1>1 DEF FromCache, connVars, sockVars, fdVars, Owned, Attempting, Connected, Settled, NoForeignClose, FdTyped, At, Idle
  <2>4. Settled'
    BY <1>1 DEF FromCache, connVars, sockVars, fdVars, Owned, Attempting, Connected, Settled, NoForeignClose, FdTyped, At, Idle
  <2>5. NoForeignClose'
    BY <1>1 DEF FromCache, connVars, sockVars, fdVars, Owned, Attempting, Connected, Settled, NoForeignClose, FdTyped, At, Idle
  <2> QED
    BY <2>1, <2>2, <2>3, <2>4, <2>5
<1> QED
  BY <1>1, <1>2, <1>3, <1>4, <1>5, <1>6, <1>7, <1>8


LEMMA LookupKeeps ==
    ASSUME IInv, Lookup
    PROVE  IInv'
<1> USE DEF IInv, Typed, Stack, Descr
<1>a. calls # <<>> /\ UNCHANGED <<buffers, onclose>> /\ dns.addr \in Hosts \cup {<<>>}
  BY DEF Lookup, At, DnsTyped
<1>b. PICK a \in Hosts \cup {<<>>} : Found(a)
  BY <1>a DEF Lookup
<1>0. /\ calls' # <<>> /\ CallsTyped' /\ Callers'
      /\ Head(calls').op \in {"abort", "connect"}
      /\ SockTyped' /\ info'.there
  BY <1>a, <1>b, FoundFacts
<1>1. /\ CallsTyped' /\ Callers'
      /\ calls' # <<>> /\ Head(calls').op \in {"abort", "connect"}
  BY <1>0
<1>2. ConnTyped'
  BY SocketAssumption DEF Lookup, connVars, sockVars, fdVars, ConnTyped
<1>3. SockTyped'
  BY <1>0
<1>4. FdTyped'
  BY SocketAssumption DEF Lookup, connVars, sockVars, fdVars, FdTyped
<1>5. DnsTyped'
  BY SocketAssumption DEF Lookup, connVars, sockVars, fdVars, DnsTyped
<1>6. CallersSurvive'
  BY <1>0 DEF CallersSurvive, Lookup
<1>7. Ended'
  BY DEF Lookup, Ended
<1>8. Descr'
  <2>1. Owned'
    BY <1>1 DEF Lookup, connVars, sockVars, fdVars, Owned, Attempting, Connected, Settled, NoForeignClose, FdTyped, At, Idle
  <2>2. Attempting'
    BY <1>1 DEF Lookup, connVars, sockVars, fdVars, Owned, Attempting, Connected, Settled, NoForeignClose, FdTyped, At, Idle
  <2>3. Connected'
    BY <1>1 DEF Lookup, connVars, sockVars, fdVars, Owned, Attempting, Connected, Settled, NoForeignClose, FdTyped, At, Idle
  <2>4. Settled'
    BY <1>1 DEF Lookup, connVars, sockVars, fdVars, Owned, Attempting, Connected, Settled, NoForeignClose, FdTyped, At, Idle
  <2>5. NoForeignClose'
    BY <1>1 DEF Lookup, connVars, sockVars, fdVars, Owned, Attempting, Connected, Settled, NoForeignClose, FdTyped, At, Idle
  <2> QED
    BY <2>1, <2>2, <2>3, <2>4, <2>5
<1> QED
  BY <1>1, <1>2, <1>3, <1>4, <1>5, <1>6, <1>7, <1>8


LEMMA AgingKeeps ==
    ASSUME IInv, Aging
    PROVE  IInv'
<1> USE DEF IInv, Typed, Stack, Descr
<1>1. /\ CallsTyped' /\ Callers'
      /\ UNCHANGED calls
  BY DEF Aging, CallsTyped, Callers
<1>2. ConnTyped'
  BY SocketAssumption DEF Aging, connVars, sockVars, fdVars, ConnTyped
<1>3. SockTyped'
  BY SocketAssumption DEF Aging, connVars, sockVars, fdVars, SockTyped
<1>4. FdTyped'
  BY SocketAssumption DEF Aging, connVars, sockVars, fdVars, FdTyped
<1>5. DnsTyped'
  BY SocketAssumption DEF Aging, connVars, sockVars, fdVars, DnsTyped
<1>6. CallersSurvive'
  BY SocketAssumption DEF Aging, connVars, sockVars, fdVars, CallersSurvive, At
<1>7. Ended'
  BY SocketAssumption DEF Aging, connVars, sockVars, fdVars, Ended
<1>8. Descr'
  <2>1. Owned'
    BY <1>1 DEF Aging, connVars, sockVars, fdVars, Owned, Attempting, Connected, Settled, NoForeignClose, FdTyped, At, Idle
  <2>2. Attempting'
    BY <1>1 DEF Aging, connVars, sockVars, fdVars, Owned, Attempting, Connected, Settled, NoForeignClose, FdTyped, At, Idle
  <2>3. Connected'
    BY <1>1 DEF Aging, connVars, sockVars, fdVars, Owned, Attempting, Connected, Settled, NoForeignClose, FdTyped, At, Idle
  <2>4. Settled'
    BY <1>1 DEF Aging, connVars, sockVars, fdVars, Owned, Attempting, Connected, Settled, NoForeignClose, FdTyped, At, Idle
  <2>5. NoForeignClose'
    BY <1>1 DEF Aging, connVars, sockVars, fdVars, Owned, Attempting, Connected, Settled, NoForeignClose, FdTyped, At, Idle
  <2> QED
    BY <2>1, <2>2, <2>3, <2>4, <2>5
<1> QED
  BY <1>1, <1>2, <1>3, <1>4, <1>5, <1>6, <1>7, <1>8


LEMMA ShrinkDnsCacheKeeps ==
    ASSUME IInv, ShrinkDnsCache
    PROVE  IInv'
<1> USE DEF IInv, Typed, Stack, Descr
<1>1. /\ CallsTyped' /\ Callers'
      /\ UNCHANGED calls
  BY DEF ShrinkDnsCache, CallsTyped, Callers
<1>2. ConnTyped'
  BY SocketAssumption DEF ShrinkDnsCache, connVars, sockVars, fdVars, ConnTyped
<1>3. SockTyped'
  BY SocketAssumption DEF ShrinkDnsCache, connVars, sockVars, fdVars, SockTyped
<1>4. FdTyped'
  BY SocketAssumption DEF ShrinkDnsCache, connVars, sockVars, fdVars, FdTyped
<1>5. DnsTyped'
  BY SocketAssumption DEF ShrinkDnsCache, connVars, sockVars, fdVars, DnsTyped
<1>6. CallersSurvive'
  BY SocketAssumption DEF ShrinkDnsCache, connVars, sockVars, fdVars, CallersSurvive, At
<1>7. Ended'
  BY SocketAssumption DEF ShrinkDnsCache, connVars, sockVars, fdVars, Ended
<1>8. Descr'
  <2>1. Owned'
    BY <1>1 DEF ShrinkDnsCache, connVars, sockVars, fdVars, Owned, Attempting, Connected, Settled, NoForeignClose, FdTyped, At, Idle
  <2>2. Attempting'
    BY <1>1 DEF ShrinkDnsCache, connVars, sockVars, fdVars, Owned, Attempting, Connected, Settled, NoForeignClose, FdTyped, At, Idle
  <2>3. Connected'
    BY <1>1 DEF ShrinkDnsCache, connVars, sockVars, fdVars, Owned, Attempting, Connected, Settled, NoForeignClose, FdTyped, At, Idle
  <2>4. Settled'
    BY <1>1 DEF ShrinkDnsCache, connVars, sockVars, fdVars, Owned, Attempting, Connected, Settled, NoForeignClose, FdTyped, At, Idle
  <2>5. NoForeignClose'
    BY <1>1 DEF ShrinkDnsCache, connVars, sockVars, fdVars, Owned, Attempting, Connected, Settled, NoForeignClose, FdTyped, At, Idle
  <2> QED
    BY <2>1, <2>2, <2>3, <2>4, <2>5
<1> QED
  BY <1>1, <1>2, <1>3, <1>4, <1>5, <1>6, <1>7, <1>8


\* connect_socket() up to the loop
LEMMA ConnectSocketKeeps ==
    ASSUME IInv, ConnectSocket
    PROVE  IInv'
<1> USE DEF IInv, Typed, Stack, Descr
<1>0. calls # <<>> /\ calls \in Seq(Call) /\ Waiting(calls) /\ conn = "running"
  BY DEF ConnectSocket, At, CallsTyped, Callers
<1>1. Head(calls) \in Call /\ Head(calls).op = "connect"
  BY <1>0 DEF ConnectSocket, At
<1>2. CallsTyped' /\ Callers' /\ calls' # <<>> /\ Head(calls').op = "try"
  <2>1. Head(calls).state \in {"S_CONN", "result"}
    BY <1>1 DEF Call
  <2> DEFINE c == [op |-> "try", state |-> Head(calls).state, first |-> info.tried = 0,
                   any |-> FALSE, errno |-> FALSE, remote |-> FALSE, silent |-> FALSE]
  <2>2. calls' = <<c>> \o Tail(calls) /\ c.op = "try"
    BY DEF ConnectSocket, Then
  <2>3. c \in Call
    BY <2>1, CallTypes
  <2> QED
    BY <1>0, <2>2, <2>3, Pushes DEF CallsTyped, Callers
<1>3. DnsTyped'
  BY DEF ConnectSocket, DnsTyped
<1>4. CallersSurvive'
  BY <1>2 DEF CallersSurvive, At
<1>5. CASE CloseSocket /\ UNCHANGED <<connVars, info, buffers, onclose>>
  <2>1. /\ fd' = None /\ FdTyped'
        /\ \A f \in Fd : open'[f] # "ours" /\ handler'[f] = "none"
    BY <1>5, CloseFacts
  <2>2. ConnTyped' /\ SockTyped' /\ Ended'
    BY <1>0, <1>5 DEF connVars, ConnTyped, SockTyped, Ended
  <2>3. Descr'
    BY <1>2, <2>1, NoDescriptor DEF At
  <2> QED
    BY <1>2, <1>3, <1>4, <2>1, <2>2, <2>3
<1>6. CASE End
  <2>1. /\ ConnTyped' /\ SockTyped' /\ FdTyped' /\ Ended'
        /\ conn' = "none" /\ fd' = None
        /\ \A f \in Fd : open'[f] # "ours" /\ handler'[f] = "none"
    BY <1>6, EndFacts
  <2>2. Descr'
    BY <1>2, <2>1, NoDescriptor DEF At
  <2> QED
    BY <1>2, <1>3, <1>4, <2>1, <2>2
<1> QED
  BY <1>5, <1>6 DEF ConnectSocket, Cancelled



\* The loop of connect_socket() goes on, with other notes about the attempts.
LEMMA TryTyped ==
    ASSUME NEW c \in Call, c.op = "try"
    PROVE  /\ \A b \in BOOLEAN :
                /\ [c EXCEPT !.remote = b] \in Call /\ [c EXCEPT !.remote = b].op = "try"
                /\ [c EXCEPT !.silent = b] \in Call /\ [c EXCEPT !.silent = b].op = "try"
                /\ [c EXCEPT !.errno = b] \in Call /\ [c EXCEPT !.errno = b].op = "try"
                /\ [c EXCEPT !.any = b] \in Call /\ [c EXCEPT !.any = b].op = "try"
<1> DEFINE T == [op : {"try"}, state : {"S_CONN", "result"}, first : BOOLEAN, any : BOOLEAN,
                 errno : BOOLEAN, remote : BOOLEAN, silent : BOOLEAN]
<1>1. c \in T
  BY DEF Call
<1>2. \A b \in BOOLEAN :
         /\ [c EXCEPT !.remote = b] \in T /\ [c EXCEPT !.silent = b] \in T
         /\ [c EXCEPT !.errno = b] \in T /\ [c EXCEPT !.any = b] \in T
  BY <1>1
<1>3. \A t \in T : t \in Call /\ t.op = "try"
  BY DEF Call
<1> HIDE DEF T
<1> QED
  BY <1>2, <1>3

LEMMA AgainFacts ==
    ASSUME CallsTyped, Callers, calls # <<>>, NEW c \in Call, c.op = "try", Again(c)
    PROVE  CallsTyped' /\ Callers' /\ calls' # <<>> /\ Head(calls').op = "try"
<1> DEFINE t == [c EXCEPT !.any = TRUE]
<1>1. t \in Call /\ t.op = "try"
  BY TryTyped
<1>2. calls' = <<t>> \o Tail(calls)
  BY DEF Again, Then
<1> HIDE DEF t
<1> QED
  BY <1>1, <1>2, Pushes DEF CallsTyped, Callers

LEMMA NextAddressFacts ==
    ASSUME SockTyped, info.there, info.tried + 1 \in Nat, info.tried + 1 <= Len(info.addr),
           NextAddress, UNCHANGED <<buffers, onclose>>
    PROVE  SockTyped' /\ info'.there
BY DEF SockTyped, NextAddress


LEMMA SkipAddressKeeps ==
    ASSUME IInv, SkipAddress
    PROVE  IInv'
<1> USE DEF IInv, Typed, Stack, Descr
<1>0. /\ calls \in Seq(Call) /\ calls # <<>> /\ Waiting(calls) /\ conn = "running"
      /\ Head(calls) \in Call /\ Head(calls).op = "try"
      /\ info.there /\ info.tried + 1 \in Nat /\ info.tried + 1 <= Len(info.addr)
      /\ \A f \in Fd : open[f] # "ours" /\ handler[f] = "none"
  <2>1. /\ calls \in Seq(Call) /\ calls # <<>> /\ Waiting(calls) /\ conn = "running"
        /\ Head(calls) \in Call /\ Head(calls).op = "try"
    BY DEF SkipAddress, Trying, At, CallsTyped, Callers
  <2>2. info.tried \in Nat /\ info.tried < Len(info.addr) /\ Len(info.addr) \in Nat
    BY SocketAssumption DEF SkipAddress, Trying, SockTyped
  <2>3. info.there
    BY <2>2 DEF SockTyped, NoInfo
  <2>4. \A f \in Fd : open[f] # "ours" /\ handler[f] = "none"
    BY DEF SkipAddress, Trying, Attempting, Owned, FdTyped
  <2> QED
    BY <2>1, <2>2, <2>3, <2>4
<1>1. /\ CallsTyped' /\ Callers'
      /\ calls' # <<>> /\ Head(calls').op = "try"
  <2>1. PICK c \in Call : c.op = "try" /\ Again(c)
    BY <1>0, TryTyped DEF SkipAddress
  <2> QED
    BY <1>0, <2>1, AgainFacts
<1>2. ConnTyped'
  BY SocketAssumption DEF SkipAddress, connVars, sockVars, fdVars, ConnTyped
<1>3. SockTyped'
  BY <1>0, NextAddressFacts DEF SkipAddress
<1>4. FdTyped'
  BY SocketAssumption DEF SkipAddress, connVars, sockVars, fdVars, FdTyped
<1>5. DnsTyped'
  BY SocketAssumption DEF SkipAddress, connVars, sockVars, fdVars, DnsTyped
<1>6. CallersSurvive'
  BY <1>1 DEF CallersSurvive, At
<1>7. Ended'
  BY <1>0 DEF SkipAddress, Ended, connVars
<1>8. Descr'
  <2>1. Owned'
    BY <1>1, <1>0 DEF SkipAddress, connVars, sockVars, fdVars, Owned, Attempting, Connected, Settled, NoForeignClose, FdTyped, At, Idle
  <2>2. Attempting'
    BY <1>1, <1>0 DEF SkipAddress, connVars, sockVars, fdVars, Owned, Attempting, Connected, Settled, NoForeignClose, FdTyped, At, Idle
  <2>3. Connected'
    BY <1>1, <1>0 DEF SkipAddress, connVars, sockVars, fdVars, Owned, Attempting, Connected, Settled, NoForeignClose, FdTyped, At, Idle
  <2>4. Settled'
    BY <1>1, <1>0 DEF SkipAddress, connVars, sockVars, fdVars, Owned, Attempting, Connected, Settled, NoForeignClose, FdTyped, At, Idle
  <2>5. NoForeignClose'
    BY <1>1, <1>0 DEF SkipAddress, connVars, sockVars, fdVars, Owned, Attempting, Connected, Settled, NoForeignClose, FdTyped, At, Idle
  <2> QED
    BY <2>1, <2>2, <2>3, <2>4, <2>5
<1> QED
  BY <1>1, <1>2, <1>3, <1>4, <1>5, <1>6, <1>7, <1>8


LEMMA NoSocketKeeps ==
    ASSUME IInv, NoSocket
    PROVE  IInv'
<1> USE DEF IInv, Typed, Stack, Descr
<1>0. /\ calls \in Seq(Call) /\ calls # <<>> /\ Waiting(calls) /\ conn = "running"
      /\ Head(calls) \in Call /\ Head(calls).op = "try"
      /\ info.there /\ info.tried + 1 \in Nat /\ info.tried + 1 <= Len(info.addr)
      /\ \A f \in Fd : open[f] # "ours" /\ handler[f] = "none"
  <2>1. /\ calls \in Seq(Call) /\ calls # <<>> /\ Waiting(calls) /\ conn = "running"
        /\ Head(calls) \in Call /\ Head(calls).op = "try"
    BY DEF NoSocket, Trying, At, CallsTyped, Callers
  <2>2. info.tried \in Nat /\ info.tried < Len(info.addr) /\ Len(info.addr) \in Nat
    BY SocketAssumption DEF NoSocket, Trying, SockTyped
  <2>3. info.there
    BY <2>2 DEF SockTyped, NoInfo
  <2>4. \A f \in Fd : open[f] # "ours" /\ handler[f] = "none"
    BY DEF NoSocket, Trying, Attempting, Owned, FdTyped
  <2> QED
    BY <2>1, <2>2, <2>3, <2>4
<1>1. /\ CallsTyped' /\ Callers'
      /\ calls' # <<>> /\ Head(calls').op = "try"
  <2>1. WithErrno \in Call /\ WithErrno.op = "try"
    BY <1>0, TryTyped DEF WithErrno
  <2> QED
    BY <1>0, <2>1, AgainFacts DEF NoSocket
<1>2. ConnTyped'
  BY SocketAssumption DEF NoSocket, connVars, sockVars, fdVars, ConnTyped
<1>3. SockTyped'
  BY <1>0, NextAddressFacts DEF NoSocket
<1>4. FdTyped'
  BY SocketAssumption DEF NoSocket, connVars, sockVars, fdVars, FdTyped
<1>5. DnsTyped'
  BY SocketAssumption DEF NoSocket, connVars, sockVars, fdVars, DnsTyped
<1>6. CallersSurvive'
  BY <1>1 DEF CallersSurvive, At
<1>7. Ended'
  BY <1>0 DEF NoSocket, Ended, connVars
<1>8. Descr'
  <2>1. Owned'
    BY <1>1, <1>0 DEF NoSocket, connVars, sockVars, fdVars, Owned, Attempting, Connected, Settled, NoForeignClose, FdTyped, At, Idle
  <2>2. Attempting'
    BY <1>1, <1>0 DEF NoSocket, connVars, sockVars, fdVars, Owned, Attempting, Connected, Settled, NoForeignClose, FdTyped, At, Idle
  <2>3. Connected'
    BY <1>1, <1>0 DEF NoSocket, connVars, sockVars, fdVars, Owned, Attempting, Connected, Settled, NoForeignClose, FdTyped, At, Idle
  <2>4. Settled'
    BY <1>1, <1>0 DEF NoSocket, connVars, sockVars, fdVars, Owned, Attempting, Connected, Settled, NoForeignClose, FdTyped, At, Idle
  <2>5. NoForeignClose'
    BY <1>1, <1>0 DEF NoSocket, connVars, sockVars, fdVars, Owned, Attempting, Connected, Settled, NoForeignClose, FdTyped, At, Idle
  <2> QED
    BY <2>1, <2>2, <2>3, <2>4, <2>5
<1> QED
  BY <1>1, <1>2, <1>3, <1>4, <1>5, <1>6, <1>7, <1>8


LEMMA ConnectFailsKeeps ==
    ASSUME IInv, ConnectFails
    PROVE  IInv'
<1> USE DEF IInv, Typed, Stack, Descr
<1>0. /\ calls \in Seq(Call) /\ calls # <<>> /\ Waiting(calls) /\ conn = "running"
      /\ Head(calls) \in Call /\ Head(calls).op = "try"
      /\ info.there /\ info.tried + 1 \in Nat /\ info.tried + 1 <= Len(info.addr)
      /\ \A f \in Fd : open[f] # "ours" /\ handler[f] = "none"
  <2>1. /\ calls \in Seq(Call) /\ calls # <<>> /\ Waiting(calls) /\ conn = "running"
        /\ Head(calls) \in Call /\ Head(calls).op = "try"
    BY DEF ConnectFails, Trying, At, CallsTyped, Callers
  <2>2. info.tried \in Nat /\ info.tried < Len(info.addr) /\ Len(info.addr) \in Nat
    BY SocketAssumption DEF ConnectFails, Trying, SockTyped
  <2>3. info.there
    BY <2>2 DEF SockTyped, NoInfo
  <2>4. \A f \in Fd : open[f] # "ours" /\ handler[f] = "none"
    BY DEF ConnectFails, Trying, Attempting, Owned, FdTyped
  <2> QED
    BY <2>1, <2>2, <2>3, <2>4
<1>low. fd' \in Fd /\ fd' # None /\ open[fd'] = "closed"
  BY SocketAssumption DEF ConnectFails, Lowest, None
<1>1. /\ CallsTyped' /\ Callers'
      /\ calls' # <<>> /\ Head(calls').op = "try"
  <2>1. WithErrno \in Call /\ WithErrno.op = "try"
    BY <1>0, TryTyped DEF WithErrno
  <2> QED
    BY <1>0, <2>1, AgainFacts DEF ConnectFails
<1>2. ConnTyped'
  BY SocketAssumption DEF ConnectFails, connVars, sockVars, fdVars, ConnTyped
<1>3. SockTyped'
  BY <1>0, NextAddressFacts DEF ConnectFails
<1>4. FdTyped'
  BY <1>low DEF ConnectFails, FdTyped, fdVars
<1>5. DnsTyped'
  BY SocketAssumption DEF ConnectFails, connVars, sockVars, fdVars, DnsTyped
<1>6. CallersSurvive'
  BY <1>1 DEF CallersSurvive, At
<1>7. Ended'
  BY <1>0 DEF ConnectFails, Ended, connVars
<1>8. Descr'
  <2>1. Owned'
    BY <1>1, <1>0, <1>low DEF ConnectFails, connVars, sockVars, fdVars, Owned, Attempting, Connected, Settled, NoForeignClose, FdTyped, At, Idle
  <2>2. Attempting'
    BY <1>1, <1>0, <1>low DEF ConnectFails, connVars, sockVars, fdVars, Owned, Attempting, Connected, Settled, NoForeignClose, FdTyped, At, Idle
  <2>3. Connected'
    BY <1>1, <1>0, <1>low DEF ConnectFails, connVars, sockVars, fdVars, Owned, Attempting, Connected, Settled, NoForeignClose, FdTyped, At, Idle
  <2>4. Settled'
    BY <1>1, <1>0, <1>low DEF ConnectFails, connVars, sockVars, fdVars, Owned, Attempting, Connected, Settled, NoForeignClose, FdTyped, At, Idle
  <2>5. NoForeignClose'
    BY <1>1, <1>0, <1>low DEF ConnectFails, connVars, sockVars, fdVars, Owned, Attempting, Connected, Settled, NoForeignClose, FdTyped, At, Idle
  <2> QED
    BY <2>1, <2>2, <2>3, <2>4, <2>5
<1> QED
  BY <1>1, <1>2, <1>3, <1>4, <1>5, <1>6, <1>7, <1>8


LEMMA ConnectDoneKeeps ==
    ASSUME IInv, ConnectDone
    PROVE  IInv'
<1> USE DEF IInv, Typed, Stack, Descr
<1>0. /\ calls \in Seq(Call) /\ calls # <<>> /\ Waiting(calls) /\ conn = "running"
      /\ Head(calls) \in Call /\ Head(calls).op = "try"
      /\ info.there /\ info.tried + 1 \in Nat /\ info.tried + 1 <= Len(info.addr)
      /\ \A f \in Fd : open[f] # "ours" /\ handler[f] = "none"
  <2>1. /\ calls \in Seq(Call) /\ calls # <<>> /\ Waiting(calls) /\ conn = "running"
        /\ Head(calls) \in Call /\ Head(calls).op = "try"
    BY DEF ConnectDone, Trying, At, CallsTyped, Callers
  <2>2. info.tried \in Nat /\ info.tried < Len(info.addr) /\ Len(info.addr) \in Nat
    BY SocketAssumption DEF ConnectDone, Trying, SockTyped
  <2>3. info.there
    BY <2>2 DEF SockTyped, NoInfo
  <2>4. \A f \in Fd : open[f] # "ours" /\ handler[f] = "none"
    BY DEF ConnectDone, Trying, Attempting, Owned, FdTyped
  <2> QED
    BY <2>1, <2>2, <2>3, <2>4
<1>low. fd' \in Fd /\ fd' # None /\ open[fd'] = "closed"
  BY SocketAssumption DEF ConnectDone, Lowest, None
<1>1. /\ CallsTyped' /\ Callers'
      /\ calls' # <<>> /\ Head(calls').op = "complete"
  BY <1>0, CallTypes, Pushes DEF ConnectDone, Then, CallsTyped, Callers
<1>2. ConnTyped'
  BY SocketAssumption DEF ConnectDone, connVars, sockVars, fdVars, ConnTyped
<1>3. SockTyped'
  BY <1>0, NextAddressFacts DEF ConnectDone
<1>4. FdTyped'
  BY <1>0, <1>low DEF ConnectDone, FdTyped
<1>5. DnsTyped'
  BY SocketAssumption DEF ConnectDone, connVars, sockVars, fdVars, DnsTyped
<1>6. CallersSurvive'
  BY <1>0 DEF ConnectDone, CallersSurvive, connVars
<1>7. Ended'
  BY <1>0 DEF ConnectDone, Ended, connVars
<1>8. Descr'
  <2>1. Owned'
    BY <1>1, <1>0, <1>low DEF ConnectDone, connVars, sockVars, fdVars, Owned, Attempting, Connected, Settled, NoForeignClose, FdTyped, At, Idle
  <2>2. Attempting'
    BY <1>1, <1>0, <1>low DEF ConnectDone, connVars, sockVars, fdVars, Owned, Attempting, Connected, Settled, NoForeignClose, FdTyped, At, Idle
  <2>3. Connected'
    BY <1>1, <1>0, <1>low DEF ConnectDone, connVars, sockVars, fdVars, Owned, Attempting, Connected, Settled, NoForeignClose, FdTyped, At, Idle
  <2>4. Settled'
    BY <1>1, <1>0, <1>low DEF ConnectDone, connVars, sockVars, fdVars, Owned, Attempting, Connected, Settled, NoForeignClose, FdTyped, At, Idle
  <2>5. NoForeignClose'
    BY <1>1, <1>0, <1>low DEF ConnectDone, connVars, sockVars, fdVars, Owned, Attempting, Connected, Settled, NoForeignClose, FdTyped, At, Idle
  <2> QED
    BY <2>1, <2>2, <2>3, <2>4, <2>5
<1> QED
  BY <1>1, <1>2, <1>3, <1>4, <1>5, <1>6, <1>7, <1>8


\* connect() takes its time, or a callback of set_state() ends the connection.
LEMMA ConnectStartsKeeps ==
    ASSUME IInv, ConnectStarts
    PROVE  IInv'
<1> USE DEF IInv, Typed, Stack, Descr
<1>0. /\ calls \in Seq(Call) /\ calls # <<>> /\ Waiting(calls) /\ conn = "running"
      /\ Head(calls) \in Call /\ Head(calls).op = "try"
      /\ info.there /\ info.tried + 1 \in Nat /\ info.tried + 1 <= Len(info.addr)
      /\ \A f \in Fd : open[f] # "ours" /\ handler[f] = "none"
  <2>1. /\ calls \in Seq(Call) /\ calls # <<>> /\ Waiting(calls) /\ conn = "running"
        /\ Head(calls) \in Call /\ Head(calls).op = "try"
    BY DEF ConnectStarts, Trying, At, CallsTyped, Callers
  <2>2. info.tried \in Nat /\ info.tried < Len(info.addr) /\ Len(info.addr) \in Nat
    BY SocketAssumption DEF ConnectStarts, Trying, SockTyped
  <2>3. info.there
    BY <2>2 DEF SockTyped, NoInfo
  <2>4. \A f \in Fd : open[f] # "ours" /\ handler[f] = "none"
    BY DEF ConnectStarts, Trying, Attempting, Owned, FdTyped
  <2> QED
    BY <2>1, <2>2, <2>3, <2>4
<1>1. CallsTyped' /\ Callers' /\ (calls' # <<>> => Head(calls').op \in {"rearm", "free"})
  BY <1>0, Returns DEF ConnectStarts, CallsTyped, Callers
<1>2. CallersSurvive'
  BY <1>1 DEF CallersSurvive, At
<1>3. DnsTyped'
  BY DEF ConnectStarts, DnsTyped
<1>4. CASE End
  <2>1. /\ ConnTyped' /\ SockTyped' /\ FdTyped' /\ Ended'
        /\ conn' = "none" /\ fd' = None
        /\ \A f \in Fd : open'[f] # "ours" /\ handler'[f] = "none"
    BY <1>4, EndFacts
  <2>2. Descr'
    BY <1>1, <2>1, NoDescriptor DEF At
  <2> QED
    BY <1>1, <1>2, <1>3, <2>1, <2>2
<1>5. CASE /\ NextAddress
           /\ fd' \in Lowest /\ open' = [open EXCEPT ![fd'] = "ours"]
           /\ SetHandlers(fd', "connected")
           /\ UNCHANGED <<connVars, buffers, onclose>>
  <2>1. fd' \in Fd /\ fd' # None /\ open[fd'] = "closed"
    BY <1>5, SocketAssumption DEF Lowest, None
  <2>2. FdTyped'
    BY <1>5, <2>1 DEF FdTyped, SetHandlers
  <2>3. ConnTyped' /\ Ended'
    BY <1>0, <1>5 DEF connVars, ConnTyped, Ended
  <2>4. SockTyped'
    BY <1>0, <1>5, NextAddressFacts
  <2>5. open'[fd'] = "ours"
    BY <1>5, <2>1 DEF FdTyped
  <2>6. Owned'
    BY <1>0, <1>5, <2>1, <2>5 DEF Owned, FdTyped, SetHandlers
  <2>7. Attempting' /\ Connected' /\ Settled' /\ NoForeignClose'
    BY <1>1, <2>5 DEF Attempting, Connected, Settled, NoForeignClose, At
  <2> QED
    BY <1>1, <1>2, <1>3, <2>2, <2>3, <2>4, <2>6, <2>7
<1> QED
  BY <1>4, <1>5 DEF ConnectStarts, Cancelled


LEMMA ExhaustedKeeps ==
    ASSUME IInv, Exhausted
    PROVE  IInv'
<1> USE DEF IInv, Typed, Stack, Descr
<1>0. /\ calls \in Seq(Call) /\ calls # <<>> /\ Waiting(calls) /\ conn = "running"
      /\ Head(calls) \in Call /\ Head(calls).op = "try"
  BY DEF Exhausted, At, CallsTyped, Callers
<1>1. /\ CallsTyped' /\ Callers'
      /\ calls' # <<>> /\ Head(calls').op \in {"abort", "retry"}
  <2>1. Head(calls).state \in {"S_CONN", "result"}
    BY <1>0 DEF Call
  <2>2. PICK c \in Call : c.op \in {"abort", "retry"} /\ calls' = <<c>> \o Tail(calls)
    BY <2>1, CallTypes DEF Exhausted, Then
  <2> QED
    BY <1>0, <2>2, Pushes DEF CallsTyped, Callers
<1>2. ConnTyped'
  BY SocketAssumption DEF Exhausted, connVars, sockVars, fdVars, ConnTyped
<1>3. SockTyped'
  BY SocketAssumption DEF Exhausted, connVars, sockVars, fdVars, SockTyped
<1>4. FdTyped'
  BY SocketAssumption DEF Exhausted, connVars, sockVars, fdVars, FdTyped
<1>5. DnsTyped'
  BY SocketAssumption DEF Exhausted, connVars, sockVars, fdVars, DnsTyped
<1>6. CallersSurvive'
  BY SocketAssumption DEF Exhausted, connVars, sockVars, fdVars, CallersSurvive, At
<1>7. Ended'
  BY SocketAssumption DEF Exhausted, connVars, sockVars, fdVars, Ended
<1>8. Descr'
  <2>1. Owned'
    BY <1>1, <1>0 DEF Exhausted, connVars, sockVars, fdVars, Owned, Attempting, Connected, Settled, NoForeignClose, FdTyped, At, Idle
  <2>2. Attempting'
    BY <1>1, <1>0 DEF Exhausted, connVars, sockVars, fdVars, Owned, Attempting, Connected, Settled, NoForeignClose, FdTyped, At, Idle
  <2>3. Connected'
    BY <1>1, <1>0 DEF Exhausted, connVars, sockVars, fdVars, Owned, Attempting, Connected, Settled, NoForeignClose, FdTyped, At, Idle
  <2>4. Settled'
    BY <1>1, <1>0 DEF Exhausted, connVars, sockVars, fdVars, Owned, Attempting, Connected, Settled, NoForeignClose, FdTyped, At, Idle
  <2>5. NoForeignClose'
    BY <1>1, <1>0 DEF Exhausted, connVars, sockVars, fdVars, Owned, Attempting, Connected, Settled, NoForeignClose, FdTyped, At, Idle
  <2> QED
    BY <2>1, <2>2, <2>3, <2>4, <2>5
<1> QED
  BY <1>1, <1>2, <1>3, <1>4, <1>5, <1>6, <1>7, <1>8


LEMMA ConnectedHandlerKeeps ==
    ASSUME IInv, ConnectedHandler
    PROVE  IInv'
<1> USE DEF IInv, Typed, Stack, Descr
<1>0. fd \in Fd /\ fd # None /\ open[fd] = "ours" /\ conn = "running" /\ calls = <<>>
  BY OwnFd DEF ConnectedHandler, Selected, Idle, Owned, Ended
<1>1. /\ CallsTyped' /\ Callers'
      /\ calls' # <<>> /\ Head(calls').op \in {"complete", "connect"}
  <2>1. PICK c \in Call : c.op \in {"complete", "connect"} /\ calls' = <<c>>
    BY CallTypes DEF ConnectedHandler
  <2> QED
    BY <2>1, Starts DEF CallsTyped, Callers
<1>2. ConnTyped'
  BY SocketAssumption DEF ConnectedHandler, connVars, sockVars, fdVars, SetHandlers, ConnTyped
<1>3. SockTyped'
  BY SocketAssumption DEF ConnectedHandler, connVars, sockVars, fdVars, SetHandlers, SockTyped
<1>4. FdTyped'
  BY SocketAssumption DEF ConnectedHandler, connVars, sockVars, fdVars, SetHandlers, FdTyped
<1>5. DnsTyped'
  BY SocketAssumption DEF ConnectedHandler, connVars, sockVars, fdVars, SetHandlers, DnsTyped
<1>6. CallersSurvive'
  BY <1>0, <1>1 DEF ConnectedHandler, CallersSurvive, connVars
<1>7. Ended'
  BY <1>0 DEF ConnectedHandler, Ended, connVars, sockVars, fdVars
<1>8. Descr'
  <2>1. Owned'
    BY <1>1, <1>0 DEF ConnectedHandler, connVars, sockVars, fdVars, SetHandlers, Owned, Attempting, Connected, Settled, NoForeignClose, FdTyped, At, Idle
  <2>2. Attempting'
    BY <1>1, <1>0 DEF ConnectedHandler, connVars, sockVars, fdVars, SetHandlers, Owned, Attempting, Connected, Settled, NoForeignClose, FdTyped, At, Idle
  <2>3. Connected'
    BY <1>1, <1>0 DEF ConnectedHandler, connVars, sockVars, fdVars, SetHandlers, Owned, Attempting, Connected, Settled, NoForeignClose, FdTyped, At, Idle
  <2>4. Settled'
    BY <1>1, <1>0 DEF ConnectedHandler, connVars, sockVars, fdVars, SetHandlers, Owned, Attempting, Connected, Settled, NoForeignClose, FdTyped, At, Idle
  <2>5. NoForeignClose'
    BY <1>1, <1>0 DEF ConnectedHandler, connVars, sockVars, fdVars, SetHandlers, Owned, Attempting, Connected, Settled, NoForeignClose, FdTyped, At, Idle
  <2> QED
    BY <2>1, <2>2, <2>3, <2>4, <2>5
<1> QED
  BY <1>1, <1>2, <1>3, <1>4, <1>5, <1>6, <1>7, <1>8


LEMMA CompleteConnectKeeps ==
    ASSUME IInv, CompleteConnect
    PROVE  IInv'
<1> USE DEF IInv, Typed, Stack, Descr
<1>0. /\ calls \in Seq(Call) /\ calls # <<>> /\ Waiting(calls) /\ conn = "running"
  BY DEF CompleteConnect, At, CallsTyped, Callers
<1>1. /\ CallsTyped' /\ Callers'
      /\ calls' # <<>> /\ Head(calls').op = "done"
  <2>1. /\ <<Do("free")>> \o Tail(calls) \in Seq(Call) /\ Waiting(<<Do("free")>> \o Tail(calls))
        /\ Do("free") \in Call /\ Do("free").op = "free" /\ Do("done") \in Call /\ Do("done").op = "done"
    BY <1>0, CallTypes, Pushes
  <2>2. calls' = <<Do("done"), Do("free")>> \o Tail(calls)
    BY DEF CompleteConnect, Then
  <2>3. /\ Tail(calls) \in Seq(Call) /\ Len(Tail(calls)) \in Nat
        /\ \A i \in 1 .. Len(Tail(calls)) : Tail(calls)[i].op \in {"rearm", "free"}
    <3>1. Tail(calls) \in Seq(Call) /\ Len(Tail(calls)) = Len(calls) - 1 /\ Len(calls) \in Nat
      BY <1>0
    <3>2. \A i \in 1 .. Len(Tail(calls)) : Tail(calls)[i] = calls[i + 1] /\ i + 1 \in 2 .. Len(calls)
      BY <1>0, <3>1
    <3> QED
      BY <1>0, <3>1, <3>2 DEF Waiting
  <2>4. CallsTyped' /\ Len(calls') = Len(Tail(calls)) + 2
    BY <2>1, <2>2, <2>3 DEF CallsTyped
  <2>5. calls' # <<>> /\ Head(calls') = Do("done") /\ calls'[2] = Do("free")
    BY <2>1, <2>2, <2>3
  <2>6. \A i \in 3 .. Len(calls') : calls'[i] = Tail(calls)[i - 2] /\ i - 2 \in 1 .. Len(Tail(calls))
    BY <2>1, <2>2, <2>3, <2>4
  <2>7. Callers'
    <3> SUFFICES ASSUME NEW i \in 2 .. Len(calls')
                 PROVE  calls'[i].op \in {"rearm", "free"}
      BY DEF Callers, Waiting
    <3>1. i = 2 \/ i \in 3 .. Len(calls')
      BY <2>3, <2>4
    <3> QED
      BY <2>1, <2>3, <2>5, <2>6, <3>1
  <2> QED
    BY <2>1, <2>4, <2>5, <2>7
<1>2. ConnTyped'
  BY SocketAssumption DEF CompleteConnect, connVars, sockVars, fdVars, ConnTyped
<1>3. SockTyped'
  BY SocketAssumption DEF CompleteConnect, connVars, sockVars, fdVars, SockTyped
<1>4. FdTyped'
  BY SocketAssumption DEF CompleteConnect, connVars, sockVars, fdVars, FdTyped
<1>5. DnsTyped'
  BY SocketAssumption DEF CompleteConnect, connVars, sockVars, fdVars, DnsTyped
<1>6. CallersSurvive'
  BY SocketAssumption DEF CompleteConnect, connVars, sockVars, fdVars, CallersSurvive, At
<1>7. Ended'
  BY SocketAssumption DEF CompleteConnect, connVars, sockVars, fdVars, Ended
<1>8. Descr'
  <2>1. Owned'
    BY <1>1, <1>0 DEF CompleteConnect, connVars, sockVars, fdVars, Owned, Attempting, Connected, Settled, NoForeignClose, FdTyped, At, Idle
  <2>2. Attempting'
    BY <1>1, <1>0 DEF CompleteConnect, connVars, sockVars, fdVars, Owned, Attempting, Connected, Settled, NoForeignClose, FdTyped, At, Idle
  <2>3. Connected'
    BY <1>1, <1>0 DEF CompleteConnect, connVars, sockVars, fdVars, Owned, Attempting, Connected, Settled, NoForeignClose, FdTyped, At, Idle
  <2>4. Settled'
    BY <1>1, <1>0 DEF CompleteConnect, connVars, sockVars, fdVars, Owned, Attempting, Connected, Settled, NoForeignClose, FdTyped, At, Idle
  <2>5. NoForeignClose'
    BY <1>1, <1>0 DEF CompleteConnect, connVars, sockVars, fdVars, Owned, Attempting, Connected, Settled, NoForeignClose, FdTyped, At, Idle
  <2> QED
    BY <2>1, <2>2, <2>3, <2>4, <2>5
<1> QED
  BY <1>1, <1>2, <1>3, <1>4, <1>5, <1>6, <1>7, <1>8


LEMMA DoneConnectionInfoKeeps ==
    ASSUME IInv, DoneConnectionInfo
    PROVE  IInv'
<1> USE DEF IInv, Typed, Stack, Descr
<1>1. /\ CallsTyped' /\ Callers'
      /\ (calls' # <<>> => Head(calls').op \in {"rearm", "free"})
  BY Returns DEF DoneConnectionInfo, CallsTyped, Callers, At
<1>2. ConnTyped'
  BY SocketAssumption DEF DoneConnectionInfo, connVars, sockVars, fdVars, ConnTyped
<1>3. SockTyped'
  BY NoInfoTyped DEF DoneConnectionInfo, SockTyped
<1>4. FdTyped'
  BY SocketAssumption DEF DoneConnectionInfo, connVars, sockVars, fdVars, FdTyped
<1>5. DnsTyped'
  BY SocketAssumption DEF DoneConnectionInfo, connVars, sockVars, fdVars, DnsTyped
<1>6. CallersSurvive'
  BY SocketAssumption DEF DoneConnectionInfo, connVars, sockVars, fdVars, CallersSurvive, At
<1>7. Ended'
  BY SocketAssumption DEF DoneConnectionInfo, connVars, sockVars, fdVars, Ended
<1>8. Descr'
  <2>1. Owned'
    BY <1>1 DEF DoneConnectionInfo, connVars, sockVars, fdVars, Owned, Attempting, Connected, Settled, NoForeignClose, FdTyped, At, Idle
  <2>2. Attempting'
    BY <1>1 DEF DoneConnectionInfo, connVars, sockVars, fdVars, Owned, Attempting, Connected, Settled, NoForeignClose, FdTyped, At, Idle
  <2>3. Connected'
    BY <1>1 DEF DoneConnectionInfo, connVars, sockVars, fdVars, Owned, Attempting, Connected, Settled, NoForeignClose, FdTyped, At, Idle
  <2>4. Settled'
    BY <1>1 DEF DoneConnectionInfo, connVars, sockVars, fdVars, Owned, Attempting, Connected, Settled, NoForeignClose, FdTyped, At, Idle
  <2>5. NoForeignClose'
    BY <1>1 DEF DoneConnectionInfo, connVars, sockVars, fdVars, Owned, Attempting, Connected, Settled, NoForeignClose, FdTyped, At, Idle
  <2> QED
    BY <2>1, <2>2, <2>3, <2>4, <2>5
<1> QED
  BY <1>1, <1>2, <1>3, <1>4, <1>5, <1>6, <1>7, <1>8


LEMMA TimeoutSocketKeeps ==
    ASSUME IInv, TimeoutSocket
    PROVE  IInv'
<1> USE DEF IInv, Typed, Stack, Descr
<1>1. /\ CallsTyped' /\ Callers'
      /\ calls' # <<>> /\ Head(calls').op \in {"connect", "retry"}
  <2>1. Retry("result") \in Call /\ Do("rearm") \in Call /\ [op |-> "connect", state |-> "result"] \in Call
    BY CallTypes
  <2>2. Retry("result").op = "retry" /\ Do("rearm").op = "rearm"
    BY CallTypes
  <2>3. CASE calls' = <<Retry("result")>>
    BY <2>1, <2>2, <2>3, Starts DEF CallsTyped, Callers
  <2>4. CASE calls' = <<[op |-> "connect", state |-> "result"], Do("rearm")>>
    BY <2>1, <2>2, <2>4 DEF CallsTyped, Callers, Waiting
  <2> QED
    BY <2>3, <2>4 DEF TimeoutSocket
<1>2. ConnTyped'
  BY SocketAssumption DEF TimeoutSocket, connVars, sockVars, fdVars, ConnTyped
<1>3. SockTyped'
  BY SocketAssumption DEF TimeoutSocket, connVars, sockVars, fdVars, SockTyped
<1>4. FdTyped'
  BY SocketAssumption DEF TimeoutSocket, connVars, sockVars, fdVars, FdTyped
<1>5. DnsTyped'
  BY SocketAssumption DEF TimeoutSocket, connVars, sockVars, fdVars, DnsTyped
<1>6. CallersSurvive'
  BY DEF TimeoutSocket, CallersSurvive, Ended, ConnTyped
<1>7. Ended'
  BY DEF TimeoutSocket, Ended, sockVars
<1>8. Descr'
  <2>1. Owned'
    BY <1>1 DEF TimeoutSocket, connVars, sockVars, fdVars, Owned, Attempting, Connected, Settled, NoForeignClose, FdTyped, At, Idle
  <2>2. Attempting'
    BY <1>1 DEF TimeoutSocket, connVars, sockVars, fdVars, Owned, Attempting, Connected, Settled, NoForeignClose, FdTyped, At, Idle
  <2>3. Connected'
    BY <1>1 DEF TimeoutSocket, connVars, sockVars, fdVars, Owned, Attempting, Connected, Settled, NoForeignClose, FdTyped, At, Idle
  <2>4. Settled'
    BY <1>1 DEF TimeoutSocket, connVars, sockVars, fdVars, Owned, Attempting, Connected, Settled, NoForeignClose, FdTyped, At, Idle
  <2>5. NoForeignClose'
    BY <1>1 DEF TimeoutSocket, connVars, sockVars, fdVars, Owned, Attempting, Connected, Settled, NoForeignClose, FdTyped, At, Idle
  <2> QED
    BY <2>1, <2>2, <2>3, <2>4, <2>5
<1> QED
  BY <1>1, <1>2, <1>3, <1>4, <1>5, <1>6, <1>7, <1>8


LEMMA RearmTimeoutKeeps ==
    ASSUME IInv, RearmTimeout
    PROVE  IInv'
<1> USE DEF IInv, Typed, Stack, Descr
<1>1. /\ CallsTyped' /\ Callers'
      /\ (calls' # <<>> => Head(calls').op \in {"rearm", "free"})
  BY Returns DEF RearmTimeout, CallsTyped, Callers, At
<1>2. ConnTyped'
  BY SocketAssumption DEF RearmTimeout, connVars, sockVars, fdVars, ConnTyped
<1>3. SockTyped'
  BY SocketAssumption DEF RearmTimeout, connVars, sockVars, fdVars, SockTyped
<1>4. FdTyped'
  BY SocketAssumption DEF RearmTimeout, connVars, sockVars, fdVars, FdTyped
<1>5. DnsTyped'
  BY SocketAssumption DEF RearmTimeout, connVars, sockVars, fdVars, DnsTyped
<1>6. CallersSurvive'
  BY SocketAssumption DEF RearmTimeout, connVars, sockVars, fdVars, CallersSurvive, At
<1>7. Ended'
  BY SocketAssumption DEF RearmTimeout, connVars, sockVars, fdVars, Ended
<1>8. Descr'
  <2>1. Owned'
    BY <1>1 DEF RearmTimeout, connVars, sockVars, fdVars, Owned, Attempting, Connected, Settled, NoForeignClose, FdTyped, At, Idle
  <2>2. Attempting'
    BY <1>1 DEF RearmTimeout, connVars, sockVars, fdVars, Owned, Attempting, Connected, Settled, NoForeignClose, FdTyped, At, Idle
  <2>3. Connected'
    BY <1>1 DEF RearmTimeout, connVars, sockVars, fdVars, Owned, Attempting, Connected, Settled, NoForeignClose, FdTyped, At, Idle
  <2>4. Settled'
    BY <1>1 DEF RearmTimeout, connVars, sockVars, fdVars, Owned, Attempting, Connected, Settled, NoForeignClose, FdTyped, At, Idle
  <2>5. NoForeignClose'
    BY <1>1 DEF RearmTimeout, connVars, sockVars, fdVars, Owned, Attempting, Connected, Settled, NoForeignClose, FdTyped, At, Idle
  <2> QED
    BY <2>1, <2>2, <2>3, <2>4, <2>5
<1> QED
  BY <1>1, <1>2, <1>3, <1>4, <1>5, <1>6, <1>7, <1>8


\* The protocol sends its request, or the callbacks of set_state() end the
\* connection, or the protocol does.
LEMMA SendRequestKeeps ==
    ASSUME IInv, SendRequest
    PROVE  IInv'
<1> USE DEF IInv, Typed, Stack, Descr
<1>0. /\ calls \in Seq(Call) /\ calls # <<>> /\ Waiting(calls) /\ conn = "running"
      /\ fd \in Fd /\ fd # None /\ open[fd] = "ours"
  BY OwnFd DEF SendRequest, At, CallsTyped, Callers, Connected
<1>3. DnsTyped'
  BY DEF SendRequest, DnsTyped
<1>4. CASE calls' = Tail(calls) /\ End
  <2>1. /\ ConnTyped' /\ SockTyped' /\ FdTyped' /\ Ended'
        /\ conn' = "none" /\ fd' = None
        /\ \A f \in Fd : open'[f] # "ours" /\ handler'[f] = "none"
    BY <1>4, EndFacts
  <2>2. CallsTyped' /\ Callers' /\ (calls' # <<>> => Head(calls').op \in {"rearm", "free"})
    BY <1>0, <1>4, Returns DEF CallsTyped, Callers
  <2>3. Descr' /\ CallersSurvive'
    BY <2>2, <2>1, NoDescriptor DEF At, CallersSurvive
  <2> QED
    BY <1>3, <2>1, <2>2, <2>3
<1>5. CASE /\ timer' = TRUE
           /\ buffers' = buffers \cup {"write"}
           /\ onclose' \in {"retry", "end"}
           /\ SetHandlers(fd, "write_select")
           /\ calls' = Tail(calls)
           /\ UNCHANGED <<conn, tries, fd, info, open>>
  <2>1. CallsTyped' /\ Callers' /\ (calls' # <<>> => Head(calls').op \in {"rearm", "free"})
    BY <1>0, <1>5, Returns DEF CallsTyped, Callers
  <2>2. FdTyped'
    BY <1>0, <1>5 DEF FdTyped, SetHandlers
  <2>3. ConnTyped' /\ Ended' /\ SockTyped'
    BY <1>0, <1>5 DEF ConnTyped, Ended, SockTyped
  <2>4. Owned'
    BY <1>0, <1>5 DEF Owned, FdTyped, SetHandlers
  <2>5. Attempting' /\ Connected' /\ Settled' /\ NoForeignClose' /\ CallersSurvive'
    BY <1>0, <1>5, <2>1 DEF Attempting, Connected, Settled, NoForeignClose, CallersSurvive, At
  <2> QED
    BY <1>3, <2>1, <2>2, <2>3, <2>4, <2>5
<1>6. CASE Then(<<Abort("result")>>) /\ UNCHANGED <<connVars, sockVars, fdVars>>
  <2>1. CallsTyped' /\ Callers' /\ calls' # <<>> /\ Head(calls').op = "abort"
    BY <1>0, <1>6, CallTypes, Pushes DEF Then, CallsTyped, Callers
  <2>2. ConnTyped' /\ SockTyped' /\ FdTyped' /\ Ended'
    BY <1>6 DEF ConnTyped, SockTyped, FdTyped, Ended, connVars, sockVars, fdVars
  <2>3. Descr' /\ CallersSurvive'
    BY <1>0, <1>6, <2>1 DEF Owned, Attempting, Connected, Settled, NoForeignClose, CallersSurvive,
       At, connVars, sockVars, fdVars
  <2> QED
    BY <1>3, <2>1, <2>2, <2>3
<1> QED
  BY <1>4, <1>5, <1>6 DEF SendRequest, Cancelled


LEMMA WritePartKeeps ==
    ASSUME IInv, WritePart
    PROVE  IInv'
<1> USE DEF IInv, Typed, Stack, Descr
<1>0. fd \in Fd /\ fd # None /\ open[fd] = "ours" /\ conn = "running" /\ calls = <<>>
  BY OwnFd DEF WritePart, Selected, Idle, Owned, Ended
<1>1. /\ CallsTyped' /\ Callers'
      /\ UNCHANGED calls
  BY DEF WritePart, CallsTyped, Callers
<1>2. ConnTyped'
  BY SocketAssumption DEF WritePart, connVars, sockVars, fdVars, SetHandlers, ConnTyped
<1>3. SockTyped'
  BY SocketAssumption DEF WritePart, connVars, sockVars, fdVars, SetHandlers, SockTyped
<1>4. FdTyped'
  BY SocketAssumption DEF WritePart, connVars, sockVars, fdVars, SetHandlers, FdTyped
<1>5. DnsTyped'
  BY SocketAssumption DEF WritePart, connVars, sockVars, fdVars, SetHandlers, DnsTyped
<1>6. CallersSurvive'
  BY <1>0, <1>1 DEF WritePart, CallersSurvive, connVars
<1>7. Ended'
  BY <1>0 DEF WritePart, Ended, connVars, sockVars, fdVars
<1>8. Descr'
  <2>1. Owned'
    BY <1>1, <1>0 DEF WritePart, connVars, sockVars, fdVars, SetHandlers, Owned, Attempting, Connected, Settled, NoForeignClose, FdTyped, At, Idle
  <2>2. Attempting'
    BY <1>1, <1>0 DEF WritePart, connVars, sockVars, fdVars, SetHandlers, Owned, Attempting, Connected, Settled, NoForeignClose, FdTyped, At, Idle
  <2>3. Connected'
    BY <1>1, <1>0 DEF WritePart, connVars, sockVars, fdVars, SetHandlers, Owned, Attempting, Connected, Settled, NoForeignClose, FdTyped, At, Idle
  <2>4. Settled'
    BY <1>1, <1>0 DEF WritePart, connVars, sockVars, fdVars, SetHandlers, Owned, Attempting, Connected, Settled, NoForeignClose, FdTyped, At, Idle
  <2>5. NoForeignClose'
    BY <1>1, <1>0 DEF WritePart, connVars, sockVars, fdVars, SetHandlers, Owned, Attempting, Connected, Settled, NoForeignClose, FdTyped, At, Idle
  <2> QED
    BY <2>1, <2>2, <2>3, <2>4, <2>5
<1> QED
  BY <1>1, <1>2, <1>3, <1>4, <1>5, <1>6, <1>7, <1>8


LEMMA WriteDoneKeeps ==
    ASSUME IInv, WriteDone
    PROVE  IInv'
<1> USE DEF IInv, Typed, Stack, Descr
<1>0. fd \in Fd /\ fd # None /\ open[fd] = "ours" /\ conn = "running" /\ calls = <<>>
  BY OwnFd DEF WriteDone, Selected, Idle, Owned, Ended
<1>1. /\ CallsTyped' /\ Callers'
      /\ calls' # <<>> /\ Head(calls').op \in {"response"}
  BY CallTypes, Starts DEF WriteDone, CallsTyped, Callers
<1>2. ConnTyped'
  BY SocketAssumption DEF WriteDone, connVars, sockVars, fdVars, SetHandlers, ConnTyped
<1>3. SockTyped'
  BY SocketAssumption DEF WriteDone, connVars, sockVars, fdVars, SetHandlers, SockTyped
<1>4. FdTyped'
  BY SocketAssumption DEF WriteDone, connVars, sockVars, fdVars, SetHandlers, FdTyped
<1>5. DnsTyped'
  BY SocketAssumption DEF WriteDone, connVars, sockVars, fdVars, SetHandlers, DnsTyped
<1>6. CallersSurvive'
  BY <1>0, <1>1 DEF WriteDone, CallersSurvive, connVars
<1>7. Ended'
  BY <1>0 DEF WriteDone, Ended, connVars, sockVars, fdVars
<1>8. Descr'
  <2>1. Owned'
    BY <1>1, <1>0 DEF WriteDone, connVars, sockVars, fdVars, SetHandlers, Owned, Attempting, Connected, Settled, NoForeignClose, FdTyped, At, Idle
  <2>2. Attempting'
    BY <1>1, <1>0 DEF WriteDone, connVars, sockVars, fdVars, SetHandlers, Owned, Attempting, Connected, Settled, NoForeignClose, FdTyped, At, Idle
  <2>3. Connected'
    BY <1>1, <1>0 DEF WriteDone, connVars, sockVars, fdVars, SetHandlers, Owned, Attempting, Connected, Settled, NoForeignClose, FdTyped, At, Idle
  <2>4. Settled'
    BY <1>1, <1>0 DEF WriteDone, connVars, sockVars, fdVars, SetHandlers, Owned, Attempting, Connected, Settled, NoForeignClose, FdTyped, At, Idle
  <2>5. NoForeignClose'
    BY <1>1, <1>0 DEF WriteDone, connVars, sockVars, fdVars, SetHandlers, Owned, Attempting, Connected, Settled, NoForeignClose, FdTyped, At, Idle
  <2> QED
    BY <2>1, <2>2, <2>3, <2>4, <2>5
<1> QED
  BY <1>1, <1>2, <1>3, <1>4, <1>5, <1>6, <1>7, <1>8


LEMMA IOFailsKeeps ==
    ASSUME IInv, IOFails
    PROVE  IInv'
<1> USE DEF IInv, Typed, Stack, Descr
<1>0. fd \in Fd /\ fd # None /\ open[fd] = "ours" /\ conn = "running" /\ calls = <<>>
  BY OwnFd DEF IOFails, Selected, Idle, Owned, Ended
<1>1. /\ CallsTyped' /\ Callers'
      /\ calls' # <<>> /\ Head(calls').op \in {"retry"}
  BY CallTypes, Starts DEF IOFails, CallsTyped, Callers
<1>2. ConnTyped'
  BY SocketAssumption DEF IOFails, connVars, sockVars, fdVars, SetHandlers, ConnTyped
<1>3. SockTyped'
  BY SocketAssumption DEF IOFails, connVars, sockVars, fdVars, SetHandlers, SockTyped
<1>4. FdTyped'
  BY SocketAssumption DEF IOFails, connVars, sockVars, fdVars, SetHandlers, FdTyped
<1>5. DnsTyped'
  BY SocketAssumption DEF IOFails, connVars, sockVars, fdVars, SetHandlers, DnsTyped
<1>6. CallersSurvive'
  BY <1>0, <1>1 DEF IOFails, CallersSurvive, connVars
<1>7. Ended'
  BY <1>0 DEF IOFails, Ended, connVars, sockVars, fdVars
<1>8. Descr'
  <2>1. Owned'
    BY <1>1, <1>0 DEF IOFails, connVars, sockVars, fdVars, SetHandlers, Owned, Attempting, Connected, Settled, NoForeignClose, FdTyped, At, Idle
  <2>2. Attempting'
    BY <1>1, <1>0 DEF IOFails, connVars, sockVars, fdVars, SetHandlers, Owned, Attempting, Connected, Settled, NoForeignClose, FdTyped, At, Idle
  <2>3. Connected'
    BY <1>1, <1>0 DEF IOFails, connVars, sockVars, fdVars, SetHandlers, Owned, Attempting, Connected, Settled, NoForeignClose, FdTyped, At, Idle
  <2>4. Settled'
    BY <1>1, <1>0 DEF IOFails, connVars, sockVars, fdVars, SetHandlers, Owned, Attempting, Connected, Settled, NoForeignClose, FdTyped, At, Idle
  <2>5. NoForeignClose'
    BY <1>1, <1>0 DEF IOFails, connVars, sockVars, fdVars, SetHandlers, Owned, Attempting, Connected, Settled, NoForeignClose, FdTyped, At, Idle
  <2> QED
    BY <2>1, <2>2, <2>3, <2>4, <2>5
<1> QED
  BY <1>1, <1>2, <1>3, <1>4, <1>5, <1>6, <1>7, <1>8


LEMMA ReadResponseKeeps ==
    ASSUME IInv, ReadResponse
    PROVE  IInv'
<1> USE DEF IInv, Typed, Stack, Descr
<1>1. /\ CallsTyped' /\ Callers'
      /\ calls' # <<>> /\ Head(calls').op = "read"
  <2>1. PICK c \in Call : c.op = "read" /\ calls' = <<c>> \o Tail(calls)
    BY CallTypes DEF ReadResponse, Then
  <2> QED
    BY <2>1, Pushes DEF ReadResponse, At, CallsTyped, Callers
<1>2. ConnTyped'
  BY SocketAssumption DEF ReadResponse, connVars, sockVars, fdVars, ConnTyped
<1>3. SockTyped'
  BY SocketAssumption DEF ReadResponse, connVars, sockVars, fdVars, SockTyped
<1>4. FdTyped'
  BY SocketAssumption DEF ReadResponse, connVars, sockVars, fdVars, FdTyped
<1>5. DnsTyped'
  BY SocketAssumption DEF ReadResponse, connVars, sockVars, fdVars, DnsTyped
<1>6. CallersSurvive'
  BY SocketAssumption DEF ReadResponse, connVars, sockVars, fdVars, CallersSurvive, At
<1>7. Ended'
  BY SocketAssumption DEF ReadResponse, connVars, sockVars, fdVars, Ended
<1>8. Descr'
  <2>1. Owned'
    BY <1>1 DEF ReadResponse, connVars, sockVars, fdVars, Owned, Attempting, Connected, Settled, NoForeignClose, FdTyped, At, Idle
  <2>2. Attempting'
    BY <1>1 DEF ReadResponse, connVars, sockVars, fdVars, Owned, Attempting, Connected, Settled, NoForeignClose, FdTyped, At, Idle
  <2>3. Connected'
    BY <1>1 DEF ReadResponse, connVars, sockVars, fdVars, Owned, Attempting, Connected, Settled, NoForeignClose, FdTyped, At, Idle
  <2>4. Settled'
    BY <1>1 DEF ReadResponse, connVars, sockVars, fdVars, Owned, Attempting, Connected, Settled, NoForeignClose, FdTyped, At, Idle
  <2>5. NoForeignClose'
    BY <1>1 DEF ReadResponse, connVars, sockVars, fdVars, Owned, Attempting, Connected, Settled, NoForeignClose, FdTyped, At, Idle
  <2> QED
    BY <2>1, <2>2, <2>3, <2>4, <2>5
<1> QED
  BY <1>1, <1>2, <1>3, <1>4, <1>5, <1>6, <1>7, <1>8


\* read_from_socket(): the weak reference tells when set_state() ended the
\* connection.
LEMMA ReadFromSocketKeeps ==
    ASSUME IInv, ReadFromSocket
    PROVE  IInv'
<1> USE DEF IInv, Typed, Stack, Descr
<1>0. /\ calls \in Seq(Call) /\ calls # <<>> /\ Waiting(calls) /\ conn = "running"
      /\ fd \in Fd /\ fd # None /\ open[fd] = "ours"
  BY OwnFd DEF ReadFromSocket, At, CallsTyped, Callers, Connected
<1>1. CallsTyped' /\ Callers' /\ (calls' # <<>> => Head(calls').op \in {"rearm", "free"})
  BY <1>0, Returns DEF ReadFromSocket, CallsTyped, Callers
<1>2. CallersSurvive' /\ DnsTyped'
  BY <1>1 DEF CallersSurvive, At, ReadFromSocket, DnsTyped
<1>3. CASE End
  <2>1. /\ ConnTyped' /\ SockTyped' /\ FdTyped' /\ Ended'
        /\ conn' = "none" /\ fd' = None
        /\ \A f \in Fd : open'[f] # "ours" /\ handler'[f] = "none"
    BY <1>3, EndFacts
  <2>2. Descr'
    BY <1>1, <2>1, NoDescriptor DEF At
  <2> QED
    BY <1>1, <1>2, <2>1, <2>2
<1>4. CASE /\ timer' = TRUE
           /\ buffers' = buffers \cup {"read"}
           /\ SetHandlers(fd, "read_select")
           /\ UNCHANGED <<conn, tries, fd, info, onclose, open>>
  <2>1. FdTyped'
    BY <1>0, <1>4 DEF FdTyped, SetHandlers
  <2>2. ConnTyped' /\ Ended' /\ SockTyped'
    BY <1>0, <1>4 DEF ConnTyped, Ended, SockTyped
  <2>3. Owned'
    BY <1>0, <1>4 DEF Owned, FdTyped, SetHandlers
  <2>4. Attempting' /\ Connected' /\ Settled' /\ NoForeignClose'
    BY <1>0, <1>1, <1>4 DEF Attempting, Connected, Settled, NoForeignClose, At
  <2> QED
    BY <1>1, <1>2, <2>1, <2>2, <2>3, <2>4
<1> QED
  BY <1>3, <1>4 DEF ReadFromSocket, Cancelled


LEMMA ReadDataKeeps ==
    ASSUME IInv, ReadData
    PROVE  IInv'
<1> USE DEF IInv, Typed, Stack, Descr
<1>0. fd \in Fd /\ fd # None /\ open[fd] = "ours" /\ conn = "running" /\ calls = <<>>
  BY OwnFd DEF ReadData, Selected, Idle, Owned, Ended
<1>1. /\ CallsTyped' /\ Callers'
      /\ calls' # <<>> /\ Head(calls').op \in {"read", "abort", "retry"}
  <2>1. PICK c \in Call : c.op \in {"read", "abort", "retry"} /\ calls' = <<c>>
    BY CallTypes DEF ReadData
  <2> QED
    BY <2>1, Starts DEF CallsTyped, Callers
<1>2. ConnTyped'
  BY SocketAssumption DEF ReadData, connVars, sockVars, fdVars, SetHandlers, ConnTyped
<1>3. SockTyped'
  BY SocketAssumption DEF ReadData, connVars, sockVars, fdVars, SetHandlers, SockTyped
<1>4. FdTyped'
  BY SocketAssumption DEF ReadData, connVars, sockVars, fdVars, SetHandlers, FdTyped
<1>5. DnsTyped'
  BY SocketAssumption DEF ReadData, connVars, sockVars, fdVars, SetHandlers, DnsTyped
<1>6. CallersSurvive'
  BY <1>0, <1>1 DEF ReadData, CallersSurvive, connVars
<1>7. Ended'
  BY <1>0 DEF ReadData, Ended, connVars, sockVars, fdVars
<1>8. Descr'
  <2>1. Owned'
    BY <1>1, <1>0 DEF ReadData, connVars, sockVars, fdVars, SetHandlers, Owned, Attempting, Connected, Settled, NoForeignClose, FdTyped, At, Idle
  <2>2. Attempting'
    BY <1>1, <1>0 DEF ReadData, connVars, sockVars, fdVars, SetHandlers, Owned, Attempting, Connected, Settled, NoForeignClose, FdTyped, At, Idle
  <2>3. Connected'
    BY <1>1, <1>0 DEF ReadData, connVars, sockVars, fdVars, SetHandlers, Owned, Attempting, Connected, Settled, NoForeignClose, FdTyped, At, Idle
  <2>4. Settled'
    BY <1>1, <1>0 DEF ReadData, connVars, sockVars, fdVars, SetHandlers, Owned, Attempting, Connected, Settled, NoForeignClose, FdTyped, At, Idle
  <2>5. NoForeignClose'
    BY <1>1, <1>0 DEF ReadData, connVars, sockVars, fdVars, SetHandlers, Owned, Attempting, Connected, Settled, NoForeignClose, FdTyped, At, Idle
  <2> QED
    BY <2>1, <2>2, <2>3, <2>4, <2>5
<1> QED
  BY <1>1, <1>2, <1>3, <1>4, <1>5, <1>6, <1>7, <1>8


LEMMA ReadClosedKeeps ==
    ASSUME IInv, ReadClosed
    PROVE  IInv'
<1> USE DEF IInv, Typed, Stack, Descr
<1>0. fd \in Fd /\ fd # None /\ open[fd] = "ours" /\ conn = "running" /\ calls = <<>>
  BY OwnFd DEF ReadClosed, Selected, Idle, Owned, Ended
<1>1. /\ CallsTyped' /\ Callers'
      /\ calls' # <<>> /\ Head(calls').op \in {"abort", "retry"}
  <2>1. PICK c \in Call : c.op \in {"abort", "retry"} /\ calls' = <<c>>
    BY CallTypes DEF ReadClosed
  <2> QED
    BY <2>1, Starts DEF CallsTyped, Callers
<1>2. ConnTyped'
  BY SocketAssumption DEF ReadClosed, connVars, sockVars, fdVars, SetHandlers, ConnTyped
<1>3. SockTyped'
  BY SocketAssumption DEF ReadClosed, connVars, sockVars, fdVars, SetHandlers, SockTyped
<1>4. FdTyped'
  BY SocketAssumption DEF ReadClosed, connVars, sockVars, fdVars, SetHandlers, FdTyped
<1>5. DnsTyped'
  BY SocketAssumption DEF ReadClosed, connVars, sockVars, fdVars, SetHandlers, DnsTyped
<1>6. CallersSurvive'
  BY <1>0, <1>1 DEF ReadClosed, CallersSurvive, connVars
<1>7. Ended'
  BY <1>0 DEF ReadClosed, Ended, connVars, sockVars, fdVars
<1>8. Descr'
  <2>1. Owned'
    BY <1>1, <1>0 DEF ReadClosed, connVars, sockVars, fdVars, SetHandlers, Owned, Attempting, Connected, Settled, NoForeignClose, FdTyped, At, Idle
  <2>2. Attempting'
    BY <1>1, <1>0 DEF ReadClosed, connVars, sockVars, fdVars, SetHandlers, Owned, Attempting, Connected, Settled, NoForeignClose, FdTyped, At, Idle
  <2>3. Connected'
    BY <1>1, <1>0 DEF ReadClosed, connVars, sockVars, fdVars, SetHandlers, Owned, Attempting, Connected, Settled, NoForeignClose, FdTyped, At, Idle
  <2>4. Settled'
    BY <1>1, <1>0 DEF ReadClosed, connVars, sockVars, fdVars, SetHandlers, Owned, Attempting, Connected, Settled, NoForeignClose, FdTyped, At, Idle
  <2>5. NoForeignClose'
    BY <1>1, <1>0 DEF ReadClosed, connVars, sockVars, fdVars, SetHandlers, Owned, Attempting, Connected, Settled, NoForeignClose, FdTyped, At, Idle
  <2> QED
    BY <2>1, <2>2, <2>3, <2>4, <2>5
<1> QED
  BY <1>1, <1>2, <1>3, <1>4, <1>5, <1>6, <1>7, <1>8


LEMMA AfterTheEndKeeps ==
    ASSUME IInv, AfterTheEnd
    PROVE  IInv'
<1> USE DEF IInv, Typed, Stack, Descr
<1>0. fd = None
  BY DEF AfterTheEnd, Ended
<1>1. /\ CallsTyped' /\ Callers'
      /\ (calls' # <<>> => Head(calls').op \in {"rearm", "free"})
  BY Returns DEF AfterTheEnd, CallsTyped, Callers
<1>2. ConnTyped'
  BY SocketAssumption DEF AfterTheEnd, connVars, sockVars, fdVars, ConnTyped
<1>3. SockTyped'
  BY SocketAssumption DEF AfterTheEnd, connVars, sockVars, fdVars, SockTyped
<1>4. FdTyped'
  BY SocketAssumption DEF AfterTheEnd, connVars, sockVars, fdVars, FdTyped
<1>5. DnsTyped'
  BY SocketAssumption DEF AfterTheEnd, connVars, sockVars, fdVars, DnsTyped
<1>6. CallersSurvive'
  BY <1>1 DEF CallersSurvive, At
<1>7. Ended'
  BY SocketAssumption DEF AfterTheEnd, connVars, sockVars, fdVars, Ended
<1>8. Descr'
  <2>1. Owned'
    BY <1>1, <1>0 DEF AfterTheEnd, connVars, sockVars, fdVars, Owned, Attempting, Connected, Settled, NoForeignClose, FdTyped, At, Idle
  <2>2. Attempting'
    BY <1>1, <1>0 DEF AfterTheEnd, connVars, sockVars, fdVars, Owned, Attempting, Connected, Settled, NoForeignClose, FdTyped, At, Idle
  <2>3. Connected'
    BY <1>1, <1>0 DEF AfterTheEnd, connVars, sockVars, fdVars, Owned, Attempting, Connected, Settled, NoForeignClose, FdTyped, At, Idle
  <2>4. Settled'
    BY <1>1, <1>0 DEF AfterTheEnd, connVars, sockVars, fdVars, Owned, Attempting, Connected, Settled, NoForeignClose, FdTyped, At, Idle
  <2>5. NoForeignClose'
    BY <1>1, <1>0 DEF AfterTheEnd, connVars, sockVars, fdVars, Owned, Attempting, Connected, Settled, NoForeignClose, FdTyped, At, Idle
  <2> QED
    BY <2>1, <2>2, <2>3, <2>4, <2>5
<1> QED
  BY <1>1, <1>2, <1>3, <1>4, <1>5, <1>6, <1>7, <1>8


LEMMA OthersOpenKeeps ==
    ASSUME IInv, OthersOpen
    PROVE  IInv'
<1> USE DEF IInv, Typed, Stack, Descr
<1>1. /\ CallsTyped' /\ Callers'
      /\ UNCHANGED calls
  BY DEF OthersOpen, CallsTyped, Callers
<1>2. ConnTyped'
  BY SocketAssumption DEF OthersOpen, connVars, sockVars, fdVars, Lowest, ConnTyped
<1>3. SockTyped'
  BY SocketAssumption DEF OthersOpen, connVars, sockVars, fdVars, Lowest, SockTyped
<1>4. FdTyped'
  BY SocketAssumption DEF OthersOpen, connVars, sockVars, fdVars, Lowest, FdTyped
<1>5. DnsTyped'
  BY SocketAssumption DEF OthersOpen, connVars, sockVars, fdVars, Lowest, DnsTyped
<1>6. CallersSurvive'
  BY SocketAssumption DEF OthersOpen, connVars, sockVars, fdVars, Lowest, CallersSurvive, At
<1>7. Ended'
  BY SocketAssumption DEF OthersOpen, connVars, sockVars, fdVars, Lowest, Ended
<1>8. Descr'
  <2>1. Owned'
    BY <1>1 DEF OthersOpen, connVars, sockVars, fdVars, Lowest, Owned, Attempting, Connected, Settled, NoForeignClose, FdTyped, At, Idle
  <2>2. Attempting'
    BY <1>1 DEF OthersOpen, connVars, sockVars, fdVars, Lowest, Owned, Attempting, Connected, Settled, NoForeignClose, FdTyped, At, Idle
  <2>3. Connected'
    BY <1>1 DEF OthersOpen, connVars, sockVars, fdVars, Lowest, Owned, Attempting, Connected, Settled, NoForeignClose, FdTyped, At, Idle
  <2>4. Settled'
    BY <1>1 DEF OthersOpen, connVars, sockVars, fdVars, Lowest, Owned, Attempting, Connected, Settled, NoForeignClose, FdTyped, At, Idle
  <2>5. NoForeignClose'
    BY <1>1 DEF OthersOpen, connVars, sockVars, fdVars, Lowest, Owned, Attempting, Connected, Settled, NoForeignClose, FdTyped, At, Idle
  <2> QED
    BY <2>1, <2>2, <2>3, <2>4, <2>5
<1> QED
  BY <1>1, <1>2, <1>3, <1>4, <1>5, <1>6, <1>7, <1>8


LEMMA OthersCloseKeeps ==
    ASSUME IInv, OthersClose
    PROVE  IInv'
<1> USE DEF IInv, Typed, Stack, Descr
<1>1. /\ CallsTyped' /\ Callers'
      /\ UNCHANGED calls
  BY DEF OthersClose, CallsTyped, Callers
<1>2. ConnTyped'
  BY SocketAssumption DEF OthersClose, connVars, sockVars, fdVars, Lowest, ConnTyped
<1>3. SockTyped'
  BY SocketAssumption DEF OthersClose, connVars, sockVars, fdVars, Lowest, SockTyped
<1>4. FdTyped'
  BY SocketAssumption DEF OthersClose, connVars, sockVars, fdVars, Lowest, FdTyped
<1>5. DnsTyped'
  BY SocketAssumption DEF OthersClose, connVars, sockVars, fdVars, Lowest, DnsTyped
<1>6. CallersSurvive'
  BY SocketAssumption DEF OthersClose, connVars, sockVars, fdVars, Lowest, CallersSurvive, At
<1>7. Ended'
  BY SocketAssumption DEF OthersClose, connVars, sockVars, fdVars, Lowest, Ended
<1>8. Descr'
  <2>1. Owned'
    BY <1>1 DEF OthersClose, connVars, sockVars, fdVars, Lowest, Owned, Attempting, Connected, Settled, NoForeignClose, FdTyped, At, Idle
  <2>2. Attempting'
    BY <1>1 DEF OthersClose, connVars, sockVars, fdVars, Lowest, Owned, Attempting, Connected, Settled, NoForeignClose, FdTyped, At, Idle
  <2>3. Connected'
    BY <1>1 DEF OthersClose, connVars, sockVars, fdVars, Lowest, Owned, Attempting, Connected, Settled, NoForeignClose, FdTyped, At, Idle
  <2>4. Settled'
    BY <1>1 DEF OthersClose, connVars, sockVars, fdVars, Lowest, Owned, Attempting, Connected, Settled, NoForeignClose, FdTyped, At, Idle
  <2>5. NoForeignClose'
    BY <1>1 DEF OthersClose, connVars, sockVars, fdVars, Lowest, Owned, Attempting, Connected, Settled, NoForeignClose, FdTyped, At, Idle
  <2> QED
    BY <2>1, <2>2, <2>3, <2>4, <2>5
<1> QED
  BY <1>1, <1>2, <1>3, <1>4, <1>5, <1>6, <1>7, <1>8


-----------------------------------------------------------------------------
(* The theorems.                                                           *)

LEMMA InitHolds == Init => IInv
<1> SUFFICES ASSUME Init PROVE IInv
  OBVIOUS
<1> USE SocketAssumption DEF Init
<1>1. ConnTyped /\ FdTyped /\ DnsTyped
  <2>1. ConnTyped
    BY DEF ConnTyped
  <2>2. FdTyped
    BY DEF FdTyped
  <2>3. DnsTyped
    BY DEF DnsTyped
  <2> QED
    BY <2>1, <2>2, <2>3
<1>2. SockTyped /\ Ended
  BY NoInfoTyped DEF SockTyped, Ended
<1>3. CallsTyped /\ Callers /\ CallersSurvive
  BY DEF CallsTyped, Callers, Waiting, CallersSurvive
<1>4. Descr
  BY DEF Descr, Owned, Attempting, Connected, Settled, NoForeignClose, At, None
<1> QED
  BY <1>1, <1>2, <1>3, <1>4 DEF IInv, Typed, Stack

LEMMA StutterKeeps ==
    ASSUME IInv, UNCHANGED vars
    PROVE  IInv'
BY DEF IInv, Typed, Stack, Descr, ConnTyped, SockTyped, FdTyped, DnsTyped,
   CallsTyped, Callers, Waiting, CallersSurvive, Ended, Owned, Attempting, Connected, Settled,
   NoForeignClose, At, NoInfo, vars, connVars, sockVars, fdVars

LEMMA StepKeeps == IInv /\ [Next]_vars => IInv'
<1> SUFFICES ASSUME IInv, [Next]_vars PROVE IInv'
  OBVIOUS
<1>1. CASE Nested
  BY <1>1, RetryConnectionKeeps, AbortConnectionKeeps, FromCacheKeeps, LookupKeeps,
     ConnectSocketKeeps, SkipAddressKeeps, NoSocketKeeps, ConnectFailsKeeps, ConnectDoneKeeps,
     ConnectStartsKeeps, ExhaustedKeeps, CompleteConnectKeeps, DoneConnectionInfoKeeps,
     RearmTimeoutKeeps, SendRequestKeeps, ReadResponseKeeps, ReadFromSocketKeeps, AfterTheEndKeeps
     DEF Nested
<1>2. CASE PeerProgress
  BY <1>2, ConnectedHandlerKeeps, WritePartKeeps, WriteDoneKeeps, IOFailsKeeps, ReadDataKeeps,
     ReadClosedKeeps DEF PeerProgress
<1>3. CASE User
  BY <1>3, LoadKeeps, SuspendConnectionKeeps, CancelDownloadKeeps DEF User
<1>4. CASE RunConnection \/ TimeoutSocket \/ Aging \/ ShrinkDnsCache \/ OthersOpen \/ OthersClose
  BY <1>4, RunConnectionKeeps, TimeoutSocketKeeps, AgingKeeps, ShrinkDnsCacheKeeps,
     OthersOpenKeeps, OthersCloseKeeps
<1>5. CASE UNCHANGED vars
  BY <1>5, StutterKeeps
<1> QED
  BY <1>1, <1>2, <1>3, <1>4, <1>5 DEF Next

\* The inductive invariant holds in every behaviour.
THEOREM InvHolds == Spec => []IInv
<1>1. Spec => Init /\ [][Next]_vars
  BY PTL DEF Spec
<1> QED
  BY <1>1, InitHolds, StepKeeps, PTL

LEMMA InvImplies == IInv => DescriptorsOwned /\ NoForeignClose /\ CallersSurvive
<1>1. IInv => TypeOK
  BY DEF IInv, Typed, ConnTyped, SockTyped, FdTyped, DnsTyped, CallsTyped, TypeOK
<1> QED
  BY <1>1 DEF IInv, Stack, Descr, Owned, DescriptorsOwned

\* However connects fail, callbacks cancel and timeouts strike, a handler of
\* the main loop is on the socket's own open descriptor, and what the socket
\* opened is in fd until it is closed (close_socket, connect_socket).
THEOREM HandlersAreOwned == Spec => []DescriptorsOwned
BY InvHolds, InvImplies, PTL

\* connect_socket() leaves closed numbers in fd, and never one that another
\* part of the program has opened since, so close_socket() closes only what is
\* the socket's.
THEOREM ClosesOnlyItsOwn == Spec => []NoForeignClose
BY InvHolds, InvImplies, PTL

\* Only connect_socket(), timeout_socket() and complete_connect_socket() can
\* come back from a call to a connection that ended; read_from_socket() and
\* what the protocol does never go on after it.
THEOREM CallersAreTold == Spec => []CallersSurvive
BY InvHolds, InvImplies, PTL

=============================================================================
