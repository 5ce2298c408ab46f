----------------------------- MODULE EventLoop -----------------------------
(***************************************************************************)
(* select_loop() of src/src/main/select.c with the timers of               *)
(* src/src/main/timer.c: one thread that calls timers, signal and          *)
(* descriptor handlers, and after each of them the bottom halves.          *)
(*                                                                         *)
(* Handlers, and the user interface thread, register bottom halves,        *)
(* install and kill timers and set handlers; no lock is taken, so those    *)
(* calls (Api) may come between any two steps of the loop.                 *)
(*                                                                         *)
(* Time is kept as differences.  None of them matters beyond MaxDelay: all *)
(* timers have expired by then.                                            *)
(***************************************************************************)
EXTENDS Naturals, Integers, SequencesExt

CONSTANTS
    Works,          \* bottom halves: a function with its data
    Timers,         \* timer_id_T variables; each holds one timer at most
    Periodic,       \* the timers whose function installs them again
    Fds,            \* descriptors
    MaxDelay        \* bound: the longest delay of a timer

ASSUME TimersAssumption == IsFiniteSet(Timers) /\ Periodic \subseteq Timers
ASSUME DelayAssumption == MaxDelay \in Nat \ {0}
ASSUME FdsAssumption == Fds \subseteq Nat

VARIABLES
    halves,     \* bottom_halves, oldest first
    timers,     \* timers, as records [id, left]; left is the interval field
    rest,       \* how long until the delay the timer was installed with is over
    since,      \* how long ago last_time was
    watched,    \* descriptors with a handler
    polled,     \* the sets select() was called with; when it has returned, without
                \* what has lost its handlers since
    ready,      \* x_read, x_write, x_error when select() has returned
    sleep,      \* what is left of the timeout of select()
    pc,         \* where the loop is
    then,       \* where it goes after check_timers()
    back        \* where it goes after check_bottom_halves()

vars == <<halves, timers, rest, since, watched, polled, ready, sleep, pc, then, back>>
timing == <<timers, rest, since>>
waiting == <<polled, ready, sleep>>
control == <<pc, then, back>>

Delays == 1 .. MaxDelay
Forever == MaxDelay + 1
Installed(t) == \E i \in DOMAIN timers : timers[i].id = t
AtMost(a, b) == IF a <= b THEN a ELSE b
Minus(a, b) == IF a <= b THEN 0 ELSE a - b

-----------------------------------------------------------------------------
(* The calls of handlers and of the user interface thread.                 *)

\* register_bottom_half_do(): not twice
Register(w) ==
    /\ w \notin ToSet(halves)
    /\ halves' = Append(halves, w)
    /\ UNCHANGED <<timing, watched, waiting, control>>

\* install_timer(): in front of the first timer that is not shorter.
Inserted(ts, t, d) ==
    LET Shorter == {i \in DOMAIN ts : \A j \in 1 .. i : ts[j].left < d}
    IN  InsertAt(ts, Cardinality(Shorter) + 1, [id |-> t, left |-> d])

Install(t, d) ==
    /\ ~Installed(t)
    /\ timers' = Inserted(timers, t, d)
    /\ rest' = [rest EXCEPT ![t] = d]
    /\ UNCHANGED <<halves, since, watched, waiting, control>>

\* kill_timer()
Kill(t) ==
    /\ \E i \in DOMAIN timers : timers[i].id = t /\ timers' = RemoveAt(timers, i)
    /\ UNCHANGED <<halves, rest, since, watched, waiting, control>>

\* set_handlers()
Watch(f) ==
    /\ f \notin watched
    /\ watched' = watched \cup {f}
    /\ UNCHANGED <<halves, timing, waiting, control>>

StillPolled(f) == polled' = IF pc = "blocked" THEN polled ELSE polled \ {f}

\* mutant: FD_CLR() of w_read and the others alone
UnwatchReady(f) ==
    /\ f \in watched
    /\ watched' = watched \ {f}
    /\ StillPolled(f)
    /\ UNCHANGED <<halves, timing, ready, sleep, control>>
Unwatch(f) ==
    /\ f \in watched
    /\ watched' = watched \ {f}
    /\ ready' = ready \ {f}
    /\ StillPolled(f)
    /\ UNCHANGED <<halves, timing, sleep, control>>

RegisterAny == \E w \in Works : Register(w)

Api ==
    \/ RegisterAny
    \/ \E t \in Timers \ Periodic : Kill(t) \/ \E d \in Delays : Install(t, d)
    \/ \E f \in Fds : Watch(f) \/ Unwatch(f)

-----------------------------------------------------------------------------
(* check_bottom_halves()                                                   *)

RunHalf ==
    /\ pc = "halves"
    /\ halves # <<>>
    /\ halves' = Tail(halves)
    /\ UNCHANGED <<timing, watched, waiting, control>>

HalvesDone ==
    /\ pc = "halves"
    /\ halves = <<>>
    /\ pc' = back
    /\ UNCHANGED <<halves, timing, watched, waiting, then, back>>

CheckBottomHalves(next) == pc' = "halves" /\ back' = next

-----------------------------------------------------------------------------
(* check_timers()                                                          *)

\* Every interval is cut by the time since last_time; last_time is now.
Cut(ts) == [i \in DOMAIN ts |-> [ts[i] EXCEPT !.left = Minus(@, since)]]

CheckTimers ==
    /\ pc = "check"
    /\ timers' = Cut(timers)
    /\ since' = 0
    /\ pc' = "timers"
    /\ UNCHANGED <<halves, rest, watched, waiting, then, back>>

Expired == timers # <<>> /\ timers[1].left = 0

\* The first timer has expired: its function is called.
\*
\* mutant: without check_bottom_halves()
RunTimerAlone(t) ==
    /\ pc = "timers"
    /\ Expired /\ timers[1].id = t
    /\ \/ /\ t \in Periodic
          /\ \E d \in Delays :
               /\ timers' = Inserted(Tail(timers), t, d)
               /\ rest' = [rest EXCEPT ![t] = d]
       \/ /\ t \notin Periodic
          /\ timers' = Tail(timers)
          /\ UNCHANGED rest
    /\ UNCHANGED <<halves, since, watched, waiting, control>>
RunTimer(t) ==
    /\ pc = "timers"
    /\ Expired /\ timers[1].id = t
    /\ \/ /\ t \in Periodic
          /\ \E d \in Delays :
               /\ timers' = Inserted(Tail(timers), t, d)
               /\ rest' = [rest EXCEPT ![t] = d]
       \/ /\ t \notin Periodic
          /\ timers' = Tail(timers)
          /\ UNCHANGED rest
    /\ CheckBottomHalves("timers")
    /\ UNCHANGED <<halves, since, watched, waiting, then>>

\* mutant: last_time is the time at the end of check_timers()
TimersDoneLate ==
    /\ pc = "timers"
    /\ ~Expired
    /\ pc' = then
    /\ since' = 0
    /\ UNCHANGED <<halves, timers, rest, watched, waiting, then, back>>
TimersDone ==
    /\ pc = "timers"
    /\ ~Expired
    /\ pc' = then
    /\ UNCHANGED <<halves, timing, watched, waiting, then, back>>

-----------------------------------------------------------------------------
(* select_loop()                                                           *)

\* check_signals(): one may have come.
CheckSignals ==
    /\ pc = "top"
    /\ \/ CheckBottomHalves("check")
       \/ pc' = "check" /\ UNCHANGED back
    /\ UNCHANGED <<halves, timing, watched, waiting, then>>

\* Nothing to wait for, or a signal came: once more.
Continue ==
    /\ pc = "select"
    /\ \/ /\ watched = {} /\ timers = <<>>
          /\ pc' = "top"
          /\ UNCHANGED back
       \/ CheckBottomHalves("top")
    /\ UNCHANGED <<halves, timing, watched, waiting, then>>

TimeoutIgnored == Forever               \* mutant: select() is given no timeout
Timeout == IF timers = <<>> THEN Forever ELSE timers[1].left

Select ==
    /\ pc = "select"
    /\ ~(watched = {} /\ timers = <<>>)
    /\ sleep' = Timeout
    /\ polled' = watched
    /\ pc' = "blocked"
    /\ UNCHANGED <<halves, timing, watched, ready, then, back>>

\* select() returns: the time is over, descriptors are ready, or a signal came.
TimedOut ==
    /\ pc = "blocked"
    /\ sleep = 0
    /\ pc' = "top" /\ then' = "fds"
    /\ UNCHANGED <<halves, timing, watched, waiting, back>>

Polled ==
    /\ pc = "blocked"
    /\ \E R \in SUBSET polled : R # {} /\ ready' = R
    /\ pc' = "top" /\ then' = "fds"
    /\ UNCHANGED <<halves, timing, watched, polled, sleep, back>>

Interrupted ==
    /\ pc = "blocked"
    /\ pc' = "top"
    /\ UNCHANGED <<halves, timing, watched, waiting, then, back>>

\* The handlers of the next ready descriptor, if it still has any.
Handle ==
    /\ pc = "fds"
    /\ \E f \in ready :
         /\ \A g \in ready : f <= g
         /\ ready' = ready \ {f}
         /\ \/ f \in watched /\ CheckBottomHalves("fds")
            \/ f \notin watched /\ UNCHANGED <<pc, back>>
    /\ UNCHANGED <<halves, timing, watched, polled, sleep, then>>

FdsDone ==
    /\ pc = "fds"
    /\ ready = {}
    /\ pc' = "top" /\ then' = "select"
    /\ UNCHANGED <<halves, timing, watched, waiting, back>>

\* Time passes, whatever the loop does.
Tick ==
    /\ since' = AtMost(since + 1, MaxDelay)
    /\ rest' = [t \in Timers |-> Minus(rest[t], 1)]
    /\ sleep' = IF pc = "blocked" /\ sleep # Forever THEN Minus(sleep, 1) ELSE sleep
    /\ UNCHANGED <<halves, timers, watched, polled, ready, control>>

Loop ==
    \/ RunHalf \/ HalvesDone
    \/ CheckTimers \/ (\E t \in Timers : RunTimer(t)) \/ TimersDone
    \/ CheckSignals \/ Select \/ TimedOut
    \/ Handle \/ FdsDone

\* Before select_loop(), init2() has installed the periodic timers.  last_time
\* is 0: select_loop_prepare() sets a variable of its own with that name.
Init ==
    /\ halves = <<>>
    /\ \E s \in SetToSeqs(Periodic), d \in Delays :
         timers = [i \in DOMAIN s |-> [id |-> s[i], left |-> d]]
    /\ rest = [t \in Timers |->
                 IF t \in Periodic THEN timers[1].left ELSE 0]
    /\ since = MaxDelay
    /\ watched = {} /\ polled = {} /\ ready = {}
    /\ sleep = Forever
    /\ pc = "top" /\ then = "select" /\ back = "top"

Next == Loop \/ Continue \/ Polled \/ Interrupted \/ Tick \/ Api

Spec == Init /\ [][Next]_vars

\* The thread is scheduled and time passes.  Descriptors need never be ready,
\* signals need never come, and nobody need call the interface.
Fairness ==
    /\ WF_vars(Loop \/ (Continue /\ watched = {} /\ timers = <<>>))
    /\ WF_vars(Tick)

FairSpec == Spec /\ Fairness

-----------------------------------------------------------------------------
\* The variables have the types of their declarations in select.c and timer.c;
\* timeval_sub_interval() "ensures that result is never negative".
TypeOK ==
    /\ halves \in Seq(Works)
    /\ timers \in Seq([id : Timers, left : 0 .. MaxDelay])
    /\ rest \in [Timers -> 0 .. MaxDelay]
    /\ since \in 0 .. MaxDelay
    /\ watched \subseteq Fds /\ polled \subseteq Fds /\ ready \subseteq Fds
    /\ sleep \in 0 .. Forever
    /\ pc \in {"top", "check", "timers", "halves", "select", "blocked", "fds"}
    /\ then \in {"select", "fds"}
    /\ back \in {"top", "check", "timers", "fds"}

\* Whatever the loop is busy with when a timer is installed and while it
\* waits, no time is lost: the next check_timers() leaves it no longer interval
\* than its delay has left, and the timers are in order, for check_timers()
\* stops at the first that has not expired, and get_next_timer_time() looks at
\* no other ("@timers.next points to the timer with the smallest interval, and
\* so on").
NeverLate ==
    /\ TypeOK
    /\ \A i, j \in DOMAIN timers : i < j => timers[i].left <= timers[j].left
    /\ \A i \in DOMAIN timers : timers[i].left <= rest[timers[i].id] + since

\* A handler is called only for what select() found while the descriptor had
\* handlers without a break: when a handler of the same round closes it, and
\* its number is watched again for another file, that waits for the next
\* select().  (What the other thread takes away while select() blocks is found
\* all the same.)
HandlersCurrent == ready \subseteq polled

\* select.h: "Schedule work to be done when appropriate in the future."
HalvesRun == \A w \in Works : w \in ToSet(halves) ~> w \notin ToSet(halves)

\* A timer that is installed is called or killed, however handlers and other
\* timers come in between, unless bottom halves are registered for ever.
TimersRun ==
    <>[][~RegisterAny]_vars =>
        \A t \in Timers \ Periodic : Installed(t) ~> ~Installed(t)
=============================================================================
