----------------------------- MODULE SessionTask -----------------------------
(***************************************************************************)
(* A session, that is a tab: its task (session/task.c), its history        *)
(* (session/history.c), the downloads that bring its pages, and the        *)
(* questions it puts to the user before it posts a form or when it cannot  *)
(* show a file (setup_download_handler() in session/download.c).  A        *)
(* connection of the queue is reduced to its state and the list of its     *)
(* downloads; frames, style sheets and image maps are left out.            *)
(*                                                                         *)
(* A handler is a function from the state before to the state after, as    *)
(* handlers call each other; load_uri() is always the last call of the one *)
(* that calls it, so that its callback is a step of its own.               *)
(***************************************************************************)
EXTENDS Naturals, FiniteSets, SequencesExt

CONSTANTS
    Uris,
    Answers,        \* for each URI, where its server redirects to; None: it sends a page
    Files,          \* those of a type that is not shown
    Forms,          \* those that post a form
    Locs,           \* the locations that can be allocated at once
    MaxRedirects,   \* MAX_REDIRECTS
    MaxAsked,       \* bound on the pages the user asks for
    KeepUnhistory,  \* document.history.keep_unhistory
    Patient,        \* the user answers a question before doing anything else
    None, ListHead  \* no location or URI; the head of the list of locations

ASSUME SessionAssumption ==
    /\ Answers \in [Uris -> (SUBSET (Uris \cup {None})) \ {{}}]
    /\ Files \subseteq Uris /\ Forms \subseteq Uris
    /\ Locs \subseteq Nat
    /\ MaxRedirects \in Nat /\ MaxAsked \in Nat
    /\ KeepUnhistory \in BOOLEAN /\ Patient \in BOOLEAN
    /\ None \notin Uris /\ None \notin Locs /\ ListHead \notin Locs

VARIABLES
    hist,       \* ses->history.history
    cur,        \* ses->history.current
    uri,        \* vs.uri of each location
    task,       \* ses->task.type, ses->loading_uri and ses->task.target.location
    cnt,        \* ses->redirect_cnt
    boxes,      \* the open message boxes of ses_goto(), each with its struct task
    queries,    \* ses->type_queries
    dl,         \* the downloads of ses->loading, the locations and the queries
    conn,       \* the connection of each URI: none, wait, or trans once it has an entry
    links,      \* how often a download is in conn->downloads
    entry,      \* what the cache holds of each URI, and where that redirects to
    due,        \* loading_callback() is to be called before this event is over
    confirm,    \* document.browse.forms.confirm_submit
    asked       \* the pages the user has asked for so far

sessionVars == <<hist, cur, uri, task, cnt, boxes, queries, dl, conn, links, entry, due, confirm, asked>>

Loading == <<"loading", 0>>
Loc(i) == <<"loc", i>>
Query(u) == <<"query", u>>
File(u) == <<"file", u>>            \* a file_download, of which nothing else is modelled
Downloads == {Loading} \cup {Loc(i) : i \in Locs} \cup {Query(u) : u \in Files}

Types == {"none", "forward", "history", "reload"}
Modes == {"normal", "always", "reload"}
Places == Locs \cup {None, ListHead}
UriOrNone == Uris \cup {None}
Results == {"ok", "error", "interrupted"}
Blank == [state |-> "wait", conn |-> None]      \* as calloc() leaves it

Linkable == Downloads \cup {File(u) : u \in Files}
Nothing == [d \in Linkable |-> 0]

States ==
    [hist : Seq(Locs), cur : Locs \cup {None}, uri : [Locs -> UriOrNone],
     task : [type : Types, uri : UriOrNone, loc : Places],
     cnt : 0 .. MaxRedirects,
     boxes : SUBSET [type : Types, uri : Uris, loc : Places, mode : Modes],
     queries : SUBSET Files,
     dl : [Downloads -> [state : Results \cup {"wait", "trans"}, conn : UriOrNone]],
     conn : [Uris -> {"none", "wait", "trans"}],
     links : [Uris -> [Linkable -> Nat]],
     entry : [Uris -> [held : {"none", "part", "whole"}, to : UriOrNone]],
     due : BOOLEAN, confirm : BOOLEAN]

InitSession ==
    /\ hist = <<>> /\ cur = None
    /\ uri = [i \in Locs |-> None]
    /\ task = [type |-> "none", uri |-> None, loc |-> None]
    /\ cnt = 0 /\ boxes = {} /\ queries = {}
    /\ dl = [d \in Downloads |-> Blank]
    /\ conn = [u \in Uris |-> "none"]
    /\ links = [u \in Uris |-> Nothing]
    /\ entry = [u \in Uris |-> [held |-> "none", to |-> None]]
    /\ due = FALSE /\ confirm \in BOOLEAN /\ asked = 0

Now == [hist |-> hist, cur |-> cur, uri |-> uri, task |-> task, cnt |-> cnt, boxes |-> boxes,
        queries |-> queries, dl |-> dl, conn |-> conn, links |-> links, entry |-> entry,
        due |-> due, confirm |-> confirm]

Becomes(s) ==
    /\ hist' = s.hist /\ cur' = s.cur /\ uri' = s.uri
    /\ task' = s.task /\ cnt' = s.cnt
    /\ boxes' = s.boxes /\ queries' = s.queries
    /\ dl' = s.dl /\ conn' = s.conn /\ links' = s.links
    /\ entry' = s.entry /\ due' = s.due /\ confirm' = s.confirm

SessionTypeOK ==
    /\ Now \in States /\ asked \in 0 .. MaxAsked
    /\ IsInjective(hist)
    /\ cur \in (IF hist = <<>> THEN {None} ELSE Range(hist))

-----------------------------------------------------------------------------
\* What the session uses of the queue and the cache

InProgress(s, d) == s.dl[d].state \notin Results
Linked(s, u) == {d \in Downloads : s.links[u][d] > 0}

\* The connection of u tells its downloads its state.  Of their callbacks only
\* loading_callback() does more than draw.  A download has an entry of the
\* cache (download->cached) when its state is trans or ok.
Notified(s, u, state) ==
    [s EXCEPT !.dl = [d \in Downloads |->
                        IF d \notin Linked(s, u) THEN @[d]
                        ELSE [state |-> state, conn |-> IF state \in Results THEN None ELSE u]],
              !.due = @ \/ Loading \in Linked(s, u)]

\* cancel_download()
Cancelled(s, d, interrupt) ==
    IF ~InProgress(s, d) THEN s
    ELSE LET u == s.dl[d].conn
             rest == [s.links[u] EXCEPT ![d] = 0]
         IN  [s EXCEPT !.dl[d] = [state |-> "interrupted", conn |-> None],
                       !.links[u] = rest,
                       !.conn[u] = IF rest = Nothing /\ interrupt THEN "none" ELSE @]

\* move_download(); what it calls for a result changes nothing here.
MoveDownload(s, old, new) ==
    LET n == [s EXCEPT !.dl[new] = s.dl[old]] IN
    IF ~InProgress(s, old) THEN n
    ELSE Cancelled([n EXCEPT !.links[s.dl[old].conn][new] = @ + 1], old, FALSE)

\* get_validated_cache_entry(): document.cache.cache_redirects is off, so that
\* the whole entry of a redirect is deleted rather than used; one that expires
\* is gone at once.
Deletable(s, u) == s.entry[u].held = "whole" /\ s.entry[u].to # None
Validated(s, u, mode) == mode # "reload" /\ s.entry[u].held = "whole" /\ ~Deletable(s, u)
InCache(s, u, mode) ==
    \/ Validated(s, u, mode)
    \/ mode = "always" /\ s.conn[u] = "none" /\ s.entry[u].held # "none" /\ ~Deletable(s, u)

\* load_uri()
LoadUri(s, u, d, mode) ==
    IF InCache(s, u, mode)
    THEN [s EXCEPT !.dl[d] = [state |-> "ok", conn |-> None], !.due = @ \/ d = Loading]
    ELSE LET state == IF s.conn[u] = "trans" THEN "trans" ELSE "wait"
             c == [s EXCEPT !.conn[u] = state, !.dl[d].conn = u, !.links[u][d] = @ + 1]
         IN  Notified(c, u, state)

-----------------------------------------------------------------------------
\* The history

Index(s, i) == CHOOSE k \in DOMAIN s.hist : s.hist[k] = i
Destroyed(s, gone) ==   \* destroy_location() of each
    [s EXCEPT !.uri = [i \in Locs |-> IF i \in gone THEN None ELSE @[i]],
              !.dl = [d \in Downloads |-> IF \E i \in gone : d = Loc(i) THEN Blank ELSE @[d]]]

CleanUnhistory(s) ==
    IF s.cur = None THEN s
    ELSE LET k == Index(s, s.cur)
             gone == {s.hist[j] : j \in k + 1 .. Len(s.hist)}
         IN  [Destroyed(s, gone) EXCEPT !.hist = SubSeq(@, 1, k)]

\* del_from_history() and destroy_location()
Deleted(s, i) ==
    LET k == Index(s, i)
        near == IF s.cur # i THEN s.cur
                ELSE IF k > 1 THEN s.hist[k - 1]
                ELSE IF Len(s.hist) > 1 THEN s.hist[2] ELSE None
    IN  [Destroyed(s, {i}) EXCEPT !.cur = near, !.hist = RemoveAt(@, k)]

\* The current location is in front of the new one or there is none.
AddToHistory(s, i) ==
    LET k == IF s.cur = None THEN 0 ELSE Index(s, s.cur)
    IN  [s EXCEPT !.hist = InsertAt(@, k + 1, i), !.cur = i]

\* ses_forward(), where ses->loading_uri is u
\*
\* mutant: what follows goes whatever the task
Another(s, u) ==
    LET i == CHOOSE j \in Locs : j \notin Range(s.hist)
    IN  AddToHistory([s EXCEPT !.uri[i] = u, !.dl[Loc(i)] = s.dl[Loading]], i)
ForwardAlone(s, u) == CleanUnhistory(Another(s, u))
Forward(s, u) ==
    IF s.task.type = "forward" THEN CleanUnhistory(Another(s, u)) ELSE Another(s, u)

\* ses_history_move()
HistoryMove(s) ==
    IF s.cur = None \/ s.task.loc \in {None, ListHead} THEN s
    ELSE LET m == [s EXCEPT !.cur = s.task.loc]
         IN  IF s.uri[m.cur] = s.task.uri THEN m
             ELSE LET f == Forward(Deleted(m, m.cur), s.task.uri)
                  IN  IF KeepUnhistory THEN CleanUnhistory(f) ELSE f

-----------------------------------------------------------------------------
\* Tasks

FreeTask(s) == [s EXCEPT !.task.type = "none", !.task.uri = None]

AbortPreloading(s, interrupt) ==
    IF s.task.type = "none" THEN s ELSE FreeTask(Cancelled(s, Loading, interrupt))

\* mutant: the current location goes on loading
AbortLoadingTask(s, interrupt) == AbortPreloading(s, interrupt)
AbortLoading(s, interrupt) ==
    AbortPreloading(IF s.cur = None THEN s ELSE Cancelled(s, Loc(s.cur), interrupt), interrupt)

\* reload(), reload_frame()
Reload(s, mode) ==
    LET a == AbortLoading(s, FALSE)
    IN  IF a.cur = None THEN a ELSE LoadUri(a, a.uri[a.cur], Loc(a.cur), mode)

\* ses_load()
SesLoad(s, u, loc, mode, type) ==
    LoadUri([s EXCEPT !.task = [type |-> type, uri |-> u, loc |-> loc]], u, Loading, mode)

\* ses_goto()
\*
\* mutant: a redirect counts anew
GotoAnew(s, u, loc, mode, type, redir) ==
    LET g == [s EXCEPT !.cnt = 0]
    IN  IF s.confirm /\ u \in Forms /\ ~Validated(g, u, mode)
        THEN [g EXCEPT !.boxes = @ \cup {[type |-> type, uri |-> u, loc |-> loc, mode |-> mode]}]
        ELSE SesLoad(g, u, loc, mode, type)
Goto(s, u, loc, mode, type, redir) ==
    LET g == IF redir THEN s ELSE [s EXCEPT !.cnt = 0]
    IN  IF s.confirm /\ u \in Forms /\ ~Validated(g, u, mode)
        THEN [g EXCEPT !.boxes = @ \cup {[type |-> type, uri |-> u, loc |-> loc, mode |-> mode]}]
        ELSE SesLoad(g, u, loc, mode, type)

\* do_redirect(); reloadlevel is CACHE_MODE_NORMAL whenever there is a task.
Redirected(s) ==
    LET t == s.task
        to == s.entry[t.uri].to
        a == AbortLoading([s EXCEPT !.cnt = @ + 1], FALSE)
    IN  CASE t.type = "forward" -> Goto(a, to, None, "normal", "forward", TRUE)
          [] t.type = "history" -> Goto(a, to, t.loc, "normal", "reload", TRUE)
          [] t.type = "reload"  -> Goto(a, to, None, "normal", "reload", TRUE)

\* setup_download_handler() for a file that is not shown
Queried(s) ==
    LET u == s.task.uri
        q == IF u \in s.queries THEN s
             ELSE [MoveDownload(s, Loading, Query(u)) EXCEPT !.dl[Loading] = [state |-> "ok", conn |-> None],
                                                             !.queries = @ \cup {u}]
    IN  Reload(FreeTask(q), "normal")

\* do_move() once the task has found its place: the download becomes that of
\* the location.
Shown(s) ==
    IF InProgress(s, Loading)
    THEN FreeTask(MoveDownload(s, Loading, Loc(s.cur)))
    ELSE FreeTask([s EXCEPT !.dl[Loc(s.cur)] = s.dl[Loading]])

Moved(s) ==
    CASE s.task.type = "forward" ->
            IF s.task.uri \in Files THEN Queried(s) ELSE Shown(Forward(s, s.task.uri))
      [] s.task.type = "history" -> Shown(HistoryMove(s))
      [] s.task.type = "reload" ->
            LET k == Index(s, s.cur)
                m == HistoryMove([s EXCEPT !.task.loc = IF k > 1 THEN s.hist[k - 1] ELSE ListHead])
            IN  Shown(Forward(m, m.task.uri))

\* loading_callback().  Without an entry the load goes on or has failed; the
\* first line is its assertion.
LoadingCallback(s) ==
    CASE s.task.type = "none" -> s
      [] s.task.type # "none" /\ s.dl[Loading].state = "wait" -> s
      [] s.task.type # "none" /\ s.dl[Loading].state \in {"error", "interrupted"} ->
            Reload(FreeTask(s), "normal")
      [] s.task.type # "none" /\ s.dl[Loading].state \in {"trans", "ok"} ->
            IF s.entry[s.task.uri].to # None /\ s.cnt < MaxRedirects THEN Redirected(s) ELSE Moved(s)

-----------------------------------------------------------------------------
\* What the user does.  An event is over once its callbacks have been made.

Idle == ~due
Answered == boxes = {} /\ queries = {}
Room == Len(hist) + Cardinality(queries) + Cardinality(boxes) < Cardinality(Locs)
Asks == Room /\ asked < MaxAsked /\ asked' = asked + 1
May == Idle /\ (Patient => Answered)

\* do_follow_url()
Follow(u) ==
    /\ May /\ Asks
    /\ ~(task.type = "forward" /\ task.uri = u)
    /\ Becomes(Goto(AbortLoading(Now, FALSE), u, None, "normal", "forward", FALSE))

\* go_history()
GoHistory(i) ==
    /\ May /\ Asks /\ i \in Range(hist)
    /\ Becomes(IF task.type # "none" THEN Reload(AbortLoading(Now, FALSE), "normal")
               ELSE Goto(AbortLoading(Now, FALSE), uri[i], i, "always", "history", FALSE))

\* The Reload command.
ReloadDocument == May /\ UNCHANGED asked /\ Becomes(Reload(Now, "reload"))

\* ACT_MAIN_ABORT_CONNECTION
Stop == May /\ UNCHANGED asked /\ Becomes(AbortLoading(Now, TRUE))

PostYes(b) ==
    /\ Idle /\ b \in boxes /\ UNCHANGED asked
    /\ Becomes(SesLoad(AbortPreloading([Now EXCEPT !.boxes = @ \ {b}], FALSE),
                       b.uri, b.loc, b.mode, b.type))

PostNo(b) ==
    /\ Idle /\ b \in boxes /\ UNCHANGED asked
    /\ Becomes(Reload([Now EXCEPT !.boxes = @ \ {b}], "normal"))

\* tp_display(): ses_forward() without a task, whatever the current location
\* still loads.
Display(u) ==
    /\ Idle /\ u \in queries /\ UNCHANGED asked
    /\ Patient => task.type = "none" /\ (cur # None => ~InProgress(Now, Loc(cur)))
    /\ LET f == Forward(Now, u)
           m == MoveDownload(f, Query(u), Loc(f.cur))
       IN  Becomes([m EXCEPT !.queries = @ \ {u}, !.dl[Query(u)] = Blank])

\* continue_download() and continue_download_do(): another download to the
\* same file is killed first.
Save(u) ==
    /\ Idle /\ u \in queries /\ UNCHANGED asked
    /\ LET going == InProgress(Now, Query(u))
           m == [Now EXCEPT !.links[u] = [d \in Linkable |->
                   CASE d = File(u) -> IF going THEN 1 ELSE 0
                     [] d = Query(u) -> IF going THEN 0 ELSE @[d]
                     [] OTHER -> @[d]]]
       IN  Becomes([m EXCEPT !.queries = @ \ {u}, !.dl[Query(u)] = Blank])

\* tp_cancel()
CancelQuery(u) ==
    /\ Idle /\ u \in queries /\ UNCHANGED asked
    /\ Becomes([Cancelled(Now, Query(u), TRUE) EXCEPT !.queries = @ \ {u}, !.dl[Query(u)] = Blank])

\* destroy_session(); another session takes its place.
CloseTab ==
    /\ May /\ UNCHANGED asked
    /\ LET a == AbortLoading(Now, FALSE)
           ended == {Query(v) : v \in queries}
       IN  Becomes([a EXCEPT !.hist = <<>>, !.cur = None, !.uri = [i \in Locs |-> None],
                             !.cnt = 0, !.boxes = {}, !.queries = {},
                             !.links = [u \in Uris |->
                                [d \in Linkable |-> IF d \in ended THEN 0 ELSE @[u][d]]],
                             !.dl = [d \in Downloads |-> Blank],
                             !.task = [type |-> "none", uri |-> None, loc |-> None]])

UserStep ==
    \/ \E u \in Uris : Follow(u)
    \/ \E i \in Locs : GoHistory(i)
    \/ ReloadDocument
    \/ Stop
    \/ \E b \in boxes : PostYes(b) \/ PostNo(b)
    \/ \E u \in Files : Display(u) \/ Save(u) \/ CancelQuery(u)
    \/ CloseTab

-----------------------------------------------------------------------------
\* What the connections and the cache do

Header(u) ==
    /\ Idle /\ conn[u] = "wait" /\ UNCHANGED asked
    /\ \E to \in Answers[u] :
          Becomes(Notified([Now EXCEPT !.conn[u] = "trans",
                                       !.entry[u] = [held |-> "part", to |-> to]], u, "trans"))

Ended(s, u, state) == [Notified(s, u, state) EXCEPT !.conn[u] = "none", !.links[u] = Nothing]

Finish(u) ==
    /\ Idle /\ conn[u] = "trans" /\ UNCHANGED asked
    /\ Becomes(Ended([Now EXCEPT !.entry[u].held = "whole"], u, "ok"))

Fails(u) == Idle /\ conn[u] # "none" /\ UNCHANGED asked /\ Becomes(Ended(Now, u, "error"))

\* The entry expires, or the cache is cleaned.
Expire(u) ==
    /\ Idle /\ conn[u] # "trans" /\ entry[u].held # "none" /\ UNCHANGED asked
    /\ Becomes([Now EXCEPT !.entry[u] = [held |-> "none", to |-> None]])

Callback == due /\ UNCHANGED asked /\ Becomes(LoadingCallback([Now EXCEPT !.due = FALSE]))

NextSession ==
    \/ UserStep
    \/ Callback
    \/ \E u \in Uris : Header(u) \/ Finish(u) \/ Fails(u) \/ Expire(u)

\* A connection ends: the receive timeout sees to that.  A callback that is due
\* is made: while it is, nothing else can happen.  Nothing makes the user act.
Ends(u) == conn[u] # "none" /\ conn' = [conn EXCEPT ![u] = "none"]

Fairness ==
    /\ \A u \in Uris : WF_conn(Ends(u))
    /\ []<>~due \/ []<><<due>>_sessionVars

SpecSession == InitSession /\ [][NextSession]_sessionVars /\ Fairness

-----------------------------------------------------------------------------
Owned(d) ==
    CASE d = Loading -> task.type # "none"
      [] d[1] = "loc" -> d = Loc(cur)
      [] d[1] = "query" -> d[2] \in queries

\* A download is in the list of a connection exactly while it is in progress
\* there, once, and it belongs where it is: ses->loading to the task, that of
\* the current location to its page, that of a query to its file.  The lists
\* hold no other, so that no location is freed while it is linked, and nothing
\* points at a location that is gone.  load_uri() asserts that its download is
\* in no list, cancel_download() that one in progress has a connection.
DownloadsPlaced ==
    /\ SessionTypeOK
    /\ \A u \in Uris :
         /\ conn[u] = "none" => links[u] = Nothing
         /\ \A d \in Downloads :
              links[u][d] = IF Owned(d) /\ InProgress(Now, d) /\ dl[d].conn = u THEN 1 ELSE 0
    /\ \A d \in Downloads :
         Owned(d) /\ InProgress(Now, d) =>
            dl[d].conn = CASE d = Loading -> task.uri
                           [] d = Loc(cur) -> uri[cur]
                           [] d[1] = "query" -> d[2]
    /\ task.type = "history" => task.loc \in Range(hist)
    /\ \A b \in boxes : b.type = "history" => b.loc \in Range(hist)

\* A page that was visited stays in the history, in its place: a new one is put
\* right behind the current one, and only what follows that may go, with a link
\* that is followed.  (A redirected move through the history, which remakes a
\* location, and the end of the session are apart.)
VisitedKept ==
    [][hist' # hist /\ task.type # "reload" /\ ~CloseTab =>
         LET k == IF cur = None THEN 0 ELSE CHOOSE j \in DOMAIN hist : hist[j] = cur
             rest == IF task.type = "forward" THEN <<>> ELSE SubSeq(hist, k + 1, Len(hist))
         IN  /\ hist' = SubSeq(hist, 1, k) \o <<cur'>> \o rest
             /\ \A j \in 1 .. k : uri'[hist[j]] = uri[hist[j]]]_sessionVars

\* Once the user asks for nothing more the session comes to rest: its task
\* ends, however the servers redirect.
TasksEnd == []<>(task.type = "none")

=============================================================================
