# Verification of ELinks-TV

TLA+ models of the parts of ELinks-TV (a text-mode web browser, a fork of
elinks with a Turbo Vision interface) in which the order of events decides
whether the program is right: the queue of connections, the loop that calls
everything, sockets, HTTP, the cache, the tasks of a tab, the data files and the
session ring. Paths below are relative to `src/src/` unless they name a module
of this directory.

Contents: 1 the system, 2 the modules, 3 the runs, 4 where code and promise
differ, 5 the proofs, 6 what is not modelled, 7 the plan.

## 1. The system

Two threads share one heap. `main.cc` starts the user interface (Turbo Vision)
and, with `pthread_create` at `main.cc:971`, a thread that runs `select_loop()`.
There is no lock: the interface calls `load_uri()`, `register_bottom_half()`,
`shrink_memory()` and the rest while the loop is anywhere. Within the loop
everything is a callback: timers, descriptor handlers and bottom halves, run one
at a time, each calling into the other components and, through downloads, back
into the interface of the sessions.

| component | code | state it keeps | operations | module |
|---|---|---|---|---|
| connection queue | `network/connection.c` | `connection_queue` sorted by priority, `host_connections`, `active_connections`, `keepalive_connections` and its timer | `load_uri`, `cancel_download`, `move_download`, `detach_connection`, the abort functions, `check_queue`, and the ends of a transfer: abort, retry, keepalive | `ConnQueue` |
| event loop | `main/select.c`, `main/timer.c`, `osdep/signals.c` | `bottom_halves`, `timers` with `last_time`, the table of descriptor handlers | `register_bottom_half`, `install_timer`, `kill_timer`, `set_handlers`, `select_loop` | `EventLoop` |
| sockets, DNS | `network/socket.c`, `network/dns.c` | the addresses still to try, buffers, timeouts, the cache of lookups | connect, read, write, time out, and the calls back | `Socket` |
| HTTP | `protocol/http/http.c` | a request, the framing of its answer, the reader of chunks | send, read the header, read the body, retry | `HttpTransfer` |
| cache | `cache/cache.c`, `cache/dialogs.c` | `cache_entries` in order of use, their fragments, sizes and flags | `find_in_cache`, `get_cache_entry`, `add_fragment`, `normalize_cache_entry`, `free_entry_to`, `garbage_collection` | `CacheFragments`, `CacheStore` |
| sessions | `session/*.c` | task, history, the downloads being shown, questions, file downloads | go, back, reload, stop, answer, the callbacks of downloads | `SessionTask` |
| cookies | `cookies/*.c` | the list, the questions, the servers, the index of domains, a file | receive, send, edit, save, load | `Cookies` |
| data files | `util/secsave.c`, `globhist`, `formhist`, `bookmarks` | a file, a copy being written, a dirty flag | edit, save, load | `SecureSave`, `AtomicFile` |
| session ring | `main/interlink.c`, `main.cc` | the socket in the home directory, who listens | bind, listen, connect, accept, end | `Interlink` |
| other protocols | `protocol/ftp`, `nntp`, `file`, ... | the state of one dialogue in `conn->info` | the handler of the protocol | NNTP's QUIT in `ConnQueue` |
| documents | `document/*` | formatted documents in `format_cache`, each locking its cache entry | render, reuse, release | their locks in `CacheStore` |
| terminals | `terminal/*` | windows, tabs, the pipe or socket to each terminal | events from and drawing to a terminal | |
| widgets, options, scripting, encodings | `bfu`, `config`, `scripting`, `intl`, ... | | drawing, parsing, conversion | |

How they interact. A session calls `load_uri()` with a `struct download` of its
own. The queue asks the cache first, then joins a connection that loads the same
URI or creates one, and registers `check_queue()` as a bottom half. The loop runs
it; it gives the connection a slot and calls the protocol handler, which opens
sockets, installs handlers and timers with the loop, asks the cache for an entry
and adds data to it. Every change of state of the connection runs the callbacks
of its downloads, in which sessions render what there is, start further loads,
cancel others or detach a download to a file. Formatting and new entries trigger
`garbage_collection()`. The transfer ends in one of three ways (abort, retry,
keepalive), each of which gives the slot back and registers `check_queue()`.
Histories, cookies and bookmarks mark themselves as changed and are written by
the periodic timer or a bottom half. Only the process that holds the socket of the
session ring does so; the windows of the others are its terminals.

What is hard about it:

* *reentrancy*: a callback may do anything to the queue while a function of the
  queue is in the middle of its list; `socket.c`, `dns.c` and `connection.c` call
  each other several levels deep within one event, and any of them may free what
  its callers go on with;
* *the second thread*: a call of the interface may come between any two steps;
* *shared ownership by counters*: the slots of hosts, the priorities of a
  connection, the locks of cache entries and of cookie servers are counters that
  several functions must keep in step over any sequence of calls;
* *one download in several hands*: the same `struct download` is copied and moved
  between `ses->loading`, a location, a question and a file, and is linked into a
  connection meanwhile;
* *wake-ups*: waiting connections, kept sockets, timers and bottom halves are
  looked at only if somebody has registered it;
* *pointers that outlive things*: `conn->cached`, `download->conn`, locations in
  open dialogs, the next element of a list that is being walked;
* *the outside*: servers that break off, redirect in circles or change a document
  between two ranges, writes that fail, the loss of power, processes that are killed.

What makes each component correct, in a sentence: the queue hands out no more
slots than it has and forgets nobody; the loop calls all that is registered,
timers never late; a socket closes its own descriptor once and comes to an end; what
is kept as a complete document is one version of it; a cache entry holds the bytes
last written, is freed only when nobody uses it, and the cache stays near its size;
a download is where its owner looks for it, and a page once visited stays in the
history; a file holds old data or new, and a change is saved; one process keeps the
state, and the others reach it.

## 2. The modules

| module | models | with |
|---|---|---|
| `ConnQueue` | the queue, `connection.c` | `ConnQueueMC`, `ConnQueueProofs` |
| `EventLoop` | `select.c`, `timer.c`, `check_signals()` | `EventLoopMC`, `MainProofs` |
| `Socket` | the socket of one connection: `socket.c`, `dns.c`, and what they call in `connection.c` | `SocketMC`, `SocketProofs` |
| `HttpTransfer` | one document over HTTP, its entry in the cache, and the server | `HttpTransferMC`, `HttpTransferProofs` |
| `CacheFragments` | the data of one entry | `CacheFragmentsMC`, `CacheProofs` |
| `CacheStore` | the list of entries with the connections and documents that use them | `CacheStoreMC`, `CacheProofs` |
| `SessionTask` | a tab: its task, history, downloads and questions | `SessionTaskMC`, `SessionProofs` |
| `Cookies` | `cookies.c` and its dialogs | `CookiesMC`, `CookiesProofs` |
| `AtomicFile` | what saving a file promises | |
| `SecureSave` | `secsave.c` on a file system that fails; implements `AtomicFile` | `SecureSaveMC`, `SecureSaveProofs` |
| `Interlink` | the session ring | `InterlinkMC`, `MainProofs` |

Each `...MC` module extends its component and defines the constants of the runs.
In a module, an operator under the comment *mutant* is a plausible wrong version of
the definition that follows it; no specification uses it. It stands there to be put in
the place of the right one, to see that a property notices.

### ConnQueue

State: `queue` is `connection_queue`; `conn[c]` has the fields of `struct
connection` the queue looks at (`uri`, `running`, `pri[]`, the downloads,
`detached`, `tries`, and `state`, which is `wait`, `work` or `quit`, the last for
the connections that end an NNTP socket); `dl[d]` is `struct download`; `active`
and `hostRefs` are the counters; `keep` and `keepTimer` are the kept sockets and
their timer; `pending` says that `check_queue()` is registered, `pc` and `visit`
where the loop's thread is inside of it.

Steps. A call of the interface is one step (`LoadUriJoin`, `LoadUriNew`,
`CancelDownload`, `MoveDownload`, `DetachConnection`,
`AbortBackgroundConnections`, `AbortAllConnections`); so is the end of a transfer
(`EndConnection`, `EndKeepalive`, `RetryConnection`, `QuitConnection`). But
`check_queue()` is a loop whose turns run callbacks, so each turn is a step:
`Checking` looks at the kept sockets one by one, `RunConnection` or
`SuspendConnection` acts on the first connection a pass finds, and the scan starts
again, `Reap` ends what nobody wants. Calls of the interface come in between, as
they do from callbacks and from the other thread. What is left out: progress and
statistics, proxies, and time (a timer may fire whenever it is installed).
The state of a connection and of its downloads ends in one step although the code
walks over the downloads; the walk is in the plan, see 7.

A connection is chosen from a set: `Enqueued`, `Sorted` and `Without` say what
position or order results, by a property of the sequence and not by the loop of
swaps in `sort_queue()`. They are sets of one member; written so, a proof needs to
know of the list only what the set says. `Without` of `CacheStore` is of that kind too.

`MaxOrphaned` bounds how often a connection may lose its last owner: each time,
`cancel_download()` adds one to `pri[PRI_CANCEL]`, which nothing takes off.

### EventLoop

State: `halves`, `timers` (a sequence of identifier and interval), the watched
descriptors, the sets given to and returned by `select()`, `pc`, and two history
variables: `rest[t]`, how long until the delay of t is over, and `since`, how long
ago `last_time` was. Time is not a clock but these differences, cut at
`MaxDelay`: every timer has expired after that. A clock step between any two
steps of the loop makes them grow; `Cut` is `timeval_sub_interval()`, which stops
at zero.

`polled` loses what is cleared once `select()` has returned, so that it tells which readiness is
still current.

Steps: `CheckTimers`, one timer at a time, with the bottom halves run after each;
`Select`, after which the thread is blocked until a descriptor is ready, a signal
comes or the timeout is over; `Handle` for each ready descriptor. `Register`,
`Install`, `Kill`, `Watch` and `Unwatch` are called by handlers and by the
interface thread and may come anywhere.

`Init` starts with `since = MaxDelay`: `select_loop_prepare()` declares a local
`last_time` (`select.c:225`) that hides the global one, which therefore is 1970 at
the first `check_timers()`.

### Socket

State: `open` and `handler` for each descriptor number of the process, whether the
socket's or somebody else's; `fd`, the addresses (`connect_info`), the timeout, the
buffers, the age of the DNS entry, the tries and state of the connection; and
`calls`, what is left to do in the event that is being handled. The code calls back
and forth within one event (`dns_found()` calls `connect_socket()`, that calls
`retry_connection()`, that ends the connection and frees the socket), so what a call
leaves to its caller is a list of continuations, and each of them is a step
(`Nested`). Any `set_state()` of `CancelAt` may run a callback that ends the connection.

Steps from outside: the connection is run, suspended, aborted; a lookup answers, from
the cache or not; `connect()` succeeds, is in progress or fails, `socket()`
fails; the peer reads, sends, closes; the timeout fires; other parts of the program
open and close descriptors, which get the lowest free number.

### HttpTransfer

State: `at` (what the connection waits for), `request` (its range and conditions),
`http` (the framing: length left, or the place of the reader of chunks), `rb` (the
read buffer), `from`, `start` (`conn->progress->start`), `tries`, `blacklisted`, `entry`
(data, tag, `incomplete`), and of the outside `answer`, `wire` and `cut` (the header, what is on its way, and whether the server has
closed), `srv` and `ver`, the kind of the server and the version of its document. A byte is
a version and an index, so that mixing two versions can be seen. Two fields of `entry` are
history: `lax`, that the mark as complete came with an error or by the end of a connection
alone, and `late`, that it was filled from an offset with nothing before it.

Steps: `LoadUri` and `CancelDownload`; the server's `Answer`, `Cut` of the connection,
`Edit` of the document; `NotModified` (304) and `GotHeader` with 200, 206, 416 and errors, which
gives up (`TooLate`), makes the request again for a document that has changed (`Restart`), or goes on;
`ReadNormal`, and one step per turn of the reader of chunks (`ChunkSize`, `ChunkData`,
`ChunkZero`, `ChunkTrailer`, `ChunkBreak`); `Closed` and `Timeout`, which retry.

### CacheFragments

State: `frag`, the list of fragments with offset, data and room; `length`,
`incomplete`, `data_size` of the entry; and as history `latest`, the byte last
written at each offset. A byte is the version of the document it came from, which
is all that matters for whether old and new data mix.

`add_fragment()` is two actions, as it has two halves: `WriteInPlace`, into a
fragment that has room, after which everything behind the new data is dropped,
and `WriteNew`, a new fragment that `remove_overlaps()` merges with those it
reaches. Memory may run out at each allocation: `grow` is whether
`frag_realloc()` succeeds, `WriteFails` is `frag_alloc()` failing. The offset and the
data are arbitrary, because a resumed transfer and `Content-Range` set
`conn->from` to anything. The other actions are `get_cache_fragment()`,
`normalize_cache_entry()`, `free_entry_to()` and `delete_entry_content()`.

`Granule` is the 0x4000 of `CACHE_PAD()`: a new fragment has room for up to one
granule more than it holds.

### CacheStore

State: `lru`, the list of entries; `entry[e]` with `uri`, `size`, `incomplete`,
`valid`; `cache_size`; `docs`, the entries some document in `format_cache` locks;
`loads[c]`, the URI, entry (`conn->cached`) and `detached` of each connection.
The identity of an entry is its address, so a freed one may be used again.

Steps: `LoadUri` validates what is cached (`get_validated_cache_entry()`, which
may delete it) and starts a connection unless one can be joined; `GetCacheEntry`
is the handler asking for an entry, with `shrink_memory(0)` when it is new;
`AddData`, `EndConnection`, `DetachConnection`; `Show` and `Leave` for documents;
`DeleteItem` and `Invalidate` of the cache manager; `ShrinkMemory`.
`Collected` is `garbage_collection()`: what pass 2 marks, without what pass 3
spares, is deleted. Which documents `shrink_format_cache()` frees depends on
their number and age and is left open.

URIs differ in what their servers and users do: those in `ExpiredUris` have
expired when they arrive, those in `HttpUris` are loaded by a handler that asks
for the entry at every answer (`protocol/http/http.c:1558`; the others ask only if
they have none), those in `LargeUris` are detached when downloaded, and those in
`ManagedUris` are picked in the cache manager. `UsersWait` says that nobody
deletes an entry, or asks for an expired one, while it is being loaded.

### SessionTask

State: `hist` and `cur` are `ses->history`, `uri` the page of each location; `task`
is `ses->task` with `ses->loading_uri`, `cnt` is `redirect_cnt`; `boxes` are the
message boxes of `ses_goto()` that ask whether to post a form, each with the
task to start; `queries` is `ses->type_queries`, the files the user has been asked
about; `dl` has the state and connection of `ses->loading`, of `loc->download` of
each location and of each query. Of the queue and the cache it has what a session
sees: the state of the connection of each URI (`conn`), its list of downloads
(`links`, how often each is in it), and what is cached, with the redirect (`entry`).

A handler is a function from state to state, because handlers call each other:
`do_follow_url()` is `Goto(AbortLoading(...))`, and so is `do_redirect()`. Only
`load_uri()` may call back into the session, and it is always the last call of its
caller, so the callback of `ses->loading` is a step of its own (`Callback`), before
which nothing else happens (`due`). `doc_loading_callback()`, that of a
location, only draws and is left out.

Steps of the user: `Follow`, `GoHistory`, `ReloadDocument`, `Stop`; `PostYes` and
`PostNo` on a box; `Display`, `Save` and `CancelQuery` on a file; `CloseTab`. Of the
connections: `Header`, after which there is an entry, `Finish`, `Fails`, and
`Expire` of what is cached. `Patient` says that the user answers a question before
doing anything else, and shows a file only when the page behind it is there.

### AtomicFile and SecureSave

`AtomicFile` is the promise of the comment above `secure_open_umask()`: a file has a
content and a durable content; publishing replaces both at once, with each record as it was at some
moment since the save began (`Between`); a crash, or for the
strongest promise a loss of power, leaves what was published.

`SecureSave` is the code. The file system has inodes, each with what readers see and what
is on the disk, and directory entries that are cached and durable. A save is
`SaveBegin` (`secure_open()`: aside, or in place for links, other owners and when the option
is off), `Put` per record into the buffer of the `FILE`, `CloseBegin`, `Flush`, `Sync`,
`Close`, `Rename`. Each may fail; the kernel writes back what it likes (`WriteBack`);
`Killed` and `PowerLoss` come between any two steps, and `Start` reads the file again. The
writer is the global history: a change sets the dirty flag, a save that succeeds clears it. A
save runs in the thread of the loop, and a change (`Change`) may come from the other one
between any two of its steps: `load_uri()` of a cached page calls the session back, which notes
the visit. So a content is a sequence of records, each named by the version of the data it was
taken from, and `began` (history) is the data when the save began.

The refinement maps the content to what `fopen()` finds now and the durable content to
what a loss of power leaves. `Promise` is which promise the options and the kind of file give.

### Cookies

State: `jar` (the list), `queries`, `asked` and `boxes` (cookies waiting for an answer,
questions not put yet, and cookies in an open one), `val[c]`, the `locks` of the servers,
`domains` (`c_domains`), `dirty`, `half` (the bottom half is registered), `failed` (the last
save did), `file`, `now`. Steps: `SetCookie` (accepted,
rejected, or queued for a question), the dialogs, `SendCookies` (which expires), the
manager (`DeleteCookieItem`, `EditCookie`, `PushSaveButton`), the bottom half
that saves, `Reload`, `Quit`, `Killed`, `Start`, `Tick`.

### Interlink

State: where each process is in `init_interlink()` (`at`, `attempts`), whether it keeps
state (`master`), its socket (`listen`), `path`, what the socket file leads to (a process, a
closed socket or nothing), `backlog` and `terms`, the connections not yet and already
accepted, and `denied`: the directory cannot be written.

Steps: `Open` a window, the first of a process or another one; then `Connect`, `Bind` and
`Listen` with their failures, in the order in which `connect_to_af_unix()` and
`bind_to_af_unix()` try; `Accept`, `Quit`, `Killed`. `Overlap` is whether a process may start
while another does.

## 3. The runs

| run | instance | what it shows |
|---|---|---|
| `conn_queue` | 3 connections, 2 downloads, a URI of each of two hosts (one with POST data), a local file, 2 slots, 1 per host, 2 priorities and PRI_CANCEL | safety of the queue |
| `conn_nntp` | 3 connections, 2 downloads, 1 slot, a local file and one host whose kept sockets are ended by QUIT connections, fair | liveness of the queue, and its sockets |
| `event_loop` | 2 bottom halves, a periodic and a one-shot timer, 1 descriptor, delays up to 2, fair | the loop, safety and liveness |
| `socket` | 6 hosts (none, one or two addresses, usable or forbidden), 3 descriptors, 3 tries, callbacks that cancel at each of the four calls of `set_state()`, fair | a socket, safety and liveness |
| `freed_socket` | the same without cancelling callbacks | the finding of 4 |
| `http` | a document of 3 bytes whose second version has 2, servers with tags and with right, late and no ranges, errors with a page, all three framings, 3 tries, 2 requests, fair | what HTTP leaves in the cache, and that it ends |
| `cache_fragments` | 2 versions of a document of 4 bytes, up to 2 at a time, granule 2 | the data of an entry |
| `cache_store` | 2 connections, 2 URIs of which both may be detached and one is loaded by HTTP, 3 entries of size 0 or 1, memory size 2 | the list of entries and who uses it |
| `session` | a page and a form that redirect to each other, the form yields a file; 3 locations, 2 redirects, 4 requests of the user, who answers first (`Patient`), fair | a tab, safety and liveness |
| `cookies` | 2 structures, 3 kinds of cookies (two of one name and domain from two servers, one of another domain), 1 tick of the clock, 1 question, 1 failing save, 1 end | the list and its file, safety and liveness |
| `secure_save` | 2 records, 3 versions, 5 inodes, 1 failing call, 1 crash, every option and kind of file, changes at any moment, fair | a save is atomic and happens |
| `interlink` | 3 processes, 3 tries each, one starts at a time, fair | the session ring, safety and liveness |

Why these bounds.

* *Queue.* Two downloads join, leave and outbid each other; the third connection lets a waiting
  one be overtaken while two hold slots, and lets a detached one, its successor and a third be
  in the queue at once. With 2 slots and 1 per host both limits are met separately and together,
  and a victim must be looked for on the full host as well as on any. A local file has no host,
  the special case of most functions. `Retries` = 2 gives a connection one retry.
* *Socket.* Two addresses are enough for a failure with another address behind it, in front of it
  or none; three descriptors let the socket close one, another part of the program take its
  number, and the socket open the next. Three tries are a first, a middle and a last one.
* *HTTP.* Two bytes are cut before, between and after them; a chunk of one and a chunk of two
  leave the reader within a chunk or between two. With two requests an entry of one version is
  brought up to date, resumed or checked while the document changes once. The third try is needed: the
  first breaks off, the second finds that the document has changed, the third makes the request again.
* *Fragments.* Three of them fit into 4 bytes with gaps, so that a write can meet one, bridge two
  and end within a third; a granule of 2 makes room both for writes that fit and for those that
  do not.
* *Store.* Three entries let one URI have an invalid entry, or two, and a valid one. For the
  collection, sizes of at most 3 against a size of 3 let pass 2 overshoot and pass 3 spare one of
  several.
* *Session.* Three locations are what it takes to go back from the second page with one behind it
  and still have room for a new one. Four requests reach a file shown after two pages and a move
  back. With `MAX_REDIRECTS` at 2 the circle of two URIs is cut in its middle. Posting a form is
  confirmed or not from the start (`document.browse.forms.confirm_submit`).
* *Cookies.* Two structures are a cookie and the one that replaces it, from another server, or a
  cookie in a question and one in the list. The dialog edits the date only, see 4.
* *Saving.* Two records can be half written, half flushed and half on the disk; three versions
  are one in the file, one being saved and one changed meanwhile; a save needs an inode, and five
  are enough for a failed one after each.
* *Ring.* Three processes are a master, its successor and one that is connected to either.

Bounds that are not in the code: `MaxOrphaned`, `MaxDelay`, `MaxAge`, `MaxChunk`, `MaxEnd`,
`MaxSize`, `MaxRequests`, `MaxAsked`, `MaxTime`, `MaxFaults`, `MaxEnds`, `MaxVersion`,
`MaxInode`, `MaxCrashes`, `Entries`, `Locs`, and the sizes of the sets. Connections, downloads,
cache entries and versions are interchangeable, and the runs without temporal properties use that
as symmetry. `secure_save`, `cookies`, `http` and `interlink` do not look for deadlocks: their
bounds on changes and requests are used up and nothing is left to do.

What the properties say. The types are proved for all modules; those of `ConnQueue` and `Interlink` by themselves, the others as a conjunct of
one invariant of each other run (`NeverLate`, `EntrySound`, `OneValidPerUri`, `ServersCounted`,
`CleanMeansSaved` of `SecureSave`, `DescriptorsOwned`, `WholeOrIncomplete`, `DownloadsPlaced`).

* `ConnQueue`. `SlotsCounted`: the counters are the numbers of running connections.
  `WithinLimits`: they stay in the limits. `SocketBudget`: kept and
  running sockets together are bounded although the kept ones are trimmed late.
  `QueueHoldsLive`: the queue holds each live connection once. `PriCountsDownloads`: `pri[]`
  counts who waits. `OneConnectionPerUri`: two downloads of a URI share a connection.
  `NoMissedWork`: with the loop idle and nothing registered there is nothing to do.
  `SuspendsOnlyWorse`: a connection loses its slot only to a better one. `DownloadsServed`,
  `CheckQueueTerminates`: left alone, every download gets its result and `check_queue()` ends.
* `EventLoop`. `NeverLate`: timers are in order and lose no time. `HandlersCurrent`: no handler is
  called for what `select()` found for the file that had its descriptor before. `HalvesRun`,
  `TimersRun`: what is registered is called.
* `Socket`. `DescriptorsOwned`: handlers are on the socket's own open descriptor, and it loses
  none. `NoForeignClose`: it never closes a number that another part has. `CallersSurvive`:
  nothing runs on for a connection that a call before has ended, three callers apart.
  `EventsEnd`: one event is handled in finitely many calls. `SilenceEnds`: a peer that says
  nothing holds no connection for ever.
* `HttpTransfer`. `WholeOrIncomplete`: what counts as complete is one version up to its end, and
  from its beginning unless the old offset of section 4 was asked for. `ChunksInStep`: the reader of
  chunks is at a chunk whatever the pieces. `TagNamesContent`: the data held are of the version the
  tag names, pages of errors apart. `RequestsEnd`: with a server that honours ranges and is done
  with errors, every request ends. The second condition is needed: the answer to a request from 0
  cuts off what was held behind it, an error in its place leaves nothing, and when the two alternate the
  tries never run out.
* `CacheFragments`. `EntrySound`: fragments do not overlap, fit their room and are covered by the
  sizes the entry claims, which may be larger after an allocation that failed. `LatestHeld`: after any step a reader finds at each place the byte
  written last, and an add leaves what it adds and what was before it.
* `CacheStore`. `OneValidPerUri`; `UsersHaveEntry`: what a document locks or a connection fills
  is in the list; `OneWriter`: two connections fill one entry only where one is detached and loads
  by HTTP. `OldestCollected` is proved and in no run: a
  collection reaches its size and deletes a recent entry rather than an older one only if the older
  one is smaller.
* `SessionTask`. `DownloadsPlaced`: a download is in the list of a connection exactly while its
  task, location or query waits for it. `VisitedKept`: a visited page stays in its place of the
  history. `TasksEnd`: the session comes to rest however the servers redirect.
* `Cookies`. `CleanMeansSaved`: not dirty means the file has what must survive. `ServersCounted`:
  a server is locked once per cookie wherever the cookie is. `DomainsCoverCookies`: the index
  finds every cookie. `ChangesSaved`: each change is saved or known not to be.
* `SecureSave`. `ImplementsAtomicFile`: it does what `AtomicFile` says. `CleanMeansSaved`: the
  flag is cleared only for data that are in the file, those of when the save began or newer.
  `EventuallySaved`: what is there before a save is in the file sooner or later.
* `Interlink`. `Interlinked`: who keeps state is who the path leads to. `WindowsOpen`: every
  window comes up and every connection is accepted.

With QUIT connections three properties do not hold, and `conn_nntp` does not list
them: `WithinLimits`, see 4; `OneConnectionPerUri`, for a QUIT connection has the URI
of the socket it ends; and `NoMissedWork`, for the keepalive timer starts QUIT
connections, which a waiting connection could suspend, without registering
`check_queue()`: the waiting one goes on only when the QUIT connection has ended.

Fairness.

* `ConnQueue`: the loop's thread goes on (`check_queue()` once registered, each turn of its
  loops) and a transfer that runs ends, for the connection's timer
  (`connection.receive_timeout`) ends it if the server does not. The interface is not fair, and
  liveness is asserted for the behaviours in which it is called no more from some point on
  (`Quiet`): a user who keeps starting better downloads may starve others, as the priorities
  intend.
* `EventLoop`: its own steps, and the passing of time while it is blocked; descriptors and
  signals are not fair, they may never come. The run has a periodic timer because the program has
  one, `periodic_save_timer` of `config/timer.c`, unless `infofiles.save_interval` is 0. That timer
  is also what brings descriptors to `select()` for which the other thread sets handlers while it blocks.
* `Socket`: what is called returns, the timer of a connection fires, the queue looks at what
  waits. Peers, lookups by others and the user do what they like.
* `HttpTransfer`: what has come is handled, and the timer fires. The server need not answer.
* `SessionTask`: a connection ends, again by its timer, and a callback that is due is made. The
  user does nothing he need not do; `MaxAsked` bounds what he asks for, so that `TasksEnd` is
  about the time after his last request.
* `SecureSave`: the periodic timer saves what is dirty, the calls of a save follow each other,
  and a program that ended is started again. `Cookies`: a bottom half that is registered runs.
* `Interlink`: a process that looks for the ring goes on, and the loop of the other accepts. `select()` must
  know the descriptor for that: the handler is set by the interface thread, before or while the loop
  blocks, and in the second case the periodic timer makes it look again.
* The cache has no behaviour of its own, and no fairness.

## 4. Where code and promise differ

One run shows a place where the code does not do what its comment says.

`freed_socket`. When the timer of the last try fires, `timeout_socket()` (`network/socket.c:213`) calls `connect_socket()`, which finds
no address left and calls `retry_connection()`; that ends the connection and frees the
socket. The comment says the timeout is reset "if `connect_socket()` started a new attempt to
connect"; the condition is read from the freed socket.

The following were found by setting a constant otherwise, or by reading for the models. They have
no run here; the properties are stated so that they hold without them.

*Queue and loop.* The connections that end kept NNTP sockets are run without a look at the
limits (`connection.c:531`). `request_additional_file()` calls `move_download()` with the
same download as old and new (`session/session.c:699`), which links it twice and loses the counter of
its old priority. The interface thread may register a bottom half when the loop is about to
block in `select()`: nothing wakes it up, and with `infofiles.save_interval` 0 the work may never be
done. `check_timers()` takes the time since `last_time` off timers installed later too, so that a
timer may be early; the first time by any length.

*Sockets.* `connect_socket()` goes on with `connect_info` after a callback of `set_state()` may have
ended the connection (`socket.c:554`), and `complete_connect_socket()` with the socket. At
`socket.c:129` `done_connection_info()` is called with no `connect_info`.

*HTTP.* The most serious: a transfer has broken off at byte N; the retry asks for the rest, the answer is 206, but with
another ETag, for the document has changed. `http_got_header()` empties the entry, sets `conn->from` to 0 and
retries (`protocol/http/http.c:1834-1841`). But `progress->start` still is N (`http.c:1759`), and
`http_send_header()` asks for a range where either of the two is set (`http.c:932-938`). So the request is for
`bytes=N-` again; its answer is taken, since a later offset is refused only if `progress->start` is not set
(`http.c:1737`), and at its end `normalize_cache_entry()` marks what is only the tail of the new version
as complete. The comment at `http.c:933` has `conn->from` take precedence "in case of any retries". The model does
what the code does, `entry.late` remembers it, and without that case in `WholeOrIncomplete` TLC finds
the kept tail in a second.

An answer with an error and without a tag of its own puts its page into the entry, which keeps the
tag of the document (`http.c:1845`). The next check by that tag is answered with 304, and the page stays.

`conn->tries` goes back to 0 with every piece (`http.c:1270`), so a server without ranges
that breaks off each time is asked for ever. The document that replaces a complete error page counts as
complete from its first byte on, while the rest is under way, and a byte of an error page may stay in
front of a document of which only the rest was asked for. A range is asked for without `If-Range`, and with
a server that gives no tags two versions may be joined. A body that has a `Content-Length` and
`Connection: close` is complete for the code when it breaks off. 304 and 204 ignore
`Connection: close`. A timeout after the last byte, before the end was seen, asks for a range
behind the end; the answer, 416, replaces the document by an error page. A retry of a detached
connection makes `get_cache_entry()` create a valid entry (`http.c:1558`), which holds only what came
after, is stripped from the front as it grows, and is marked complete at the end, for all to find.

*Cache.* The cache manager deletes an entry that is being loaded, as does asking for one
that has expired while it is reloaded (`UsersWait` = FALSE): `done_cache_entry()` asserts that this does
not happen, and `conn->cached` dangles. `garbage_collection()` counts entries in use in
pass 3, against the comment at `cache/cache.c:779`, and may delete an entry that would fit. A
reload whose first data reach beyond the old end leaves `incomplete` at 0 (`cache.c:385`)
until the transfer ends.

*Sessions.* With `Patient` = FALSE `DownloadsPlaced` does not hold:

* a page is followed whose type question is still open (`-remote openURL`, commands of the
  interface): `setup_download_handler()` finds the query and leaves `ses->loading` linked, where the
  next use of it meets the assertions at `session/task.c:546` or `connection.c:907`;
* `tp_display()` moves on without ending the reload of the current location, whose download stays
  linked to a location that is no longer the current one, and is linked again on going back.

Others were met on the way. `post_yes()` ends only `ses->loading` (`task.c:105`), not the
download of the location. An open confirmation and the history menu keep pointers to locations
(`dialogs/menu.c:164`). A tab closed under its message box leaves `task->ses` dangling. A move
through the history that is redirected takes `cur_loc->prev` (`task.c:523`), so that an earlier
location is dropped and the new page is there twice: `VisitedKept` does not cover this case.
`ses_history_move()` tests `keep_unhistory` the wrong way round.

*Files.* `write_global_history()` clears the flag when `secure_close()` has returned 0
(`globhist/globhist.c:403`), and with it the mark of an item that the other thread has added since the loop over
the items ended. It is saved only when something else changes later, so that "whatever is dirty is
saved sooner or later" does not hold; `CleanMeansSaved` and `EventuallySaved` are about what was
there when the save began. `secsave.c` never unlinks a temporary file when a save fails. `save_input_history()` clears
its flag before `secure_close()` has said whether it worked. A cookie file that cannot be read is
overwritten by the next save. `set_cookie_domain()` (`cookies/dialogs.c:274`) changes a domain and not
the index: with `"domain"` in `Edits`, `DomainsCoverCookies` does not hold.

*Session ring.* After `MAX_BIND_TRIES` a process unlinks the socket file (`main/interlink.c:404`), which may
be that of one that has bound it and is about to listen. With `Overlap` = TRUE two processes keep
state, and write the same files.

## 5. The proofs

Eight modules hold theorems, each about one component or, for the two halves of the cache and the
two modules of `src/src/main`, about both, and for every value of the constants
that satisfies the assumptions declared with them. For each component the theorem named first
is its inductive invariant; TLC has checked it on the instance of the component's run
before it was proved (`FragmentsInv` with its quantifiers over offsets bounded by `MaxEnd`). A hypothesis that a theorem has beyond the assumptions is in the
table: without it the property does not hold, and section 4 says what the code does then.

| module | theorem | states | if |
|---|---|---|---|
| `ConnQueueProofs` | `InvHolds`, `OwnersHold` | the inductive invariants `Inv` and `Owners` | |
| | `TypeCorrect` | `[]TypeOK` | |
| | `SlotsAreCounted` | `[]SlotsCounted` | |
| | `QueueIsExact` | `[]QueueHoldsLive` | |
| | `PrioritiesCount` | `[]PriCountsDownloads` | |
| | `SuspensionsJustified` | `SuspendsOnlyWorse` | |
| | `SocketBudgetHolds` | `[]SocketBudget` | |
| | `LimitsHold` | `[]WithinLimits` | `QuitUris = {}` |
| | `OneConnection` | `[]OneConnectionPerUri` | `QuitUris = {}` |
| | `NoWorkForgotten` | `[]NoMissedWork` | `QuitUris = {}` |
| `SocketProofs` | `InvHolds` | the inductive invariant `IInv` | |
| | `HandlersAreOwned` | `[]DescriptorsOwned` | |
| | `ClosesOnlyItsOwn` | `[]NoForeignClose` | |
| | `CallersAreTold` | `[]CallersSurvive` | |
| `MainProofs` | `InvHolds`, `NoTimeLost` | `IInv` and `[]NeverLate` | |
| | `RoundsCurrent` | `[]HandlersCurrent` | |
| | `RingInvHolds`, `RingTyped` | `RingInv` and `[]InterlinkTypeOK` | `~Overlap` |
| | `AlwaysInterlinked`, `AlwaysOneRing` | `[]Interlinked`, `[]OneRing` | `~Overlap` |
| `HttpTransferProofs` | `InvHolds`, `TypeCorrect` | `IInv` and `[]TypeOK` | |
| | `InStep` | `[]ChunksInStep` | |
| | `WholeIsWhole` | `[]WholeOrIncomplete` | |
| | `TagsName` | `[]TagNamesContent` | |
| `CacheProofs` | `StoreKept` | the inductive invariant `StoreInv` | |
| | `OneAnswer` | `[]OneValidPerUri` | |
| | `UsersKeepEntries` | `[]UsersHaveEntry` | `UsersWait` |
| | `WritersAreAlone` | `[]OneWriter` | `UsersWait` |
| | `CollectsTheOldest` | `OldestCollected` | |
| | `FragmentsAreSound` | `[]EntrySound`, from `FragmentsInv` | |
| | `FragmentsHoldTheLatest` | `LatestHeld` | |
| `SessionProofs` | `SessionKept` | the inductive invariant `SessionInv` | `Patient` |
| | `DownloadsAlwaysPlaced` | `[]DownloadsPlaced` | `Patient` |
| | `VisitedStays` | `VisitedKept` | `Patient` |
| `CookiesProofs` | `InvHolds` | the inductive invariant `IInv` | |
| | `LocksCountCookies` | `[]ServersCounted` | |
| | `CleanIsSaved` | `[]CleanMeansSaved` | |
| | `IndexCovers` | `[]DomainsCoverCookies` | `"domain" \notin Edits` |
| `SecureSaveProofs` | `InvHolds`, `TypeCorrect` | `IInv` and `[]TypeOK` | |
| | `CleanIsSaved` | `[]CleanMeansSaved` | |
| | `SaveIsAtomic` | `ImplementsAtomicFile` | |

### The queue

The assumptions are that there are finitely many connections and downloads at a time, that a
URI has at most one host, that QUIT URIs have one, and that the limits are positive.

`Inv` is the conjunction of the types, `FreedIsClean` (a freed connection has no
downloads, URI or counters), `QueueHoldsLive`, `DownloadsAttached` (the list of a
connection and the pointers of its downloads agree) and `SlotsCounted`. None of
them is inductive alone. The counters are right after `GiveSlotBack` only if the
connection was running on the host its URI names, which a freed one would not;
that a connection found through a download is live needs the two sides to agree; that the
queue loses exactly those that are freed needs them to be there once. The proof has a
lemma for each action (`LoadUriJoinInv` to `ReapInv`), which first says what the
action does to the queue (`QueueLoses`), to the slots (`SlotsKept`, `SlotTaken`,
`SlotGiven`) and to the records, and `StepInv` puts them together. Below are lemmas on sequences:
`WithoutProperties`, `SortedProperties` and `EnqueuedProperties` say which elements
the three list operations leave.

`LimitsHold` uses `InvHolds` and that only `RunConnection`, which looks at both
limits, and a retry, which takes the slot it has given back, make a counter grow
(`NextKind`, `RunWithinLimits`, `FallsWithinLimits`). `SocketBudgetHolds` needs a
stronger invariant, `BudgetInv`: while a pass hands out slots, no more than
`MaxKeepalive` sockets are kept. The trimming just before sees to that (`ScanKeep`);
elsewhere the list grows only by a transfer that gives its slot back in return.

`Owners` is the second invariant, on top of the first. `pri[p]` is the number of attached
downloads of priority p for each p a caller may ask for (`OwnersCounted`), downloads in progress
have such a priority (`WantedOnly`), a live connection has downloads or a count under
`PRI_CANCEL`, and the queue is in the order of the first counters that are not zero (`InOrder`).
The counts and the order need each other: `cancel_download()` and `move_download()` change a
counter and sort, and that the result is in order says something about the next pass only if the
order is that of the counters.

`SuspensionsJustified` is an action property. The step that suspends for a better connection
finds its victim from the end of the queue; that the victim is worse follows from the order, that it is
not a POST somebody waits for from the guard. The other steps are shown not to make anything that
runs wait.

`OneConnection` holds because a connection is made only when none for the URI can be
joined, and afterwards no step changes the URI of a connection or takes its mark as detached off
(`Tame`). `NoWorkForgotten` uses `WorkDone`, which says for each place `check_queue()` may be at
what it has seen to: after the scan there is no candidate left that could have a slot, after
the reaping nobody unwanted, and kept sockets have their timer. Each call that disturbs this
registers `check_queue()`.

### The socket

`IInv` has the types, the stack of calls and the descriptors. Only `timeout_socket()` and
`complete_connect_socket()` leave something to be done after what they call, so at any depth
but the top the list of calls holds nothing but `rearm` and `free` (`Callers`): from that
`CallersSurvive` follows, because the calls that need a live connection are always at the
top, put there by a step that has just seen it alive. For the descriptors: a connection that does not run has
none (`Ended`), an open one is the one in `fd` (`Owned`), the loop over the addresses starts
with none open (`Attempting`), and only a failed attempt leaves a closed number in `fd`,
until the next attempt, a retry or the end resets it (`Settled`). As no other step comes between
those, no other part of the program can have been given the number: `NoForeignClose`.

### The loop

`IInv` says that the timers are in the order of their intervals, each is listed once, and none has
more left than `rest[t] + since`, what is left of its delay and the time that the next
`check_timers()` will take off (`Timely`). `InsertedKeeps` and `CutKeeps` are about the two loops over the
list, `RunTimerKeeps` about a timer whose function installs it again while others are due.
`TimersAssumption` says that there are finitely many timers, so that a place for one can be found.
`RoundsCurrent` rests on `Rounds`: something is ready only between the return of `select()` and the last
handler of the round.

### HTTP

The theorems are for documents of any length in any number of versions, any kinds of servers, framings and
tries. What the reader has before it is `rb \o wire`, received or still under way. `IInv`
says that this is a part, from its start, of what one version has after `conn->from`, and that
`http` tells how it is to be read (`Reading`): the bytes themselves (`Plain`), as many as `left` says; or
chunks (`Lines`: each size is followed by as many bytes, the line end and another size, and the last one by the end), of
which the reader is at a size, so many bytes before the end of a chunk, or at the end (`Place`). The
offset of each chunk's data is a function `pos` that the invariant only says exists. A break of the connection leaves a
part of the stream (`ReadingBreaks`), a read moves its start (`After`, `StreamSkipped`), and there is a
lemma for each of the ways the reader goes on: `ReadingPlain`, `ReadingSize`, `ReadingPart`,
`ReadingEnd`, `ReadingZero`. `WholeInChunk` and `EachInChunk` show that what the server sends is in this
form, in one chunk or one per byte. Then `InStep` needs nothing else.

`DataInv` is the second invariant: what is held up to `from` is of the version that the tag of the entry
names, from the first byte on or, for an entry that is `late`, from some place on, and pages of errors apart;
and an entry that is not marked as incomplete reaches the end of that version, unless the mark
is `lax`. It is about servers with tags, the only ones that `WholeOrIncomplete` is about. A read may begin in the
middle because `Answering` says that the answer is of the version of the tag: `http_got_header()` starts over when the
tags differ. `FinishData` needs that an answer that ends does so at the end of its version, which is what `left`
and `Place` say.

### The store

`StoreInv` is the list without repetitions, the types, `cache_size` as the sum of the sizes of what is listed
and one valid entry per URI. The sum is `MapThenSumSet()`, a recursive function on
the subsets; what is needed of it (that it exists, and how it changes with a member or with the size of
one: `SumsExist`, `TotalRest`, `TotalMinus`, `TotalChange`) is proved for a smallest counterexample, the form of
induction that the prover accepts. `OneAnswer` needs no condition on users:
`get_cache_entry()` makes an entry only where `find_in_cache()` has none, and nothing makes an entry valid again.

`UsersKeepEntries` and `WritersAreAlone` have a hypothesis, that nobody deletes or revalidates what is being
loaded (`UsersWait`). Connections for one URI are all detached but one (`Shared`), and what a detached one
fills cannot be found (`Hidden`) unless it loads by HTTP, so no other connection can come to it. A handler
that asks for the entry at each answer gets, when it retries a detached connection, the entry of
its successor (`protocol/http/http.c:1558`): the property names this case.

`CollectsTheOldest` follows from `StoreInv` alone, since a collection is one step. Its parts are lemmas about
the passes of `garbage_collection()`: where pass 2 stops, the newer entries fit (`StopIs`); what pass
3 spares grows along the list and fits (`SparedGrows`, `SparedFits`); where it spares only the
older one of two, what it had spared by then was more, so that one is smaller (`SparedSmaller`). The sparing is
a recursive function on the places of the list, which exists by the lemma that the
fragments use (`StepByStep`).

### The fragments

The theorems are for documents and pieces of any length, any number of versions and any unit of
allocation. `FragmentsInv` has the types, the order and rooms of the fragments, the two sizes, and what
makes the rest inductive: whatever a fragment holds at an offset is what was written there last
(`Fresh`, over the history variable `latest` of the model). Most of the proof is about `add_fragment()`, which
works in two parts. First the new data go into a fragment that has room for them (`OverwrittenIs`) or
into a new one (`CutIs`, `PlaceIs`, `InsertedMergeable`). What follows may now overlap: `Mergeable` is
the sequence in this state, in which all bytes are the latest but those behind the end of the new
data, in the fragments after it. Then `remove_overlaps()` takes away the fragments that the written one meets and keeps what the
last of them has beyond it (`MergedIs`); `MergedSound` says that the result is in order, in its rooms and the latest
throughout, and `MergedHolds` that nothing which was held in front is lost, if an allocation fails half-way or not.
`TruncatedIs` is about `truncate_entry()`, `JoinedData` about the copy that `get_cache_fragment()` makes,
`StrippedSound` about `free_entry_to()`. The size of an entry, the end of a run of fragments that touch and the
joined data are recursive functions; what is needed of them is shown for a smallest counterexample
(`StepByStep`, `SizeSteps`, `FlattenSteps`, `RunIs`).

### A session

The theorems are for any URIs, servers, files, forms, locations and numbers of redirects, and for a user
who answers a question before doing anything else (`Patient`); section 4 says what happens otherwise.

`DownloadsPlaced` is not inductive: that `move_download()` finds its target idle, and that `load_uri()` does, is a
matter of what else the session is busy with. `SessionInv` therefore says who waits for what. `Owners` gives
each download the URI its owner waits for: the task, the current location, a query, or nobody. `Placed` says
that the lists of the connections are as the owners and the states of the downloads tell. `Waits` says that the session waits
for one thing at a time: for a task, for a box or for the answer to a query; that nothing is loaded for
the page it shows while there is a task or a box; that a location is free for what is coming; and that a move through the history leads to a
location that is there and has the URI of the task (`Aimed`). The last of these is what makes `ses_history_move()` of a
task that was not redirected keep the list as it is, which `VisitedKept` needs. `History` says that the list has each
location once and that the current one is in it.

The handlers call each other, so the lemmas are about states. Those on the calls of the queue
(`CancelledPlaced`, `MovePlaced`, `NotifiedPlaced`, `EndedPlaced`, `LoadUriPlaced`) say what becomes of `Placed` for any owners, so
that each caller can name its own. Those on the history (`CleanUnhistoryIs`, `AnotherIs`, `DeletedIs`, `ForwardIs`,
`HistoryMoveIs`) say which locations the list holds afterwards and in which place (`Placement`), from
what `InsertAt`, `RemoveAt` and `SubSeq` do entry by entry. Then there is one for each function of the session, from
`abort_loading()` to `loading_callback()`, and one for each action. A new page needs a free location: the model lets the user ask only when there is
room (`Room`, a bound), and `RoomIsFree` counts that room in the list, which holds each location once.

### The cookies

Cookies are in the list, in the queue of questions or in a box, each in one place and once
(`ListsTyped`); each points to a server, whose count is the number of those (`Counted`). Every operation takes a cookie out
(`Removing`), puts one in (`Joining`), or moves it; accepting one frees those it replaces, of
any server. `load_cookies()` gives each record of the file a structure: that there are enough
is a fact about finite sets (`Layout`), and the reason for assuming `Cookie` to be finite.
`IndexCovers` excludes only that the dialog changes a domain, `set_cookie_domain()` (section 4).

### Saving

`SaveIsAtomic` is the refinement. `IInv` says of the stages of a save that a file written aside has an inode
no name leads to, cached or on the disk (`Saving`), so whatever is written, fails or is lost on the
way does not show; that the inode holds a beginning of the data (`Written`) and all of them
after `fflush()`, on the disk after `fsync()` (`Complete`); and that what a name leads to was
synchronised, if `fsync()` is asked for (`Synchronised`), which lets the directory entry reach the disk at
any time. Since the other thread may change the data during a save, what is complete is so by `Between`: each
record is as old as when the save began or newer. Then `SaveBegin` is `Begin`, each further step of a save but `Rename` is
a stutter of `AtomicFile` (`Unseen`, `SaveStepSeen`), or its
`InPlace` for a file that is written in place, and `Rename` publishes. Which losses are promised
to keep what (`Promise`) is part of the refinement, so the theorem covers all options.

### The session ring

The theorems are for any finite number of processes and any positive numbers of tries, if no process
starts while another does (`~Overlap`). What could go wrong is that a process takes away the file
of another: `bind_to_af_unix()` unlinks
it on the last but one try, `done_interlink()` at the end, both without a look at whose it is. So `RingInv`
says that whoever has a socket has it at the path (`SocketAtPath`), hence that there is at most
one; that one who is about to bind has found nobody listening (`NobodyListens`), which holds when
the tries to connect are over and stays, as only one process starts at a time (`OneStarts`) and
nobody else is between `bind()` and `listen()` (`BoundStarts`). `MasterListens` needs that a process
does not become master for want of a socket where it could have one: on its last try the path
is free (`LastTry`, with `Counted` for where the loops are). `OffIsGone` and `DeniedNone` say that
processes that have ended, or cannot write the directory, have no socket. There is a lemma for each
action, `OpenRing` to `AcceptRing`.

### Only model-checked

No safety property of a passing run is left without a theorem. Both theorems of a session that is not `Patient`, and all that has a
hypothesis in the table without it, do not hold and are not claimed. Liveness under fairness, `ENABLED`, and induction whose hypothesis is a parameter are out of reach of the
prover: the liveness properties of all modules stay with TLC.

## 6. What is not modelled

Races inside an operation: the two threads touch the same lists without a lock, which is
undefined behaviour; the models take each call of the interface as one step and show
that even then order matters (a change of the history during a save may also meet the walk over the
list of items itself). The destruction of everything while the loop still runs (`main.cc:410`).

Of the queue, proxies and statistics; of the loop, errors of `select()` and
`program.terminate`; of sockets, TLS, connected pairs, the asynchronous resolver and the handover of the
descriptor of a kept connection to the next one; of HTTP, encodings,
redirects, authentication, proxies, POST, HTTP/0.9 and downloads that go on with a file that is there; of the cache, redirects, revalidation by date and
entries filled without a connection (`data:`, error pages); of sessions, frames, style sheets, image
maps, and what becomes of a file once its download has begun; of cookies, paths and the secure flag; of the
data files, their formats.

FTP, BitTorrent and the events between a master and its terminals have an order worth checking and
are in the plan. Parsing, layout, drawing, configuration, scripting and encodings, more than half
of the source, are sequential computation on data, where a model checker has little to add: for
them the share of the source that is modelled stays small. `PROJECT.json` lists every component.

## 7. The plan

In this order, the most important behaviour first:

1. done: the queue and the session ring with their proofs, the loop, sockets, HTTP, the cache, the tasks
   of a session, cookies, the saving of files.
2. done: the theorems of the queue, the socket, the loop, HTTP, the fragments and the list of the
   cache, a session, the cookies, the saving of files and the session ring.
3. `DownloadWalk`: the walks of `notify_connection_callbacks()` and
   `abort_background_connections()` over lists that callbacks change; a detailed
   version of the steps that `ConnQueue` takes at once, to be shown to implement them.
4. `FileDownload`: resuming, detaching, removing, on top of `SessionTask`.
5. FTP: its two sockets, and the dialogue on the first while the second transfers.
6. Terminals: the queue of events from a slave, and its end.
7. BitTorrent, and pure helpers such as the editing of text areas against reference definitions.
