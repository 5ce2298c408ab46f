----------------------------- MODULE HttpTransfer -----------------------------
(***************************************************************************)
(* One document over HTTP: protocol/http/http.c from the request to the    *)
(* last byte, on connections that break, against a server whose document   *)
(* changes, which may or may not give it an ETag and honour a Range.  The  *)
(* entry of the cache outlives the requests.  Chunks are read as the bytes *)
(* come, in pieces of any size.                                            *)
(*                                                                         *)
(* A byte is [v, n], the n-th of version v; v = 0 is an error page.  Not   *)
(* modelled: encodings, redirects, authentication, proxies, POST, HTTP/0.9 *)
(* and downloads that go on with a file that is there.                     *)
(***************************************************************************)
EXTENDS Integers, SequencesExt

CONSTANTS
    Length,         \* version -> the length of the document, a sequence
    MaxTries,       \* the option connection.retries
    Servers,        \* kinds of servers: whether they honour a Range ("late": a byte too
                    \* late), and whether they give documents an ETag
    Framings,       \* how they end an answer, a subset of {"length", "chunked", "close"}
    ErrorPages,     \* error answers have a body
    MaxRequests     \* bounds the requests

ASSUME HttpTransferAssumption ==
    /\ Length \in Seq(Nat \ {0}) /\ Length # <<>>
    /\ MaxTries \in Nat \ {0} /\ MaxRequests \in Nat
    /\ Servers \subseteq [ranges : {"none", "right", "late"}, tagged : BOOLEAN]
    /\ Framings \subseteq {"length", "chunked", "close"}
    /\ ErrorPages \in BOOLEAN

VARIABLES
    at,         \* "off", "sent", "header", "wait" for more, "handle" what came, "chunks"
    from,       \* conn->from
    start,      \* conn->progress->start, 0 for -1
    tries,      \* conn->tries
    blacklisted,\* SERVER_BLACKLIST_NO_CHARSET
    st,         \* socket->state: "retry", "end" or "closed" (on close)
    http,       \* [close, left, chunk, code] of struct http_connection_info
    rb,         \* the read buffer
    entry,      \* the cache entry: [data, incomplete, tag], where data has the bytes that
                \* are held; and what the code does not note, lax: the mark as complete
                \* came with an error or by the end of a connection alone, and late: it
                \* was filled from an offset with nothing before it
    requests,   \* how many there were
    srv,        \* the kind of the server
    ver,        \* the version it has
    request,    \* what it was asked: [range, tag], and check, the mode of the request
    answer,     \* its header: [code, start, framing, close, tag, length]
    wire,       \* what is under way, in tokens
    cut         \* the server has closed the connection

connVars == <<from, start, tries, blacklisted, http>>
netVars == <<answer, wire, cut>>
vars == <<at, connVars, st, rb, entry, requests, srv, ver, request, netVars>>

Versions == DOMAIN Length
Unknown == -1       \* http->length
Chunked == -2       \* LEN_CHUNKED
Size == -1          \* CHUNK_SIZE
Zero == -2          \* CHUNK_ZERO_SIZE
DataEnd == -3       \* CHUNK_DATA_END

Byte(v, n) == [k |-> "byte", v |-> v, n |-> n]
Mark(k, n) == [k |-> k, v |-> 0, n |-> n]      \* "size" of a chunk, "CR", "LF"
NoAnswer ==
    [code |-> 0, start |-> 0, framing |-> "length", close |-> FALSE, tag |-> 0, length |-> 0]
NoEntry == [data |-> <<>>, incomplete |-> TRUE, tag |-> 0, lax |-> FALSE, late |-> FALSE]
NoRequest == [range |-> 0, tag |-> 0, check |-> FALSE]
Fresh == [close |-> FALSE, left |-> 0, chunk |-> Size, code |-> 0]

Bytes == {Byte(0, 1)} \cup UNION {{Byte(v, n) : n \in 1 .. Length[v]} : v \in Versions}

TypeOK ==
    /\ at \in {"off", "sent", "header", "wait", "handle", "chunks"}
    /\ from \in Nat /\ start \in Nat /\ tries \in -1 .. MaxTries - 1 /\ blacklisted \in BOOLEAN
    /\ st \in {"retry", "end", "closed"}
    /\ http.left \in Nat \cup {Unknown, Chunked} /\ http.chunk \in Nat \cup {Size, Zero, DataEnd}
    /\ \A n \in DOMAIN entry.data : n \in Nat \ {0} /\ entry.data[n] \in Bytes
    /\ entry.incomplete \in BOOLEAN /\ entry.tag \in Versions \cup {0}
    /\ requests \in 0 .. MaxRequests
    /\ srv \in Servers /\ ver \in Versions /\ cut \in BOOLEAN

Init ==
    /\ at = "off" /\ from = 0 /\ start = 0 /\ tries = 0 /\ blacklisted = FALSE
    /\ st = "end" /\ http = Fresh /\ rb = <<>> /\ entry = NoEntry /\ requests = 0
    /\ srv \in Servers /\ ver = 1
    /\ request = NoRequest /\ answer = NoAnswer /\ wire = <<>> /\ cut = FALSE

-----------------------------------------------------------------------------
\* The cache entry, whose fragments have the room for what follows on

\* add_fragment() at from: where it meets what is held, or differs from it,
\* all that follows is cut off, and that makes the entry incomplete.
Places(f, new) == f + 1 .. f + Len(new)
Meets(e, f, new) ==
    \/ {f, f + 1} \cap DOMAIN e.data # {}
    \/ \E n \in Places(f, new) \cap DOMAIN e.data : e.data[n] # new[n - f]
Beyond(e, f, new) == {n \in DOMAIN e.data : n > f + Len(new)}
Spared(e, f, new) ==
    {n \in DOMAIN e.data : n <= f} \cup (IF Meets(e, f, new) THEN {} ELSE Beyond(e, f, new))

Added(e, f, new) ==
    IF new = <<>> THEN e
    ELSE [e EXCEPT !.data = [n \in Spared(e, f, new) \cup Places(f, new) |->
                                IF n \in Places(f, new) THEN new[n - f] ELSE e.data[n]],
                   !.incomplete = @ \/ (Meets(e, f, new) /\ Beyond(e, f, new) # {})]
\* ... and its result 1, on which the tries are forgotten
MoreHeld(e, f, new) == ~(Places(f, new) \subseteq DOMAIN e.data)

\* normalize_cache_entry()
Normalized(e, f) ==
    [e EXCEPT !.data = Restrict(@, {n \in DOMAIN @ : n <= f}),
              !.incomplete = FALSE,
              !.lax = (http.close /\ st = "closed") \/ http.code >= 400]

\* delete_entry_content()
Deleted(e) == NoEntry

-----------------------------------------------------------------------------
\* The connection

\* http_send_header() on a new or kept socket, with the entry as it is now:
\* a Range where something came before, from f or else from where the last
\* answer began, and a condition when the entry is complete.
Send(f, s, check) ==
    /\ at' = "sent" /\ st' = "end" /\ rb' = <<>> /\ http' = Fresh
    /\ start' = s
    /\ request' = [range |-> IF f > 0 THEN f ELSE s,
                   tag |-> IF check /\ ~entry'.incomplete THEN entry'.tag ELSE 0,
                   check |-> check]
    /\ answer' = NoAnswer /\ wire' = <<>> /\ cut' = FALSE

\* The connection is gone.
Off ==
    /\ at' = "off" /\ rb' = <<>> /\ http' = Fresh /\ st' = "end"
    /\ from' = 0 /\ start' = 0 /\ tries' = 0
    /\ request' = NoRequest
    /\ answer' = NoAnswer /\ wire' = <<>> /\ cut' = FALSE

\* retry_connection() from offset f with t tries.
Retry(f, s, t) ==
    IF t + 1 >= MaxTries
    THEN Off
    ELSE Send(f, s, request.check) /\ from' = f /\ tries' = t + 1

\* load_uri(): a complete entry is served without a request, unless the user
\* asks for a check or a reload.
LoadUri ==
    /\ at = "off" /\ requests < MaxRequests
    /\ UNCHANGED <<from, tries, blacklisted, entry, srv, ver>>
    /\ \E check \in BOOLEAN : Send(0, 0, check)
    /\ requests' = requests + 1

CancelDownload ==
    /\ at # "off"
    /\ Off
    /\ UNCHANGED <<blacklisted, entry, requests, srv, ver>>

\* The receive timeout, a failing read, or the end of a connection that is
\* not the end of an answer.
Waiting == at \in {"sent", "header", "wait"}

Timeout ==
    /\ Waiting
    /\ UNCHANGED <<blacklisted, entry, requests, srv, ver>>
    /\ Retry(from, start, tries)

-----------------------------------------------------------------------------
\* The server

\* The ways to cut an answer in chunks: one, or one per byte.  The end of a
\* line is one byte but after the data, where the code takes it apart.  (A
\* chunk of one byte takes five tokens: i is token ((i + 4) % 5) + 1 of the
\* chunk of byte (i + 4) \div 5.)
OneChunk(s) == <<Mark("size", Len(s)), Mark("LF", 0)>> \o s \o <<Mark("CR", 0), Mark("LF", 0)>>
LastChunk == <<Mark("size", 0), Mark("LF", 0), Mark("LF", 0)>>

Chunks(bytes) ==
    {OneChunk(bytes) \o LastChunk,
     [i \in 1 .. 5 * Len(bytes) |-> OneChunk(<<bytes[(i + 4) \div 5]>>)[((i + 4) % 5) + 1]]
        \o LastChunk}

Body(a, bytes) == IF a.framing = "chunked" /\ bytes # <<>> THEN Chunks(bytes) ELSE {bytes}

Document(v, s) == [i \in 1 .. Length[v] - s |-> Byte(v, s + i)]
First == request.range + (IF srv.ranges = "late" THEN 1 ELSE 0)
Tag == IF srv.tagged THEN ver ELSE 0
ErrorBody == IF ErrorPages THEN <<Byte(0, 1)>> ELSE <<>>

Says(code, s, tag, bytes) ==
    \E framing \in Framings, close \in BOOLEAN :
        /\ answer' = [code |-> code, start |-> s, framing |-> framing,
                      close |-> close \/ framing = "close", tag |-> tag, length |-> Len(bytes)]
        /\ wire' \in Body(answer', bytes)

Answer ==
    /\ at = "sent" /\ ~cut
    /\ at' = "header"
    /\ \/ /\ request.tag # 0 /\ request.tag = Tag
          /\ Says(304, 0, Tag, <<>>)
       \/ /\ request.tag = 0 \/ request.tag # Tag
          /\ IF srv.ranges # "none" /\ request.range > 0
             THEN IF First < Length[ver]
                  THEN Says(206, First, Tag, Document(ver, First))
                  ELSE Says(416, 0, 0, ErrorBody)
             ELSE Says(200, 0, Tag, Document(ver, 0))
       \/ Says(503, 0, 0, ErrorBody)
    /\ UNCHANGED <<connVars, st, rb, entry, requests, srv, ver, request, cut>>

\* The connection breaks, or the server closes it at the end.  (What came
\* before has been received; in the middle of a header it is as a timeout.)
Cut ==
    /\ at \in {"sent", "wait"} /\ ~cut
    /\ cut' = TRUE /\ wire' = <<>>
    /\ UNCHANGED <<at, connVars, st, rb, entry, requests, srv, ver, request, answer>>

\* Somebody edits the document.
Edit ==
    /\ ver < Len(Length)
    /\ ver' = ver + 1
    /\ UNCHANGED <<at, connVars, st, rb, entry, requests, srv, request, netVars>>

-----------------------------------------------------------------------------
\* The header

\* http_got_header() at the end of the connection: maybe the server dislikes
\* the charsets of the request, so they are left out for one try more.
NoHeader ==
    /\ at = "sent" /\ cut
    /\ UNCHANGED <<entry, requests, srv, ver>>
    /\ IF tries = 0
       THEN /\ blacklisted' = ~blacklisted
            /\ Retry(from, start, IF blacklisted THEN 0 ELSE -1)
       ELSE UNCHANGED blacklisted /\ Retry(from, start, tries)

\* http_end_request() after 304, which leaves the entry alone.
NotModified ==
    /\ at = "header" /\ answer.code = 304
    /\ Off
    /\ UNCHANGED <<blacklisted, entry, requests, srv, ver>>

Modified(e) == answer.tag # 0 /\ e.tag # 0 /\ answer.tag # e.tag
WithTag(e) == IF answer.tag = 0 \/ e.tag # 0 THEN e ELSE [e EXCEPT !.tag = answer.tag]
Checked(e) ==
    [WithTag(IF Modified(e) THEN Deleted(e) ELSE e) EXCEPT
        !.late = @ \/ (from = 0 /\ answer.start > 0)]

\* What http_got_header() takes from the header.
Framed ==
    /\ http' = [code |-> answer.code,
                chunk |-> Size,
                left |-> CASE answer.framing = "length" -> answer.length
                           [] answer.framing = "chunked" /\ answer.length > 0 -> Chunked
                           [] OTHER -> IF answer.framing = "close" THEN Unknown ELSE 0,
                close |-> answer.close]
    /\ st' = IF answer.close THEN "end" ELSE "retry"

\* ... and how it goes on: the rest of what was read goes to read_http_data().
GoOn ==
    /\ from' = answer.start /\ start' = answer.start
    /\ Framed
    /\ \E n \in 0 .. Len(wire) :
          rb' = SubSeq(wire, 1, n) /\ wire' = SubSeq(wire, n + 1, Len(wire))
    /\ at' = "handle" /\ answer' = NoAnswer
    /\ UNCHANGED <<tries, request, cut>>

HeaderCame ==
    /\ at = "header" /\ answer.code # 304
    /\ UNCHANGED <<blacklisted, requests, srv, ver>>

\* The answer begins behind what was asked for (S_HTTP_ERROR); what begins
\* where the last answer did is let through.
TooLate == start = 0 /\ answer.start > from

\* When the rest of another version comes, the entry is emptied and the
\* request made again.
Restart ==
    /\ entry' = Deleted(entry)
    /\ Retry(0, answer.start, tries)

\* mutant: the tag of the new version is set before the retry
GotHeaderTagged ==
    /\ HeaderCame
    /\ IF TooLate THEN UNCHANGED entry /\ Off
       ELSE /\ entry' = WithTag(entry)
            /\ IF Modified(entry) /\ answer.start > 0
               THEN Retry(0, answer.start, tries) ELSE GoOn

\* mutant: any start of the answer will do
GotHeaderTrusts ==
    /\ HeaderCame
    /\ IF Modified(entry) /\ answer.start > 0 THEN Restart
       ELSE entry' = Checked(entry) /\ GoOn

\* http_got_header()
GotHeader ==
    /\ HeaderCame
    /\ IF TooLate THEN UNCHANGED entry /\ Off
       ELSE IF Modified(entry) /\ answer.start > 0 THEN Restart
       ELSE entry' = Checked(entry) /\ GoOn

-----------------------------------------------------------------------------
\* The body

\* read_select(): some of what is under way comes.
Receive ==
    /\ at = "wait" /\ wire # <<>>
    /\ \E n \in 1 .. Len(wire) :
          rb' = rb \o SubSeq(wire, 1, n) /\ wire' = SubSeq(wire, n + 1, Len(wire))
    /\ at' = "handle"
    /\ UNCHANGED <<connVars, st, entry, requests, srv, ver, request, answer, cut>>

\* read_select() at the end of the connection.
Closed ==
    /\ at = "wait" /\ wire = <<>> /\ cut
    /\ UNCHANGED <<blacklisted, entry, requests, srv, ver>>
    /\ IF st = "retry"
       THEN Retry(from, start, tries)
       ELSE /\ st' = "closed" /\ at' = "handle"
            /\ UNCHANGED <<from, start, tries, http, rb, request, netVars>>

\* read_http_data_done(): an error without a page gets one made up, which
\* replaces the content; check_questions_queue() does it in the callbacks of
\* the end.
Finish(e, f) ==
    /\ entry' = IF f = 0 /\ http.code >= 400
                THEN Added(Deleted(e), 0, <<Byte(0, 1)>>)
                ELSE Normalized(e, f)
    /\ Off

\* read_more_http_data()
ReadMore == at' = "wait"

\* read_normal_http_data() takes what belongs to the answer; at the end of a
\* known length, on a connection that may be kept, it is done.
Taken == IF http.left = Unknown THEN Len(rb) ELSE Min({Len(rb), http.left})
TakenBytes == SubSeq(rb, 1, Taken)

NormalData(done, t) ==
    /\ at = "handle" /\ st # "closed" /\ http.left # Chunked
    /\ IF done
       THEN Finish(Added(entry, from, TakenBytes), from + Taken)
       ELSE /\ entry' = Added(entry, from, TakenBytes)
            /\ from' = from + Taken
            /\ tries' = t
            /\ http' = [http EXCEPT !.left = IF @ > 0 THEN @ - Taken ELSE @]
            /\ rb' = SubSeq(rb, Taken + 1, Len(rb))
            /\ ReadMore
            /\ UNCHANGED <<st, start, request, netVars>>
    /\ UNCHANGED <<blacklisted, requests, srv, ver>>

AllCame == http.left = Taken /\ st = "retry"
TriesAfter(bytes) == IF MoreHeld(entry, from, bytes) THEN 0 ELSE tries

\* mutant: the tries are forgotten whether there is anything new or not
ReadNormalForgets == NormalData(AllCame, 0)
ReadNormal == NormalData(AllCame, TriesAfter(TakenBytes))

\* read_http_data() of a connection that was closed
ReadDone ==
    /\ at = "handle" /\ st = "closed"
    /\ Finish(entry, from)
    /\ UNCHANGED <<blacklisted, requests, srv, ver>>

\* The loop of read_chunked_http_data()
ReadChunked ==
    /\ at = "handle" /\ st # "closed" /\ http.left = Chunked
    /\ at' = "chunks"
    /\ UNCHANGED <<connVars, st, rb, entry, requests, srv, ver, request, netVars>>

\* is_line_in_buffer(): the length of the first line with its end, 0 for none.
Line == LET ends == {i \in DOMAIN rb : rb[i].k = "LF"}
        IN  IF ends = {} THEN 0 ELSE Min(ends)
Killed(n) == rb' = SubSeq(rb, n + 1, Len(rb))       \* kill_buffer_data()

Looping == at = "chunks"
loopRest == <<st, start, request, netVars, blacklisted, requests, srv, ver>>

ChunkTrailer ==
    /\ Looping /\ http.chunk = DataEnd /\ Line > 0
    /\ IF Line <= 2
       THEN Finish(entry, from)
       ELSE Killed(Line) /\ UNCHANGED <<at, from, start, tries, http, entry, st, request, netVars>>
    /\ UNCHANGED <<blacklisted, requests, srv, ver>>

ChunkSize ==
    /\ Looping /\ http.chunk = Size /\ Line > 0
    /\ IF rb[1].k # "size"
       THEN Off                       \* S_HTTP_ERROR
       ELSE /\ Killed(Line)
            /\ http' = [http EXCEPT !.chunk = IF rb[1].n = 0 THEN Zero ELSE rb[1].n]
            /\ UNCHANGED <<at, from, start, tries, st, request, netVars>>
    /\ UNCHANGED <<entry, blacklisted, requests, srv, ver>>

\* The length of the line end that begins the buffer: 0 for none, 1 when its
\* second half has not come yet.
EolIn(s) == CASE s = <<>> -> 0
              [] s # <<>> /\ s[1].k = "LF" -> 1
              [] s # <<>> /\ s[1].k = "CR" -> 2
              [] OTHER -> -1

\* mutant: the line end after a chunk is expected in the same piece
ChunkDataEager ==
    /\ Looping /\ http.chunk >= 0
    /\ LET len == Min({http.chunk, Len(rb)})
           new == SubSeq(rb, 1, len)
           rest == SubSeq(rb, len + 1, Len(rb))
           eol == EolIn(rest)
       IN  /\ entry' = Added(entry, from, new)
           /\ from' = from + len
           /\ tries' = TriesAfter(new)
           /\ IF http.chunk > len
              THEN /\ http' = [http EXCEPT !.chunk = @ - len]
                   /\ rb' = rest /\ ReadMore
              ELSE /\ http' = [http EXCEPT !.chunk = Size]
                   /\ rb' = SubSeq(rest, Min({eol, Len(rest)}) + 1, Len(rest))
                   /\ UNCHANGED at
    /\ UNCHANGED loopRest

\* Data, and the line end after a chunk when it is there.
ChunkData ==
    /\ Looping /\ http.chunk >= 0
    /\ LET len == Min({http.chunk, Len(rb)})
           new == SubSeq(rb, 1, len)
           rest == SubSeq(rb, len + 1, Len(rb))
           eol == EolIn(rest)
       IN  IF http.chunk = len /\ eol = -1
           THEN Off /\ entry' = Added(entry, from, new)
           ELSE /\ entry' = Added(entry, from, new)
                /\ from' = from + len
                /\ tries' = TriesAfter(new)
                /\ IF http.chunk = len /\ eol > 0 /\ Len(rest) >= eol
                   THEN /\ http' = [http EXCEPT !.chunk = Size]
                        /\ rb' = SubSeq(rest, eol + 1, Len(rest))
                        /\ UNCHANGED at
                   ELSE /\ http' = [http EXCEPT !.chunk = @ - len]
                        /\ rb' = rest /\ ReadMore
                /\ UNCHANGED <<st, start, request, netVars>>
    /\ UNCHANGED <<blacklisted, requests, srv, ver>>

ChunkZero ==
    /\ Looping /\ http.chunk = Zero
    /\ http' = [http EXCEPT !.chunk = DataEnd]
    /\ UNCHANGED <<at, from, tries, rb, entry, loopRest>>

\* The line is not all there.
ChunkBreak ==
    /\ Looping /\ http.chunk \in {Size, DataEnd} /\ Line = 0
    /\ ReadMore
    /\ UNCHANGED <<from, tries, http, rb, entry, loopRest>>

Handle ==
    \/ NoHeader \/ NotModified \/ GotHeader \/ Receive \/ Closed
    \/ ReadNormal \/ ReadDone \/ ReadChunked
    \/ ChunkTrailer \/ ChunkSize \/ ChunkData \/ ChunkZero \/ ChunkBreak

Next ==
    \/ Handle \/ Timeout
    \/ LoadUri \/ CancelDownload
    \/ Answer \/ Cut \/ Edit

Spec == Init /\ [][Next]_vars /\ WF_vars(Handle) /\ WF_vars(Timeout)

-----------------------------------------------------------------------------
\* Properties

Held == DOMAIN entry.data
Complete == srv.tagged /\ ~entry.incomplete /\ ~entry.lax

\* What is kept as complete is one version of the document up to its last
\* byte, and from its first one unless a document that had changed was asked
\* for again: in whatever pieces it came, however often the connection broke,
\* whoever cancelled and while a request brings it up to date, provided the
\* server tells versions apart.  (A part that only the end of the connection
\* ended cannot be told from the whole, and the page of an error may stand
\* for a byte.)
WholeOrIncomplete ==
    /\ TypeOK
    /\ Complete => \E v \in Versions :
          /\ Held \subseteq 1 .. Length[v] /\ Length[v] \in Held
          /\ ~entry.late => Held = 1 .. Length[v]
          /\ \A n \in Held : entry.data[n].v # 0 => entry.data[n] = Byte(v, n)

\* In whatever pieces an answer comes, the reader of chunks is in step with
\* it: where it looks for a size or a line end there is one, or nothing yet,
\* so that no good answer ends in S_HTTP_ERROR.
ChunksInStep ==
    at = "chunks" =>
        /\ http.chunk = Size /\ rb # <<>> => rb[1].k = "size"
        /\ http.chunk >= 0 /\ Len(rb) > http.chunk => rb[http.chunk + 1].k = "CR"

\* What is held is of the version its tag names, unless an error gave it: the
\* next request would otherwise be answered with 304 for it.
TagNamesContent ==
    entry.tag # 0 => \A n \in Held : entry.data[n].v \in {0, entry.tag}

\* Every request ends when the server honours ranges and is done with errors,
\* however often the connection breaks: the tries are forgotten only when there
\* is something new.  (After an error the document is asked for from its
\* first byte, which cuts off what is held, so that it counts as new again.)
NoError == answer.code < 400
RequestsEnd == <>[]NoError => (srv.ranges = "right" /\ at # "off" ~> at = "off")
=============================================================================
