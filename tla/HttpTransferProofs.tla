-------------------------- MODULE HttpTransferProofs --------------------------
(***************************************************************************)
(* Theorems about HttpTransfer, proved for documents of any length and     *)
(* number of versions, any servers, framings and tries: the reader of      *)
(* chunks keeps in step with what comes, what the cache holds is of the    *)
(* version its tag names, and what is complete is one version of the       *)
(* document up to its end.                                                 *)
(*                                                                         *)
(* The invariant is about what has been received and not been read         *)
(* together with what is still under way: a part, from its start, of what  *)
(* is left of an answer at conn->from.  An error page is version 0.        *)
(***************************************************************************)
EXTENDS HttpTransfer, SequenceTheorems, TLAPS

Token == [k : {"byte", "size", "CR", "LF"}, v : Nat, n : Nat]

Extent(v) == IF v = 0 THEN Len(ErrorBody) ELSE Length[v]

\* Version v from offset f on
From(v, f) == [i \in 1 .. Extent(v) - f |-> Byte(v, f + i)]

-----------------------------------------------------------------------------
(* The stream s of an answer                                               *)

Has(s, i, k) == i \in DOMAIN s => s[i].k = k

\* The bytes of version v from offset f on, as far as they come
Plain(s, v, f) ==
    /\ f + Len(s) <= Extent(v)
    /\ \A i \in DOMAIN s : s[i] = Byte(v, f + i)

\* The line of the size of a chunk at i, whose data have offset f
AtSize(s, i, f, pos) == i \in DOMAIN s => s[i].k = "size" /\ pos[i] = f

\* n bytes after i, the first of which has offset f, the end of the line, and
\* another chunk
InChunk(s, i, n, f, v, pos) ==
    /\ f + n <= Extent(v)
    /\ \A j \in 1 .. n : i + j \in DOMAIN s => s[i + j] = Byte(v, f + j)
    /\ Has(s, i + n + 1, "CR") /\ Has(s, i + n + 2, "LF")
    /\ AtSize(s, i + n + 3, f + n, pos)

Offsets(pos) == pos \in [Nat -> Nat]

\* What follows the size of a chunk; pos[i] is the offset of its data.
Lines(s, v, pos) ==
    \A i \in DOMAIN s :
        s[i].k = "size" =>
            /\ Has(s, i + 1, "LF")
            /\ s[i].n = 0 => pos[i] = Extent(v) /\ Has(s, i + 2, "LF") /\ Len(s) <= i + 2
            /\ s[i].n > 0 => InChunk(s, i + 1, s[i].n, pos[i], v, pos)

\* Where the reader of chunks is
Place(s, c, f, v, pos) ==
    /\ c = Size => AtSize(s, 1, f, pos)
    /\ c >= 0 => InChunk(s, 0, c, f, v, pos)
    /\ c \in {Zero, DataEnd} => f = Extent(v) /\ Len(s) <= 1 /\ Has(s, 1, "LF")

\* http_connection_info h says rightly how s is to be read at offset f.
Reading(s, h, f, v) ==
    /\ f <= Extent(v)
    /\ h.left = Unknown => Plain(s, v, f)
    /\ h.left >= 0 => Plain(s, v, f) /\ f + h.left = Extent(v)
    /\ h.left = Chunked =>
         \E pos : Offsets(pos) /\ Lines(s, v, pos) /\ Place(s, h.chunk, f, v, pos)

-----------------------------------------------------------------------------
(* The inductive invariant                                                 *)

StateTyped ==
    /\ at \in {"off", "sent", "header", "wait", "handle", "chunks"}
    /\ tries \in -1 .. MaxTries - 1 /\ blacklisted \in BOOLEAN
    /\ st \in {"retry", "end", "closed"}
    /\ requests \in 0 .. MaxRequests
    /\ srv \in Servers /\ ver \in Versions /\ cut \in BOOLEAN

Info == [close : BOOLEAN, left : Nat \cup {Unknown, Chunked},
         chunk : Nat \cup {Size, Zero, DataEnd}, code : Nat]
Request == [range : Nat, tag : Versions \cup {0}, check : BOOLEAN]
Header == [code : Nat, start : Nat, framing : {"length", "chunked", "close"}, close : BOOLEAN,
           tag : Versions \cup {0}, length : Nat]
Data == UNION {[S -> Bytes] : S \in SUBSET (Nat \ {0})}
Entry == [data : Data, incomplete : BOOLEAN, tag : Versions \cup {0}, lax : BOOLEAN, late : BOOLEAN]

NetTyped ==
    /\ http \in Info /\ request \in Request /\ answer \in Header
    /\ rb \in Seq(Token) /\ wire \in Seq(Token)

EntryTyped ==
    /\ entry \in Entry
    /\ from \in Nat /\ start \in Nat

Tagging == ~srv.tagged => entry.tag = 0 /\ answer.tag = 0

\* A retry asks for what comes next, or for what the last answer was; no
\* connection, no offset.
Asking ==
    /\ at = "off" => from = 0 /\ start = 0
    /\ srv.ranges = "late" => start = 0
    /\ at \in {"sent", "header"} => request.range = IF from > 0 THEN from ELSE start

\* What the header says of the answer that follows
Answered(v) ==
    /\ v = 0 <=> answer.code >= 400
    /\ v = 0 => answer.start = 0 /\ answer.tag = 0
    /\ v # 0 => answer.tag = IF srv.tagged THEN v ELSE 0
    /\ answer.start \in {0, First}
    /\ v # 0 => answer.start < Extent(v)
    /\ answer.start + answer.length = Extent(v)
    /\ answer.framing = "close" => answer.close
    /\ IF answer.framing = "chunked" /\ answer.length > 0
       THEN \E pos : /\ Offsets(pos) /\ Lines(wire, v, pos)
                     /\ AtSize(wire, 1, answer.start, pos)
       ELSE Plain(wire, v, answer.start)

HeaderTrue ==
    at = "header" /\ answer.code # 304 => \E v \in Versions \cup {0} : Answered(v)

\* What comes is one version: the one whose tag the entry has.
Answering(v) ==
    /\ v = 0 <=> http.code >= 400
    /\ v # 0 /\ srv.tagged => entry.tag = v
    /\ v # 0 => start < Extent(v)
    /\ Reading(rb \o wire, http, from, v)

BodyTrue ==
    at \in {"wait", "handle", "chunks"} =>
        /\ at = "chunks" => http.left = Chunked
        /\ st # "retry" => http.close
        /\ \E v \in Versions \cup {0} : Answering(v)

Typed == StateTyped /\ NetTyped /\ EntryTyped
Steady == Tagging /\ Asking /\ HeaderTrue /\ BodyTrue
IInv == Typed /\ Steady

\* What is held is of the version the tag names, but for pages of errors.
Sound(e) == \A n \in DOMAIN e.data : e.data[n].v # 0 => e.data[n] = Byte(e.tag, n)
\* Nothing is missing before f.
Upto(e, f) == e.late \/ \A n \in 1 .. f : n \in DOMAIN e.data
\* What is complete is there up to the end of that version.
Ends(e) ==
    ~e.incomplete /\ ~e.lax =>
        /\ e.tag # 0
        /\ Length[e.tag] \in DOMAIN e.data
        /\ \A n \in DOMAIN e.data : n <= Length[e.tag]
        /\ Upto(e, Length[e.tag])
\* What an answer brought ends at f.
EndsAt(e, f) == f = start \/ f \in DOMAIN e.data

Read == at \in {"wait", "handle", "chunks"}

DataInv ==
    srv.tagged =>
        /\ Sound(entry) /\ Upto(entry, from) /\ Ends(entry)
        /\ Read => EndsAt(entry, from)

-----------------------------------------------------------------------------
(* Versions                                                                *)

LEMMA Constants ==
    /\ Versions \in SUBSET (Nat \ {0}) /\ 1 \in Versions
    /\ \A v \in Versions : Length[v] \in Nat \ {0} /\ v \in 1 .. Len(Length)
    /\ \A k \in 1 .. Len(Length) : k \in Versions
    /\ MaxTries \in Nat \ {0} /\ MaxRequests \in Nat
    /\ \A s \in Servers : s.ranges \in {"none", "right", "late"} /\ s.tagged \in BOOLEAN
    /\ \A f \in Framings : f \in {"length", "chunked", "close"}
<1>1. /\ Length \in Seq(Nat \ {0}) /\ Length # <<>>
      /\ MaxTries \in Nat \ {0} /\ MaxRequests \in Nat
      /\ Servers \subseteq [ranges : {"none", "right", "late"}, tagged : BOOLEAN]
      /\ Framings \subseteq {"length", "chunked", "close"}
  BY HttpTransferAssumption
<1>2. Versions = 1 .. Len(Length) /\ Len(Length) \in Nat \ {0}
  BY <1>1 DEF Versions
<1>3. \A v \in 1 .. Len(Length) : Length[v] \in Nat \ {0}
  BY <1>1
<1> QED
  BY <1>1, <1>2, <1>3

\* An error has a page of one byte or none.
LEMMA Extents ==
    /\ Extent(0) \in {0, 1}
    /\ ~ErrorPages => Extent(0) = 0
    /\ \A v \in Versions \cup {0} : v \in Nat /\ Extent(v) \in Nat
    /\ \A v \in Versions : v # 0 /\ Extent(v) = Length[v] /\ Extent(v) > 0
<1>1. Len(ErrorBody) \in {0, 1} /\ (~ErrorPages => Len(ErrorBody) = 0)
  BY HttpTransferAssumption DEF ErrorBody
<1> QED
  BY <1>1, Constants DEF Extent

\* The bytes of a version are bytes of the entry.
LEMMA BytesOf ==
    ASSUME NEW v \in Versions \cup {0}, NEW n \in Nat \ {0}, n <= Extent(v)
    PROVE  Byte(v, n) \in Bytes
<1>1. CASE v \in Versions
  BY <1>1, Constants, Extents DEF Bytes
<1>2. CASE v = 0
  <2>1. n = 1
    BY <1>2, Extents
  <2> QED
    BY <1>2, <2>1 DEF Bytes
<1> QED
  BY <1>1, <1>2

LEMMA Documents ==
    /\ \A v \in Versions, f \in Nat : Document(v, f) = From(v, f)
    /\ ErrorBody = From(0, 0)
    /\ \A v \in Versions \cup {0}, f \in Nat :
         f <= Extent(v) => Len(From(v, f)) = Extent(v) - f
<1>1. \A v \in Versions, f \in Nat : Document(v, f) = From(v, f)
  BY Extents DEF Document, From
<1>2. ErrorBody = From(0, 0)
  <2>1. CASE ErrorPages
    <3>1. ErrorBody = <<Byte(0, 1)>> /\ Extent(0) = 1
      BY <2>1 DEF ErrorBody, Extent
    <3>2. From(0, 0) = [i \in 1 .. 1 |-> Byte(0, 0 + i)]
      BY <3>1 DEF From
    <3>3. From(0, 0) = <<Byte(0, 1)>>
      BY <3>2
    <3> QED
      BY <3>1, <3>3
  <2>2. CASE ~ErrorPages
    <3>1. ErrorBody = <<>> /\ Extent(0) = 0
      BY <2>2, Extents DEF ErrorBody
    <3> QED
      BY <3>1 DEF From
  <2> QED
    BY <2>1, <2>2
<1>4. ASSUME NEW v \in Versions \cup {0}, NEW f \in Nat, f <= Extent(v)
      PROVE  Len(From(v, f)) = Extent(v) - f
  <2>1. Extent(v) - f \in Nat
    BY <1>4, Extents
  <2> QED
    BY <2>1 DEF From
<1> QED
  BY <1>1, <1>2, <1>4

-----------------------------------------------------------------------------
(* Streams                                                                 *)

\* t is s without its first n tokens, or a part of that from its start.
After(s, t, n) ==
    /\ n \in Nat /\ t \in Seq(Token) /\ Len(t) + n <= Len(s)
    /\ \A i \in DOMAIN t : t[i] = s[i + n]

LEMMA AfterFacts ==
    ASSUME NEW s \in Seq(Token), NEW t, NEW n, After(s, t, n)
    PROVE  /\ n \in Nat /\ Len(s) \in Nat /\ Len(t) \in Nat /\ Len(t) + n <= Len(s)
           /\ t \in Seq(Token) /\ DOMAIN t = 1 .. Len(t) /\ DOMAIN s = 1 .. Len(s)
           /\ \A i \in DOMAIN t : /\ i \in Nat \ {0} /\ i + n \in DOMAIN s
                                 /\ t[i] = s[i + n] /\ t[i] \in Token
BY DEF After

LEMMA AfterAfter ==
    ASSUME NEW s \in Seq(Token), NEW t, NEW u, NEW n, NEW m, After(s, t, n), After(t, u, m)
    PROVE  After(s, u, n + m)
<1>1. /\ n \in Nat /\ m \in Nat /\ t \in Seq(Token) /\ u \in Seq(Token)
      /\ Len(s) \in Nat /\ Len(t) \in Nat /\ Len(u) \in Nat
      /\ Len(t) + n <= Len(s) /\ Len(u) + m <= Len(t)
  BY AfterFacts
<1>2. n + m \in Nat /\ Len(u) + (n + m) <= Len(s)
  BY <1>1
<1>3. ASSUME NEW i \in DOMAIN u PROVE u[i] = s[i + (n + m)]
  <2>1. i \in Nat /\ u[i] = t[i + m] /\ i + m \in DOMAIN t
    BY <1>1, <1>3, AfterFacts
  <2>2. t[i + m] = s[(i + m) + n]
    BY <2>1 DEF After
  <2>3. (i + m) + n = i + (n + m)
    BY <1>1, <2>1
  <2> QED
    BY <2>1, <2>2, <2>3
<1> QED
  BY <1>1, <1>2, <1>3 DEF After

LEMMA PlainAfter ==
    ASSUME NEW s \in Seq(Token), NEW t, NEW n, After(s, t, n),
           NEW v \in Versions \cup {0}, NEW f \in Nat, Plain(s, v, f)
    PROVE  Plain(t, v, f + n)
<1>1. Extent(v) \in Nat /\ Len(s) \in Nat /\ Len(t) \in Nat /\ n \in Nat
  BY Extents DEF After
<1>2. \A i \in DOMAIN t : i \in Nat /\ i + n \in DOMAIN s /\ f + (i + n) = (f + n) + i
  BY <1>1 DEF After
<1> QED
  BY <1>1, <1>2 DEF Plain, After

LEMMA HasAfter ==
    ASSUME NEW s \in Seq(Token), NEW t, NEW n, After(s, t, n), NEW i \in Nat \ {0}, NEW k,
           Has(s, i + n, k)
    PROVE  Has(t, i, k)
BY DEF Has, After

Shifted(pos, n) == [i \in Nat |-> pos[i + n]]

LEMMA AtSizeAfter ==
    ASSUME NEW s \in Seq(Token), NEW t, NEW n, After(s, t, n), NEW i \in Nat \ {0}, NEW f,
           NEW pos, AtSize(s, i + n, f, pos)
    PROVE  AtSize(t, i, f, Shifted(pos, n))
BY DEF AtSize, After, Shifted

LEMMA InChunkAfter ==
    ASSUME NEW s \in Seq(Token), NEW t, NEW n, After(s, t, n), NEW i \in Nat, NEW m \in Nat,
           NEW f \in Nat, NEW v, NEW pos, InChunk(s, i + n, m, f, v, pos)
    PROVE  InChunk(t, i, m, f, v, Shifted(pos, n))
<1>1. n \in Nat /\ Len(s) \in Nat /\ Len(t) \in Nat /\ Len(t) + n <= Len(s)
      /\ DOMAIN t = 1 .. Len(t) /\ DOMAIN s = 1 .. Len(s)
  BY DEF After
<1>2. /\ f + m <= Extent(v)
      /\ \A j \in 1 .. m : i + n + j \in DOMAIN s => s[i + n + j] = Byte(v, f + j)
      /\ Has(s, i + n + m + 1, "CR") /\ Has(s, i + n + m + 2, "LF")
      /\ AtSize(s, i + n + m + 3, f + m, pos)
  BY DEF InChunk
<1>3. ASSUME NEW j \in 1 .. m, i + j \in DOMAIN t PROVE t[i + j] = Byte(v, f + j)
  <2>1. i + n + j \in DOMAIN s /\ i + n + j = (i + j) + n
    BY <1>1, <1>3
  <2> QED
    BY <1>2, <1>3, <2>1 DEF After
<1>4. Has(t, i + m + 1, "CR") /\ Has(t, i + m + 2, "LF")
  <2>1. /\ (i + m + 1) + n = i + n + m + 1 /\ (i + m + 2) + n = i + n + m + 2
        /\ i + m + 1 \in Nat \ {0} /\ i + m + 2 \in Nat \ {0}
    BY <1>1
  <2> QED
    BY <1>2, <2>1, HasAfter
<1>5. AtSize(t, i + m + 3, f + m, Shifted(pos, n))
  <2>1. (i + m + 3) + n = i + n + m + 3 /\ i + m + 3 \in Nat \ {0}
    BY <1>1
  <2> QED
    BY <1>2, <2>1, AtSizeAfter
<1> QED
  BY <1>2, <1>3, <1>4, <1>5 DEF InChunk

LEMMA ShiftedType ==
    ASSUME NEW n \in Nat, NEW pos, Offsets(pos)
    PROVE  Offsets(Shifted(pos, n))
BY DEF Shifted, Offsets

LEMMA LinesAfter ==
    ASSUME NEW s \in Seq(Token), NEW t, NEW n, After(s, t, n),
           NEW v, NEW pos, Offsets(pos), Lines(s, v, pos)
    PROVE  Lines(t, v, Shifted(pos, n))
<1>1. n \in Nat /\ Len(s) \in Nat /\ Len(t) \in Nat /\ Len(t) + n <= Len(s)
      /\ DOMAIN t = 1 .. Len(t) /\ DOMAIN s = 1 .. Len(s)
  BY AfterFacts
<1>2. \A i \in Nat : Shifted(pos, n)[i] = pos[i + n]
  BY <1>1 DEF Shifted
<1>3. ASSUME NEW i \in DOMAIN t, t[i].k = "size"
      PROVE  /\ Has(t, i + 1, "LF")
             /\ t[i].n = 0 => /\ Shifted(pos, n)[i] = Extent(v)
                              /\ Has(t, i + 2, "LF") /\ Len(t) <= i + 2
             /\ t[i].n > 0 => InChunk(t, i + 1, t[i].n, Shifted(pos, n)[i], v, Shifted(pos, n))
  <2>1. i \in Nat /\ i + n \in DOMAIN s /\ t[i] = s[i + n] /\ t[i] \in Token
    BY <1>3, AfterFacts
  <2>2. /\ Has(s, i + n + 1, "LF")
        /\ t[i].n = 0 => pos[i + n] = Extent(v) /\ Has(s, i + n + 2, "LF") /\ Len(s) <= i + n + 2
        /\ t[i].n > 0 => InChunk(s, i + n + 1, t[i].n, pos[i + n], v, pos)
    BY <1>3, <2>1 DEF Lines
  <2>3. i + n + 1 = (i + 1) + n /\ i + n + 2 = (i + 2) + n
    BY <1>1, <2>1
  <2>4. Has(t, i + 1, "LF")
    BY <2>1, <2>2, <2>3, HasAfter
  <2>5. ASSUME t[i].n = 0
        PROVE  Shifted(pos, n)[i] = Extent(v) /\ Has(t, i + 2, "LF") /\ Len(t) <= i + 2
    <3>1. Has(t, i + 2, "LF")
      BY <2>1, <2>2, <2>3, <2>5, HasAfter
    <3>2. Len(t) <= i + 2
      BY <1>1, <2>1, <2>2, <2>5
    <3> QED
      BY <1>2, <2>1, <2>2, <2>5, <3>1, <3>2
  <2>6. ASSUME t[i].n > 0
        PROVE  InChunk(t, i + 1, t[i].n, Shifted(pos, n)[i], v, Shifted(pos, n))
    <3>1. t[i].n \in Nat /\ pos[i + n] \in Nat
      <4>1. t[i].n \in Nat
        BY <2>1 DEF Token
      <4>2. i + n \in Nat
        BY <1>1, <2>1
      <4> QED
        BY <4>1, <4>2 DEF Offsets
    <3>2. InChunk(s, (i + 1) + n, t[i].n, pos[i + n], v, pos)
      BY <2>2, <2>3, <2>6
    <3>3. InChunk(t, i + 1, t[i].n, pos[i + n], v, Shifted(pos, n))
      BY <2>1, <3>1, <3>2, InChunkAfter
    <3> QED
      BY <1>2, <2>1, <3>3
  <2> QED
    BY <2>4, <2>5, <2>6
<1> QED
  BY <1>2, <1>3 DEF Lines

-----------------------------------------------------------------------------
(* The reader goes on.                                                     *)

LEMMA ReadingBreaks ==
    ASSUME NEW s \in Seq(Token), NEW t, After(s, t, 0), NEW h \in Info,
           NEW v \in Versions \cup {0}, NEW f \in Nat, Reading(s, h, f, v)
    PROVE  Reading(t, h, f, v)
<1>1. Plain(s, v, f) => Plain(t, v, f)
  <2>1. f + 0 = f
    OBVIOUS
  <2> QED
    BY <2>1, PlainAfter
<1>2. Len(s) \in Nat /\ Len(t) \in Nat /\ Len(t) <= Len(s)
  <2>1. Len(t) + 0 <= Len(s) /\ Len(s) \in Nat /\ Len(t) \in Nat
    BY AfterFacts
  <2> QED
    BY <2>1
<1>3. ASSUME NEW pos, Offsets(pos), Lines(s, v, pos), Place(s, h.chunk, f, v, pos)
      PROVE  /\ Lines(t, v, Shifted(pos, 0)) /\ Offsets(Shifted(pos, 0))
             /\ Place(t, h.chunk, f, v, Shifted(pos, 0))
  <2>1. Lines(t, v, Shifted(pos, 0)) /\ Offsets(Shifted(pos, 0))
    BY <1>3, LinesAfter, ShiftedType
  <2>2. AtSize(s, 1, f, pos) => AtSize(t, 1, f, Shifted(pos, 0))
    <3>1. 1 + 0 = 1
      OBVIOUS
    <3> QED
      BY <3>1, AtSizeAfter
  <2>3. ASSUME h.chunk >= 0, InChunk(s, 0, h.chunk, f, v, pos)
        PROVE  InChunk(t, 0, h.chunk, f, v, Shifted(pos, 0))
    <3>1. h.chunk \in Nat /\ 0 + 0 = 0
      BY <2>3 DEF Info, Size, Zero, DataEnd
    <3> QED
      BY <2>3, <3>1, InChunkAfter
  <2>4. Has(s, 1, "LF") => Has(t, 1, "LF")
    <3>1. 1 + 0 = 1
      OBVIOUS
    <3> QED
      BY <3>1, HasAfter
  <2>5. h.chunk = Size => AtSize(t, 1, f, Shifted(pos, 0))
    BY <1>3, <2>2 DEF Place
  <2>6. h.chunk >= 0 => InChunk(t, 0, h.chunk, f, v, Shifted(pos, 0))
    BY <1>3, <2>3 DEF Place
  <2>7. h.chunk \in {Zero, DataEnd} => f = Extent(v) /\ Len(t) <= 1 /\ Has(t, 1, "LF")
    BY <1>2, <1>3, <2>4 DEF Place
  <2> QED
    BY <2>1, <2>5, <2>6, <2>7 DEF Place
<1> QED
  BY <1>1, <1>3 DEF Reading

\* read_normal_http_data(): n bytes of a body that is not in chunks
LEMMA ReadingPlain ==
    ASSUME NEW s \in Seq(Token), NEW t, NEW n, After(s, t, n), NEW h \in Info, NEW g \in Info,
           NEW v \in Versions \cup {0}, NEW f \in Nat, Reading(s, h, f, v),
           h.left # Chunked, g.left = IF h.left > 0 THEN h.left - n ELSE h.left
    PROVE  /\ Reading(t, g, f + n, v)
           /\ Plain(s, v, f)
           /\ h.left >= 0 => Len(s) <= h.left /\ f + h.left = Extent(v)
<1>1. n \in Nat /\ Len(s) \in Nat /\ Len(t) \in Nat /\ Len(t) + n <= Len(s)
  BY AfterFacts
<1>2. Extent(v) \in Nat
  BY Extents
<1>3. h.left \in Nat \/ h.left = Unknown
  BY DEF Info
<1>4. Plain(s, v, f) /\ f + Len(s) <= Extent(v)
  BY <1>3 DEF Reading, Plain
<1>5. Plain(t, v, f + n) /\ f + n <= Extent(v)
  BY <1>1, <1>2, <1>4, PlainAfter
<1>6. ASSUME h.left >= 0 PROVE Len(s) <= h.left /\ f + h.left = Extent(v) /\ h.left \in Nat
  <2>1. f + h.left = Extent(v) /\ h.left \in Nat
    BY <1>3, <1>6 DEF Reading, Unknown
  <2> QED
    BY <1>1, <1>2, <1>4, <2>1
<1>7. CASE h.left = Unknown
  <2>1. g.left = Unknown /\ ~(g.left >= 0) /\ ~(h.left >= 0)
    BY <1>7 DEF Unknown
  <2> QED
    BY <1>4, <1>5, <2>1 DEF Reading, Unknown, Chunked
<1>8. CASE h.left \in Nat
  <2>1. Len(s) <= h.left /\ f + h.left = Extent(v)
    BY <1>6, <1>8
  <2>2. g.left = h.left - n /\ g.left \in Nat /\ (f + n) + g.left = Extent(v)
    BY <1>1, <1>2, <1>8, <2>1
  <2>3. g.left # Unknown /\ g.left # Chunked
    BY <2>2 DEF Unknown, Chunked
  <2> QED
    BY <1>4, <1>5, <2>1, <2>2, <2>3 DEF Reading
<1> QED
  BY <1>3, <1>7, <1>8

\* read_chunked_http_data(): the line of a size
LEMMA ReadingSize ==
    ASSUME NEW s \in Seq(Token), s # <<>>, NEW t, After(s, t, 2), NEW h \in Info, NEW g \in Info,
           NEW v \in Versions \cup {0}, NEW f \in Nat, Reading(s, h, f, v),
           h.left = Chunked, h.chunk = Size,
           g.left = Chunked, g.chunk = IF s[1].n = 0 THEN Zero ELSE s[1].n
    PROVE  s[1].k = "size" /\ Reading(t, g, f, v)
<1>1. Len(s) \in Nat /\ Len(t) \in Nat /\ Len(t) + 2 <= Len(s)
      /\ DOMAIN t = 1 .. Len(t) /\ DOMAIN s = 1 .. Len(s)
  BY AfterFacts
<1>2. 1 \in DOMAIN s /\ s[1] \in Token /\ s[1].n \in Nat
  <2>1. 1 \in DOMAIN s /\ s[1] \in Token
    OBVIOUS
  <2> QED
    BY <2>1 DEF Token
<1>3. PICK pos : Offsets(pos) /\ Lines(s, v, pos) /\ Place(s, h.chunk, f, v, pos)
  BY DEF Reading
<1>4. s[1].k = "size" /\ pos[1] = f
  BY <1>2, <1>3 DEF Place, AtSize
<1>5. /\ s[1].n = 0 => f = Extent(v) /\ Has(s, 3, "LF") /\ Len(s) <= 3
      /\ s[1].n > 0 => InChunk(s, 2, s[1].n, f, v, pos)
  <2>1. /\ s[1].n = 0 => pos[1] = Extent(v) /\ Has(s, 1 + 2, "LF") /\ Len(s) <= 1 + 2
        /\ s[1].n > 0 => InChunk(s, 1 + 1, s[1].n, pos[1], v, pos)
    BY <1>2, <1>3, <1>4 DEF Lines
  <2>2. 1 + 2 = 3 /\ 1 + 1 = 2
    OBVIOUS
  <2> QED
    BY <1>4, <2>1, <2>2
<1>6. Lines(t, v, Shifted(pos, 2)) /\ Offsets(Shifted(pos, 2))
  BY <1>3, LinesAfter, ShiftedType
<1>7. f <= Extent(v) /\ g.left = -2
  BY DEF Reading, Chunked
<1>8. CASE s[1].n = 0
  <2>1. g.chunk = -2
    BY <1>8 DEF Zero
  <2>2. f = Extent(v) /\ Has(s, 1 + 2, "LF") /\ Len(t) <= 1
    BY <1>1, <1>5, <1>8
  <2>3. Has(t, 1, "LF")
    BY <2>2, HasAfter
  <2>4. Place(t, g.chunk, f, v, Shifted(pos, 2))
    BY <2>1, <2>2, <2>3 DEF Place, Size
  <2> QED
    BY <1>4, <1>6, <1>7, <2>4 DEF Reading, Unknown
<1>9. CASE s[1].n > 0
  <2>1. g.chunk = s[1].n /\ g.chunk \in Nat \ {0}
    BY <1>2, <1>9
  <2>2. InChunk(s, 0 + 2, g.chunk, f, v, pos)
    BY <1>5, <1>9, <2>1
  <2>3. InChunk(t, 0, g.chunk, f, v, Shifted(pos, 2))
    BY <2>1, <2>2, InChunkAfter
  <2>4. Place(t, g.chunk, f, v, Shifted(pos, 2))
    BY <2>1, <2>3 DEF Place, Size, Zero, DataEnd
  <2> QED
    BY <1>4, <1>6, <1>7, <2>4 DEF Reading, Unknown
<1> QED
  BY <1>2, <1>8, <1>9

\* The data of a chunk
LEMMA InChunkData ==
    ASSUME NEW s \in Seq(Token), NEW c \in Nat, NEW v \in Versions \cup {0}, NEW f \in Nat,
           NEW pos, InChunk(s, 0, c, f, v, pos)
    PROVE  /\ f + c <= Extent(v)
           /\ \A j \in 1 .. c : j \in DOMAIN s => s[j] = Byte(v, f + j)
           /\ Has(s, c + 1, "CR") /\ Has(s, c + 2, "LF")
           /\ AtSize(s, c + 3, f + c, pos)
<1>1. /\ f + c <= Extent(v)
      /\ \A j \in 1 .. c : 0 + j \in DOMAIN s => s[0 + j] = Byte(v, f + j)
      /\ Has(s, 0 + c + 1, "CR") /\ Has(s, 0 + c + 2, "LF")
      /\ AtSize(s, 0 + c + 3, f + c, pos)
  BY DEF InChunk
<1>2. 0 + c + 1 = c + 1 /\ 0 + c + 2 = c + 2 /\ 0 + c + 3 = c + 3
  OBVIOUS
<1>3. \A j \in 1 .. c : 0 + j = j
  OBVIOUS
<1> QED
  BY <1>1, <1>2, <1>3

\* A part of a chunk
LEMMA ReadingPart ==
    ASSUME NEW s \in Seq(Token), NEW t, NEW n, After(s, t, n), NEW h \in Info, NEW g \in Info,
           NEW v \in Versions \cup {0}, NEW f \in Nat, Reading(s, h, f, v),
           h.left = Chunked, h.chunk \in Nat, n <= h.chunk,
           g.left = Chunked, g.chunk = h.chunk - n
    PROVE  Reading(t, g, f + n, v)
<1> DEFINE c == h.chunk
<1>1. n \in Nat /\ Len(s) \in Nat /\ Len(t) \in Nat /\ Len(t) + n <= Len(s)
      /\ DOMAIN t = 1 .. Len(t) /\ DOMAIN s = 1 .. Len(s) /\ t \in Seq(Token)
  BY AfterFacts
<1>2. c \in Nat /\ c - n \in Nat /\ Extent(v) \in Nat
  BY <1>1, Extents
<1>3. PICK pos : Offsets(pos) /\ Lines(s, v, pos) /\ Place(s, c, f, v, pos)
  BY DEF Reading
<1>4. InChunk(s, 0, c, f, v, pos)
  BY <1>2, <1>3 DEF Place
<1>5. /\ f + c <= Extent(v)
      /\ \A j \in 1 .. c : j \in DOMAIN s => s[j] = Byte(v, f + j)
      /\ Has(s, c + 1, "CR") /\ Has(s, c + 2, "LF")
      /\ AtSize(s, c + 3, f + c, pos)
  BY <1>2, <1>4, InChunkData
<1>6. Lines(t, v, Shifted(pos, n)) /\ Offsets(Shifted(pos, n))
  BY <1>1, <1>3, LinesAfter, ShiftedType
<1> HIDE DEF c
<1> DEFINE m == c - n
<1>7. m \in Nat /\ m + n = c /\ (f + n) + m = f + c
  BY <1>1, <1>2
<1>8. (m + 1) + n = c + 1 /\ (m + 2) + n = c + 2 /\ (m + 3) + n = c + 3
  BY <1>1, <1>7
<1> HIDE DEF m
<1>9. ASSUME NEW j \in 1 .. m, 0 + j \in DOMAIN t PROVE t[0 + j] = Byte(v, (f + n) + j)
  <2>1. 0 + j = j /\ j + n \in 1 .. c /\ f + (j + n) = (f + n) + j
    BY <1>1, <1>7
  <2>2. t[j] = s[j + n] /\ j + n \in DOMAIN s
    BY <1>9, <2>1, AfterFacts
  <2> QED
    BY <1>5, <2>1, <2>2
<1>10. Has(t, m + 1, "CR") /\ Has(t, m + 2, "LF")
  <2>1. m + 1 \in Nat \ {0} /\ m + 2 \in Nat \ {0}
    BY <1>7
  <2> QED
    BY <1>5, <1>8, <2>1, HasAfter
<1>11. AtSize(t, m + 3, f + c, Shifted(pos, n))
  <2>1. m + 3 \in Nat \ {0}
    BY <1>7
  <2> QED
    BY <1>5, <1>8, <2>1, AtSizeAfter
<1>12. InChunk(t, 0, m, f + n, v, Shifted(pos, n))
  <2>1. 0 + m + 1 = m + 1 /\ 0 + m + 2 = m + 2 /\ 0 + m + 3 = m + 3
    BY <1>7
  <2> QED
    BY <1>5, <1>7, <1>9, <1>10, <1>11, <2>1 DEF InChunk
<1>13. g.chunk = m /\ g.chunk >= 0 /\ g.left = -2
  BY <1>7 DEF m, c, Chunked
<1>14. Place(t, g.chunk, f + n, v, Shifted(pos, n))
  BY <1>7, <1>12, <1>13 DEF Place, Size, Zero, DataEnd
<1>15. f + n <= Extent(v)
  BY <1>1, <1>2, <1>5, <1>7
<1> QED
  BY <1>6, <1>13, <1>14, <1>15 DEF Reading, Unknown

\* The end of a chunk, with the end of its line
LEMMA ReadingEnd ==
    ASSUME NEW s \in Seq(Token), NEW t, NEW h \in Info, NEW g \in Info,
           NEW v \in Versions \cup {0}, NEW f \in Nat, Reading(s, h, f, v),
           h.left = Chunked, h.chunk \in Nat, After(s, t, h.chunk + 2),
           g.left = Chunked, g.chunk = Size
    PROVE  Reading(t, g, f + h.chunk, v)
<1> DEFINE c == h.chunk
<1>1. c \in Nat /\ Extent(v) \in Nat /\ t \in Seq(Token) /\ c + 2 \in Nat
  BY Extents, AfterFacts
<1>2. PICK pos : Offsets(pos) /\ Lines(s, v, pos) /\ Place(s, c, f, v, pos)
  BY DEF Reading
<1>3. InChunk(s, 0, c, f, v, pos)
  BY <1>1, <1>2 DEF Place
<1>4. f + c <= Extent(v) /\ AtSize(s, c + 3, f + c, pos)
  BY <1>1, <1>3, InChunkData
<1>5. Lines(t, v, Shifted(pos, c + 2)) /\ Offsets(Shifted(pos, c + 2))
  BY <1>1, <1>2, LinesAfter, ShiftedType
<1>6. AtSize(t, 1, f + c, Shifted(pos, c + 2))
  <2>1. 1 + (c + 2) = c + 3 /\ f + c \in Nat
    BY <1>1
  <2> QED
    BY <1>4, <2>1, AtSizeAfter
<1>7. Place(t, g.chunk, f + c, v, Shifted(pos, c + 2))
  BY <1>6 DEF Place, Size, Zero, DataEnd
<1>8. g.left = -2
  BY DEF Chunked
<1> QED
  BY <1>4, <1>5, <1>7, <1>8 DEF Reading, Unknown

LEMMA ReadingZero ==
    ASSUME NEW s \in Seq(Token), NEW h \in Info, NEW g \in Info,
           NEW v \in Versions \cup {0}, NEW f \in Nat, Reading(s, h, f, v),
           h.left = Chunked, h.chunk = Zero, g.left = Chunked, g.chunk = DataEnd
    PROVE  Reading(s, g, f, v)
<1>1. \A pos : Place(s, Zero, f, v, pos) => Place(s, DataEnd, f, v, pos)
  BY DEF Place, Size, Zero, DataEnd
<1>2. g.left = -2 /\ h.left = -2
  BY DEF Chunked
<1> QED
  BY <1>1, <1>2 DEF Reading, Unknown

-----------------------------------------------------------------------------
(* The answer of a server                                                  *)

LEMMA LastChunkEntries ==
    /\ LastChunk \in Seq(Token) /\ Len(LastChunk) = 3
    /\ LastChunk[1] = Mark("size", 0) /\ LastChunk[2] = Mark("LF", 0) /\ LastChunk[3] = Mark("LF", 0)
    /\ Mark("size", 0) \in Token /\ Mark("CR", 0) \in Token /\ Mark("LF", 0) \in Token
    /\ \A n \in Nat : Mark("size", n) \in Token /\ Mark("size", n).k = "size" /\ Mark("size", n).n = n
    /\ Mark("CR", 0).k = "CR" /\ Mark("LF", 0).k = "LF"
    /\ \A v \in Nat, n \in Nat : Byte(v, n) \in Token /\ Byte(v, n).k = "byte"
<1>1. /\ Mark("size", 0) \in Token /\ Mark("CR", 0) \in Token /\ Mark("LF", 0) \in Token
      /\ \A n \in Nat : Mark("size", n) \in Token /\ Mark("size", n).k = "size" /\ Mark("size", n).n = n
      /\ Mark("CR", 0).k = "CR" /\ Mark("LF", 0).k = "LF"
  BY DEF Mark, Token
<1>2. \A v \in Nat, n \in Nat : Byte(v, n) \in Token /\ Byte(v, n).k = "byte"
  BY DEF Byte, Token
<1> QED
  BY <1>1, <1>2 DEF LastChunk

LEMMA Joined ==
    ASSUME NEW a \in Seq(Token), NEW b \in Seq(Token)
    PROVE  /\ a \o b \in Seq(Token) /\ Len(a \o b) = Len(a) + Len(b)
           /\ Len(a) \in Nat /\ Len(b) \in Nat
           /\ \A i \in 1 .. Len(a) : (a \o b)[i] = a[i]
           /\ \A i \in 1 .. Len(b) : (a \o b)[Len(a) + i] = b[i]
<1> DEFINE w == a \o b
<1>1. /\ w \in Seq(Token) /\ Len(w) = Len(a) + Len(b)
      /\ \A i \in 1 .. Len(a) + Len(b) : w[i] = IF i <= Len(a) THEN a[i] ELSE b[i - Len(a)]
  BY ConcatProperties
<1>2. Len(a) \in Nat /\ Len(b) \in Nat
  OBVIOUS
<1> HIDE DEF w
<1>3. ASSUME NEW i \in 1 .. Len(a) PROVE w[i] = a[i]
  BY <1>1, <1>2
<1>4. ASSUME NEW i \in 1 .. Len(b) PROVE w[Len(a) + i] = b[i]
  <2>1. /\ Len(a) + i \in 1 .. Len(a) + Len(b) /\ ~(Len(a) + i <= Len(a))
        /\ (Len(a) + i) - Len(a) = i
    BY <1>2
  <2> QED
    BY <1>1, <2>1
<1> QED
  BY <1>1, <1>2, <1>3, <1>4 DEF w

\* A chunk of the bytes b, entry by entry
LEMMA OneChunkEntries ==
    ASSUME NEW b \in Seq(Token)
    PROVE  /\ OneChunk(b) \in Seq(Token) /\ Len(OneChunk(b)) = Len(b) + 4
           /\ OneChunk(b)[1] = Mark("size", Len(b)) /\ OneChunk(b)[2] = Mark("LF", 0)
           /\ \A j \in 1 .. Len(b) : OneChunk(b)[j + 2] = b[j]
           /\ OneChunk(b)[Len(b) + 3] = Mark("CR", 0) /\ OneChunk(b)[Len(b) + 4] = Mark("LF", 0)
<1> DEFINE p == <<Mark("size", Len(b)), Mark("LF", 0)>>
           q == <<Mark("CR", 0), Mark("LF", 0)>>
           r == p \o b
<1>1. /\ p \in Seq(Token) /\ Len(p) = 2 /\ p[1] = Mark("size", Len(b)) /\ p[2] = Mark("LF", 0)
      /\ q \in Seq(Token) /\ Len(q) = 2 /\ q[1] = Mark("CR", 0) /\ q[2] = Mark("LF", 0)
      /\ Len(b) \in Nat
  BY LastChunkEntries
<1> HIDE DEF p, q
<1>2. /\ r \in Seq(Token) /\ Len(r) = Len(b) + 2
      /\ r[1] = p[1] /\ r[2] = p[2]
      /\ \A j \in 1 .. Len(b) : r[j + 2] = b[j]
  <2>1. /\ r \in Seq(Token) /\ Len(r) = Len(p) + Len(b)
        /\ \A i \in 1 .. Len(p) : r[i] = p[i]
        /\ \A i \in 1 .. Len(b) : r[Len(p) + i] = b[i]
    BY <1>1, Joined
  <2> HIDE DEF r
  <2>2. \A i \in 1 .. Len(b) : Len(p) + i = i + 2
    BY <1>1
  <2> QED
    BY <1>1, <2>1, <2>2
<1> HIDE DEF r
<1> DEFINE w == r \o q
<1>3. /\ w \in Seq(Token) /\ Len(w) = Len(b) + 4
      /\ \A j \in 1 .. Len(b) + 2 : w[j] = r[j]
      /\ w[Len(b) + 3] = q[1] /\ w[Len(b) + 4] = q[2]
  <2>1. /\ w \in Seq(Token) /\ Len(w) = Len(r) + Len(q)
        /\ \A i \in 1 .. Len(r) : w[i] = r[i]
        /\ \A i \in 1 .. Len(q) : w[Len(r) + i] = q[i]
    BY <1>1, <1>2, Joined
  <2> HIDE DEF w
  <2>2. Len(r) + 1 = Len(b) + 3 /\ Len(r) + 2 = Len(b) + 4 /\ 1 \in 1 .. Len(q) /\ 2 \in 1 .. Len(q)
    BY <1>1, <1>2
  <2> QED
    BY <1>1, <1>2, <2>1, <2>2
<1>4. w = OneChunk(b)
  BY DEF OneChunk, w, r, p, q
<1> HIDE DEF w
<1>5. /\ w[1] = p[1] /\ w[2] = p[2]
      /\ \A j \in 1 .. Len(b) : w[j + 2] = b[j]
  <2>1. ASSUME NEW j \in 1 .. Len(b) PROVE w[j + 2] = b[j]
    <3>1. j + 2 \in 1 .. Len(b) + 2
      BY <1>1
    <3> QED
      BY <1>2, <1>3, <3>1
  <2>2. 1 \in 1 .. Len(b) + 2 /\ 2 \in 1 .. Len(b) + 2
    BY <1>1
  <2> QED
    BY <1>2, <1>3, <2>1, <2>2
<1> QED
  BY <1>1, <1>3, <1>4, <1>5

\* What a server puts before the last chunk, and the last one
LEMMA WithLastChunk ==
    ASSUME NEW b \in Seq(Token)
    PROVE  LET w == b \o LastChunk
           IN  /\ w \in Seq(Token) /\ Len(w) = Len(b) + 3
               /\ \A i \in 1 .. Len(b) : w[i] = b[i]
               /\ w[Len(b) + 1] = Mark("size", 0)
               /\ w[Len(b) + 2] = Mark("LF", 0) /\ w[Len(b) + 3] = Mark("LF", 0)
<1> DEFINE w == b \o LastChunk
<1>1. 1 \in 1 .. Len(LastChunk) /\ 2 \in 1 .. Len(LastChunk) /\ 3 \in 1 .. Len(LastChunk)
  BY LastChunkEntries
<1>2. /\ w \in Seq(Token) /\ Len(w) = Len(b) + Len(LastChunk)
      /\ \A i \in 1 .. Len(b) : w[i] = b[i]
      /\ \A i \in 1 .. Len(LastChunk) : w[Len(b) + i] = LastChunk[i]
  BY LastChunkEntries, Joined
<1> HIDE DEF w
<1>3. Len(w) = Len(b) + 3
  BY <1>2, LastChunkEntries
<1>4. /\ w[Len(b) + 1] = Mark("size", 0)
      /\ w[Len(b) + 2] = Mark("LF", 0) /\ w[Len(b) + 3] = Mark("LF", 0)
  BY <1>1, <1>2, LastChunkEntries
<1> QED
  BY <1>2, <1>3, <1>4 DEF w

LEMMA FromTyped ==
    ASSUME NEW v \in Versions \cup {0}, NEW f \in Nat, f <= Extent(v)
    PROVE  /\ From(v, f) \in Seq(Token) /\ Len(From(v, f)) = Extent(v) - f
           /\ Extent(v) - f \in Nat
           /\ \A i \in 1 .. Extent(v) - f : From(v, f)[i] = Byte(v, f + i) /\ From(v, f)[i].k = "byte"
           /\ Plain(From(v, f), v, f)
<1>1. v \in Nat /\ Extent(v) \in Nat /\ Extent(v) - f \in Nat
  BY Extents
<1>2. \A i \in 1 .. Extent(v) - f : Byte(v, f + i) \in Token /\ Byte(v, f + i).k = "byte"
  <2> SUFFICES ASSUME NEW i \in 1 .. Extent(v) - f
               PROVE  Byte(v, f + i) \in Token /\ Byte(v, f + i).k = "byte"
    OBVIOUS
  <2>1. f + i \in Nat
    BY <1>1
  <2> QED
    BY <1>1, <2>1, LastChunkEntries
<1>3. From(v, f) \in Seq(Token) /\ Len(From(v, f)) = Extent(v) - f
  BY <1>1, <1>2 DEF From
<1>4. \A i \in 1 .. Extent(v) - f : From(v, f)[i] = Byte(v, f + i)
  BY DEF From
<1>5. f + (Extent(v) - f) <= Extent(v)
  BY <1>1
<1>6. DOMAIN From(v, f) = 1 .. Extent(v) - f
  BY DEF From
<1> QED
  BY <1>1, <1>2, <1>3, <1>4, <1>5, <1>6 DEF Plain

\* One chunk
LEMMA WholeInChunk ==
    ASSUME NEW v \in Versions \cup {0}, NEW f \in Nat, f <= Extent(v), Extent(v) - f > 0
    PROVE  LET w == OneChunk(From(v, f)) \o LastChunk
           IN  /\ w \in Seq(Token)
               /\ \E pos : Offsets(pos) /\ Lines(w, v, pos) /\ AtSize(w, 1, f, pos)
<1> DEFINE b == From(v, f)
           n == Extent(v) - f
           o == OneChunk(b)
           w == o \o LastChunk
           pos == [i \in Nat |-> IF i = 1 THEN f ELSE Extent(v)]
<1>1. n \in Nat \ {0} /\ Extent(v) \in Nat /\ f + n = Extent(v)
  BY Extents
<1>2. /\ b \in Seq(Token) /\ Len(b) = n
      /\ \A i \in 1 .. n : b[i] = Byte(v, f + i) /\ b[i].k = "byte"
  BY FromTyped
<1> HIDE DEF b, n
<1>3. /\ o \in Seq(Token) /\ Len(o) = n + 4
      /\ o[1] = Mark("size", n) /\ o[2] = Mark("LF", 0)
      /\ \A j \in 1 .. n : o[j + 2] = b[j]
      /\ o[n + 3] = Mark("CR", 0) /\ o[n + 4] = Mark("LF", 0)
  BY <1>2, OneChunkEntries
<1> HIDE DEF o
<1>4. /\ w \in Seq(Token) /\ Len(w) = (n + 4) + 3
      /\ \A i \in 1 .. (n + 4) : w[i] = o[i]
      /\ w[(n + 4) + 1] = Mark("size", 0)
      /\ w[(n + 4) + 2] = Mark("LF", 0) /\ w[(n + 4) + 3] = Mark("LF", 0)
  BY <1>3, WithLastChunk
<1> HIDE DEF w
<1>5. /\ w[1] = Mark("size", n) /\ w[2] = Mark("LF", 0)
      /\ \A j \in 1 .. n : w[j + 2] = Byte(v, f + j) /\ w[j + 2].k = "byte"
      /\ w[n + 3] = Mark("CR", 0) /\ w[n + 4] = Mark("LF", 0)
      /\ w[n + 5] = Mark("size", 0) /\ w[n + 6] = Mark("LF", 0) /\ w[n + 7] = Mark("LF", 0)
  <2>1. /\ 1 \in 1 .. (n + 4) /\ 2 \in 1 .. (n + 4) /\ n + 3 \in 1 .. (n + 4) /\ n + 4 \in 1 .. (n + 4)
        /\ \A j \in 1 .. n : j + 2 \in 1 .. (n + 4)
        /\ (n + 4) + 1 = n + 5 /\ (n + 4) + 2 = n + 6 /\ (n + 4) + 3 = n + 7
    BY <1>1
  <2>2. ASSUME NEW j \in 1 .. n PROVE w[j + 2] = Byte(v, f + j) /\ w[j + 2].k = "byte"
    <3>1. w[j + 2] = o[j + 2] /\ o[j + 2] = b[j]
      BY <1>3, <1>4, <2>1
    <3> QED
      BY <1>2, <3>1
  <2>3. w[1] = o[1] /\ w[2] = o[2] /\ w[n + 3] = o[n + 3] /\ w[n + 4] = o[n + 4]
    BY <1>4, <2>1
  <2>4. w[n + 5] = Mark("size", 0) /\ w[n + 6] = Mark("LF", 0) /\ w[n + 7] = Mark("LF", 0)
    BY <1>4, <2>1
  <2> QED
    BY <1>3, <2>2, <2>3, <2>4
<1>6. \A i \in Nat : pos[i] = IF i = 1 THEN f ELSE Extent(v)
  OBVIOUS
<1>7. Offsets(pos)
  BY <1>1 DEF Offsets
<1> HIDE DEF pos
<1>8. DOMAIN w = 1 .. (n + 7)
  BY <1>1, <1>4
<1>9. ASSUME NEW i \in DOMAIN w, w[i].k = "size" PROVE i = 1 \/ i = n + 5
  <2>1. i \in 1 .. (n + 7) /\ i \in Nat
    BY <1>1, <1>8
  <2>2. CASE i \in 3 .. (n + 2)
    <3>1. i - 2 \in 1 .. n /\ (i - 2) + 2 = i
      BY <1>1, <2>1, <2>2
    <3>2. w[i].k = "byte"
      BY <1>5, <3>1
    <3> QED
      BY <1>9, <3>2
  <2>3. CASE i \in {2, n + 3, n + 4, n + 6, n + 7}
    <3>1. w[i] = Mark("LF", 0) \/ w[i] = Mark("CR", 0)
      BY <1>5, <2>3
    <3> QED
      BY <1>9, <3>1, LastChunkEntries
  <2>4. i = 1 \/ i \in 3 .. (n + 2) \/ i \in {2, n + 3, n + 4, n + 6, n + 7} \/ i = n + 5
    BY <1>1, <2>1
  <2> QED
    BY <2>2, <2>3, <2>4
<1>10. InChunk(w, 2, n, f, v, pos)
  <2>1. /\ 2 + n + 1 = n + 3 /\ 2 + n + 2 = n + 4 /\ 2 + n + 3 = n + 5 /\ n + 5 \in Nat /\ n + 5 # 1
        /\ \A j \in 1 .. n : 2 + j = j + 2
    BY <1>1
  <2>2. Has(w, n + 3, "CR") /\ Has(w, n + 4, "LF")
    BY <1>5, LastChunkEntries DEF Has
  <2>3. AtSize(w, n + 5, f + n, pos)
    BY <1>1, <1>5, <1>6, <2>1, LastChunkEntries DEF AtSize
  <2>4. f + n <= Extent(v)
    BY <1>1
  <2>5. \A j \in 1 .. n : w[2 + j] = Byte(v, f + j)
    BY <1>5, <2>1
  <2> QED
    <3>1. \A j \in 1 .. n : 2 + j \in DOMAIN w => w[2 + j] = Byte(v, f + j)
      BY <2>5
    <3>2. Has(w, 2 + n + 1, "CR") /\ Has(w, 2 + n + 2, "LF") /\ AtSize(w, 2 + n + 3, f + n, pos)
      BY <2>1, <2>2, <2>3
    <3> QED
      BY <2>4, <3>1, <3>2 DEF InChunk
<1>11. Lines(w, v, pos)
  <2> SUFFICES ASSUME NEW i \in DOMAIN w, w[i].k = "size"
               PROVE  /\ Has(w, i + 1, "LF")
                      /\ w[i].n = 0 => pos[i] = Extent(v) /\ Has(w, i + 2, "LF") /\ Len(w) <= i + 2
                      /\ w[i].n > 0 => InChunk(w, i + 1, w[i].n, pos[i], v, pos)
    BY DEF Lines
  <2>1. CASE i = 1
    <3>1. w[i].n = n /\ i + 1 = 2 /\ pos[i] = f /\ ~(w[i].n = 0)
      BY <1>1, <1>5, <1>6, <2>1, LastChunkEntries
    <3>2. Has(w, 2, "LF")
      BY <1>5, LastChunkEntries DEF Has
    <3> QED
      BY <1>10, <3>1, <3>2
  <2>2. CASE i = n + 5
    <3>1. w[i].n = 0 /\ i + 1 = n + 6 /\ i + 2 = n + 7 /\ i \in Nat /\ i # 1
      BY <1>1, <1>5, <2>2, LastChunkEntries
    <3>2. Has(w, n + 6, "LF") /\ Has(w, n + 7, "LF")
      BY <1>5, LastChunkEntries DEF Has
    <3>3. Len(w) <= n + 7
      BY <1>1, <1>4
    <3>4. pos[i] = Extent(v)
      BY <1>1, <1>6, <3>1
    <3> QED
      BY <3>1, <3>2, <3>3, <3>4
  <2> QED
    BY <1>9, <2>1, <2>2
<1>12. AtSize(w, 1, f, pos)
  BY <1>1, <1>5, <1>6, LastChunkEntries DEF AtSize
<1> QED
  BY <1>4, <1>7, <1>11, <1>12 DEF w, o, b

\* One chunk per byte
LEMMA EachInChunk ==
    ASSUME NEW v \in Versions \cup {0}, NEW f \in Nat, f <= Extent(v), Extent(v) - f > 0
    PROVE  LET b == From(v, f)
               w == [i \in 1 .. 5 * Len(b) |-> OneChunk(<<b[(i + 4) \div 5]>>)[((i + 4) % 5) + 1]]
                      \o LastChunk
           IN  /\ w \in Seq(Token)
               /\ \E pos : Offsets(pos) /\ Lines(w, v, pos) /\ AtSize(w, 1, f, pos)
<1> DEFINE b == From(v, f)
           n == Extent(v) - f
           o == [i \in 1 .. 5 * Len(b) |-> OneChunk(<<b[(i + 4) \div 5]>>)[((i + 4) % 5) + 1]]
           w == o \o LastChunk
           pos == [i \in Nat |-> IF i = 0 THEN 0 ELSE f + ((i + 4) \div 5) - 1]
<1>1. n \in Nat \ {0} /\ Extent(v) \in Nat /\ f + n = Extent(v)
  BY Extents
<1>2. /\ b \in Seq(Token) /\ Len(b) = n
      /\ \A i \in 1 .. n : b[i] = Byte(v, f + i) /\ b[i].k = "byte" /\ b[i] \in Token
  BY FromTyped
<1> HIDE DEF b, n
\* Entry i = 5 * k + r of o is entry r of chunk k + 1.
<1>3. ASSUME NEW i \in 1 .. 5 * n
      PROVE  \E k \in 0 .. (n - 1), r \in 1 .. 5 : i = 5 * k + r
  <2>1. i \in Nat \ {0} /\ i <= 5 * n
    BY <1>1
  <2>2. /\ (i + 4) \div 5 - 1 \in 0 .. (n - 1)
        /\ ((i + 4) % 5) + 1 \in 1 .. 5
        /\ i = 5 * ((i + 4) \div 5 - 1) + ((i + 4) % 5) + 1
    BY <1>1, <2>1
  <2> QED
    BY <2>2
<1>4. ASSUME NEW k \in 0 .. (n - 1), NEW r \in 1 .. 5
      PROVE  /\ 5 * k + r \in 1 .. 5 * n
             /\ (5 * k + r + 4) \div 5 = k + 1
             /\ ((5 * k + r + 4) % 5) + 1 = r
             /\ k + 1 \in 1 .. n
  BY <1>1
<1>5. ASSUME NEW k \in 0 .. (n - 1)
      PROVE  LET c == OneChunk(<<b[k + 1]>>)
             IN  /\ c[1] = Mark("size", 1) /\ c[2] = Mark("LF", 0) /\ c[3] = b[k + 1]
                 /\ c[4] = Mark("CR", 0) /\ c[5] = Mark("LF", 0)
                 /\ \A r \in 1 .. 5 : c[r] \in Token
  <2> DEFINE s == <<b[k + 1]>>
  <2>1. b[k + 1] \in Token
    BY <1>1, <1>2
  <2>2. s \in Seq(Token) /\ Len(s) = 1 /\ s[1] = b[k + 1]
    BY <2>1
  <2> HIDE DEF s
  <2>3. /\ OneChunk(s) \in Seq(Token) /\ Len(OneChunk(s)) = 5
        /\ OneChunk(s)[1] = Mark("size", 1) /\ OneChunk(s)[2] = Mark("LF", 0)
        /\ OneChunk(s)[1 + 2] = s[1]
        /\ OneChunk(s)[1 + 3] = Mark("CR", 0) /\ OneChunk(s)[1 + 4] = Mark("LF", 0)
    <3>1. 1 + 4 = 5 /\ 1 \in 1 .. 1
      OBVIOUS
    <3> QED
      BY <2>2, <3>1, OneChunkEntries
  <2>4. /\ OneChunk(s)[3] = s[1] /\ OneChunk(s)[4] = Mark("CR", 0) /\ OneChunk(s)[5] = Mark("LF", 0)
    BY <2>3
  <2>5. \A r \in 1 .. 5 : OneChunk(s)[r] \in Token
    <3> DEFINE c == OneChunk(s)
    <3>1. c \in Seq(Token) /\ Len(c) = 5
      BY <2>3
    <3> HIDE DEF c
    <3>2. \A r \in 1 .. Len(c) : c[r] \in Token
      BY <3>1, ElementOfSeq
    <3> QED
      BY <3>1, <3>2 DEF c
  <2> QED
    BY <2>2, <2>3, <2>4, <2>5 DEF s
<1>6. ASSUME NEW k \in 0 .. (n - 1)
      PROVE  /\ o[5 * k + 1] = Mark("size", 1) /\ o[5 * k + 2] = Mark("LF", 0)
             /\ o[5 * k + 3] = b[k + 1]
             /\ o[5 * k + 4] = Mark("CR", 0) /\ o[5 * k + 5] = Mark("LF", 0)
             /\ \A r \in 1 .. 5 : o[5 * k + r] \in Token
  <2>1. \A r \in 1 .. 5 : o[5 * k + r] = OneChunk(<<b[k + 1]>>)[r]
    <3> SUFFICES ASSUME NEW r \in 1 .. 5 PROVE o[5 * k + r] = OneChunk(<<b[k + 1]>>)[r]
      OBVIOUS
    <3> DEFINE i == 5 * k + r
    <3>1. i \in 1 .. 5 * Len(b)
      BY <1>2, <1>4
    <3>2. o[i] = OneChunk(<<b[(i + 4) \div 5]>>)[((i + 4) % 5) + 1]
      BY <3>1
    <3>3. (i + 4) \div 5 = k + 1 /\ ((i + 4) % 5) + 1 = r
      BY <1>4
    <3> HIDE DEF i, o
    <3>4. o[i] = OneChunk(<<b[k + 1]>>)[r]
      BY <3>2, <3>3
    <3> QED
      BY <3>4 DEF i
  <2> HIDE DEF o
  <2> QED
    BY <1>5, <2>1
<1>7. o \in Seq(Token) /\ Len(o) = 5 * n
  <2>1. \A i \in 1 .. 5 * n : o[i] \in Token
    <3> SUFFICES ASSUME NEW i \in 1 .. 5 * n PROVE o[i] \in Token
      OBVIOUS
    <3>1. PICK k \in 0 .. (n - 1), r \in 1 .. 5 : i = 5 * k + r
      BY <1>3
    <3> HIDE DEF o
    <3> QED
      BY <1>6, <3>1
  <2>2. DOMAIN o = 1 .. 5 * n /\ o = [i \in 1 .. 5 * n |-> o[i]]
    BY <1>2
  <2>3. 5 * n \in Nat
    BY <1>1
  <2> HIDE DEF o
  <2> QED
    BY <2>1, <2>2, <2>3
<1> HIDE DEF o
<1>8. /\ w \in Seq(Token) /\ Len(w) = 5 * n + 3
      /\ \A i \in 1 .. 5 * n : w[i] = o[i]
      /\ w[5 * n + 1] = Mark("size", 0)
      /\ w[5 * n + 2] = Mark("LF", 0) /\ w[5 * n + 3] = Mark("LF", 0)
  BY <1>7, WithLastChunk
<1> HIDE DEF w
<1>9. ASSUME NEW k \in 0 .. (n - 1)
      PROVE  /\ w[5 * k + 1] = Mark("size", 1) /\ w[5 * k + 2] = Mark("LF", 0)
             /\ w[5 * k + 3] = Byte(v, f + (k + 1)) /\ w[5 * k + 3].k = "byte"
             /\ w[5 * k + 4] = Mark("CR", 0) /\ w[5 * k + 5] = Mark("LF", 0)
  <2>1. \A r \in 1 .. 5 : w[5 * k + r] = o[5 * k + r]
    BY <1>4, <1>8
  <2>2. k + 1 \in 1 .. n
    BY <1>4
  <2> QED
    BY <1>2, <1>6, <2>1, <2>2
<1>10. \A k \in 0 .. n : 5 * k + 1 \in Nat /\ pos[5 * k + 1] = f + k
  <2> SUFFICES ASSUME NEW k \in 0 .. n PROVE 5 * k + 1 \in Nat /\ pos[5 * k + 1] = f + k
    OBVIOUS
  <2>1. 5 * k + 1 \in Nat /\ ((5 * k + 1) + 4) \div 5 = k + 1 /\ f + (k + 1) - 1 = f + k
    BY <1>1
  <2>2. pos[5 * k + 1] = f + (((5 * k + 1) + 4) \div 5) - 1
    BY <2>1
  <2> QED
    BY <2>1, <2>2
<1>11. Offsets(pos)
  <2>1. \A i \in Nat \ {0} : f + ((i + 4) \div 5) - 1 \in Nat
    OBVIOUS
  <2> QED
    BY <2>1 DEF Offsets
<1> HIDE DEF pos
<1>12. ASSUME NEW k \in 0 .. (n - 1) PROVE InChunk(w, 5 * k + 2, 1, f + k, v, pos)
  <2>1. /\ 5 * k + 2 + 1 + 1 = 5 * k + 4 /\ 5 * k + 2 + 1 + 2 = 5 * k + 5
        /\ 5 * k + 2 + 1 + 3 = 5 * (k + 1) + 1 /\ 5 * k + 2 + 1 = 5 * k + 3
        /\ (f + k) + 1 = f + (k + 1) /\ k + 1 \in 0 .. n
    BY <1>1
  <2>2. Has(w, 5 * k + 4, "CR") /\ Has(w, 5 * k + 5, "LF")
    BY <1>9, LastChunkEntries DEF Has
  <2>3. AtSize(w, 5 * (k + 1) + 1, f + (k + 1), pos)
    <3>1. pos[5 * (k + 1) + 1] = f + (k + 1)
      BY <1>10, <2>1
    <3>2. w[5 * (k + 1) + 1].k = "size"
      <4>1. CASE k + 1 \in 0 .. (n - 1)
        <5>1. w[5 * (k + 1) + 1] = Mark("size", 1)
          BY <1>9, <4>1
        <5> QED
          BY <5>1, LastChunkEntries
      <4>2. CASE k + 1 = n
        BY <1>8, <4>2, LastChunkEntries
      <4> QED
        BY <1>1, <2>1, <4>1, <4>2
    <3> QED
      BY <3>1, <3>2 DEF AtSize
  <2>4. (f + k) + 1 <= Extent(v)
    BY <1>1
  <2>5. \A j \in 1 .. 1 : w[5 * k + 2 + j] = Byte(v, (f + k) + j)
    BY <1>9, <2>1
  <2>6. /\ Has(w, 5 * k + 2 + 1 + 1, "CR") /\ Has(w, 5 * k + 2 + 1 + 2, "LF")
        /\ AtSize(w, 5 * k + 2 + 1 + 3, (f + k) + 1, pos)
    BY <2>1, <2>2, <2>3
  <2> QED
    BY <2>4, <2>5, <2>6 DEF InChunk
<1>13. ASSUME NEW i \in DOMAIN w, w[i].k = "size"
       PROVE  i = 5 * n + 1 \/ \E k \in 0 .. (n - 1) : i = 5 * k + 1
  <2>1. i \in 1 .. 5 * n \/ i \in {5 * n + 1, 5 * n + 2, 5 * n + 3}
    <3>1. DOMAIN w = 1 .. 5 * n + 3 /\ 5 * n \in Nat
      BY <1>1, <1>8
    <3>2. i \in Nat /\ 1 <= i /\ i <= 5 * n + 3
      BY <3>1
    <3> QED
      BY <3>1, <3>2
  <2>2. ASSUME i \in 1 .. 5 * n PROVE \E k \in 0 .. (n - 1) : i = 5 * k + 1
    <3>1. PICK k \in 0 .. (n - 1), r \in 1 .. 5 : i = 5 * k + r
      BY <1>3, <2>2
    <3>2. r # 2 /\ r # 3 /\ r # 4 /\ r # 5
      BY <1>9, <1>13, <3>1, LastChunkEntries
    <3> QED
      BY <3>1, <3>2
  <2>3. i # 5 * n + 2 /\ i # 5 * n + 3
    BY <1>8, <1>13, LastChunkEntries
  <2> QED
    BY <2>1, <2>2, <2>3
<1>14. Lines(w, v, pos)
  <2> SUFFICES ASSUME NEW i \in DOMAIN w, w[i].k = "size"
               PROVE  /\ Has(w, i + 1, "LF")
                      /\ w[i].n = 0 => pos[i] = Extent(v) /\ Has(w, i + 2, "LF") /\ Len(w) <= i + 2
                      /\ w[i].n > 0 => InChunk(w, i + 1, w[i].n, pos[i], v, pos)
    BY DEF Lines
  <2>1. ASSUME NEW k \in 0 .. (n - 1), i = 5 * k + 1
        PROVE  /\ Has(w, i + 1, "LF") /\ w[i].n = 1
               /\ InChunk(w, i + 1, 1, pos[i], v, pos)
    <3>1. w[i].n = 1 /\ i + 1 = 5 * k + 2 /\ pos[i] = f + k
      <4>1. k \in 0 .. n /\ k \in Nat
        BY <1>1
      <4> QED
        BY <1>9, <1>10, <2>1, <4>1, LastChunkEntries
    <3>2. Has(w, 5 * k + 2, "LF")
      BY <1>9, LastChunkEntries DEF Has
    <3> QED
      BY <1>12, <3>1, <3>2
  <2>2. ASSUME i = 5 * n + 1
        PROVE  /\ Has(w, i + 1, "LF") /\ w[i].n = 0
               /\ pos[i] = Extent(v) /\ Has(w, i + 2, "LF") /\ Len(w) <= i + 2
    <3>1. w[i].n = 0 /\ i + 1 = 5 * n + 2 /\ i + 2 = 5 * n + 3
      BY <1>1, <1>8, <2>2, LastChunkEntries
    <3>2. Has(w, 5 * n + 2, "LF") /\ Has(w, 5 * n + 3, "LF")
      BY <1>8, LastChunkEntries DEF Has
    <3>3. pos[i] = f + n /\ n \in 0 .. n
      BY <1>1, <1>10, <2>2
    <3>4. Len(w) <= i + 2
      BY <1>1, <1>8, <3>1
    <3> QED
      BY <1>1, <3>1, <3>2, <3>3, <3>4
  <2>3. CASE \E k \in 0 .. (n - 1) : i = 5 * k + 1
    <3>1. PICK k \in 0 .. (n - 1) : i = 5 * k + 1
      BY <2>3
    <3>2. Has(w, i + 1, "LF") /\ w[i].n = 1 /\ InChunk(w, i + 1, 1, pos[i], v, pos)
      BY <2>1, <3>1
    <3> QED
      BY <3>2
  <2>4. CASE i = 5 * n + 1
    <3>1. /\ Has(w, i + 1, "LF") /\ w[i].n = 0
          /\ pos[i] = Extent(v) /\ Has(w, i + 2, "LF") /\ Len(w) <= i + 2
      BY <2>2, <2>4
    <3> QED
      BY <3>1
  <2> QED
    BY <1>13, <2>3, <2>4
<1>15. AtSize(w, 1, f, pos)
  <2>1. 0 \in 0 .. (n - 1) /\ 0 \in 0 .. n /\ 5 * 0 + 1 = 1 /\ f + 0 = f
    BY <1>1
  <2> QED
    BY <1>9, <1>10, <2>1, LastChunkEntries DEF AtSize
<1> QED
  BY <1>8, <1>11, <1>14, <1>15 DEF w, o, b


\* What a server may put under way for version v from offset f on is what its
\* header says.
LEMMA Bodies ==
    ASSUME NEW v \in Versions \cup {0}, NEW f \in Nat, f <= Extent(v), NEW a,
           NEW w \in Body(a, From(v, f))
    PROVE  /\ w \in Seq(Token)
           /\ IF a.framing = "chunked" /\ Extent(v) - f > 0
              THEN \E pos : Offsets(pos) /\ Lines(w, v, pos) /\ AtSize(w, 1, f, pos)
              ELSE Plain(w, v, f)
<1> DEFINE b == From(v, f)
           o == [i \in 1 .. 5 * Len(b) |-> OneChunk(<<b[(i + 4) \div 5]>>)[((i + 4) % 5) + 1]]
<1>1. b \in Seq(Token) /\ Len(b) = Extent(v) - f /\ Extent(v) - f \in Nat /\ Plain(b, v, f)
  BY FromTyped
<1>2. b # <<>> <=> Extent(v) - f > 0
  BY <1>1
<1>3. CASE a.framing = "chunked" /\ Extent(v) - f > 0
  <2>1. w \in Chunks(b)
    BY <1>2, <1>3 DEF Body
  <2>2. w = OneChunk(b) \o LastChunk \/ w = o \o LastChunk
    BY <2>1 DEF Chunks
  <2>3. CASE w = OneChunk(b) \o LastChunk
    BY <1>3, <2>3, WholeInChunk
  <2>4. CASE w = o \o LastChunk
    BY <1>3, <2>4, EachInChunk
  <2> QED
    BY <2>2, <2>3, <2>4
<1>4. CASE ~(a.framing = "chunked" /\ Extent(v) - f > 0)
  <2>1. w = b
    BY <1>2, <1>4 DEF Body
  <2> QED
    BY <1>1, <1>4, <2>1
<1> QED
  BY <1>3, <1>4

-----------------------------------------------------------------------------
(* What is read, and what is under way                                     *)

\* kill_buffer_data() of n tokens of a
LEMMA Skipped ==
    ASSUME NEW S, NEW a \in Seq(S), NEW n \in Nat, n <= Len(a)
    PROVE  LET t == SubSeq(a, n + 1, Len(a))
           IN  /\ t \in Seq(S) /\ Len(t) = Len(a) - n
               /\ \A i \in 1 .. Len(t) : t[i] = a[i + n]
<1> DEFINE t == SubSeq(a, n + 1, Len(a))
<1>1. Len(a) \in Nat /\ \A i \in (n + 1) .. Len(a) : a[i] \in S
  BY ElementOfSeq, LenProperties
<1>2. n + 1 \in Int /\ Len(a) \in Int
  BY <1>1
<1>3. /\ t \in Seq(S)
      /\ Len(t) = IF n + 1 <= Len(a) THEN Len(a) - (n + 1) + 1 ELSE 0
      /\ \A i \in 1 .. Len(a) - (n + 1) + 1 : t[i] = a[(n + 1) + i - 1]
  BY <1>1, <1>2, SubSeqProperties
<1> HIDE DEF t
<1>4. Len(t) = Len(a) - n /\ Len(a) - (n + 1) + 1 = Len(a) - n
  BY <1>1, <1>3
<1>5. \A i \in 1 .. Len(t) : (n + 1) + i - 1 = i + n
  BY <1>1, <1>4
<1> QED
  BY <1>3, <1>4, <1>5 DEF t

\* the first n of them
LEMMA Firsts ==
    ASSUME NEW S, NEW a \in Seq(S), NEW n \in Nat, n <= Len(a)
    PROVE  LET t == SubSeq(a, 1, n)
           IN  /\ t \in Seq(S) /\ Len(t) = n
               /\ \A i \in 1 .. n : t[i] = a[i]
<1> DEFINE t == SubSeq(a, 1, n)
<1>1. Len(a) \in Nat /\ \A i \in 1 .. n : a[i] \in S
  BY ElementOfSeq, LenProperties
<1>2. /\ t \in Seq(S)
      /\ Len(t) = IF 1 <= n THEN n - 1 + 1 ELSE 0
      /\ \A i \in 1 .. n - 1 + 1 : t[i] = a[1 + i - 1]
  BY <1>1, SubSeqProperties
<1> HIDE DEF t
<1>3. Len(t) = n /\ n - 1 + 1 = n /\ \A i \in 1 .. n : 1 + i - 1 = i
  BY <1>2
<1> QED
  BY <1>2, <1>3 DEF t

\* What is read from the buffer leaves the stream from its start.
LEMMA StreamSkipped ==
    ASSUME NEW a \in Seq(Token), NEW b \in Seq(Token), NEW n \in Nat, n <= Len(a)
    PROVE  After(a \o b, SubSeq(a, n + 1, Len(a)) \o b, n)
<1> DEFINE t == SubSeq(a, n + 1, Len(a))
           s == a \o b
           u == t \o b
<1>1. /\ t \in Seq(Token) /\ Len(t) = Len(a) - n /\ Len(a) \in Nat /\ Len(b) \in Nat
      /\ \A i \in 1 .. Len(t) : t[i] = a[i + n]
  BY Skipped, LenProperties
<1> HIDE DEF t
<1>2. /\ s \in Seq(Token) /\ Len(s) = Len(a) + Len(b)
      /\ \A i \in 1 .. Len(a) : s[i] = a[i]
      /\ \A i \in 1 .. Len(b) : s[Len(a) + i] = b[i]
  BY Joined
<1>3. /\ u \in Seq(Token) /\ Len(u) = Len(t) + Len(b)
      /\ \A i \in 1 .. Len(t) : u[i] = t[i]
      /\ \A i \in 1 .. Len(b) : u[Len(t) + i] = b[i]
  BY <1>1, Joined
<1> HIDE DEF s, u
<1>4. Len(u) + n <= Len(s)
  BY <1>1, <1>2, <1>3
<1>5. ASSUME NEW i \in 1 .. Len(u) PROVE u[i] = s[i + n]
  <2>1. CASE i <= Len(t)
    <3>1. i \in 1 .. Len(t) /\ i + n \in 1 .. Len(a)
      BY <1>1, <1>3, <2>1
    <3> QED
      BY <1>1, <1>2, <1>3, <3>1
  <2>2. CASE ~(i <= Len(t))
    <3>1. /\ i - Len(t) \in 1 .. Len(b) /\ Len(t) + (i - Len(t)) = i
          /\ Len(a) + (i - Len(t)) = i + n
      BY <1>1, <1>3, <2>2
    <3>2. u[i] = b[i - Len(t)] /\ s[i + n] = b[i - Len(t)]
      BY <1>2, <1>3, <3>1
    <3> QED
      BY <3>2
  <2> QED
    BY <2>1, <2>2
<1>6. DOMAIN u = 1 .. Len(u)
  BY <1>3
<1> QED
  BY <1>3, <1>4, <1>5, <1>6 DEF After, s, u, t

\* What comes from the network stays in the stream.
LEMMA StreamMoved ==
    ASSUME NEW a \in Seq(Token), NEW b \in Seq(Token), NEW n \in Nat, n <= Len(b)
    PROVE  /\ SubSeq(b, 1, n) \in Seq(Token) /\ SubSeq(b, n + 1, Len(b)) \in Seq(Token)
           /\ SubSeq(b, 1, n) \o SubSeq(b, n + 1, Len(b)) = b
           /\ a \o SubSeq(b, 1, n) \in Seq(Token)
           /\ (a \o SubSeq(b, 1, n)) \o SubSeq(b, n + 1, Len(b)) = a \o b
<1> DEFINE p == SubSeq(b, 1, n)
           q == SubSeq(b, n + 1, Len(b))
<1>1. p \in Seq(Token) /\ q \in Seq(Token)
  BY Firsts, Skipped
<1>2. p \o q = b
  <2>1. Len(b) \in Nat /\ 1 \in 1 .. Len(b) + 1 /\ n \in 1 - 1 .. Len(b) /\ Len(b) \in n .. Len(b)
    BY LenProperties
  <2>2. p \o q = SubSeq(b, 1, Len(b))
    BY <2>1, ConcatAdjacentSubSeq
  <2>3. SubSeq(b, 1, Len(b)) = b
    BY SubSeqFull
  <2> QED
    BY <2>2, <2>3
<1> HIDE DEF p, q
<1>3. a \o p \in Seq(Token)
  BY <1>1, Joined
<1>4. (a \o p) \o q = a \o (p \o q)
  BY <1>1, ConcatAssociative
<1> QED
  BY <1>1, <1>2, <1>3, <1>4 DEF p, q

\* A connection breaks.
LEMMA StreamCut ==
    ASSUME NEW a \in Seq(Token), NEW b \in Seq(Token)
    PROVE  After(a \o b, a \o <<>>, 0)
<1>1. /\ a \o b \in Seq(Token) /\ Len(a \o b) = Len(a) + Len(b) /\ Len(a) \in Nat /\ Len(b) \in Nat
      /\ \A i \in 1 .. Len(a) : (a \o b)[i] = a[i]
  BY Joined
<1>2. a \o <<>> = a
  BY ConcatEmptySeq
<1>3. DOMAIN a = 1 .. Len(a) /\ \A i \in 1 .. Len(a) : i + 0 = i
  BY <1>1
<1>4. Len(a) + 0 <= Len(a) + Len(b)
  BY <1>1
<1> QED
  BY <1>1, <1>2, <1>3, <1>4 DEF After

LEMMA Minimum ==
    ASSUME NEW a \in Int, NEW b \in Int
    PROVE  Min({a, b}) = IF a <= b THEN a ELSE b
<1> DEFINE m == IF a <= b THEN a ELSE b
<1>1. m \in {a, b} /\ \A y \in {a, b} : m <= y
  OBVIOUS
<1>2. \A x \in {a, b} : (\A y \in {a, b} : x <= y) => x = m
  OBVIOUS
<1> HIDE DEF m
<1> QED
  BY <1>1, <1>2 DEF Min, m

\* The line end that is looked for is the first.
LEMMA LineIs ==
    ASSUME NEW n \in Nat \ {0}, rb \in Seq(Token), Line > 0,
           \A i \in DOMAIN rb : rb[i].k = "LF" => i >= n /\ n \in DOMAIN rb /\ rb[n].k = "LF"
    PROVE  Line = n /\ n <= Len(rb)
<1> DEFINE ends == {i \in DOMAIN rb : rb[i].k = "LF"}
<1>1. DOMAIN rb = 1 .. Len(rb) /\ Len(rb) \in Nat
  OBVIOUS
<1>2. ends # {} /\ Line = Min(ends)
  BY DEF Line
<1>3. n \in ends /\ \A y \in ends : n <= y
  BY <1>2
<1>4. \A x \in ends : (\A y \in ends : x <= y) => x = n
  <2> SUFFICES ASSUME NEW x \in ends, \A y \in ends : x <= y PROVE x = n
    OBVIOUS
  <2>1. x <= n /\ n <= x /\ x \in Nat
    BY <1>1, <1>3
  <2> QED
    BY <2>1
<1>5. n <= Len(rb)
  BY <1>1, <1>3
<1> HIDE DEF ends
<1> QED
  BY <1>2, <1>3, <1>4, <1>5 DEF Min

-----------------------------------------------------------------------------
(* The entry                                                               *)

LEMMA DataIs ==
    \A d : d \in Data <=> d \in [DOMAIN d -> Bytes] /\ DOMAIN d \subseteq Nat \ {0}
<1>1. ASSUME NEW d, d \in Data
      PROVE  d \in [DOMAIN d -> Bytes] /\ DOMAIN d \subseteq Nat \ {0}
  BY <1>1 DEF Data
<1>2. ASSUME NEW d, d \in [DOMAIN d -> Bytes], DOMAIN d \subseteq Nat \ {0}
      PROVE  d \in Data
  BY <1>2 DEF Data
<1> QED
  BY <1>1, <1>2

LEMMA EntryFields ==
    /\ \A e \in Entry : /\ e.data \in Data
                        /\ e.data \in [DOMAIN e.data -> Bytes] /\ DOMAIN e.data \subseteq Nat \ {0}
                        /\ e.incomplete \in BOOLEAN /\ e.lax \in BOOLEAN /\ e.late \in BOOLEAN
                        /\ e.tag \in Versions \cup {0}
    /\ NoEntry \in Entry
    /\ DOMAIN NoEntry.data = {} /\ NoEntry.incomplete = TRUE /\ NoEntry.tag = 0
    /\ NoEntry.lax = FALSE /\ NoEntry.late = FALSE
<1>1. \A e \in Entry : /\ e.data \in Data
                       /\ e.incomplete \in BOOLEAN /\ e.lax \in BOOLEAN /\ e.late \in BOOLEAN
                       /\ e.tag \in Versions \cup {0}
  BY DEF Entry
<1>2. DOMAIN <<>> = {} /\ <<>> \in Data
  <2>1. <<>> \in Seq(Bytes) /\ Len(<<>>) = 0
    BY EmptySeq
  <2>2. DOMAIN <<>> = 1 .. 0 /\ <<>> \in [1 .. 0 -> Bytes]
    BY <2>1, LenProperties
  <2>3. 1 .. 0 = {}
    OBVIOUS
  <2>4. DOMAIN <<>> \subseteq Nat \ {0} /\ <<>> \in [DOMAIN <<>> -> Bytes]
    BY <2>2, <2>3
  <2> QED
    BY <2>2, <2>3, <2>4, DataIs
<1>3. NoEntry \in Entry
  BY <1>2 DEF NoEntry, Entry
<1>4. /\ NoEntry.data = <<>> /\ NoEntry.incomplete = TRUE /\ NoEntry.tag = 0
      /\ NoEntry.lax = FALSE /\ NoEntry.late = FALSE
  BY DEF NoEntry
<1> QED
  BY <1>1, <1>2, <1>3, <1>4, DataIs

\* add_fragment()
LEMMA Fragment ==
    ASSUME NEW e \in Entry, NEW f \in Nat, NEW new \in Seq(Bytes)
    PROVE  LET a == Added(e, f, new)
           IN  /\ a \in Entry
               /\ a.tag = e.tag /\ a.lax = e.lax /\ a.late = e.late
               /\ ~a.incomplete => ~e.incomplete
               /\ \A n \in DOMAIN a.data :
                     \/ n - f \in 1 .. Len(new) /\ a.data[n] = new[n - f]
                     \/ n \in DOMAIN e.data /\ a.data[n] = e.data[n]
               /\ \A i \in 1 .. Len(new) : f + i \in DOMAIN a.data
               /\ \A n \in DOMAIN e.data : n <= f \/ ~a.incomplete => n \in DOMAIN a.data
<1> DEFINE a == Added(e, f, new)
           P == Places(f, new)
           S == Spared(e, f, new)
           B == Beyond(e, f, new)
           m == Meets(e, f, new)
           d == [n \in S \cup P |-> IF n \in P THEN new[n - f] ELSE e.data[n]]
           i == e.incomplete \/ (m /\ B # {})
<1>1. /\ e.data \in [DOMAIN e.data -> Bytes] /\ DOMAIN e.data \subseteq Nat \ {0}
      /\ Len(new) \in Nat /\ e.incomplete \in BOOLEAN
      /\ \A k \in 1 .. Len(new) : new[k] \in Bytes
  BY EntryFields
<1>2. \A n : n \in P <=> n \in Nat \ {0} /\ n - f \in 1 .. Len(new)
  BY <1>1 DEF Places
<1>3. /\ S \subseteq DOMAIN e.data
      /\ \A n \in DOMAIN e.data : n <= f => n \in S
      /\ ~m => \A n \in DOMAIN e.data : n \in B => n \in S
  BY DEF Spared, Beyond
<1>4. \A n \in DOMAIN e.data : n <= f \/ n \in P \/ n \in B
  BY <1>1 DEF Places, Beyond
<1>5. m \in BOOLEAN
  BY DEF Meets
<1>6. CASE new = <<>>
  <2>1. a = e /\ Len(new) = 0 /\ 1 .. 0 = {}
    BY <1>6 DEF Added
  <2> HIDE DEF a
  <2> QED
    BY <2>1 DEF a
<1>7. CASE new # <<>>
  <2>1. a = [e EXCEPT !.data = d, !.incomplete = i]
    BY <1>7 DEF Added
  <2>2. i \in BOOLEAN
    BY <1>1, <1>5
  <2>3. ~i => ~e.incomplete /\ (~m \/ B = {})
    OBVIOUS
  <2> HIDE DEF a, P, S, B, m, i
  <2>4. /\ DOMAIN d = S \cup P
        /\ \A n \in P : d[n] = new[n - f]
        /\ \A n \in S \cup P : n \notin P => d[n] = e.data[n]
    OBVIOUS
  <2>5. d \in [DOMAIN d -> Bytes] /\ DOMAIN d \subseteq Nat \ {0}
    <3>1. ASSUME NEW n \in S \cup P
          PROVE  (IF n \in P THEN new[n - f] ELSE e.data[n]) \in Bytes /\ n \in Nat \ {0}
      BY <1>1, <1>2, <1>3
    <3> QED
      BY <3>1
  <2> HIDE DEF d
  <2>6. d \in Data
    BY <2>5, DataIs
  <2>7. a \in Entry
    BY <2>1, <2>2, <2>6 DEF Entry
  <2>8. a.data = d /\ a.incomplete = i /\ a.tag = e.tag /\ a.lax = e.lax /\ a.late = e.late
    BY <2>1 DEF Entry
  <2>9. ASSUME NEW n \in DOMAIN a.data
        PROVE  \/ n - f \in 1 .. Len(new) /\ a.data[n] = new[n - f]
               \/ n \in DOMAIN e.data /\ a.data[n] = e.data[n]
    BY <1>2, <1>3, <2>4, <2>8
  <2>10. ASSUME NEW k \in 1 .. Len(new) PROVE f + k \in DOMAIN a.data
    <3>1. f + k \in Nat \ {0} /\ (f + k) - f = k
      BY <1>1
    <3>2. f + k \in P
      BY <1>2, <3>1
    <3> QED
      BY <2>4, <2>8, <3>2
  <2>11. ASSUME NEW n \in DOMAIN e.data, n <= f \/ ~a.incomplete PROVE n \in DOMAIN a.data
    BY <1>3, <1>4, <2>3, <2>4, <2>8, <2>11
  <2> QED
    BY <2>3, <2>7, <2>8, <2>9, <2>10, <2>11 DEF a
<1> QED
  BY <1>6, <1>7

\* normalize_cache_entry()
LEMMA Normal ==
    ASSUME NEW e \in Entry, NEW f \in Nat, http \in Info
    PROVE  LET a == Normalized(e, f)
           IN  /\ a \in Entry
               /\ a.tag = e.tag /\ a.late = e.late /\ a.incomplete = FALSE
               /\ a.lax <=> (http.close /\ st = "closed") \/ http.code >= 400
               /\ \A n : n \in DOMAIN a.data <=> n \in DOMAIN e.data /\ n <= f
               /\ \A n \in DOMAIN a.data : a.data[n] = e.data[n]
<1> DEFINE a == Normalized(e, f)
           D == {n \in DOMAIN e.data : n <= f}
           d == [n \in D |-> e.data[n]]
           m == (http.close /\ st = "closed") \/ http.code >= 400
<1>1. e.data \in [DOMAIN e.data -> Bytes] /\ DOMAIN e.data \subseteq Nat \ {0}
  BY EntryFields
<1>2. d \in Data
  <2>1. d \in [DOMAIN d -> Bytes] /\ DOMAIN d \subseteq Nat \ {0}
    BY <1>1
  <2> HIDE DEF d
  <2> QED
    BY <2>1, DataIs
<1>3. DOMAIN d = D /\ \A n \in D : d[n] = e.data[n]
  OBVIOUS
<1>4. m \in BOOLEAN
  <2>1. http.close \in BOOLEAN /\ http.code \in Nat
    BY DEF Info
  <2> QED
    BY <2>1
<1>5. \A n : n \in D <=> n \in DOMAIN e.data /\ n <= f
  OBVIOUS
<1>6. a = [e EXCEPT !.data = d, !.incomplete = FALSE, !.lax = m]
  BY DEF Normalized, Restrict
<1> HIDE DEF a, d, m, D
<1>7. a \in Entry
  BY <1>2, <1>4, <1>6 DEF Entry
<1>8. /\ a.data = d /\ a.tag = e.tag /\ a.lax = m /\ a.late = e.late /\ a.incomplete = FALSE
  BY <1>6 DEF Entry
<1>9. a.lax <=> (http.close /\ st = "closed") \/ http.code >= 400
  BY <1>8 DEF m
<1> QED
  BY <1>3, <1>5, <1>7, <1>8, <1>9 DEF a

-----------------------------------------------------------------------------
(* Steps that keep the invariant                                           *)

LEMMA Blank ==
    /\ Fresh \in Info /\ Fresh.code = 0
    /\ NoRequest \in Request /\ NoRequest.range = 0
    /\ NoAnswer \in Header /\ NoAnswer.tag = 0
    /\ <<>> \in Seq(Token)
    /\ 0 \in -1 .. MaxTries - 1
<1>1. Fresh \in Info /\ Fresh.code = 0
  BY DEF Fresh, Info, Size
<1>2. NoRequest \in Request /\ NoRequest.range = 0
  BY DEF NoRequest, Request
<1>3. NoAnswer \in Header /\ NoAnswer.tag = 0
  BY DEF NoAnswer, Header
<1>4. 0 \in -1 .. MaxTries - 1
  BY Constants
<1> QED
  BY <1>1, <1>2, <1>3, <1>4, EmptySeq

\* The connection goes.
LEMMA OffKeeps ==
    ASSUME IInv, Off, requests' \in 0 .. MaxRequests, blacklisted' \in BOOLEAN,
           srv' = srv, ver' = ver, entry' \in Entry, ~srv.tagged => entry'.tag = 0
    PROVE  IInv'
<1>1. /\ at' = "off" /\ rb' = <<>> /\ http' = Fresh /\ st' = "end"
      /\ from' = 0 /\ start' = 0 /\ tries' = 0 /\ request' = NoRequest
      /\ answer' = NoAnswer /\ wire' = <<>> /\ cut' = FALSE
  BY DEF Off
<1>2. StateTyped'
  BY <1>1, Blank DEF IInv, Typed, StateTyped
<1>3. NetTyped'
  BY <1>1, Blank DEF NetTyped
<1>4. EntryTyped'
  BY <1>1, EntryFields DEF EntryTyped
<1>5. Tagging' /\ Asking' /\ HeaderTrue' /\ BodyTrue'
  BY <1>1, Blank DEF Tagging, Asking, HeaderTrue, BodyTrue
<1> QED
  BY <1>2, <1>3, <1>4, <1>5 DEF IInv, Typed, Steady

\* A request goes out.
LEMMA SendKeeps ==
    ASSUME IInv, NEW f \in Nat, NEW s \in Nat, NEW check \in BOOLEAN, Send(f, s, check),
           srv.ranges = "late" => s = 0,
           from' = f, tries' \in -1 .. MaxTries - 1, requests' \in 0 .. MaxRequests,
           blacklisted' \in BOOLEAN, srv' = srv, ver' = ver, entry' \in Entry,
           ~srv.tagged => entry'.tag = 0
    PROVE  IInv'
<1> DEFINE t == IF check /\ ~entry'.incomplete THEN entry'.tag ELSE 0
           r == IF f > 0 THEN f ELSE s
<1>1. /\ at' = "sent" /\ st' = "end" /\ rb' = <<>> /\ http' = Fresh /\ start' = s
      /\ request' = [range |-> r, tag |-> t, check |-> check]
      /\ answer' = NoAnswer /\ wire' = <<>> /\ cut' = FALSE
  BY DEF Send
<1>2. StateTyped'
  BY <1>1 DEF IInv, Typed, StateTyped
<1>3. t \in Versions \cup {0} /\ r \in Nat
  BY EntryFields
<1>4. r = IF from' > 0 THEN from' ELSE start'
  BY <1>1
<1> HIDE DEF t, r
<1>5. NetTyped'
  <2>1. request' \in Request
    BY <1>1, <1>3 DEF Request
  <2> QED
    BY <1>1, <2>1, Blank DEF NetTyped
<1>6. EntryTyped'
  BY <1>1 DEF EntryTyped
<1>7. request'.range = r
  BY <1>1
<1>8. Tagging' /\ Asking' /\ HeaderTrue' /\ BodyTrue'
  BY <1>1, <1>4, <1>7, Blank DEF Tagging, Asking, HeaderTrue, BodyTrue
<1> QED
  BY <1>2, <1>5, <1>6, <1>8 DEF IInv, Typed, Steady

LEMMA RetryKeeps ==
    ASSUME IInv, NEW f \in Nat, NEW s \in Nat, NEW t \in -1 .. MaxTries - 1, Retry(f, s, t),
           srv.ranges = "late" => s = 0,
           requests' = requests, blacklisted' \in BOOLEAN, srv' = srv, ver' = ver,
           entry' \in Entry, ~srv.tagged => entry'.tag = 0
    PROVE  IInv'
<1>1. requests' \in 0 .. MaxRequests
  BY DEF IInv, Typed, StateTyped
<1>2. CASE t + 1 >= MaxTries
  <2>1. Off
    BY <1>2 DEF Retry
  <2> QED
    BY <1>1, <2>1, OffKeeps
<1>3. CASE ~(t + 1 >= MaxTries)
  <2>1. Send(f, s, request.check) /\ from' = f /\ tries' = t + 1
    BY <1>3 DEF Retry
  <2>2. t + 1 \in -1 .. MaxTries - 1
    BY <1>3, Constants
  <2>3. request.check \in BOOLEAN
    BY DEF IInv, Typed, NetTyped, Request
  <2> QED
    BY <1>1, <2>1, <2>2, <2>3, SendKeeps
<1> QED
  BY <1>2, <1>3

\* An answer goes on.
LEMMA BodyKeeps ==
    ASSUME IInv, at' \in {"wait", "handle", "chunks"},
           blacklisted' = blacklisted, requests' = requests, srv' = srv, ver' = ver,
           tries' \in -1 .. MaxTries - 1, st' \in {"retry", "end", "closed"}, cut' \in BOOLEAN,
           NetTyped', EntryTyped', Tagging', srv.ranges = "late" => start' = 0,
           at' = "chunks" => http'.left = Chunked, st' # "retry" => http'.close,
           NEW v \in Versions \cup {0}, Answering(v)'
    PROVE  IInv'
<1>1. StateTyped'
  BY DEF IInv, Typed, StateTyped
<1>2. Asking' /\ HeaderTrue'
  BY DEF Asking, HeaderTrue
<1>3. BodyTrue'
  BY DEF BodyTrue
<1> QED
  BY <1>1, <1>2, <1>3 DEF IInv, Typed, Steady

\* What a step that reads the answer of version v starts from
Answers(v) ==
    /\ v \in Versions \cup {0} /\ Answering(v)
    /\ http \in Info /\ rb \in Seq(Token) /\ wire \in Seq(Token) /\ rb \o wire \in Seq(Token)
    /\ entry \in Entry /\ from \in Nat /\ start \in Nat /\ (srv.ranges = "late" => start = 0)
    /\ Reading(rb \o wire, http, from, v) /\ from <= Extent(v) /\ Extent(v) \in Nat
    /\ ~srv.tagged => entry.tag = 0 /\ answer.tag = 0
    /\ st # "retry" => http.close
    /\ at = "chunks" => http.left = Chunked
    /\ tries \in -1 .. MaxTries - 1 /\ st \in {"retry", "end", "closed"} /\ cut \in BOOLEAN
    /\ request \in Request /\ answer \in Header

LEMMA Reads ==
    ASSUME IInv, at \in {"wait", "handle", "chunks"}
    PROVE  \E v \in Versions \cup {0} : Answers(v)
<1>1. PICK v \in Versions \cup {0} : Answering(v)
  BY DEF IInv, Steady, BodyTrue
<1>2. /\ http \in Info /\ rb \in Seq(Token) /\ wire \in Seq(Token)
      /\ request \in Request /\ answer \in Header
  BY DEF IInv, Typed, NetTyped
<1>3. entry \in Entry /\ from \in Nat /\ start \in Nat /\ (srv.ranges = "late" => start = 0)
  BY DEF IInv, Typed, EntryTyped, Steady, Asking
<1>4. tries \in -1 .. MaxTries - 1 /\ st \in {"retry", "end", "closed"} /\ cut \in BOOLEAN
  BY DEF IInv, Typed, StateTyped
<1>5. /\ st # "retry" => http.close
      /\ at = "chunks" => http.left = Chunked
      /\ ~srv.tagged => entry.tag = 0 /\ answer.tag = 0
  BY DEF IInv, Steady, BodyTrue, Tagging
<1>6. Reading(rb \o wire, http, from, v) /\ from <= Extent(v)
  BY <1>1 DEF Answering, Reading
<1>7. rb \o wire \in Seq(Token) /\ Extent(v) \in Nat
  BY <1>2, Joined, Extents
<1> QED
  BY <1>1, <1>2, <1>3, <1>4, <1>5, <1>6, <1>7 DEF Answers

\* The same answer goes on, with the stream read as http' says.
LEMMA AnswerKeeps ==
    ASSUME IInv, NEW v, Answers(v), at' \in {"wait", "handle", "chunks"},
           blacklisted' = blacklisted, requests' = requests, srv' = srv, ver' = ver,
           request' = request, answer' = answer, start' = start,
           tries' \in {0, tries}, st' \in {"retry", "end", "closed"}, cut' \in BOOLEAN,
           http' \in Info, http'.code = http.code, http'.close = http.close,
           rb' \in Seq(Token), wire' \in Seq(Token),
           entry' \in Entry, entry'.tag = entry.tag, from' \in Nat,
           at' = "chunks" => http'.left = Chunked, st' # "retry" => http.close,
           Reading((rb \o wire)', http', from', v)
    PROVE  IInv'
<1>1. NetTyped' /\ EntryTyped' /\ Tagging'
  BY DEF NetTyped, EntryTyped, Tagging, Answers
<1>2. tries' \in -1 .. MaxTries - 1
  BY Blank DEF Answers
<1>3. Answering(v)'
  BY DEF Answering, Answers
<1>4. v \in Versions \cup {0} /\ (srv.ranges = "late" => start' = 0)
  BY DEF Answers
<1> QED
  BY <1>1, <1>2, <1>3, <1>4, BodyKeeps

-----------------------------------------------------------------------------
(* The connection and the server                                           *)

LEMMA LoadUriKeeps ==
    ASSUME IInv, LoadUri
    PROVE  IInv'
<1>1. PICK check \in BOOLEAN : Send(0, 0, check)
  BY DEF LoadUri
<1>2. /\ at = "off" /\ requests' \in 0 .. MaxRequests
      /\ from' = from /\ tries' = tries /\ blacklisted' = blacklisted
      /\ entry' = entry /\ srv' = srv /\ ver' = ver
  <2>1. requests \in 0 .. MaxRequests /\ requests < MaxRequests /\ requests' = requests + 1
    BY DEF LoadUri, IInv, Typed, StateTyped
  <2>2. requests' \in 0 .. MaxRequests
    BY <2>1, Constants
  <2> QED
    BY <2>2 DEF LoadUri
<1>3. /\ entry \in Entry /\ from = 0 /\ tries \in -1 .. MaxTries - 1 /\ blacklisted \in BOOLEAN
      /\ ~srv.tagged => entry.tag = 0
  BY <1>2 DEF IInv, Typed, StateTyped, EntryTyped, Steady, Tagging, Asking
<1>4. /\ 0 \in Nat /\ from' = 0 /\ tries' \in -1 .. MaxTries - 1 /\ blacklisted' \in BOOLEAN
      /\ entry' \in Entry /\ (~srv.tagged => entry'.tag = 0)
  BY <1>2, <1>3
<1> QED
  BY <1>1, <1>2, <1>4, SendKeeps

\* What Off and Retry need, when the entry is left alone
LEMMA EntryStays ==
    ASSUME IInv, entry' = entry
    PROVE  /\ entry' \in Entry /\ (~srv.tagged => entry'.tag = 0)
           /\ requests \in 0 .. MaxRequests /\ blacklisted \in BOOLEAN
           /\ from \in Nat /\ start \in Nat /\ tries \in -1 .. MaxTries - 1
           /\ srv.ranges = "late" => start = 0
BY DEF IInv, Typed, StateTyped, EntryTyped, Steady, Tagging, Asking

LEMMA CancelDownloadKeeps ==
    ASSUME IInv, CancelDownload
    PROVE  IInv'
BY EntryStays, OffKeeps DEF CancelDownload

LEMMA NotModifiedKeeps ==
    ASSUME IInv, NotModified
    PROVE  IInv'
BY EntryStays, OffKeeps DEF NotModified

LEMMA TimeoutKeeps ==
    ASSUME IInv, Timeout
    PROVE  IInv'
<1>1. /\ Retry(from, start, tries) /\ requests' = requests /\ blacklisted' = blacklisted
      /\ srv' = srv /\ ver' = ver /\ entry' = entry
  BY DEF Timeout
<1> QED
  BY <1>1, EntryStays, RetryKeeps

LEMMA NoHeaderKeeps ==
    ASSUME IInv, NoHeader
    PROVE  IInv'
<1>1. requests' = requests /\ srv' = srv /\ ver' = ver /\ entry' = entry
  BY DEF NoHeader
<1>2. CASE tries = 0
  <2>1. blacklisted' = ~blacklisted /\ Retry(from, start, IF blacklisted THEN 0 ELSE -1)
    BY <1>1, <1>2 DEF NoHeader
  <2>2. blacklisted' \in BOOLEAN
    BY <2>1
  <2>3. CASE blacklisted
    <3>1. Retry(from, start, 0)
      BY <2>1, <2>3
    <3> QED
      BY <1>1, <2>2, <3>1, EntryStays, RetryKeeps, Blank
  <2>4. CASE ~blacklisted
    <3>1. Retry(from, start, -1)
      BY <2>1, <2>4
    <3>2. -1 \in -1 .. MaxTries - 1
      BY Constants
    <3> QED
      BY <1>1, <2>2, <3>1, <3>2, EntryStays, RetryKeeps
  <2> QED
    BY <2>3, <2>4
<1>3. CASE tries # 0
  <2>1. blacklisted' = blacklisted /\ Retry(from, start, tries)
    BY <1>1, <1>3 DEF NoHeader
  <2> QED
    BY <1>1, <2>1, EntryStays, RetryKeeps
<1> QED
  BY <1>2, <1>3

LEMMA EditKeeps ==
    ASSUME IInv, Edit
    PROVE  IInv'
<1>1. /\ at' = at /\ from' = from /\ start' = start /\ tries' = tries
      /\ blacklisted' = blacklisted /\ http' = http
      /\ st' = st /\ rb' = rb /\ entry' = entry /\ requests' = requests /\ srv' = srv
      /\ request' = request /\ answer' = answer /\ wire' = wire /\ cut' = cut
  BY DEF Edit, connVars, netVars
<1>2. ver' \in Versions
  <2>1. ver \in 1 .. Len(Length) /\ Len(Length) \in Nat
    BY HttpTransferAssumption, Constants DEF IInv, Typed, StateTyped
  <2>2. ver + 1 \in 1 .. Len(Length)
    BY <2>1 DEF Edit
  <2> QED
    BY <2>2, Constants DEF Edit
<1>3. StateTyped'
  BY <1>1, <1>2 DEF IInv, Typed, StateTyped
<1>4. NetTyped' /\ EntryTyped'
  BY <1>1 DEF IInv, Typed, NetTyped, EntryTyped
<1>5. Tagging' /\ Asking'
  BY <1>1 DEF IInv, Steady, Tagging, Asking
<1>6. HeaderTrue'
  <2>1. \A v : Answered(v) => Answered(v)'
    BY <1>1 DEF Answered, First
  <2> QED
    BY <1>1, <2>1 DEF IInv, Steady, HeaderTrue
<1>7. BodyTrue'
  <2>1. \A v : Answering(v) => Answering(v)'
    BY <1>1 DEF Answering
  <2> QED
    BY <1>1, <2>1 DEF IInv, Steady, BodyTrue
<1> QED
  BY <1>3, <1>4, <1>5, <1>6, <1>7 DEF IInv, Typed, Steady

LEMMA CutKeeps ==
    ASSUME IInv, Cut
    PROVE  IInv'
<1>1. /\ at \in {"sent", "wait"} /\ cut' = TRUE /\ wire' = <<>>
      /\ at' = at /\ from' = from /\ start' = start /\ tries' = tries
      /\ blacklisted' = blacklisted /\ http' = http
      /\ st' = st /\ rb' = rb /\ entry' = entry /\ requests' = requests /\ srv' = srv
      /\ ver' = ver /\ request' = request /\ answer' = answer
  BY DEF Cut, connVars
<1>2. CASE at = "sent"
  <2>1. StateTyped' /\ NetTyped' /\ EntryTyped'
    BY <1>1, Blank DEF IInv, Typed, StateTyped, NetTyped, EntryTyped
  <2>2. Tagging' /\ Asking' /\ HeaderTrue' /\ BodyTrue'
    BY <1>1, <1>2 DEF IInv, Steady, Tagging, Asking, HeaderTrue, BodyTrue
  <2> QED
    BY <2>1, <2>2 DEF IInv, Typed, Steady
<1>3. CASE at = "wait"
  <2>1. PICK v : Answers(v)
    BY <1>3, Reads
  <2>2. After(rb \o wire, rb \o <<>>, 0)
    BY <2>1, StreamCut DEF Answers
  <2>3. Reading(rb \o <<>>, http, from, v)
    BY <2>1, <2>2, ReadingBreaks DEF Answers
  <2>4. Reading((rb \o wire)', http', from', v)
    BY <1>1, <2>3
  <2>5. /\ tries' \in {0, tries} /\ st' \in {"retry", "end", "closed"} /\ cut' \in BOOLEAN
        /\ http' \in Info /\ rb' \in Seq(Token) /\ wire' \in Seq(Token) /\ entry' \in Entry
        /\ from' \in Nat /\ start' = start /\ (st' # "retry" => http.close)
        /\ at' \in {"wait", "handle", "chunks"} /\ at' # "chunks"
    BY <1>1, <1>3, <2>1, Blank DEF Answers
  <2> QED
    BY <1>1, <2>1, <2>4, <2>5, AnswerKeeps
<1> QED
  BY <1>1, <1>2, <1>3

\* What the server says of version v from the offset f on is true.
LEMMA SaysAnswered ==
    ASSUME IInv, at' = "header", from' = from, srv' = srv, request' = request,
           NEW v \in Versions \cup {0}, NEW f \in Nat, f <= Extent(v), f \in {0, First},
           v # 0 => f < Extent(v),
           NEW code \in Nat, v = 0 <=> code >= 400,
           NEW tag \in Versions \cup {0}, v # 0 => tag = IF srv.tagged THEN v ELSE 0,
           v = 0 => f = 0 /\ tag = 0,
           Says(code, f, tag, From(v, f))
    PROVE  /\ answer' \in Header /\ wire' \in Seq(Token) /\ answer'.tag = tag
           /\ HeaderTrue'
<1>1. PICK framing \in Framings, close \in BOOLEAN :
         /\ answer' = [code |-> code, start |-> f, framing |-> framing,
                       close |-> close \/ framing = "close", tag |-> tag,
                       length |-> Len(From(v, f))]
         /\ wire' \in Body(answer', From(v, f))
  BY DEF Says
<1> DEFINE c == close \/ framing = "close"
<1>2. c \in BOOLEAN /\ framing \in {"length", "chunked", "close"}
  BY Constants
<1>3. Len(From(v, f)) = Extent(v) - f /\ Extent(v) - f \in Nat /\ f + (Extent(v) - f) = Extent(v)
  BY FromTyped, Extents
<1>4. answer' = [code |-> code, start |-> f, framing |-> framing, close |-> c, tag |-> tag,
                 length |-> Extent(v) - f]
  BY <1>1, <1>3
<1>5. framing = "close" => c
  OBVIOUS
<1> HIDE DEF c
<1>6. answer' \in Header
  BY <1>2, <1>3, <1>4 DEF Header
<1>7. /\ answer'.code = code /\ answer'.start = f /\ answer'.framing = framing
      /\ answer'.close = c /\ answer'.tag = tag /\ answer'.length = Extent(v) - f
  BY <1>4
<1>8. /\ wire' \in Seq(Token)
      /\ IF answer'.framing = "chunked" /\ Extent(v) - f > 0
         THEN \E pos : Offsets(pos) /\ Lines(wire', v, pos) /\ AtSize(wire', 1, f, pos)
         ELSE Plain(wire', v, f)
  BY <1>1, Bodies
<1>9. Answered(v)'
  <2>1. /\ v = 0 <=> answer'.code >= 400
        /\ v = 0 => answer'.start = 0 /\ answer'.tag = 0
        /\ v # 0 => answer'.tag = IF srv'.tagged THEN v ELSE 0
        /\ answer'.start \in {0, First'}
        /\ v # 0 => answer'.start < Extent(v)
        /\ answer'.start + answer'.length = Extent(v)
        /\ answer'.framing = "close" => answer'.close
    BY <1>3, <1>5, <1>7 DEF First
  <2>2. IF answer'.framing = "chunked" /\ answer'.length > 0
        THEN \E pos : /\ Offsets(pos) /\ Lines(wire', v, pos)
                      /\ AtSize(wire', 1, answer'.start, pos)
        ELSE Plain(wire', v, answer'.start)
    BY <1>7, <1>8
  <2> QED
    BY <2>1, <2>2 DEF Answered
<1> QED
  BY <1>6, <1>7, <1>8, <1>9 DEF HeaderTrue

LEMMA AnswerKeepsInv ==
    ASSUME IInv, Answer
    PROVE  IInv'
<1>1. /\ at = "sent" /\ at' = "header"
      /\ from' = from /\ start' = start /\ tries' = tries /\ blacklisted' = blacklisted
      /\ http' = http
      /\ st' = st /\ rb' = rb /\ entry' = entry /\ requests' = requests /\ srv' = srv
      /\ ver' = ver /\ request' = request /\ cut' = cut
  BY DEF Answer, connVars
<1>2. Tag \in Versions \cup {0} /\ (~srv.tagged => Tag = 0) /\ ver \in Versions
  BY DEF Tag, IInv, Typed, StateTyped
<1>3. request.range = (IF from > 0 THEN from ELSE start) /\ First \in Nat
  <2>1. request.range \in Nat
    BY DEF IInv, Typed, NetTyped, Request
  <2> QED
    BY <1>1, <2>1 DEF IInv, Steady, Asking, First
<1>4. Tag = IF srv.tagged THEN ver ELSE 0
  BY DEF Tag
<1>5. /\ Extent(ver) = Length[ver] /\ Extent(ver) \in Nat /\ Extent(ver) > 0 /\ ver # 0
      /\ Extent(0) \in Nat
  BY <1>2, Extents
<1>6. /\ answer' \in Header /\ wire' \in Seq(Token) /\ (~srv.tagged => answer'.tag = 0)
      /\ HeaderTrue'
  <2>1. ASSUME Says(304, 0, Tag, <<>>)
        PROVE  /\ answer' \in Header /\ wire' \in Seq(Token) /\ (~srv.tagged => answer'.tag = 0)
               /\ HeaderTrue'
    <3>1. PICK framing \in Framings, close \in BOOLEAN :
             /\ answer' = [code |-> 304, start |-> 0, framing |-> framing,
                           close |-> close \/ framing = "close", tag |-> Tag, length |-> Len(<<>>)]
             /\ wire' \in Body(answer', <<>>)
      BY <2>1 DEF Says
    <3> DEFINE c == close \/ framing = "close"
    <3>2. c \in BOOLEAN /\ framing \in {"length", "chunked", "close"} /\ Len(<<>>) = 0
      BY Constants
    <3> HIDE DEF c
    <3>3. answer' = [code |-> 304, start |-> 0, framing |-> framing,
                     close |-> c, tag |-> Tag, length |-> 0]
      BY <3>1, <3>2 DEF c
    <3>4. answer' \in Header
      BY <1>2, <3>2, <3>3 DEF Header
    <3>5. answer'.code = 304 /\ answer'.tag = Tag
      BY <3>3
    <3>6. wire' = <<>>
      BY <3>1 DEF Body
    <3> QED
      BY <1>2, <3>4, <3>5, <3>6, Blank DEF HeaderTrue
  <2>2. ASSUME Says(206, First, Tag, Document(ver, First)), First < Length[ver]
        PROVE  /\ answer' \in Header /\ wire' \in Seq(Token) /\ (~srv.tagged => answer'.tag = 0)
               /\ HeaderTrue'
    <3>1. Says(206, First, Tag, From(ver, First)) /\ First <= Extent(ver) /\ First < Extent(ver)
      BY <1>2, <1>3, <1>5, <2>2, Documents
    <3> QED
      BY <1>1, <1>2, <1>3, <1>4, <1>5, <3>1, SaysAnswered
  <2>3. ASSUME Says(200, 0, Tag, Document(ver, 0))
        PROVE  /\ answer' \in Header /\ wire' \in Seq(Token) /\ (~srv.tagged => answer'.tag = 0)
               /\ HeaderTrue'
    <3>1. Says(200, 0, Tag, From(ver, 0)) /\ 0 <= Extent(ver)
      BY <1>2, <1>5, <2>3, Documents
    <3> QED
      BY <1>1, <1>2, <1>4, <1>5, <3>1, SaysAnswered
  <2>4. ASSUME NEW code \in Nat, code >= 400, Says(code, 0, 0, ErrorBody)
        PROVE  /\ answer' \in Header /\ wire' \in Seq(Token) /\ (~srv.tagged => answer'.tag = 0)
               /\ HeaderTrue'
    <3>1. Says(code, 0, 0, From(0, 0)) /\ 0 <= Extent(0)
      BY <1>5, <2>4, Documents
    <3> QED
      BY <1>1, <1>2, <1>5, <2>4, <3>1, SaysAnswered
  <2>5. \/ Says(304, 0, Tag, <<>>)
        \/ Says(206, First, Tag, Document(ver, First)) /\ First < Length[ver]
        \/ Says(416, 0, 0, ErrorBody)
        \/ Says(200, 0, Tag, Document(ver, 0))
        \/ Says(503, 0, 0, ErrorBody)
    BY DEF Answer
  <2> QED
    BY <2>1, <2>2, <2>3, <2>4, <2>5
<1>7. StateTyped'
  BY <1>1 DEF IInv, Typed, StateTyped
<1>8. NetTyped'
  BY <1>1, <1>6 DEF IInv, Typed, NetTyped
<1>9. EntryTyped'
  BY <1>1 DEF IInv, Typed, EntryTyped
<1>10. Tagging'
  BY <1>1, <1>6 DEF IInv, Steady, Tagging
<1>11. Asking'
  BY <1>1, <1>3 DEF IInv, Steady, Asking
<1>12. BodyTrue'
  BY <1>1 DEF BodyTrue
<1> QED
  BY <1>6, <1>7, <1>8, <1>9, <1>10, <1>11, <1>12 DEF IInv, Typed, Steady

-----------------------------------------------------------------------------
(* The header                                                              *)

LEMMA CheckedFields ==
    ASSUME NEW e \in Entry, answer \in Header, from \in Nat
    PROVE  LET late == from = 0 /\ answer.start > 0
           IN  /\ Checked(e) \in Entry
               /\ Checked(e).tag = IF answer.tag = 0 THEN e.tag ELSE answer.tag
               /\ ~Modified(e) => /\ Checked(e).data = e.data /\ Checked(e).lax = e.lax
                                  /\ Checked(e).incomplete = e.incomplete
                                  /\ Checked(e).late <=> e.late \/ late
               /\ Modified(e) => DOMAIN Checked(e).data = {} /\ Checked(e).incomplete = TRUE
<1> DEFINE late == from = 0 /\ answer.start > 0
<1>1. answer.tag \in Versions \cup {0} /\ late \in BOOLEAN
  <2>1. answer.tag \in Versions \cup {0} /\ answer.start \in Nat
    BY DEF Header
  <2> QED
    BY <2>1
<1>2. ASSUME NEW x \in Entry
      PROVE  LET y == [WithTag(x) EXCEPT !.late = @ \/ late]
             IN  /\ y \in Entry
                 /\ y.tag = IF answer.tag = 0 \/ x.tag # 0 THEN x.tag ELSE answer.tag
                 /\ y.data = x.data /\ y.lax = x.lax /\ y.incomplete = x.incomplete
                 /\ y.late <=> x.late \/ late
  <2> DEFINE w == WithTag(x)
             m == w.late \/ late
             y == [w EXCEPT !.late = m]
  <2>1. /\ w \in Entry
        /\ w.tag = IF answer.tag = 0 \/ x.tag # 0 THEN x.tag ELSE answer.tag
        /\ w.data = x.data /\ w.lax = x.lax /\ w.incomplete = x.incomplete /\ w.late = x.late
    <3>1. CASE answer.tag = 0 \/ x.tag # 0
      BY <3>1 DEF WithTag
    <3>2. CASE ~(answer.tag = 0 \/ x.tag # 0)
      <4>1. w = [x EXCEPT !.tag = answer.tag]
        BY <3>2 DEF WithTag
      <4> HIDE DEF w
      <4> QED
        BY <1>1, <3>2, <4>1 DEF Entry
    <3> HIDE DEF w
    <3> QED
      BY <3>1, <3>2
  <2> HIDE DEF w, late
  <2>2. m \in BOOLEAN /\ (m <=> x.late \/ late)
    BY <1>1, <2>1, EntryFields
  <2> HIDE DEF m
  <2>3. y \in Entry
    BY <2>1, <2>2 DEF Entry
  <2>4. /\ y.tag = w.tag /\ y.data = w.data /\ y.lax = w.lax /\ y.incomplete = w.incomplete
        /\ y.late = m
    BY <2>1 DEF Entry
  <2>5. y = [WithTag(x) EXCEPT !.late = @ \/ late]
    BY DEF w, m
  <2> HIDE DEF y
  <2>6. y.late <=> x.late \/ late
    BY <2>2, <2>4
  <2> QED
    BY <2>1, <2>3, <2>4, <2>5, <2>6
<1>3. CASE Modified(e)
  <2>1. Checked(e) = [WithTag(NoEntry) EXCEPT !.late = @ \/ late]
    BY <1>3 DEF Checked, Deleted
  <2>2. answer.tag # 0
    BY <1>3 DEF Modified
  <2> HIDE DEF late
  <2> QED
    BY <1>2, <1>3, <2>1, <2>2, EntryFields
<1>4. CASE ~Modified(e)
  <2>1. Checked(e) = [WithTag(e) EXCEPT !.late = @ \/ late]
    BY <1>4 DEF Checked
  <2>2. answer.tag = 0 \/ e.tag = 0 \/ answer.tag = e.tag
    BY <1>4 DEF Modified
  <2> HIDE DEF late
  <2>3. /\ Checked(e) \in Entry
        /\ Checked(e).tag = IF answer.tag = 0 \/ e.tag # 0 THEN e.tag ELSE answer.tag
        /\ Checked(e).data = e.data /\ Checked(e).lax = e.lax
        /\ Checked(e).incomplete = e.incomplete
        /\ Checked(e).late <=> e.late \/ late
    BY <1>2, <2>1
  <2> QED
    BY <1>4, <2>2, <2>3 DEF late
<1> QED
  BY <1>3, <1>4

\* What is let through begins at the start, goes on, or is asked for again.
LEMMA Begins ==
    ASSUME IInv, at = "header", answer.code # 304, ~TooLate
    PROVE  /\ answer.start \in Nat
           /\ answer.start = 0 \/ from = 0 \/ answer.start = from
           /\ srv.ranges = "late" => answer.start = 0
<1>1. /\ from \in Nat /\ start \in Nat /\ answer.start \in Nat
      /\ request.range = IF from > 0 THEN from ELSE start
      /\ srv.ranges = "late" => start = 0
      /\ start = 0 => answer.start <= from
  BY DEF IInv, Typed, EntryTyped, NetTyped, Header, Steady, Asking, TooLate
<1>2. answer.start \in {0, First}
  BY DEF IInv, Steady, HeaderTrue, Answered
<1>3. CASE srv.ranges = "late"
  <2>1. First = request.range + 1
    BY <1>3 DEF First
  <2> QED
    BY <1>1, <1>2, <1>3, <2>1
<1>4. CASE srv.ranges # "late"
  <2>1. First = request.range + 0
    BY <1>4 DEF First
  <2> QED
    BY <1>1, <1>2, <1>4, <2>1
<1> QED
  BY <1>3, <1>4

\* The body is read as the header says.
LEMMA FramedReads ==
    ASSUME answer \in Header, NEW v \in Versions \cup {0}, Answered(v), Framed
    PROVE  /\ http' \in Info /\ http'.code = answer.code /\ http'.close = answer.close
           /\ st' \in {"retry", "end", "closed"} /\ (st' # "retry" => http'.close)
           /\ Reading(wire, http', answer.start, v)
<1> DEFINE l == CASE answer.framing = "length" -> answer.length
                  [] answer.framing = "chunked" /\ answer.length > 0 -> Chunked
                  [] OTHER -> IF answer.framing = "close" THEN Unknown ELSE 0
<1>1. /\ answer.code \in Nat /\ answer.start \in Nat /\ answer.close \in BOOLEAN
      /\ answer.length \in Nat /\ answer.framing \in {"length", "chunked", "close"}
  BY DEF Header
<1>2. \/ answer.framing # "chunked" /\ answer.framing # "close" /\ l = answer.length
      \/ answer.framing = "chunked" /\ answer.length > 0 /\ l = Chunked
      \/ answer.framing = "close" /\ l = Unknown
      \/ answer.framing = "chunked" /\ answer.length = 0 /\ l = 0
  <2>1. answer.length > 0 \/ answer.length = 0
    BY <1>1
  <2>2. CASE answer.framing = "length"
    BY <2>2
  <2>3. CASE answer.framing = "chunked"
    BY <2>1, <2>3
  <2>4. CASE answer.framing = "close"
    BY <2>4
  <2> QED
    BY <1>1, <2>2, <2>3, <2>4
<1>3. http' = [code |-> answer.code, chunk |-> Size, left |-> l, close |-> answer.close]
  BY DEF Framed
<1> HIDE DEF l
<1>4. http'.code = answer.code /\ http'.close = answer.close /\ http'.left = l /\ http'.chunk = Size
  BY <1>3
<1>5. l \in Nat \cup {Unknown, Chunked}
  BY <1>1, <1>2
<1>6. http' \in Info
  BY <1>1, <1>3, <1>5 DEF Info
<1>7. st' \in {"retry", "end", "closed"} /\ (st' # "retry" => http'.close)
  BY <1>1, <1>4 DEF Framed
<1>8. answer.start <= Extent(v) /\ answer.start + answer.length = Extent(v)
  BY <1>1, Extents DEF Answered
<1>9. Reading(wire, http', answer.start, v)
  <2>1. CASE l = Chunked /\ answer.framing = "chunked" /\ answer.length > 0
    <3>1. PICK pos : Offsets(pos) /\ Lines(wire, v, pos) /\ AtSize(wire, 1, answer.start, pos)
      BY <2>1 DEF Answered
    <3>2. Place(wire, http'.chunk, answer.start, v, pos)
      BY <1>4, <3>1 DEF Place, Size, Zero, DataEnd
    <3>3. http'.left = -2
      BY <1>4, <2>1 DEF Chunked
    <3> QED
      BY <1>8, <3>1, <3>2, <3>3 DEF Reading, Unknown
  <2>2. CASE ~(answer.framing = "chunked" /\ answer.length > 0)
    <3>1. Plain(wire, v, answer.start)
      BY <2>2 DEF Answered
    <3>2. CASE l = Unknown
      <4>1. http'.left = -1
        BY <1>4, <3>2 DEF Unknown
      <4> QED
        BY <1>8, <3>1, <4>1 DEF Reading, Chunked
    <3>3. CASE l \in Nat /\ l = answer.length
      <4>1. http'.left \in Nat /\ answer.start + http'.left = Extent(v)
        BY <1>4, <1>8, <3>3
      <4>2. http'.left # -2
        BY <4>1
      <4> QED
        BY <1>8, <3>1, <4>1, <4>2 DEF Reading, Chunked
    <3> QED
      BY <1>1, <1>2, <2>2, <3>2, <3>3
  <2> QED
    BY <1>2, <2>1, <2>2
<1> QED
  BY <1>4, <1>6, <1>7, <1>9

LEMMA GotHeaderKeeps ==
    ASSUME IInv, GotHeader
    PROVE  IInv'
<1>1. /\ at = "header" /\ answer.code # 304
      /\ blacklisted' = blacklisted /\ requests' = requests /\ srv' = srv /\ ver' = ver
  BY DEF GotHeader, HeaderCame
<1>2. /\ entry \in Entry /\ answer \in Header /\ from \in Nat
      /\ tries \in -1 .. MaxTries - 1 /\ blacklisted \in BOOLEAN
      /\ request \in Request /\ wire \in Seq(Token) /\ cut \in BOOLEAN
      /\ ~srv.tagged => entry.tag = 0 /\ answer.tag = 0
  BY DEF IInv, Typed, StateTyped, NetTyped, EntryTyped, Steady, Tagging
<1>3. CASE TooLate
  <2>1. Off /\ entry' = entry
    BY <1>3 DEF GotHeader
  <2>2. requests' \in 0 .. MaxRequests /\ blacklisted' \in BOOLEAN
    BY <1>1 DEF IInv, Typed, StateTyped
  <2> QED
    BY <1>1, <1>2, <2>1, <2>2, OffKeeps
<1>4. CASE ~TooLate /\ Modified(entry) /\ answer.start > 0
  <2>1. entry' = NoEntry /\ Retry(0, answer.start, tries)
    BY <1>4 DEF GotHeader, Restart, Deleted
  <2>2. entry' \in Entry /\ (~srv.tagged => entry'.tag = 0) /\ 0 \in Nat
    BY <2>1, EntryFields
  <2>3. blacklisted' \in BOOLEAN
    BY <1>1, <1>2
  <2>4. answer.start \in Nat /\ (srv.ranges = "late" => answer.start = 0)
    BY <1>1, <1>4, Begins
  <2> QED
    BY <1>1, <1>2, <2>1, <2>2, <2>3, <2>4, RetryKeeps
<1>5. CASE ~TooLate /\ ~(Modified(entry) /\ answer.start > 0)
  <2>1. entry' = Checked(entry) /\ GoOn
    BY <1>5 DEF GotHeader
  <2>2. PICK n \in 0 .. Len(wire) :
           rb' = SubSeq(wire, 1, n) /\ wire' = SubSeq(wire, n + 1, Len(wire))
    BY <2>1 DEF GoOn
  <2>3. /\ from' = answer.start /\ start' = answer.start /\ Framed /\ at' = "handle"
        /\ answer' = NoAnswer
        /\ tries' = tries /\ request' = request /\ cut' = cut
    BY <2>1 DEF GoOn
  <2>4. PICK v \in Versions \cup {0} : Answered(v)
    BY <1>1 DEF IInv, Steady, HeaderTrue
  <2>5. /\ http' \in Info /\ http'.code = answer.code
        /\ st' \in {"retry", "end", "closed"} /\ (st' # "retry" => http'.close)
        /\ Reading(wire, http', answer.start, v)
    BY <1>2, <2>3, <2>4, FramedReads
  <2>6. n \in Nat /\ n <= Len(wire)
    BY <1>2
  <2>7. rb' \in Seq(Token) /\ wire' \in Seq(Token) /\ rb' \o wire' = wire
    BY <1>2, <2>2, <2>6, StreamMoved
  <2>8. /\ entry' \in Entry
        /\ entry'.tag = IF answer.tag = 0 THEN entry.tag ELSE answer.tag
    BY <1>2, <2>1, CheckedFields
  <2>9. Answering(v)'
    <3>1. v = 0 <=> http'.code >= 400
      BY <2>4, <2>5 DEF Answered
    <3>2. v # 0 /\ srv'.tagged => entry'.tag = v
      BY <1>1, <2>4, <2>8 DEF Answered
    <3>3. Reading(rb' \o wire', http', from', v)
      BY <2>3, <2>5, <2>7
    <3>4. v # 0 => start' < Extent(v)
      BY <2>3, <2>4 DEF Answered
    <3> QED
      BY <3>1, <3>2, <3>3, <3>4 DEF Answering
  <2>10. NetTyped'
    BY <1>2, <2>3, <2>5, <2>7, Blank DEF NetTyped
  <2>11. EntryTyped' /\ (srv.ranges = "late" => start' = 0)
    BY <1>1, <1>5, <2>3, <2>8, Begins DEF EntryTyped
  <2>12. Tagging'
    BY <1>1, <1>2, <2>3, <2>8, Blank DEF Tagging
  <2>13. at' \in {"wait", "handle", "chunks"} /\ at' # "chunks" /\ tries' \in -1 .. MaxTries - 1
         /\ cut' \in BOOLEAN
    BY <1>2, <2>3
  <2> QED
    BY <1>1, <2>4, <2>5, <2>9, <2>10, <2>11, <2>12, <2>13, BodyKeeps
<1> QED
  BY <1>3, <1>4, <1>5

-----------------------------------------------------------------------------
(* The body                                                                *)

LEMMA ReceiveKeeps ==
    ASSUME IInv, Receive
    PROVE  IInv'
<1>1. /\ at = "wait" /\ at' = "handle"
      /\ from' = from /\ start' = start /\ tries' = tries /\ blacklisted' = blacklisted
      /\ http' = http
      /\ st' = st /\ entry' = entry /\ requests' = requests /\ srv' = srv /\ ver' = ver
      /\ request' = request /\ answer' = answer /\ cut' = cut
  BY DEF Receive, connVars
<1>2. PICK v : Answers(v)
  BY <1>1, Reads
<1>3. PICK n \in 1 .. Len(wire) :
         rb' = rb \o SubSeq(wire, 1, n) /\ wire' = SubSeq(wire, n + 1, Len(wire))
  BY DEF Receive
<1>4. rb \in Seq(Token) /\ wire \in Seq(Token) /\ n \in Nat /\ n <= Len(wire)
  BY <1>2 DEF Answers
<1>5. rb' \in Seq(Token) /\ wire' \in Seq(Token) /\ rb' \o wire' = rb \o wire
  BY <1>3, <1>4, StreamMoved
<1>6. Reading((rb \o wire)', http', from', v)
  BY <1>1, <1>2, <1>5 DEF Answers
<1>7. /\ tries' \in {0, tries} /\ st' \in {"retry", "end", "closed"} /\ cut' \in BOOLEAN
      /\ http' \in Info /\ entry' \in Entry
      /\ from' \in Nat /\ start' = start /\ (st' # "retry" => http.close)
      /\ at' \in {"wait", "handle", "chunks"} /\ at' # "chunks"
  BY <1>1, <1>2 DEF Answers
<1> QED
  BY <1>1, <1>2, <1>5, <1>6, <1>7, AnswerKeeps

LEMMA ClosedKeeps ==
    ASSUME IInv, Closed
    PROVE  IInv'
<1>1. /\ at = "wait" /\ blacklisted' = blacklisted /\ requests' = requests /\ srv' = srv
      /\ ver' = ver /\ entry' = entry
  BY DEF Closed
<1>2. CASE st = "retry"
  <2>1. Retry(from, start, tries)
    BY <1>1, <1>2 DEF Closed
  <2> QED
    BY <1>1, <2>1, EntryStays, RetryKeeps
<1>3. CASE st # "retry"
  <2>1. /\ st' = "closed" /\ at' = "handle" /\ from' = from /\ start' = start
        /\ tries' = tries /\ http' = http
        /\ rb' = rb /\ request' = request /\ answer' = answer /\ wire' = wire /\ cut' = cut
    BY <1>3 DEF Closed, netVars
  <2>2. PICK v : Answers(v)
    BY <1>1, Reads
  <2>3. Reading((rb \o wire)', http', from', v)
    BY <2>1, <2>2 DEF Answers
  <2>4. /\ tries' \in {0, tries} /\ st' \in {"retry", "end", "closed"} /\ cut' \in BOOLEAN
        /\ http' \in Info /\ entry' \in Entry /\ rb' \in Seq(Token) /\ wire' \in Seq(Token)
        /\ from' \in Nat /\ start' = start /\ (st' # "retry" => http.close)
        /\ at' \in {"wait", "handle", "chunks"} /\ at' # "chunks"
    BY <1>1, <1>3, <2>1, <2>2 DEF Answers
  <2> QED
    BY <1>1, <2>1, <2>2, <2>3, <2>4, AnswerKeeps
<1> QED
  BY <1>2, <1>3

\* What was read from the buffer belongs to version v.
LEMMA NewBytes ==
    ASSUME NEW v, Answers(v), NEW n \in Nat, n <= Len(rb), from + n <= Extent(v),
           \A i \in 1 .. n : i \in DOMAIN (rb \o wire) => (rb \o wire)[i] = Byte(v, from + i)
    PROVE  /\ SubSeq(rb, 1, n) \in Seq(Bytes) /\ Len(SubSeq(rb, 1, n)) = n
           /\ \A i \in 1 .. n : SubSeq(rb, 1, n)[i] = Byte(v, from + i)
<1> DEFINE s == rb \o wire
           t == SubSeq(rb, 1, n)
<1>1. /\ rb \in Seq(Token) /\ wire \in Seq(Token) /\ from \in Nat /\ Extent(v) \in Nat
      /\ v \in Versions \cup {0}
  BY DEF Answers
<1>2. /\ s \in Seq(Token) /\ Len(s) = Len(rb) + Len(wire)
      /\ Len(rb) \in Nat /\ Len(wire) \in Nat
      /\ \A i \in 1 .. Len(rb) : s[i] = rb[i]
  BY <1>1, Joined
<1>3. \A i \in 1 .. n : i \in DOMAIN s => s[i] = Byte(v, from + i)
  OBVIOUS
<1> HIDE DEF s
<1>4. \A i \in 1 .. n : rb[i] = Byte(v, from + i) /\ rb[i] \in Bytes
  <2> SUFFICES ASSUME NEW i \in 1 .. n PROVE rb[i] = Byte(v, from + i) /\ rb[i] \in Bytes
    OBVIOUS
  <2>1. i \in 1 .. Len(rb) /\ i \in DOMAIN s
    BY <1>2
  <2>2. from + i \in Nat \ {0} /\ from + i <= Extent(v)
    BY <1>1
  <2>3. rb[i] = Byte(v, from + i)
    BY <1>2, <1>3, <2>1
  <2> QED
    BY <1>1, <2>2, <2>3, BytesOf
<1>5. /\ t \in Seq(Bytes)
      /\ Len(t) = IF 1 <= n THEN n - 1 + 1 ELSE 0
      /\ \A i \in 1 .. n - 1 + 1 : t[i] = rb[1 + i - 1]
  BY <1>4, SubSeqProperties
<1> HIDE DEF t
<1>6. Len(t) = n /\ n - 1 + 1 = n /\ \A i \in 1 .. n : 1 + i - 1 = i
  BY <1>5
<1>7. \A i \in 1 .. n : t[i] = rb[i]
  BY <1>5, <1>6
<1> QED
  BY <1>4, <1>5, <1>6, <1>7 DEF t

\* An entry that lets go its connection
LEMMA FinishKeeps ==
    ASSUME IInv, NEW e \in Entry, NEW f \in Nat, e.tag = entry.tag, Finish(e, f),
           blacklisted' = blacklisted, requests' = requests, srv' = srv, ver' = ver
    PROVE  IInv'
<1>1. /\ requests \in 0 .. MaxRequests /\ blacklisted \in BOOLEAN /\ http \in Info
      /\ ~srv.tagged => entry.tag = 0
  BY DEF IInv, Typed, StateTyped, NetTyped, Steady, Tagging
<1>2. entry' \in Entry /\ (~srv.tagged => entry'.tag = 0)
  <2>1. CASE f = 0 /\ http.code >= 400
    <3>1. entry' = Added(NoEntry, 0, <<Byte(0, 1)>>)
      BY <2>1 DEF Finish, Deleted
    <3>2. <<Byte(0, 1)>> \in Seq(Bytes)
      BY DEF Bytes
    <3>3. NoEntry \in Entry /\ NoEntry.tag = 0 /\ 0 \in Nat
      BY EntryFields
    <3>4. /\ Added(NoEntry, 0, <<Byte(0, 1)>>) \in Entry
          /\ Added(NoEntry, 0, <<Byte(0, 1)>>).tag = NoEntry.tag
      <4>1. ASSUME NEW new \in Seq(Bytes)
            PROVE  Added(NoEntry, 0, new) \in Entry /\ Added(NoEntry, 0, new).tag = NoEntry.tag
        BY <3>3, Fragment
      <4> QED
        BY <3>2, <4>1
    <3> QED
      BY <3>1, <3>3, <3>4
  <2>2. CASE ~(f = 0 /\ http.code >= 400)
    <3>1. entry' = Normalized(e, f)
      BY <2>2 DEF Finish
    <3> QED
      BY <1>1, <3>1, Normal
  <2> QED
    BY <2>1, <2>2
<1>3. Off
  BY DEF Finish
<1> QED
  BY <1>1, <1>2, <1>3, OffKeeps

\* What read_normal_http_data() takes
LEMMA TakenIs ==
    ASSUME NEW v, Answers(v), http.left # Chunked
    PROVE  /\ Taken = Len(rb) /\ Taken \in Nat /\ from + Taken <= Extent(v)
           /\ TakenBytes \in Seq(Bytes) /\ Len(TakenBytes) = Taken
           /\ \A i \in 1 .. Taken : TakenBytes[i] = Byte(v, from + i)
           /\ http.left >= 0 => from + http.left = Extent(v)
<1>1. /\ rb \in Seq(Token) /\ wire \in Seq(Token) /\ rb \o wire \in Seq(Token)
      /\ http \in Info /\ v \in Versions \cup {0} /\ from \in Nat /\ Extent(v) \in Nat
      /\ Reading(rb \o wire, http, from, v)
  BY DEF Answers
<1>2. After(rb \o wire, rb \o <<>>, 0)
  BY <1>1, StreamCut
<1>3. http.left = IF http.left > 0 THEN http.left - 0 ELSE http.left
  BY <1>1 DEF Info, Unknown, Chunked
<1>4. /\ Plain(rb \o wire, v, from)
      /\ http.left >= 0 => Len(rb \o wire) <= http.left /\ from + http.left = Extent(v)
  <2> DEFINE s == rb \o wire
             t == rb \o <<>>
  <2>1. s \in Seq(Token) /\ After(s, t, 0) /\ Reading(s, http, from, v)
    BY <1>1, <1>2
  <2> HIDE DEF s, t
  <2>2. Plain(s, v, from) /\ (http.left >= 0 => Len(s) <= http.left /\ from + http.left = Extent(v))
    BY <1>1, <1>3, <2>1, ReadingPlain
  <2> QED
    BY <2>2 DEF s
<1>5. Len(rb \o wire) = Len(rb) + Len(wire) /\ Len(rb) \in Nat /\ Len(wire) \in Nat
  BY <1>1, Joined
<1>6. http.left \in Nat \/ http.left = Unknown
  BY <1>1 DEF Info
<1>7. Taken = Len(rb)
  <2>1. CASE http.left = Unknown
    BY <2>1 DEF Taken
  <2>2. CASE http.left \in Nat
    <3>1. Len(rb) <= http.left /\ http.left # Unknown
      BY <1>4, <1>5, <2>2 DEF Unknown
    <3>2. Min({Len(rb), http.left}) = Len(rb)
      BY <1>5, <2>2, <3>1, Minimum
    <3> QED
      BY <3>1, <3>2 DEF Taken
  <2> QED
    BY <1>6, <2>1, <2>2
<1>8. /\ from + Len(rb \o wire) <= Extent(v)
      /\ \A i \in DOMAIN (rb \o wire) : (rb \o wire)[i] = Byte(v, from + i)
  BY <1>4 DEF Plain
<1>9. from + Len(rb) <= Extent(v)
  BY <1>1, <1>5, <1>8
<1>10. /\ SubSeq(rb, 1, Len(rb)) \in Seq(Bytes) /\ Len(SubSeq(rb, 1, Len(rb))) = Len(rb)
       /\ \A i \in 1 .. Len(rb) : SubSeq(rb, 1, Len(rb))[i] = Byte(v, from + i)
  <2>1. Len(rb) <= Len(rb)
    BY <1>5
  <2> QED
    BY <1>5, <1>8, <1>9, <2>1, NewBytes
<1> QED
  BY <1>4, <1>5, <1>7, <1>9, <1>10 DEF TakenBytes

LEMMA ReadNormalKeeps ==
    ASSUME IInv, ReadNormal
    PROVE  IInv'
<1>1. /\ at = "handle" /\ st # "closed" /\ http.left # Chunked
      /\ blacklisted' = blacklisted /\ requests' = requests /\ srv' = srv /\ ver' = ver
  BY DEF ReadNormal, NormalData
<1>2. PICK v : Answers(v)
  BY <1>1, Reads
<1>3. /\ Taken = Len(rb) /\ Taken \in Nat /\ TakenBytes \in Seq(Bytes) /\ Len(TakenBytes) = Taken
      /\ http.left >= 0 => from + http.left = Extent(v)
  BY <1>1, <1>2, TakenIs
<1>4. entry \in Entry /\ from \in Nat
  BY <1>2 DEF Answers
<1> DEFINE a == Added(entry, from, TakenBytes)
<1>5. a \in Entry /\ a.tag = entry.tag /\ from + Taken \in Nat
  BY <1>3, <1>4, Fragment
<1> HIDE DEF a
<1>6. CASE AllCame
  <2>1. Finish(a, from + Taken)
    BY <1>6 DEF ReadNormal, NormalData, a
  <2> QED
    BY <1>1, <1>5, <2>1, FinishKeeps
<1>7. CASE ~AllCame
  <2>1. /\ entry' = a /\ from' = from + Taken
        /\ tries' = TriesAfter(TakenBytes)
        /\ http' = [http EXCEPT !.left = IF @ > 0 THEN @ - Taken ELSE @]
        /\ rb' = SubSeq(rb, Taken + 1, Len(rb)) /\ at' = "wait"
        /\ st' = st /\ start' = start /\ request' = request /\ answer' = answer /\ wire' = wire
        /\ cut' = cut
    BY <1>7 DEF ReadNormal, NormalData, ReadMore, netVars, a
  <2>2. tries' \in {0, tries}
    BY <2>1 DEF TriesAfter
  <2>3. /\ rb \in Seq(Token) /\ wire \in Seq(Token) /\ rb \o wire \in Seq(Token)
        /\ http \in Info /\ v \in Versions \cup {0} /\ Reading(rb \o wire, http, from, v)
    BY <1>2 DEF Answers
  <2>4. Taken <= Len(rb) /\ Len(rb) \in Nat
    BY <1>3
  <2>5. rb' \in Seq(Token) /\ After(rb \o wire, rb' \o wire', Taken)
    BY <1>3, <2>1, <2>3, <2>4, Skipped, StreamSkipped
  <2> DEFINE l == IF http.left > 0 THEN http.left - Taken ELSE http.left
  <2>6. l \in Nat \cup {Unknown, Chunked}
    <3>1. http.left \in Nat \/ http.left = Unknown
      BY <1>1, <2>3 DEF Info
    <3>2. CASE http.left = Unknown
      BY <3>2 DEF Unknown
    <3>3. CASE http.left \in Nat
      <4>1. from + Taken <= from + http.left
        BY <1>1, <1>2, <1>3, <3>3, TakenIs
      <4> QED
        BY <1>3, <1>4, <3>3, <4>1
    <3> QED
      BY <3>1, <3>2, <3>3
  <2>7. http' = [http EXCEPT !.left = l]
    BY <2>1
  <2> HIDE DEF l
  <2>8. http' \in Info /\ http'.left = l /\ http'.code = http.code /\ http'.close = http.close
    BY <2>3, <2>6, <2>7 DEF Info
  <2>9. Reading(rb' \o wire', http', from + Taken, v)
    <3>1. http'.left = IF http.left > 0 THEN http.left - Taken ELSE http.left
      BY <2>8 DEF l
    <3> QED
      BY <1>1, <1>4, <2>3, <2>5, <2>8, <3>1, ReadingPlain
  <2>10. Reading((rb \o wire)', http', from', v)
    BY <2>1, <2>9
  <2>11. /\ st' \in {"retry", "end", "closed"} /\ cut' \in BOOLEAN /\ wire' \in Seq(Token)
         /\ entry' \in Entry /\ entry'.tag = entry.tag
         /\ from' \in Nat /\ start' = start /\ (st' # "retry" => http.close)
         /\ at' \in {"wait", "handle", "chunks"} /\ at' # "chunks"
    BY <1>2, <1>5, <2>1 DEF Answers
  <2> QED
    BY <1>1, <1>2, <2>1, <2>2, <2>5, <2>8, <2>10, <2>11, AnswerKeeps
<1> QED
  BY <1>6, <1>7

LEMMA ReadDoneKeeps ==
    ASSUME IInv, ReadDone
    PROVE  IInv'
<1>1. /\ Finish(entry, from)
      /\ blacklisted' = blacklisted /\ requests' = requests /\ srv' = srv /\ ver' = ver
  BY DEF ReadDone
<1>2. entry \in Entry /\ from \in Nat
  BY DEF IInv, Typed, EntryTyped
<1> QED
  BY <1>1, <1>2, FinishKeeps

\* A step that changes nothing but where the connection is and what http has
\* of the chunk
LEMMA ChunkKeeps ==
    ASSUME IInv, at \in {"wait", "handle", "chunks"}, at' \in {"wait", "handle", "chunks"},
           http.left = Chunked, NEW c \in Nat \cup {Size, Zero, DataEnd},
           http' = [http EXCEPT !.chunk = c],
           \A v, h : Answers(v) /\ h \in Info /\ h.left = Chunked /\ h.chunk = c
                       => Reading(rb \o wire, h, from, v),
           from' = from, start' = start, tries' = tries, rb' = rb, entry' = entry, wire' = wire,
           cut' = cut,
           st' = st, request' = request, answer' = answer,
           blacklisted' = blacklisted, requests' = requests, srv' = srv, ver' = ver
    PROVE  IInv'
<1>1. PICK v : Answers(v)
  BY Reads
<1>2. /\ http' \in Info /\ http'.left = Chunked /\ http'.chunk = c
      /\ http'.code = http.code /\ http'.close = http.close
  <2>1. http \in Info
    BY <1>1 DEF Answers
  <2> QED
    BY <2>1 DEF Info
<1>3. Reading((rb \o wire)', http', from', v)
  BY <1>1, <1>2
<1>4. /\ tries' \in {0, tries} /\ st' \in {"retry", "end", "closed"} /\ cut' \in BOOLEAN
      /\ rb' \in Seq(Token) /\ wire' \in Seq(Token) /\ entry' \in Entry
      /\ from' \in Nat /\ start' = start /\ (st' # "retry" => http.close)
      /\ entry'.tag = entry.tag
  BY <1>1 DEF Answers
<1> QED
  BY <1>1, <1>2, <1>3, <1>4, AnswerKeeps

\* http' = http, as an update of the chunk
LEMMA SameChunk ==
    ASSUME IInv, http' = http, at \in {"wait", "handle", "chunks"}
    PROVE  /\ http' = [http EXCEPT !.chunk = http.chunk]
           /\ http.chunk \in Nat \cup {Size, Zero, DataEnd}
           /\ http.left = Chunked =>
                \A v, h : Answers(v) /\ h \in Info /\ h.left = Chunked /\ h.chunk = http.chunk
                            => Reading(rb \o wire, h, from, v)
<1>1. http \in Info
  BY DEF IInv, Typed, NetTyped
<1>2. http.chunk \in Nat \cup {Size, Zero, DataEnd} /\ http' = [http EXCEPT !.chunk = http.chunk]
  BY <1>1 DEF Info
<1>3. ASSUME http.left = Chunked, NEW v, NEW h, Answers(v), h.left = Chunked, h.chunk = http.chunk
      PROVE  Reading(rb \o wire, h, from, v)
  BY <1>3 DEF Answers, Reading
<1> QED
  BY <1>2, <1>3

LEMMA ReadChunkedKeeps ==
    ASSUME IInv, ReadChunked
    PROVE  IInv'
<1>1. /\ at = "handle" /\ http.left = Chunked /\ at' = "chunks"
      /\ from' = from /\ start' = start /\ tries' = tries /\ blacklisted' = blacklisted
      /\ http' = http
      /\ st' = st /\ rb' = rb /\ entry' = entry /\ requests' = requests /\ srv' = srv
      /\ ver' = ver /\ request' = request /\ answer' = answer /\ wire' = wire /\ cut' = cut
  BY DEF ReadChunked, connVars, netVars
<1> QED
  BY <1>1, SameChunk, ChunkKeeps

LEMMA ChunkBreakKeeps ==
    ASSUME IInv, ChunkBreak
    PROVE  IInv'
<1>1. /\ at = "chunks" /\ at' = "wait"
      /\ from' = from /\ start' = start /\ tries' = tries /\ blacklisted' = blacklisted
      /\ http' = http
      /\ st' = st /\ rb' = rb /\ entry' = entry /\ requests' = requests /\ srv' = srv
      /\ ver' = ver /\ request' = request /\ answer' = answer /\ wire' = wire /\ cut' = cut
  BY DEF ChunkBreak, Looping, ReadMore, loopRest, netVars
<1>2. http.left = Chunked
  BY <1>1 DEF IInv, Steady, BodyTrue
<1> QED
  BY <1>1, <1>2, SameChunk, ChunkKeeps

LEMMA ChunkZeroKeeps ==
    ASSUME IInv, ChunkZero
    PROVE  IInv'
<1>1. /\ at = "chunks" /\ at' = "chunks" /\ http.chunk = Zero
      /\ http' = [http EXCEPT !.chunk = DataEnd]
      /\ from' = from /\ start' = start /\ tries' = tries /\ blacklisted' = blacklisted
      /\ st' = st /\ rb' = rb /\ entry' = entry /\ requests' = requests /\ srv' = srv
      /\ ver' = ver /\ request' = request /\ answer' = answer /\ wire' = wire /\ cut' = cut
  BY DEF ChunkZero, Looping, loopRest, netVars
<1>2. http.left = Chunked
  BY <1>1 DEF IInv, Steady, BodyTrue
<1>3. \A v, h : Answers(v) /\ h \in Info /\ h.left = Chunked /\ h.chunk = DataEnd
                  => Reading(rb \o wire, h, from, v)
  BY <1>1, <1>2, ReadingZero DEF Answers
<1> QED
  BY <1>1, <1>2, <1>3, ChunkKeeps

LEMMA ChunkTrailerKeeps ==
    ASSUME IInv, ChunkTrailer
    PROVE  IInv' /\ Finish(entry, from) /\ \A v : Answers(v) => from = Extent(v)
<1>1. /\ at = "chunks" /\ http.chunk = DataEnd /\ Line > 0
      /\ blacklisted' = blacklisted /\ requests' = requests /\ srv' = srv /\ ver' = ver
  BY DEF ChunkTrailer, Looping
<1>2. ASSUME NEW v, Answers(v)
      PROVE  Line = 1 /\ from = Extent(v)
  <2>1. /\ rb \in Seq(Token) /\ wire \in Seq(Token) /\ Reading(rb \o wire, http, from, v)
        /\ http.left = Chunked
    BY <1>1, <1>2 DEF Answers
  <2>2. PICK pos : Place(rb \o wire, DataEnd, from, v, pos)
    BY <1>1, <2>1 DEF Reading
  <2>3. from = Extent(v) /\ Len(rb \o wire) <= 1
    BY <2>2 DEF Place
  <2>4. Len(rb \o wire) = Len(rb) + Len(wire) /\ Len(rb) \in Nat /\ Len(wire) \in Nat
    BY <2>1, Joined
  <2>5. ASSUME NEW i \in DOMAIN rb, rb[i].k = "LF"
        PROVE  i >= 1 /\ 1 \in DOMAIN rb /\ rb[1].k = "LF"
    <3>1. i \in 1 .. Len(rb) /\ Len(rb) <= 1
      BY <2>1, <2>3, <2>4
    <3>2. i = 1
      BY <2>4, <3>1
    <3> QED
      BY <2>5, <3>2
  <2>6. Line = 1
    BY <1>1, <2>1, <2>5, LineIs
  <2> QED
    BY <2>3, <2>6
<1>3. PICK v : Answers(v)
  BY <1>1, Reads
<1>4. Finish(entry, from)
  <2>1. Line <= 2
    BY <1>2, <1>3
  <2> QED
    BY <2>1 DEF ChunkTrailer
<1>5. entry \in Entry /\ from \in Nat
  BY <1>3 DEF Answers
<1> QED
  BY <1>1, <1>2, <1>4, <1>5, FinishKeeps

LEMMA ChunkSizeKeeps ==
    ASSUME IInv, ChunkSize
    PROVE  IInv' /\ rb # <<>> /\ rb[1].k = "size"
<1>1. /\ at = "chunks" /\ http.chunk = Size /\ Line > 0
      /\ blacklisted' = blacklisted /\ requests' = requests /\ srv' = srv /\ ver' = ver
      /\ entry' = entry
  BY DEF ChunkSize, Looping
<1>2. PICK v : Answers(v)
  BY <1>1, Reads
<1>3. /\ rb \in Seq(Token) /\ wire \in Seq(Token) /\ rb \o wire \in Seq(Token)
      /\ Reading(rb \o wire, http, from, v)
      /\ http.left = Chunked /\ http \in Info /\ v \in Versions \cup {0} /\ from \in Nat
  BY <1>1, <1>2 DEF Answers
<1> DEFINE s == rb \o wire
<1>4. /\ Len(s) = Len(rb) + Len(wire) /\ Len(rb) \in Nat /\ Len(wire) \in Nat
      /\ \A i \in 1 .. Len(rb) : s[i] = rb[i]
      /\ s \in Seq(Token) /\ Reading(s, http, from, v)
  BY <1>3, Joined
<1> HIDE DEF s
<1>5. rb # <<>>
  <2>1. {i \in DOMAIN rb : rb[i].k = "LF"} # {}
    BY <1>1 DEF Line
  <2> QED
    BY <2>1
<1>6. 1 \in 1 .. Len(rb) /\ DOMAIN rb = 1 .. Len(rb) /\ 1 \in DOMAIN s /\ DOMAIN s = 1 .. Len(s)
  BY <1>3, <1>4, <1>5
<1>7. PICK pos : Offsets(pos) /\ Lines(s, v, pos) /\ Place(s, Size, from, v, pos)
  BY <1>1, <1>3, <1>4 DEF Reading
<1>8. s[1].k = "size"
  BY <1>6, <1>7 DEF Place, AtSize
<1>9. Has(s, 2, "LF")
  <2>1. Has(s, 1 + 1, "LF")
    BY <1>6, <1>7, <1>8 DEF Lines
  <2> QED
    BY <2>1
<1>10. rb[1].k = "size" /\ rb[1] = s[1]
  BY <1>4, <1>6, <1>8
<1>11. Line = 2 /\ 2 <= Len(rb)
  <2>1. ASSUME NEW i \in DOMAIN rb, rb[i].k = "LF"
        PROVE  i >= 2 /\ 2 \in DOMAIN rb /\ rb[2].k = "LF"
    <3>1. i # 1
      BY <1>10, <2>1
    <3>2. i >= 2 /\ 2 \in 1 .. Len(rb)
      BY <1>4, <1>6, <3>1
    <3>3. 2 \in DOMAIN s /\ s[2] = rb[2]
      BY <1>4, <1>6, <3>2
    <3> QED
      BY <1>6, <1>9, <3>2, <3>3 DEF Has
  <2>2. 2 \in Nat \ {0}
    OBVIOUS
  <2>3. \A i \in DOMAIN rb : rb[i].k = "LF" => i >= 2 /\ 2 \in DOMAIN rb /\ rb[2].k = "LF"
    BY <2>1
  <2> QED
    BY <1>1, <1>3, <2>2, <2>3, LineIs, Zenon
<1>12. /\ rb' = SubSeq(rb, 2 + 1, Len(rb))
       /\ http' = [http EXCEPT !.chunk = IF rb[1].n = 0 THEN Zero ELSE rb[1].n]
       /\ at' = at /\ from' = from /\ start' = start /\ tries' = tries /\ st' = st
       /\ request' = request
       /\ answer' = answer /\ wire' = wire /\ cut' = cut
  BY <1>10, <1>11 DEF ChunkSize, Killed, netVars
<1>13. rb[1].n \in Nat
  <2>1. rb[1] \in Token
    BY <1>3, <1>6
  <2> QED
    BY <2>1 DEF Token
<1>14. /\ http' \in Info /\ http'.left = Chunked /\ http'.code = http.code
       /\ http'.close = http.close /\ http'.chunk = IF s[1].n = 0 THEN Zero ELSE s[1].n
  <2> DEFINE c == IF rb[1].n = 0 THEN Zero ELSE rb[1].n
  <2>1. c \in Nat \cup {Size, Zero, DataEnd}
    BY <1>13
  <2>2. http' = [http EXCEPT !.chunk = c]
    BY <1>12
  <2>3. c = IF s[1].n = 0 THEN Zero ELSE s[1].n
    BY <1>10
  <2> HIDE DEF c
  <2>4. http' \in Info /\ http'.left = http.left /\ http'.code = http.code
        /\ http'.close = http.close /\ http'.chunk = c
    BY <1>3, <2>1, <2>2 DEF Info
  <2> QED
    BY <1>3, <2>3, <2>4
<1>15. rb' \in Seq(Token) /\ After(s, rb' \o wire', 2)
  BY <1>3, <1>4, <1>11, <1>12, Skipped, StreamSkipped DEF s
<1>16. Reading(rb' \o wire', http', from, v)
  <2>1. s # <<>>
    BY <1>4, <1>6
  <2> DEFINE t == rb' \o wire'
             g == http'
  <2>2. After(s, t, 2) /\ g \in Info /\ g.left = Chunked
        /\ g.chunk = IF s[1].n = 0 THEN Zero ELSE s[1].n
    BY <1>14, <1>15
  <2> HIDE DEF t, g
  <2>3. Reading(t, g, from, v)
    BY <1>1, <1>3, <1>4, <2>1, <2>2, ReadingSize
  <2> QED
    BY <2>3 DEF t, g
<1>17. Reading((rb \o wire)', http', from', v)
  BY <1>12, <1>16
<1>18. /\ tries' \in {0, tries} /\ st' \in {"retry", "end", "closed"} /\ cut' \in BOOLEAN
       /\ wire' \in Seq(Token) /\ entry' \in Entry /\ entry'.tag = entry.tag
       /\ from' \in Nat /\ start' = start /\ (st' # "retry" => http.close)
       /\ at' \in {"wait", "handle", "chunks"}
  BY <1>1, <1>2, <1>12 DEF Answers
<1>19. IInv'
  BY <1>1, <1>2, <1>12, <1>14, <1>15, <1>17, <1>18, AnswerKeeps
<1> QED
  BY <1>5, <1>10, <1>19

\* What read_chunked_http_data() takes of a chunk
ChunkTaken == Min({http.chunk, Len(rb)})
ChunkNew == SubSeq(rb, 1, ChunkTaken)
ChunkRest == SubSeq(rb, ChunkTaken + 1, Len(rb))

LEMMA ChunkTakenIs ==
    ASSUME NEW v, Answers(v), http.left = Chunked, http.chunk >= 0
    PROVE  /\ http.chunk \in Nat /\ ChunkTaken \in Nat
           /\ ChunkTaken <= Len(rb) /\ ChunkTaken <= http.chunk
           /\ from + ChunkTaken <= Extent(v)
           /\ ChunkNew \in Seq(Bytes) /\ Len(ChunkNew) = ChunkTaken
           /\ \A i \in 1 .. ChunkTaken : ChunkNew[i] = Byte(v, from + i)
           /\ ChunkRest \in Seq(Token) /\ Len(ChunkRest) = Len(rb) - ChunkTaken
           /\ After(rb \o wire, ChunkRest \o wire, ChunkTaken)
           /\ http.chunk = ChunkTaken /\ ChunkRest # <<>> => ChunkRest[1].k = "CR"
<1> DEFINE s == rb \o wire
           c == http.chunk
           n == ChunkTaken
<1>1. /\ rb \in Seq(Token) /\ wire \in Seq(Token) /\ s \in Seq(Token)
      /\ http \in Info /\ v \in Versions \cup {0} /\ from \in Nat /\ Extent(v) \in Nat
      /\ Reading(s, http, from, v)
  BY DEF Answers
<1>2. c \in Nat
  BY <1>1 DEF Info, Size, Zero, DataEnd
<1>3. /\ Len(s) = Len(rb) + Len(wire) /\ Len(rb) \in Nat /\ Len(wire) \in Nat
      /\ \A i \in 1 .. Len(rb) : s[i] = rb[i]
  BY <1>1, Joined
<1>4. n = IF c <= Len(rb) THEN c ELSE Len(rb)
  BY <1>2, <1>3, Minimum DEF ChunkTaken
<1> HIDE DEF s, n
<1>5. n \in Nat /\ n <= Len(rb) /\ n <= c
  BY <1>2, <1>3, <1>4
<1>6. PICK pos : Place(s, c, from, v, pos)
  BY <1>1 DEF Reading
<1>7. InChunk(s, 0, c, from, v, pos)
  BY <1>2, <1>6 DEF Place
<1>8. /\ from + c <= Extent(v)
      /\ \A j \in 1 .. c : j \in DOMAIN s => s[j] = Byte(v, from + j)
      /\ Has(s, c + 1, "CR")
  BY <1>1, <1>2, <1>7, InChunkData
<1> HIDE DEF c
<1>9. from + n <= Extent(v)
  BY <1>1, <1>2, <1>5, <1>8
<1>10. \A i \in 1 .. n : i \in DOMAIN s => s[i] = Byte(v, from + i)
  <2>1. \A i \in 1 .. n : i \in 1 .. c
    BY <1>2, <1>5
  <2> QED
    BY <1>8, <2>1
<1>11. /\ SubSeq(rb, 1, n) \in Seq(Bytes) /\ Len(SubSeq(rb, 1, n)) = n
       /\ \A i \in 1 .. n : SubSeq(rb, 1, n)[i] = Byte(v, from + i)
  BY <1>5, <1>9, <1>10, NewBytes DEF s
<1> DEFINE r == SubSeq(rb, n + 1, Len(rb))
<1>12. /\ r \in Seq(Token) /\ Len(r) = Len(rb) - n
       /\ \A i \in 1 .. Len(r) : r[i] = rb[i + n]
  BY <1>1, <1>5, Skipped
<1>13. After(s, r \o wire, n)
  BY <1>1, <1>5, StreamSkipped DEF s
<1> HIDE DEF r
<1>14. ASSUME c = n, r # <<>> PROVE r[1].k = "CR"
  <2>1. Len(r) \in Nat \ {0}
    BY <1>12, <1>14
  <2>2. 1 \in 1 .. Len(r) /\ 1 + n = c + 1 /\ c + 1 \in 1 .. Len(rb)
    BY <1>2, <1>3, <1>5, <1>12, <1>14, <2>1
  <2>3. r[1] = rb[c + 1] /\ rb[c + 1] = s[c + 1]
    BY <1>3, <1>12, <2>2
  <2>4. DOMAIN s = 1 .. Len(s) /\ c + 1 \in 1 .. Len(s)
    BY <1>1, <1>3, <2>2
  <2> QED
    BY <1>8, <2>3, <2>4 DEF Has
<1>15. ChunkTaken = n /\ ChunkNew = SubSeq(rb, 1, n) /\ ChunkRest = r /\ http.chunk = c
  BY DEF ChunkNew, ChunkRest, n, r, c
<1> QED
  BY <1>2, <1>5, <1>9, <1>11, <1>12, <1>13, <1>14, <1>15 DEF s

\* The cases of ChunkData
EolCame == EolIn(ChunkRest) > 0 /\ Len(ChunkRest) >= EolIn(ChunkRest)

LEMMA ChunkDataIs ==
    ASSUME ChunkData
    PROVE  /\ at = "chunks" /\ http.chunk >= 0
           /\ entry' = Added(entry, from, ChunkNew)
           /\ blacklisted' = blacklisted /\ requests' = requests /\ srv' = srv /\ ver' = ver
           /\ \/ http.chunk = ChunkTaken /\ EolIn(ChunkRest) = -1 /\ Off
              \/ /\ from' = from + ChunkTaken /\ tries' = TriesAfter(ChunkNew)
                 /\ st' = st /\ start' = start /\ request' = request
                 /\ answer' = answer /\ wire' = wire /\ cut' = cut
                 /\ \/ /\ http.chunk = ChunkTaken /\ EolCame
                       /\ http' = [http EXCEPT !.chunk = Size]
                       /\ rb' = SubSeq(ChunkRest, EolIn(ChunkRest) + 1, Len(ChunkRest))
                       /\ at' = at
                    \/ /\ http' = [http EXCEPT !.chunk = @ - ChunkTaken]
                       /\ rb' = ChunkRest /\ at' = "wait"
<1>1. /\ Looping /\ http.chunk >= 0
      /\ IF http.chunk = ChunkTaken /\ EolIn(ChunkRest) = -1
         THEN Off /\ entry' = Added(entry, from, ChunkNew)
         ELSE /\ entry' = Added(entry, from, ChunkNew)
              /\ from' = from + ChunkTaken
              /\ tries' = TriesAfter(ChunkNew)
              /\ IF http.chunk = ChunkTaken /\ EolIn(ChunkRest) > 0
                      /\ Len(ChunkRest) >= EolIn(ChunkRest)
                 THEN /\ http' = [http EXCEPT !.chunk = Size]
                      /\ rb' = SubSeq(ChunkRest, EolIn(ChunkRest) + 1, Len(ChunkRest))
                      /\ UNCHANGED at
                 ELSE /\ http' = [http EXCEPT !.chunk = @ - ChunkTaken]
                      /\ rb' = ChunkRest /\ ReadMore
              /\ UNCHANGED <<st, start, request, netVars>>
      /\ UNCHANGED <<blacklisted, requests, srv, ver>>
  BY Zenon DEF ChunkData, ChunkTaken, ChunkNew, ChunkRest
<1>2. CASE http.chunk = ChunkTaken /\ EolIn(ChunkRest) = -1
  BY <1>1, <1>2 DEF Looping
<1>3. CASE ~(http.chunk = ChunkTaken /\ EolIn(ChunkRest) = -1)
  <2>1. CASE http.chunk = ChunkTaken /\ EolCame
    BY <1>1, <1>3, <2>1 DEF Looping, EolCame, netVars
  <2>2. CASE ~(http.chunk = ChunkTaken /\ EolCame)
    BY <1>1, <1>3, <2>2 DEF Looping, EolCame, netVars, ReadMore
  <2> QED
    BY <2>1, <2>2
<1> QED
  BY <1>2, <1>3

LEMMA ChunkDataKeeps ==
    ASSUME IInv, ChunkData
    PROVE  IInv'
<1>1. /\ at = "chunks" /\ http.chunk >= 0
      /\ entry' = Added(entry, from, ChunkNew)
      /\ blacklisted' = blacklisted /\ requests' = requests /\ srv' = srv /\ ver' = ver
  BY ChunkDataIs
<1>2. PICK v : Answers(v)
  BY <1>1, Reads
<1>3. /\ rb \in Seq(Token) /\ wire \in Seq(Token) /\ rb \o wire \in Seq(Token)
      /\ Reading(rb \o wire, http, from, v)
      /\ http.left = Chunked /\ http \in Info /\ v \in Versions \cup {0} /\ from \in Nat
      /\ entry \in Entry /\ (~srv.tagged => entry.tag = 0)
  BY <1>1, <1>2 DEF Answers
<1>4. /\ http.chunk \in Nat /\ ChunkTaken \in Nat
      /\ ChunkTaken <= Len(rb) /\ ChunkTaken <= http.chunk
      /\ ChunkNew \in Seq(Bytes) /\ Len(ChunkNew) = ChunkTaken
      /\ ChunkRest \in Seq(Token) /\ Len(ChunkRest) = Len(rb) - ChunkTaken
      /\ After(rb \o wire, ChunkRest \o wire, ChunkTaken)
      /\ http.chunk = ChunkTaken /\ ChunkRest # <<>> => ChunkRest[1].k = "CR"
  BY <1>1, <1>2, <1>3, ChunkTakenIs
<1>5. entry' \in Entry /\ entry'.tag = entry.tag /\ from + ChunkTaken \in Nat
  <2>1. from + ChunkTaken \in Nat
    BY <1>3, <1>4
  <2>2. Added(entry, from, ChunkNew) \in Entry /\ Added(entry, from, ChunkNew).tag = entry.tag
    BY <1>3, <1>4, Fragment
  <2> QED
    BY <1>1, <2>1, <2>2
<1>6. TriesAfter(ChunkNew) \in {0, tries}
  BY DEF TriesAfter
<1>7. CASE Off
  <2>1. requests' \in 0 .. MaxRequests /\ blacklisted' \in BOOLEAN
    BY <1>1 DEF IInv, Typed, StateTyped
  <2> QED
    BY <1>1, <1>3, <1>5, <1>7, <2>1, OffKeeps
<1>8. CASE ~Off
  <2>1. /\ from' = from + ChunkTaken /\ tries' = TriesAfter(ChunkNew)
        /\ st' = st /\ start' = start /\ request' = request
        /\ answer' = answer /\ wire' = wire /\ cut' = cut
    BY <1>8, ChunkDataIs
  <2>2. /\ tries' \in {0, tries} /\ st' \in {"retry", "end", "closed"} /\ cut' \in BOOLEAN
        /\ wire' \in Seq(Token) /\ (st' # "retry" => http.close)
        /\ from' \in Nat /\ start' = start
    BY <1>2, <1>5, <1>6, <2>1 DEF Answers
  <2>3. ASSUME http.chunk = ChunkTaken, EolCame,
               http' = [http EXCEPT !.chunk = Size],
               rb' = SubSeq(ChunkRest, EolIn(ChunkRest) + 1, Len(ChunkRest)), at' = at
        PROVE  IInv'
    <3>1. ChunkRest # <<>>
      BY <2>3 DEF EolCame, EolIn
    <3>2. ChunkRest[1].k = "CR"
      BY <1>4, <2>3, <3>1
    <3>3. EolIn(ChunkRest) = 2
      BY <3>1, <3>2 DEF EolIn
    <3>4. Len(ChunkRest) >= 2 /\ rb' = SubSeq(ChunkRest, 2 + 1, Len(ChunkRest))
      BY <2>3, <3>3 DEF EolCame
    <3>5. rb' \in Seq(Token) /\ After(ChunkRest \o wire, rb' \o wire, 2)
      BY <1>3, <1>4, <3>4, Skipped, StreamSkipped
    <3>6. After(rb \o wire, rb' \o wire', http.chunk + 2)
      BY <1>3, <1>4, <2>1, <2>3, <3>5, AfterAfter
    <3>7. http' \in Info /\ http'.left = Chunked /\ http'.chunk = Size
          /\ http'.code = http.code /\ http'.close = http.close
      BY <1>3, <2>3 DEF Info
    <3>8. Reading(rb' \o wire', http', from + http.chunk, v)
      BY <1>3, <1>4, <3>6, <3>7, ReadingEnd
    <3>9. Reading((rb \o wire)', http', from', v)
      BY <2>1, <2>3, <3>8
    <3>10. at' \in {"wait", "handle", "chunks"} /\ (at' = "chunks" => http'.left = Chunked)
      BY <1>1, <2>3, <3>7
    <3> QED
      BY <1>1, <1>2, <1>5, <2>1, <2>2, <3>5, <3>7, <3>9, <3>10, AnswerKeeps
  <2>4. ASSUME http' = [http EXCEPT !.chunk = @ - ChunkTaken], rb' = ChunkRest, at' = "wait"
        PROVE  IInv'
    <3> DEFINE c == http.chunk - ChunkTaken
    <3>1. c \in Nat
      BY <1>4
    <3>2. http' = [http EXCEPT !.chunk = c]
      BY <2>4
    <3> HIDE DEF c
    <3>3. http' \in Info /\ http'.left = Chunked /\ http'.chunk = c
          /\ http'.code = http.code /\ http'.close = http.close
      BY <1>3, <3>1, <3>2 DEF Info
    <3>4. http'.chunk = http.chunk - ChunkTaken
      BY <3>3 DEF c
    <3>5. After(rb \o wire, rb' \o wire', ChunkTaken)
      BY <1>4, <2>1, <2>4
    <3>6. Reading(rb' \o wire', http', from + ChunkTaken, v)
      BY <1>3, <1>4, <3>3, <3>4, <3>5, ReadingPart
    <3>7. Reading((rb \o wire)', http', from', v)
      BY <2>1, <3>6
    <3>8. rb' \in Seq(Token)
      BY <1>4, <2>4
    <3>9. at' \in {"wait", "handle", "chunks"} /\ at' # "chunks"
      BY <2>4
    <3> QED
      BY <1>1, <1>2, <1>5, <2>1, <2>2, <3>3, <3>7, <3>8, <3>9, AnswerKeeps
  <2> QED
    BY <1>8, <2>3, <2>4, ChunkDataIs
<1> QED
  BY <1>7, <1>8

-----------------------------------------------------------------------------
(* The invariant holds.                                                    *)

LEMMA InitInv ==
    ASSUME Init
    PROVE  IInv
<1>1. /\ at = "off" /\ from = 0 /\ start = 0 /\ tries = 0 /\ blacklisted = FALSE
      /\ st = "end" /\ http = Fresh /\ rb = <<>> /\ entry = NoEntry /\ requests = 0
      /\ srv \in Servers /\ ver = 1
      /\ request = NoRequest /\ answer = NoAnswer /\ wire = <<>> /\ cut = FALSE
  BY DEF Init
<1>2. StateTyped
  <2>1. 0 \in -1 .. MaxTries - 1 /\ 0 \in 0 .. MaxRequests /\ 1 \in Versions
    BY Constants, Blank
  <2> QED
    BY <1>1, <2>1 DEF StateTyped
<1>3. NetTyped
  BY <1>1, Blank DEF NetTyped
<1>4. EntryTyped
  BY <1>1, EntryFields DEF EntryTyped
<1>5. Tagging /\ Asking /\ HeaderTrue /\ BodyTrue
  BY <1>1, EntryFields, Blank DEF Tagging, Asking, HeaderTrue, BodyTrue
<1> QED
  BY <1>2, <1>3, <1>4, <1>5 DEF IInv, Typed, Steady

LEMMA StutterKeeps ==
    ASSUME IInv, UNCHANGED vars
    PROVE  IInv'
<1>1. /\ at' = at /\ from' = from /\ start' = start /\ tries' = tries
      /\ blacklisted' = blacklisted /\ http' = http
      /\ st' = st /\ rb' = rb /\ entry' = entry /\ requests' = requests /\ srv' = srv
      /\ ver' = ver /\ request' = request /\ answer' = answer /\ wire' = wire /\ cut' = cut
  BY DEF vars, connVars, netVars
<1>2. StateTyped' /\ NetTyped' /\ EntryTyped'
  BY <1>1 DEF IInv, Typed, StateTyped, NetTyped, EntryTyped
<1>3. Tagging' /\ Asking'
  BY <1>1 DEF IInv, Steady, Tagging, Asking
<1>4. HeaderTrue'
  <2>1. \A v : Answered(v) => Answered(v)'
    BY <1>1 DEF Answered, First
  <2> QED
    BY <1>1, <2>1 DEF IInv, Steady, HeaderTrue
<1>5. BodyTrue'
  <2>1. \A v : Answering(v) => Answering(v)'
    BY <1>1 DEF Answering
  <2> QED
    BY <1>1, <2>1 DEF IInv, Steady, BodyTrue
<1> QED
  BY <1>2, <1>3, <1>4, <1>5 DEF IInv, Typed, Steady

LEMMA NextKeeps ==
    ASSUME IInv, [Next]_vars
    PROVE  IInv'
BY NoHeaderKeeps, NotModifiedKeeps, GotHeaderKeeps, ReceiveKeeps, ClosedKeeps, ReadNormalKeeps,
   ReadDoneKeeps, ReadChunkedKeeps, ChunkTrailerKeeps, ChunkSizeKeeps, ChunkDataKeeps,
   ChunkZeroKeeps, ChunkBreakKeeps, TimeoutKeeps, LoadUriKeeps, CancelDownloadKeeps,
   AnswerKeepsInv, CutKeeps, EditKeeps, StutterKeeps
   DEF Next, Handle

\* The inductive invariant holds in every reachable state.
THEOREM InvHolds == Spec => []IInv
<1>1. Init => IInv
  BY InitInv
<1>2. IInv /\ [Next]_vars => IInv'
  BY NextKeeps
<1> QED
  BY <1>1, <1>2, PTL DEF Spec

LEMMA TypeOfInv ==
    ASSUME IInv
    PROVE  TypeOK
<1>1. StateTyped /\ EntryTyped /\ http \in Info
  BY DEF IInv, Typed, NetTyped
<1>2. http.left \in Nat \cup {Unknown, Chunked} /\ http.chunk \in Nat \cup {Size, Zero, DataEnd}
  BY <1>1 DEF Info
<1>3. /\ \A n \in DOMAIN entry.data : n \in Nat \ {0} /\ entry.data[n] \in Bytes
      /\ entry.incomplete \in BOOLEAN
      /\ entry.tag \in Versions \cup {0} /\ from \in Nat /\ start \in Nat
  BY <1>1, EntryFields DEF EntryTyped
<1> QED
  BY <1>1, <1>2, <1>3 DEF TypeOK, StateTyped

\* The variables keep their types: a cache entry holds bytes of versions or of
\* errors, and the offsets of a transfer are none below 0.
THEOREM TypeCorrect == Spec => []TypeOK
BY TypeOfInv, InvHolds, PTL

\* In whatever pieces an answer comes, and wherever the connection breaks, the
\* reader of chunks finds a size where it looks for one and the end of the
\* line where a chunk ends (read_chunked_http_data()).
THEOREM InStep == Spec => []ChunksInStep
<1>1. IInv => ChunksInStep
  <2> SUFFICES ASSUME IInv, at = "chunks"
               PROVE  /\ http.chunk = Size /\ rb # <<>> => rb[1].k = "size"
                      /\ http.chunk >= 0 /\ Len(rb) > http.chunk => rb[http.chunk + 1].k = "CR"
    BY DEF ChunksInStep
  <2>1. PICK v : Answers(v)
    BY Reads
  <2>2. /\ rb \in Seq(Token) /\ wire \in Seq(Token) /\ rb \o wire \in Seq(Token)
        /\ Reading(rb \o wire, http, from, v) /\ http.left = Chunked /\ http \in Info
        /\ v \in Versions \cup {0} /\ from \in Nat
    BY <2>1 DEF Answers
  <2> DEFINE s == rb \o wire
  <2>3. /\ Len(s) = Len(rb) + Len(wire) /\ Len(rb) \in Nat /\ Len(wire) \in Nat
        /\ \A i \in 1 .. Len(rb) : s[i] = rb[i]
        /\ s \in Seq(Token) /\ Reading(s, http, from, v)
    BY <2>2, Joined
  <2> HIDE DEF s
  <2>4. DOMAIN s = 1 .. Len(s) /\ \A i \in 1 .. Len(rb) : i \in DOMAIN s
    BY <2>3
  <2>5. PICK pos : Place(s, http.chunk, from, v, pos)
    BY <2>2, <2>3 DEF Reading
  <2>6. ASSUME http.chunk = Size, rb # <<>> PROVE rb[1].k = "size"
    <3>1. 1 \in 1 .. Len(rb)
      BY <2>2, <2>6
    <3> QED
      BY <2>3, <2>4, <2>5, <2>6, <3>1 DEF Place, AtSize
  <2>7. ASSUME http.chunk >= 0, Len(rb) > http.chunk PROVE rb[http.chunk + 1].k = "CR"
    <3>1. http.chunk \in Nat
      BY <2>2, <2>7 DEF Info, Size, Zero, DataEnd
    <3>2. Has(s, http.chunk + 1, "CR")
      BY <2>2, <2>3, <2>5, <3>1, InChunkData DEF Place
    <3>3. http.chunk + 1 \in 1 .. Len(rb)
      BY <2>3, <2>7, <3>1
    <3> QED
      BY <2>3, <2>4, <3>2, <3>3 DEF Has
  <2> QED
    BY <2>6, <2>7
<1> QED
  BY <1>1, InvHolds, PTL

-----------------------------------------------------------------------------
(* What the entry holds                                                    *)

\* The entry stays and so does the offset, or the connection is gone or sends
\* its request.
LEMMA SameData ==
    ASSUME IInv, DataInv, entry' = entry, srv' = srv,
           \/ from' = from /\ start' = start /\ (Read' => Read)
           \/ from' \in {0, from} /\ ~Read'
    PROVE  DataInv'
<1>1. from \in Nat
  BY DEF IInv, Typed, EntryTyped
<1>2. ASSUME srv.tagged
      PROVE  /\ Sound(entry) /\ Upto(entry, from) /\ Ends(entry)
             /\ Read => EndsAt(entry, from)
  BY <1>2 DEF DataInv
<1>3. ASSUME srv.tagged PROVE Sound(entry') /\ Ends(entry')
  BY <1>2, <1>3
<1>4. ASSUME srv.tagged PROVE Upto(entry', from')
  <2>1. CASE from' = from
    BY <1>2, <1>4, <2>1
  <2>2. CASE from' = 0
    BY <2>2 DEF Upto
  <2> QED
    BY <2>1, <2>2
<1>5. ASSUME srv.tagged PROVE Read' => EndsAt(entry, from)'
  BY <1>2, <1>5 DEF EndsAt
<1> QED
  BY <1>3, <1>4, <1>5 DEF DataInv, Sound, Upto, Ends

LEMMA RetryFrom ==
    ASSUME NEW f, NEW s, NEW t, Retry(f, s, t)
    PROVE  from' \in {0, f} /\ ~Read'
<1>1. CASE t + 1 >= MaxTries
  BY <1>1 DEF Retry, Off, Read
<1>2. CASE ~(t + 1 >= MaxTries)
  BY <1>2 DEF Retry, Send, Read
<1> QED
  BY <1>1, <1>2

LEMMA OffFrom ==
    ASSUME Off
    PROVE  from' = 0 /\ ~Read'
BY DEF Off, Read

\* The bytes of an answer are of the version the tag names, and stay within it.
LEMMA VersionOfBytes ==
    ASSUME NEW v, Answers(v), srv.tagged
    PROVE  /\ v = 0 => Extent(v) <= 1 /\ \A n \in Nat : Byte(v, n).v = 0
           /\ v # 0 => entry.tag = v /\ Extent(v) = Length[v] /\ start < Extent(v)
           /\ \A w \in Versions : Length[w] >= 1
<1>1. v \in Versions \cup {0} /\ (v # 0 => entry.tag = v /\ start < Extent(v))
  BY DEF Answers, Answering
<1>2. v = 0 => \A n \in Nat : Byte(v, n).v = 0
  BY DEF Byte
<1> QED
  BY <1>1, <1>2, Extents, Constants

\* add_fragment() of bytes of an answer
LEMMA AddedData ==
    ASSUME NEW v, Answers(v), srv.tagged, DataInv, Read,
           NEW new \in Seq(Bytes), from + Len(new) <= Extent(v),
           \A i \in 1 .. Len(new) : new[i] = Byte(v, from + i)
    PROVE  LET a == Added(entry, from, new)
           IN  /\ a \in Entry /\ a.tag = entry.tag
               /\ Sound(a) /\ Ends(a)
               /\ Upto(a, from + Len(new)) /\ EndsAt(a, from + Len(new))
<1> DEFINE a == Added(entry, from, new)
           k == Len(new)
<1>1. /\ entry \in Entry /\ from \in Nat /\ Extent(v) \in Nat /\ start \in Nat
      /\ v \in Versions \cup {0}
  BY DEF Answers
<1>2. /\ k \in Nat /\ a \in Entry
      /\ a.tag = entry.tag /\ a.lax = entry.lax /\ a.late = entry.late
      /\ ~a.incomplete => ~entry.incomplete
  <2>1. k \in Nat
    OBVIOUS
  <2>2. a \in Entry /\ a.tag = entry.tag /\ a.lax = entry.lax /\ a.late = entry.late
    BY <1>1, Fragment
  <2>3. ~a.incomplete => ~entry.incomplete
    BY <1>1, Fragment
  <2> HIDE DEF a, k
  <2> QED
    BY <2>1, <2>2, <2>3
<1>3. \A n \in DOMAIN a.data : \/ n - from \in 1 .. k /\ a.data[n] = new[n - from]
                               \/ n \in DOMAIN entry.data /\ a.data[n] = entry.data[n]
  BY <1>1, Fragment
<1>4. \A i \in 1 .. k : from + i \in DOMAIN a.data
  BY <1>1, Fragment
<1>5. \A n \in DOMAIN entry.data : n <= from \/ ~a.incomplete => n \in DOMAIN a.data
  BY <1>1, Fragment
<1>6. \A i \in 1 .. k : new[i] = Byte(v, from + i)
  OBVIOUS
<1>7. Sound(entry) /\ Upto(entry, from) /\ Ends(entry) /\ EndsAt(entry, from)
  BY DEF DataInv
<1>8. /\ DOMAIN a.data \subseteq Nat \ {0} /\ DOMAIN entry.data \subseteq Nat \ {0}
      /\ entry.tag \in Versions \cup {0}
  BY <1>1, <1>2, EntryFields
<1>9. from + k <= Extent(v)
  OBVIOUS
<1> HIDE DEF a, k
<1>10. ASSUME NEW n \in DOMAIN a.data, n - from \in 1 .. k, a.data[n] = new[n - from]
       PROVE  a.data[n] = Byte(v, n)
  <2>1. from + (n - from) = n
    BY <1>1, <1>8, <1>10
  <2>2. new[n - from] = Byte(v, from + (n - from))
    BY <1>6, <1>10
  <2> QED
    BY <1>10, <2>1, <2>2
<1>11. Sound(a)
  <2> SUFFICES ASSUME NEW n \in DOMAIN a.data, a.data[n].v # 0
               PROVE  a.data[n] = Byte(a.tag, n)
    BY DEF Sound
  <2>1. CASE n - from \in 1 .. k /\ a.data[n] = new[n - from]
    <3>1. a.data[n] = Byte(v, n) /\ n \in Nat
      BY <1>8, <1>10, <2>1
    <3>2. v # 0
      BY <3>1, VersionOfBytes
    <3> QED
      BY <1>2, <3>1, <3>2, VersionOfBytes
  <2>2. CASE n \in DOMAIN entry.data /\ a.data[n] = entry.data[n]
    BY <1>2, <1>7, <2>2 DEF Sound
  <2> QED
    BY <1>3, <2>1, <2>2
<1>12. ASSUME NEW f \in Nat, Upto(entry, f), f <= from \/ ~a.incomplete
       PROVE  Upto(a, f)
  <2> SUFFICES ASSUME ~a.late, NEW n \in 1 .. f PROVE n \in DOMAIN a.data
    BY DEF Upto
  <2>1. n \in DOMAIN entry.data
    BY <1>2, <1>12 DEF Upto
  <2>2. n <= from \/ ~a.incomplete
    BY <1>1, <1>12
  <2> QED
    BY <1>5, <2>1, <2>2
<1>13. Upto(a, from + k)
  <2> SUFFICES ASSUME ~a.late, NEW n \in 1 .. from + k PROVE n \in DOMAIN a.data
    BY DEF Upto
  <2>1. CASE n <= from
    <3>1. Upto(a, from) /\ n \in 1 .. from
      BY <1>1, <1>2, <1>7, <1>12, <2>1
    <3> QED
      BY <3>1 DEF Upto
  <2>2. CASE ~(n <= from)
    <3>1. n - from \in 1 .. k /\ from + (n - from) = n
      BY <1>1, <1>2, <2>2
    <3> QED
      BY <1>4, <3>1
  <2> QED
    BY <2>1, <2>2
<1>14. EndsAt(a, from + k)
  <2>1. CASE k = 0
    <3>1. from + k = from
      BY <1>1, <2>1
    <3>2. from = start \/ from \in DOMAIN entry.data
      BY <1>7 DEF EndsAt
    <3>3. from \in DOMAIN entry.data => from \in DOMAIN a.data
      BY <1>1, <1>5
    <3> QED
      BY <3>1, <3>2, <3>3 DEF EndsAt
  <2>2. CASE k # 0
    <3>1. k \in 1 .. k
      BY <1>2, <2>2
    <3> QED
      BY <1>4, <3>1 DEF EndsAt
  <2> QED
    BY <2>1, <2>2
<1>15. Ends(a)
  <2> SUFFICES ASSUME ~a.incomplete, ~a.lax
               PROVE  /\ a.tag # 0
                      /\ Length[a.tag] \in DOMAIN a.data
                      /\ \A n \in DOMAIN a.data : n <= Length[a.tag]
                      /\ Upto(a, Length[a.tag])
    BY DEF Ends
  <2>1. /\ entry.tag # 0
        /\ Length[entry.tag] \in DOMAIN entry.data
        /\ \A n \in DOMAIN entry.data : n <= Length[entry.tag]
        /\ Upto(entry, Length[entry.tag])
    BY <1>2, <1>7 DEF Ends
  <2>2. a.tag = entry.tag /\ Length[a.tag] = Length[entry.tag]
    BY <1>2
  <2>3. Length[entry.tag] \in Nat /\ Length[entry.tag] >= 1
    BY <1>8, <2>1, Constants
  <2>4. ASSUME NEW n \in DOMAIN a.data PROVE n <= Length[entry.tag]
    <3>1. CASE n - from \in 1 .. k
      <4>1. n <= Extent(v)
        BY <1>1, <1>2, <1>8, <1>9, <3>1
      <4>2. Extent(v) <= Length[entry.tag]
        <5>1. CASE v = 0
          BY <1>1, <2>3, <5>1, VersionOfBytes
        <5>2. CASE v # 0
          BY <2>3, <5>2, VersionOfBytes
        <5> QED
          BY <5>1, <5>2
      <4> QED
        BY <1>1, <1>8, <2>3, <4>1, <4>2
    <3>2. CASE n \in DOMAIN entry.data
      BY <2>1, <3>2
    <3> QED
      BY <1>3, <3>1, <3>2
  <2>5. Length[entry.tag] \in DOMAIN a.data
    BY <1>5, <2>1
  <2>6. Upto(a, Length[entry.tag])
    BY <1>12, <2>1, <2>3
  <2> QED
    BY <2>1, <2>2, <2>4, <2>5, <2>6
<1> QED
  BY <1>2, <1>11, <1>13, <1>14, <1>15 DEF a, k

\* read_http_data_done() with f bytes of version v, all there are unless only
\* the end of the connection says so
LEMMA FinishData ==
    ASSUME IInv, NEW v, Answers(v), srv' = srv,
           NEW e \in Entry, NEW f \in Nat, f <= Extent(v), e.tag = entry.tag,
           srv.tagged => Sound(e) /\ Upto(e, f) /\ EndsAt(e, f),
           ~(http.close /\ st = "closed") => f = Extent(v),
           Finish(e, f)
    PROVE  DataInv'
<1>1. from' = 0 /\ ~Read'
  BY OffFrom DEF Finish
<1>2. Upto(entry', from')
  <2>1. 1 .. from' = {}
    BY <1>1
  <2> QED
    BY <2>1 DEF Upto
<1>3. ASSUME srv.tagged PROVE Sound(entry') /\ Ends(entry')
  <2>1. CASE f = 0 /\ http.code >= 400
    <3> DEFINE p == <<Byte(0, 1)>>
               a == Added(NoEntry, 0, p)
    <3>1. entry' = a
      BY <2>1 DEF Finish, Deleted
    <3>2. p \in Seq(Bytes) /\ Len(p) = 1 /\ p[1] = Byte(0, 1)
      BY DEF Bytes
    <3>3. NoEntry \in Entry /\ 0 \in Nat /\ NoEntry.incomplete = TRUE /\ DOMAIN NoEntry.data = {}
      BY EntryFields
    <3> HIDE DEF p
    <3>4. ~a.incomplete => ~NoEntry.incomplete
      BY <3>2, <3>3, Fragment
    <3>5. \A n \in DOMAIN a.data : \/ n - 0 \in 1 .. Len(p) /\ a.data[n] = p[n - 0]
                                   \/ n \in DOMAIN NoEntry.data /\ a.data[n] = NoEntry.data[n]
      BY <3>2, <3>3, Fragment
    <3> HIDE DEF a
    <3>6. ASSUME NEW n \in DOMAIN a.data PROVE a.data[n].v = 0
      <4>1. n - 0 = 1 /\ a.data[n] = p[n - 0]
        BY <3>2, <3>3, <3>5, <3>6
      <4>2. a.data[n] = Byte(0, 1)
        BY <3>2, <4>1
      <4> QED
        BY <4>2 DEF Byte
    <3> QED
      BY <3>1, <3>3, <3>4, <3>6 DEF Sound, Ends
  <2>2. CASE ~(f = 0 /\ http.code >= 400)
    <3> DEFINE a == Normalized(e, f)
    <3>1. entry' = a
      BY <2>2 DEF Finish
    <3>2. http \in Info
      BY DEF IInv, Typed, NetTyped
    <3>3. /\ a.tag = e.tag /\ a.late = e.late
          /\ a.lax <=> (http.close /\ st = "closed") \/ http.code >= 400
      BY <3>2, Normal
    <3>4. \A n : n \in DOMAIN a.data <=> n \in DOMAIN e.data /\ n <= f
      BY <3>2, Normal
    <3>5. \A n \in DOMAIN a.data : a.data[n] = e.data[n]
      BY <3>2, Normal
    <3> HIDE DEF a
    <3>6. Sound(a)
      BY <1>3, <3>3, <3>4, <3>5 DEF Sound
    <3>7. ASSUME ~a.lax
          PROVE  /\ a.tag # 0
                 /\ Length[a.tag] \in DOMAIN a.data
                 /\ \A n \in DOMAIN a.data : n <= Length[a.tag]
                 /\ Upto(a, Length[a.tag])
      <4>1. f = Extent(v) /\ v # 0
        BY <3>3, <3>7 DEF Answers, Answering
      <4>2. a.tag = v /\ f = Length[a.tag] /\ start < f
        BY <1>3, <3>3, <4>1, VersionOfBytes
      <4>3. f \in DOMAIN e.data
        <5>1. start \in Nat
          BY DEF Answers
        <5>2. f # start
          BY <4>2, <5>1
        <5> QED
          BY <1>3, <5>2 DEF EndsAt
      <4>4. f \in DOMAIN a.data
        BY <3>4, <4>3
      <4>5. Upto(a, f)
        <5> SUFFICES ASSUME ~a.late, NEW n \in 1 .. f PROVE n \in DOMAIN a.data
          BY DEF Upto
        <5>1. n \in DOMAIN e.data /\ n <= f
          BY <1>3, <3>3 DEF Upto
        <5> QED
          BY <3>4, <5>1
      <4> QED
        BY <3>4, <4>1, <4>2, <4>4, <4>5
    <3>8. Ends(a)
      BY <3>7 DEF Ends
    <3> QED
      BY <3>1, <3>6, <3>8
  <2> QED
    BY <2>1, <2>2
<1> QED
  BY <1>1, <1>2, <1>3 DEF DataInv, Sound, Upto, Ends

LEMMA ReadNormalData ==
    ASSUME IInv, DataInv, ReadNormal
    PROVE  DataInv'
<1>1. at = "handle" /\ st # "closed" /\ http.left # Chunked /\ srv' = srv
  BY DEF ReadNormal, NormalData
<1>2. PICK v : Answers(v)
  BY <1>1, Reads
<1>3. /\ Taken \in Nat /\ from + Taken <= Extent(v) /\ TakenBytes \in Seq(Bytes)
      /\ Len(TakenBytes) = Taken
      /\ \A i \in 1 .. Taken : TakenBytes[i] = Byte(v, from + i)
      /\ http.left >= 0 => from + http.left = Extent(v)
  BY <1>1, <1>2, TakenIs
<1>4. entry \in Entry /\ from \in Nat
  BY <1>2 DEF Answers
<1> DEFINE a == Added(entry, from, TakenBytes)
<1>5. a \in Entry /\ a.tag = entry.tag
  BY <1>3, <1>4, Fragment
<1>6. srv.tagged => /\ Sound(a) /\ Ends(a)
                    /\ Upto(a, from + Taken) /\ EndsAt(a, from + Taken)
  <2>1. Read
    BY <1>1 DEF Read
  <2> QED
    BY <1>2, <1>3, <2>1, AddedData
<1> HIDE DEF a
<1>7. CASE AllCame
  <2>1. Finish(a, from + Taken)
    BY <1>7 DEF ReadNormal, NormalData, a
  <2>2. from + Taken = Extent(v) /\ from + Taken \in Nat
    <3>1. http.left = Taken
      BY <1>7 DEF AllCame
    <3> QED
      BY <1>3, <1>4, <3>1
  <2> QED
    BY <1>1, <1>2, <1>3, <1>5, <1>6, <2>1, <2>2, FinishData
<1>8. CASE ~AllCame
  <2>1. entry' = a /\ from' = from + Taken /\ start' = start
    BY <1>8 DEF ReadNormal, NormalData, a
  <2>2. srv.tagged => EndsAt(entry, from)'
    BY <1>6, <2>1 DEF EndsAt
  <2> QED
    BY <1>1, <1>6, <2>1, <2>2 DEF DataInv, Sound, Upto, Ends
<1> QED
  BY <1>7, <1>8

LEMMA ReadDoneData ==
    ASSUME IInv, DataInv, ReadDone
    PROVE  DataInv'
<1>1. at = "handle" /\ st = "closed" /\ Finish(entry, from) /\ srv' = srv
  BY DEF ReadDone
<1>2. PICK v : Answers(v)
  BY <1>1, Reads
<1>3. entry \in Entry /\ from \in Nat /\ from <= Extent(v) /\ http.close
  BY <1>1, <1>2 DEF Answers
<1>4. srv.tagged => Sound(entry) /\ Upto(entry, from) /\ EndsAt(entry, from)
  BY <1>1 DEF DataInv, Read
<1> QED
  BY <1>1, <1>2, <1>3, <1>4, FinishData

LEMMA ChunkTrailerData ==
    ASSUME IInv, DataInv, ChunkTrailer
    PROVE  DataInv'
<1>1. at = "chunks" /\ srv' = srv
  BY DEF ChunkTrailer, Looping
<1>2. PICK v : Answers(v)
  BY <1>1, Reads
<1>3. Finish(entry, from) /\ from = Extent(v)
  BY <1>2, ChunkTrailerKeeps
<1>4. entry \in Entry /\ from \in Nat /\ from <= Extent(v)
  BY <1>2 DEF Answers
<1>5. srv.tagged => Sound(entry) /\ Upto(entry, from) /\ EndsAt(entry, from)
  BY <1>1 DEF DataInv, Read
<1> QED
  BY <1>1, <1>2, <1>3, <1>4, <1>5, FinishData

LEMMA ChunkDataData ==
    ASSUME IInv, DataInv, ChunkData
    PROVE  DataInv'
<1>1. /\ at = "chunks" /\ http.chunk >= 0 /\ srv' = srv
      /\ entry' = Added(entry, from, ChunkNew)
      /\ (from' = from + ChunkTaken /\ start' = start) \/ Off
  BY ChunkDataIs
<1>2. PICK v : Answers(v)
  BY <1>1, Reads
<1>3. http.left = Chunked /\ from \in Nat
  BY <1>1, <1>2 DEF Answers
<1>4. /\ ChunkTaken \in Nat /\ from + ChunkTaken <= Extent(v)
      /\ ChunkNew \in Seq(Bytes) /\ Len(ChunkNew) = ChunkTaken
      /\ \A i \in 1 .. ChunkTaken : ChunkNew[i] = Byte(v, from + i)
  BY <1>1, <1>2, <1>3, ChunkTakenIs
<1> DEFINE a == Added(entry, from, ChunkNew)
<1>5. srv.tagged => /\ Sound(a) /\ Ends(a)
                    /\ Upto(a, from + ChunkTaken) /\ EndsAt(a, from + ChunkTaken)
  <2>1. Read
    BY <1>1 DEF Read
  <2> QED
    BY <1>2, <1>4, <2>1, AddedData
<1> HIDE DEF a
<1>6. entry' = a
  BY <1>1 DEF a
<1>7. CASE from' = from + ChunkTaken /\ start' = start
  <2>1. srv.tagged => EndsAt(entry, from)'
    BY <1>5, <1>6, <1>7 DEF EndsAt
  <2> QED
    BY <1>1, <1>5, <1>6, <1>7, <2>1 DEF DataInv, Sound, Upto, Ends
<1>8. CASE Off
  <2>1. from' = 0 /\ ~Read'
    BY <1>8, OffFrom
  <2>2. Upto(entry', from')
    <3>1. 1 .. from' = {}
      BY <2>1
    <3> QED
      BY <3>1 DEF Upto
  <2> QED
    BY <1>1, <1>5, <1>6, <2>1, <2>2 DEF DataInv, Sound, Upto, Ends
<1> QED
  BY <1>1, <1>7, <1>8

LEMMA GotHeaderData ==
    ASSUME IInv, DataInv, GotHeader
    PROVE  DataInv'
<1>1. at = "header" /\ answer.code # 304 /\ srv' = srv
  BY DEF GotHeader, HeaderCame
<1>2. entry \in Entry /\ answer \in Header /\ from \in Nat
  BY DEF IInv, Typed, NetTyped, EntryTyped
<1>3. CASE TooLate
  BY <1>1, <1>3, OffFrom, SameData DEF GotHeader
<1>4. CASE ~TooLate /\ Modified(entry) /\ answer.start > 0
  <2>1. entry' = NoEntry /\ Retry(0, answer.start, tries)
    BY <1>4 DEF GotHeader, Restart, Deleted
  <2>2. from' = 0 /\ ~Read'
    BY <2>1, RetryFrom
  <2>3. Upto(entry', from')
    <3>1. 1 .. from' = {}
      BY <2>2
    <3> QED
      BY <3>1 DEF Upto
  <2>4. Sound(entry') /\ Ends(entry')
    BY <2>1, EntryFields DEF Sound, Ends
  <2> QED
    BY <2>2, <2>3, <2>4 DEF DataInv, Sound, Upto, Ends
<1>5. CASE ~TooLate /\ ~(Modified(entry) /\ answer.start > 0)
  <2>1. entry' = Checked(entry) /\ from' = answer.start /\ start' = answer.start
    BY <1>5 DEF GotHeader, GoOn
  <2>2. /\ answer.start \in Nat
        /\ answer.start = 0 \/ from = 0 \/ answer.start = from
    BY <1>1, <1>5, Begins
  <2>3. /\ entry'.tag = IF answer.tag = 0 THEN entry.tag ELSE answer.tag
        /\ ~Modified(entry) => /\ entry'.data = entry.data /\ entry'.lax = entry.lax
                               /\ entry'.incomplete = entry.incomplete
                               /\ entry'.late <=> entry.late \/ (from = 0 /\ answer.start > 0)
        /\ Modified(entry) => DOMAIN entry'.data = {} /\ entry'.incomplete = TRUE
    BY <1>2, <2>1, CheckedFields
  <2>4. EndsAt(entry, from)'
    BY <2>1 DEF EndsAt
  <2>5. ASSUME srv.tagged, Modified(entry) PROVE DataInv'
    <3>1. from' = 0
      BY <1>5, <2>1, <2>2, <2>5
    <3>2. Upto(entry', from')
      <4>1. 1 .. from' = {}
        BY <3>1
      <4> QED
        BY <4>1 DEF Upto
    <3>3. Sound(entry') /\ Ends(entry')
      BY <2>3, <2>5 DEF Sound, Ends
    <3> QED
      BY <2>4, <3>2, <3>3 DEF DataInv, Sound, Upto, Ends
  <2>6. ASSUME srv.tagged, ~Modified(entry) PROVE DataInv'
    <3>1. Sound(entry) /\ Upto(entry, from) /\ Ends(entry)
      BY <2>6 DEF DataInv
    <3>2. /\ entry'.data = entry.data /\ entry'.lax = entry.lax
          /\ entry'.incomplete = entry.incomplete /\ (entry.late => entry'.late)
          /\ from = 0 /\ answer.start > 0 => entry'.late
          /\ entry.tag # 0 => entry'.tag = entry.tag
      BY <2>3, <2>6 DEF Modified
    <3>3. Sound(entry')
      <4>1. CASE entry.tag = 0
        <5>1. ASSUME NEW n \in DOMAIN entry.data PROVE entry.data[n].v = 0
          <6>1. entry.data[n].v # 0 => entry.data[n] = Byte(0, n)
            BY <3>1, <4>1, <5>1 DEF Sound
          <6>2. Byte(0, n).v = 0
            BY DEF Byte
          <6> QED
            BY <6>1, <6>2
        <5> QED
          BY <3>2, <5>1 DEF Sound
      <4>2. CASE entry.tag # 0
        BY <3>1, <3>2, <4>2 DEF Sound
      <4> QED
        BY <4>1, <4>2
    <3>4. Ends(entry')
      BY <3>1, <3>2 DEF Ends, Upto
    <3>5. Upto(entry', from')
      <4>1. CASE answer.start = 0
        <5>1. 1 .. from' = {}
          BY <2>1, <4>1
        <5> QED
          BY <5>1 DEF Upto
      <4>2. CASE from = 0 /\ answer.start # 0
        <5>1. entry'.late
          BY <2>2, <3>2, <4>2
        <5> QED
          BY <5>1 DEF Upto
      <4>3. CASE answer.start = from
        BY <2>1, <3>1, <3>2, <4>3 DEF Upto
      <4> QED
        BY <2>2, <4>1, <4>2, <4>3
    <3> QED
      BY <2>4, <3>3, <3>4, <3>5 DEF DataInv, Sound, Upto, Ends
  <2>7. ~srv.tagged => DataInv'
    BY <1>1 DEF DataInv
  <2> QED
    BY <2>5, <2>6, <2>7
<1> QED
  BY <1>3, <1>4, <1>5

\* Steps that leave the entry alone
LEMMA OthersData ==
    ASSUME IInv, DataInv,
           \/ NoHeader \/ NotModified \/ Receive \/ Closed \/ ReadChunked \/ ChunkSize
           \/ ChunkZero \/ ChunkBreak \/ Timeout \/ LoadUri \/ CancelDownload
           \/ Answer \/ Cut \/ Edit \/ UNCHANGED vars
    PROVE  DataInv'
<1>1. entry' = entry /\ srv' = srv
  BY DEF NoHeader, NotModified, Receive, Closed, ReadChunked, ChunkSize, ChunkZero, ChunkBreak,
         Timeout, LoadUri, CancelDownload, Answer, Cut, Edit, vars, connVars, loopRest
<1>2. \/ from' = from /\ start' = start /\ (Read' => Read)
      \/ from' \in {0, from} /\ ~Read'
  <2>1. CASE NoHeader
    BY <2>1, RetryFrom DEF NoHeader
  <2>2. CASE NotModified \/ CancelDownload
    BY <2>2, OffFrom DEF NotModified, CancelDownload
  <2>3. CASE Closed
    <3>1. CASE st = "retry"
      BY <2>3, <3>1, RetryFrom DEF Closed
    <3>2. CASE st # "retry"
      BY <2>3, <3>2 DEF Closed, Read
    <3> QED
      BY <3>1, <3>2
  <2>4. CASE Timeout
    BY <2>4, RetryFrom DEF Timeout
  <2>5. CASE ChunkSize
    <3>1. CASE rb[1].k # "size"
      BY <2>5, <3>1, OffFrom DEF ChunkSize
    <3>2. CASE rb[1].k = "size"
      BY <2>5, <3>2 DEF ChunkSize, Looping, Read
    <3> QED
      BY <3>1, <3>2
  <2>6. CASE LoadUri
    <3>1. PICK check \in BOOLEAN : Send(0, 0, check)
      BY <2>6 DEF LoadUri
    <3> QED
      BY <2>6, <3>1 DEF LoadUri, Send, Read
  <2>7. CASE Receive \/ ReadChunked \/ ChunkZero \/ ChunkBreak \/ Edit \/ UNCHANGED vars
    BY <2>7 DEF Receive, ReadChunked, ChunkZero, ChunkBreak, Edit, Looping, ReadMore, Read,
                loopRest, vars, connVars
  <2>8. CASE Answer \/ Cut
    BY <2>8 DEF Answer, Cut, Read, connVars
  <2> QED
    BY <2>1, <2>2, <2>3, <2>4, <2>5, <2>6, <2>7, <2>8
<1> QED
  BY <1>1, <1>2, SameData

LEMMA DataKept ==
    ASSUME IInv, DataInv, [Next]_vars
    PROVE  DataInv'
BY GotHeaderData, ReadNormalData, ReadDoneData, ChunkTrailerData, ChunkDataData, OthersData
   DEF Next, Handle

LEMMA InitData ==
    ASSUME Init
    PROVE  DataInv
<1>1. from = 0 /\ entry = NoEntry /\ at = "off"
  BY DEF Init
<1>2. Upto(entry, from)
  <2>1. 1 .. from = {}
    BY <1>1
  <2> QED
    BY <2>1 DEF Upto
<1> QED
  BY <1>1, <1>2, EntryFields DEF DataInv, Sound, Ends, Read

LEMMA DataHolds == Spec => [](IInv /\ DataInv)
<1>1. Init => IInv /\ DataInv
  BY InitInv, InitData
<1>2. IInv /\ DataInv /\ [Next]_vars => (IInv /\ DataInv)'
  BY NextKeeps, DataKept
<1> QED
  BY <1>1, <1>2, PTL DEF Spec

\* What the cache keeps as complete is one version of the document up to its
\* last byte and, unless a document that had changed was asked for again, from
\* its first one, however it came (http_got_header(), add_fragment(),
\* normalize_cache_entry()); an error's page may stand for a byte.
THEOREM WholeIsWhole == Spec => []WholeOrIncomplete
<1>1. IInv => TypeOK
  BY TypeOfInv
<1>2. IInv /\ DataInv => WholeOrIncomplete
  <2> SUFFICES ASSUME IInv, DataInv, srv.tagged, ~entry.incomplete, ~entry.lax
               PROVE  \E v \in Versions :
                         /\ Held \subseteq 1 .. Length[v] /\ Length[v] \in Held
                         /\ ~entry.late => Held = 1 .. Length[v]
                         /\ \A n \in Held : entry.data[n].v # 0 => entry.data[n] = Byte(v, n)
    BY <1>1 DEF WholeOrIncomplete, Complete
  <2>1. /\ entry.tag # 0
        /\ Length[entry.tag] \in Held
        /\ \A n \in Held : n <= Length[entry.tag]
        /\ entry.late \/ \A n \in 1 .. Length[entry.tag] : n \in Held
        /\ \A n \in Held : entry.data[n].v # 0 => entry.data[n] = Byte(entry.tag, n)
    BY DEF DataInv, Ends, Upto, Sound, Held
  <2>2. entry.tag \in Versions /\ Held \subseteq Nat \ {0}
    BY <2>1, EntryFields DEF IInv, Typed, EntryTyped, Held
  <2>3. Length[entry.tag] \in Nat
    BY <2>2, Constants
  <2>4. Held \subseteq 1 .. Length[entry.tag]
    BY <2>1, <2>2, <2>3
  <2>5. ~entry.late => Held = 1 .. Length[entry.tag]
    BY <2>1, <2>4
  <2> QED
    BY <2>1, <2>2, <2>4, <2>5
<1> QED
  BY <1>2, DataHolds, PTL

\* Every byte that is held is of the version the tag names, unless an error
\* gave it, so that a 304 for that tag is about what is held.
THEOREM TagsName == Spec => []TagNamesContent
<1>1. IInv /\ DataInv => TagNamesContent
  <2> SUFFICES ASSUME IInv, DataInv, entry.tag # 0, NEW n \in Held
               PROVE  entry.data[n].v \in {0, entry.tag}
    BY DEF TagNamesContent
  <2>1. srv.tagged
    BY DEF IInv, Steady, Tagging
  <2>2. entry.data[n].v # 0 => entry.data[n] = Byte(entry.tag, n)
    BY <2>1 DEF DataInv, Sound, Held
  <2>3. Byte(entry.tag, n).v = entry.tag
    BY DEF Byte
  <2> QED
    BY <2>2, <2>3
<1> QED
  BY <1>1, DataHolds, PTL
=============================================================================
