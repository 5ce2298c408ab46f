--------------------------- MODULE CacheFragments ---------------------------
(***************************************************************************)
(* The data of one cache entry in src/src/cache/cache.c: a list of         *)
(* fragments that add_fragment() writes over, merges and truncates, that   *)
(* get_cache_fragment() joins when a document is rendered, and that        *)
(* free_entry_to() strips from the front for a detached download.          *)
(*                                                                         *)
(* Protocol handlers write at conn->from, which a resumed download or the  *)
(* Content-Range of a server may set anywhere; a reload writes other       *)
(* bytes over those of an earlier version.                                 *)
(***************************************************************************)
EXTENDS Naturals, Integers, SequencesExt

CONSTANTS
    Bytes,          \* what the servers may send, version by version
    Granule,        \* CACHE_PAD() allocates multiples of it: 0x4000
    MaxChunk,       \* bound: how much a handler adds at once
    MaxEnd,         \* bound: the size of the largest document
    MaxSize,        \* bound: data_size that an add may still start from
    NoByte

ASSUME GranuleAssumption == Granule \in Nat \ {0}
ASSUME BoundsAssumption == MaxChunk \in Nat /\ MaxEnd \in Nat /\ MaxSize \in Nat

VARIABLES
    frag,           \* cached->frag, as records [offset, data, room];
                    \* length is Len(data), real_length is room
    length,         \* cached->length
    incomplete,     \* cached->incomplete
    data_size,      \* cached->data_size
    latest          \* history: the byte last written at each offset

fragmentVars == <<frag, length, incomplete, data_size, latest>>

Offsets == 0 .. MaxEnd

End(f) == f.offset + Len(f.data)
Held(q) == UNION {f.offset .. (End(f) - 1) : f \in ToSet(q)}
ByteAt(f, p) == f.data[p - f.offset + 1]
Size(q) ==
    LET upTo[i \in 0 .. Len(q)] == IF i = 0 THEN 0 ELSE upTo[i - 1] + Len(q[i].data)
    IN  upTo[Len(q)]
AtLeast(a, b) == IF a >= b THEN a ELSE b

\* How many fragments at the front of q satisfy P.
Prefix(q, P(_)) == Cardinality({i \in DOMAIN q : \A j \in 1 .. i : P(q[j])})

UpTo(f, p) == [f EXCEPT !.data = SubSeq(@, 1, p - f.offset)]
BytesFrom(f, p) == SubSeq(f.data, p - f.offset + 1, Len(f.data))

\* CACHE_PAD(): there is always room for more
Pad(n) == (n \div Granule + 1) * Granule

-----------------------------------------------------------------------------
(* truncate_entry() and remove_overlaps()                                  *)

\* Everything from offset p on is dropped; final gives the room back, too.
Truncated(q, p, final) ==
    LET n == Prefix(q, LAMBDA f : End(f) <= p)
        cut == UpTo(q[n + 1], p)
    IN  SubSeq(q, 1, n) \o
        IF n = Len(q) \/ q[n + 1].offset >= p THEN <<>>
        ELSE IF final THEN <<[cut EXCEPT !.room = Len(cut.data)]>>
        ELSE <<cut>>

\* The fragments behind the i-th that begin before it ends.
Overlapped(q, i) ==
    {j \in (i + 1) .. Len(q) : \A k \in (i + 1) .. j : q[k].offset < End(q[i])}

\* They are removed.  What the last of them has beyond the end of the i-th is
\* appended to it, if it can be made to grow.
\*
\* mutant: the whole fragment is appended
MergedWhole(q, i, grow) ==
    LET last == i + Cardinality(Overlapped(q, i))
        more == grow /\ End(q[last]) > End(q[i])
        data == q[i].data \o q[last].data
    IN  SubSeq(q, 1, i - 1)
        \o <<IF more THEN [offset |-> q[i].offset, data |-> data, room |-> Len(data)]
             ELSE q[i]>>
        \o SubSeq(q, last + 1, Len(q))
Merged(q, i, grow) ==
    LET last == i + Cardinality(Overlapped(q, i))
        more == grow /\ End(q[last]) > End(q[i])
        data == q[i].data \o BytesFrom(q[last], End(q[i]))
    IN  SubSeq(q, 1, i - 1)
        \o <<IF more THEN [offset |-> q[i].offset, data |-> data, room |-> Len(data)]
             ELSE q[i]>>
        \o SubSeq(q, last + 1, Len(q))

\* The data they have in common differs, which is not looked at when the i-th
\* would have to grow and cannot.
Differs(q, i, grow) ==
    \E j \in Overlapped(q, i) :
        /\ grow \/ End(q[j]) <= End(q[i])
        /\ \E p \in q[j].offset .. (End(q[j]) - 1) :
             p < End(q[i]) /\ ByteAt(q[j], p) # ByteAt(q[i], p)

-----------------------------------------------------------------------------
(* add_fragment()                                                          *)

\* The fragment that holds offset o or ends there, at most one.
Hit(o) ==
    {i \in DOMAIN frag :
        /\ frag[i].offset <= o /\ o <= End(frag[i])
        /\ \A j \in 1 .. (i - 1) : End(frag[j]) < o}

\* The new data fits into the room of the fragment.
Fits(f, end) == end <= End(f) \/ end - f.offset <= f.room

Written(o, data) ==
    latest' = [p \in Offsets |->
                 IF o <= p /\ p < o + Len(data) THEN data[p - o + 1] ELSE latest[p]]

\* Into an existing fragment: whatever follows the new data goes.
WriteInPlace(o, data, grow) ==
    \E i \in Hit(o) :
      LET end == o + Len(data)
          f == frag[i]
          new == SubSeq(f.data, 1, o - f.offset) \o data
                    \o (IF end < End(f) THEN BytesFrom(f, end) ELSE <<>>)
          q == Merged([frag EXCEPT ![i].data = new], i, grow)
      IN  /\ Fits(f, end)
          /\ frag' = Truncated(q, end, FALSE)
          /\ data_size' = data_size + Size(frag') - Size(frag)
          /\ length' = end
          /\ incomplete' = (incomplete \/ length > end)
          /\ Written(o, data)

\* A fragment that is hit but has not enough room is cut, which data_size is
\* not told.
Cut(o) == [i \in DOMAIN frag |-> IF i \in Hit(o) THEN UpTo(frag[i], o) ELSE frag[i]]

\* Old data that differs from the new goes with all that follows.
Trimmed(q, o, end, trunc) == IF trunc THEN Truncated(q, end, FALSE) ELSE q

LengthAfter(end, trunc) == IF trunc THEN end ELSE AtLeast(length, end)

\* A new fragment, behind the one that is hit.
WriteNew(o, data, grow) ==
    LET end == o + Len(data)
        at == 1 + (IF Hit(o) # {} THEN Max(Hit(o)) ELSE
                     Prefix(frag, LAMBDA f : f.offset <= o))
        q == InsertAt(Cut(o), at, [offset |-> o, data |-> data, room |-> Pad(Len(data))])
        trunc == Differs(q, at, grow)
    IN  /\ \A i \in Hit(o) : ~Fits(frag[i], end)
        /\ frag' = Trimmed(Merged(q, at, grow), o, end, trunc)
        /\ data_size' = data_size + Size(frag') - Size(Cut(o))
        /\ length' = LengthAfter(end, trunc)
        /\ incomplete' = (incomplete \/ (trunc /\ length > end))
        /\ Written(o, data)

\* No memory for a new fragment; the old one has been cut by then.
WriteFails(o, data) ==
    /\ \A i \in Hit(o) : ~Fits(frag[i], o + Len(data))
    /\ frag' = Cut(o)
    /\ length' = AtLeast(length, o + Len(data))
    /\ UNCHANGED <<incomplete, data_size, latest>>

AddFragment(o, data) ==
    /\ o + Len(data) <= MaxEnd
    /\ data_size <= MaxSize
    /\ \/ \E grow \in BOOLEAN : WriteInPlace(o, data, grow) \/ WriteNew(o, data, grow)
       \/ WriteFails(o, data)

-----------------------------------------------------------------------------
(* The other operations on the fragments.                                  *)

\* get_cache_fragment(): the fragments up to the first gap become one.
GetCacheFragment ==
    LET n == Cardinality({i \in DOMAIN frag :
               \A j \in 2 .. i : frag[j].offset = End(frag[j - 1])})
        data == FlattenSeq([i \in 1 .. n |-> frag[i].data])
    IN  /\ n > 1
        /\ frag[1].offset = 0
        /\ frag' = <<[offset |-> 0, data |-> data, room |-> Len(data)]>>
                     \o SubSeq(frag, n + 1, Len(frag))
        /\ UNCHANGED <<length, incomplete, data_size, latest>>

\* normalize_cache_entry(): the transfer has ended at p.
NormalizeCacheEntry(p) ==
    /\ \E shrink \in BOOLEAN : frag' = Truncated(frag, p, shrink)
    /\ data_size' = data_size + Size(frag') - Size(frag)
    /\ length' = IF length > p THEN p ELSE length
    /\ incomplete' = FALSE
    /\ UNCHANGED latest

\* free_entry_to(): a detached download has saved everything before p.
Stripped(p) ==
    LET n == Prefix(frag, LAMBDA f : End(f) <= p)
    IN  [i \in 1 .. (Len(frag) - n) |->
           LET f == frag[n + i]
           IN  IF f.offset < p THEN [offset |-> p, data |-> BytesFrom(f, p), room |-> f.room]
               ELSE f]

FreeEntryToSized(p) ==      \* mutant: all of p is taken off data_size
    /\ frag' = Stripped(p)
    /\ data_size' = data_size - p
    /\ UNCHANGED <<length, incomplete, latest>>
FreeEntryTo(p) ==
    /\ frag' = Stripped(p)
    /\ data_size' = data_size + Size(frag') - Size(frag)
    /\ UNCHANGED <<length, incomplete, latest>>

DeleteEntryContent ==
    /\ frag' = <<>>
    /\ data_size' = 0
    /\ length' = 0
    /\ incomplete' = TRUE
    /\ UNCHANGED latest

InitFragments ==
    /\ frag = <<>>
    /\ length = 0
    /\ incomplete = TRUE
    /\ data_size = 0
    /\ latest = [p \in Offsets |-> NoByte]

NextFragments ==
    \/ \E o \in Offsets, n \in 1 .. MaxChunk : \E data \in [1 .. n -> Bytes] :
         AddFragment(o, data)
    \/ GetCacheFragment
    \/ \E p \in Offsets : NormalizeCacheEntry(p) \/ FreeEntryTo(p)
    \/ DeleteEntryContent

SpecFragments == InitFragments /\ [][NextFragments]_fragmentVars
-----------------------------------------------------------------------------
\* The fields have the types of struct cache_entry and struct fragment.
FragmentsTypeOK ==
    /\ frag \in Seq([offset : Offsets, data : Seq(Bytes), room : Nat])
    /\ length \in Offsets
    /\ incomplete \in BOOLEAN
    /\ data_size \in Nat
    /\ latest \in [Offsets -> Bytes \cup {NoByte}]

\* What a reader finds at an offset is what was written there last: no byte of
\* an older version survives at its place, and none moves to another.  An add
\* leaves the data it adds in the entry, and all that is in front of it.
LatestHeld ==
    [][LET new == {p \in Offsets : latest'[p] # latest[p]}
       IN  /\ \A f \in ToSet(frag') : \A p \in f.offset .. (End(f) - 1) :
                ByteAt(f, p) = latest'[p]
           /\ new # {} =>
                /\ new \subseteq Held(frag')
                /\ \A p \in Held(frag) : (\A n \in new : p < n) => p \in Held(frag')]_fragmentVars

\* Whatever is written over, between and across fragments, with or without
\* memory, the entry stays one that can be read: the fragments are sorted and
\* disjoint (get_cache_fragment(): "fragments overlap"), none holds more than was
\* allocated for it, although add_fragment() writes into the room that merging,
\* cutting and stripping have left, and cached->length and data_size cover the
\* data, so that enlarge_entry() never takes off more than was added ("cache entry
\* data_size underflow") and garbage_collection() never takes it to be too small.
EntrySound ==
    /\ FragmentsTypeOK
    /\ \A i, j \in DOMAIN frag : i < j => End(frag[i]) <= frag[j].offset
    /\ \A f \in ToSet(frag) : Len(f.data) <= f.room /\ End(f) <= length
    /\ data_size >= Size(frag)
=============================================================================
