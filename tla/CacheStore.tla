----------------------------- MODULE CacheStore -----------------------------
(***************************************************************************)
(* The list of cache entries in src/src/cache/cache.c: how connections     *)
(* find or create the entry they load into, how documents lock the entries *)
(* they are formatted from, and how garbage_collection() and the other     *)
(* callers of delete_cache_entry() choose what to free.                    *)
(*                                                                         *)
(* The data of an entry is its size here; CacheFragments has the rest.     *)
(***************************************************************************)
EXTENDS Naturals, SequencesExt

CONSTANTS
    Uris, Conns,
    Entries,        \* bound: the cache entries that can be allocated at once
    Sizes,          \* what data_size may be
    OptSize,        \* document.cache.memory.size
    ExpiredUris,    \* those whose answers have expired when they arrive
    HttpUris,       \* those whose handler gets the entry anew for every answer
    LargeUris,      \* those that do not fit into the cache, see detach_connection()
    ManagedUris,    \* those that the user picks in the cache manager
    UsersWait,      \* nobody deletes or revalidates an entry that is being loaded
    NoUri, NoEntry

ASSUME SizesAssumption == Sizes \subseteq Nat /\ 0 \in Sizes /\ OptSize \in Nat
ASSUME UrisAssumption ==
    /\ ExpiredUris \cup HttpUris \cup LargeUris \cup ManagedUris \subseteq Uris
    /\ UsersWait \in BOOLEAN
ASSUME NoneAssumption == NoUri \notin Uris /\ NoEntry \notin Entries

VARIABLES
    lru,            \* cache_entries, from the newest to the oldest
    entry,          \* the fields of struct cache_entry
    cache_size,
    docs,           \* the entries that documents in format_cache lock
    loads           \* the fields of struct connection that matter here

vars == <<lru, entry, cache_size, docs, loads>>

EntryRecord == [uri : Uris \cup {NoUri}, size : Sizes, incomplete : BOOLEAN, valid : BOOLEAN]
LoadRecord == [uri : Uris \cup {NoUri}, cached : Entries \cup {NoEntry}, detached : BOOLEAN]

FreeEntry == [uri |-> NoUri, size |-> 0, incomplete |-> TRUE, valid |-> FALSE]
FreeLoad == [uri |-> NoUri, cached |-> NoEntry, detached |-> FALSE]

SizeOf(S) == MapThenSumSet(LAMBDA e : entry[e].size, S)

IsObjectUsed(e) == e \in docs
IsEntryUsed(e) == \E c \in Conns : loads[c].cached = e

-----------------------------------------------------------------------------
(* garbage_collection().  The documents of format_cache that are freed just *)
(* before have given up their locks: locked is what is left.                *)

\* MEMORY_CACHE_GC_PERCENT
GcSize == (OptSize * 90) \div 100

\* mutant: only a connection keeps an entry
InUseLoads(e, locked) == IsEntryUsed(e)
InUse(e, locked) == e \in locked \/ IsEntryUsed(e)

Unused(q, locked) == {e \in ToSet(q) : ~InUse(e, locked)}

\* Pass 2 goes from the oldest entry to the newest and stops here, where the
\* unused entries that are newer fit.
Stop(q, locked, whole) ==
    IF whole THEN 0
    ELSE Max({0} \cup {i \in DOMAIN q :
                         SizeOf(Unused(SubSeq(q, 1, i), locked)) <= GcSize})

\* e is spared with those of kept if it still fits.
WithFitting(kept, e, size) ==
    IF size + SizeOf(kept) + entry[e].size > GcSize THEN kept ELSE kept \cup {e}

\* Pass 3 goes back to the oldest and spares what still fits.
Spared(q, size) ==
    LET kept[i \in 0 .. Len(q)] ==
            IF i = 0 THEN {} ELSE WithFitting(kept[i - 1], q[i], size)
    IN  kept[Len(q)]

\* What pass 4 deletes.
Collected(q, locked, whole) ==
    LET unused == Unused(q, locked)
        stop == Stop(q, locked, whole)
        old == SubSeq(q, stop + 1, Len(q))
    IN  IF ~whole /\ (cache_size <= OptSize \/ SizeOf(unused) <= OptSize) THEN {}
        ELSE (unused \cap ToSet(old)) \
               (IF whole THEN {}
                ELSE Spared(old, SizeOf(unused \ ToSet(old))))

\* The rest of q, which has no entry twice, when those of S are gone, in the
\* order it had.  One member.
Without(q, S) ==
    LET Kept == ToSet(q) \ S
    IN  IF Kept = ToSet(q) THEN {q}
        ELSE {r \in [1 .. Cardinality(Kept) -> Kept] :
                \A i, j \in DOMAIN r :
                    i < j => \E k, l \in DOMAIN q : k < l /\ q[k] = r[i] /\ q[l] = r[j]}

\* delete_cache_entry() for each of S; the others stay where they are in q.
Deleted(q, S) ==
    /\ lru' \in Without(q, S)
    /\ entry' = [e \in Entries |-> IF e \in S THEN FreeEntry ELSE entry[e]]
    /\ cache_size' = cache_size - SizeOf(S)

\* shrink_memory(), for a list q and documents that lock the entries of locked.
\* shrink_format_cache() frees documents that are not displayed, which ones
\* depends on their number and age.
ShrinkMemoryFrom(q, locked, kept, whole) ==
    \E freed \in SUBSET (locked \ kept) :
        /\ docs' = locked \ freed
        /\ Deleted(q, Collected(q, locked \ freed, whole))

ShrinkMemory(whole) ==
    /\ UNCHANGED loads
    /\ ShrinkMemoryFrom(lru, docs, {}, whole)

-----------------------------------------------------------------------------
(* find_in_cache() and the readers.                                         *)

\* mutant: entries that are still being loaded are passed over
FindComplete(u) == {i \in DOMAIN lru : entry[lru[i]].valid /\ entry[lru[i]].uri = u
                                        /\ ~entry[lru[i]].incomplete}
Find(u) ==
    {i \in DOMAIN lru :
        /\ entry[lru[i]].valid /\ entry[lru[i]].uri = u
        /\ \A j \in 1 .. (i - 1) : ~(entry[lru[j]].valid /\ entry[lru[j]].uri = u)}

ToTop(i) == <<lru[i]>> \o RemoveAt(lru, i)

\* render_document(): a new document locks its entry before memory is shrunk.
Show(u) ==
    /\ \E i \in Find(u) :
         IF IsObjectUsed(lru[i])
         THEN lru' = ToTop(i) /\ UNCHANGED <<entry, cache_size, docs>>
         ELSE ShrinkMemoryFrom(ToTop(i), docs \cup {lru[i]}, {lru[i]}, FALSE)
    /\ UNCHANGED loads

\* done_document()
Leave(e) ==
    /\ e \in docs
    /\ docs' = docs \ {e}
    /\ UNCHANGED <<lru, entry, cache_size, loads>>

\* get_validated_cache_entry() deletes a complete entry that has expired if no
\* document locks it.
Expired(u) ==
    {e \in {lru[i] : i \in Find(u)} :
        ~entry[e].incomplete /\ u \in ExpiredUris /\ ~IsObjectUsed(e)}

Validate(u) ==
    /\ UsersWait => \A e \in Expired(u) : ~IsEntryUsed(e)
    /\ \E i \in Find(u) : Deleted(ToTop(i), Expired(u))

-----------------------------------------------------------------------------
(* The connections.                                                         *)

Loading(u) == {c \in Conns : loads[c].uri = u /\ ~loads[c].detached}

\* load_uri() serves the caller from the cache, joins a connection that loads
\* the URI already, or starts one; a reload does not look at the cache.
LoadUri(u) ==
    /\ Validate(u) \/ UNCHANGED <<lru, entry, cache_size>>
    /\ \/ UNCHANGED loads
       \/ /\ Loading(u) = {}
          /\ \E c \in Conns : /\ loads[c].uri = NoUri
                              /\ loads' = [loads EXCEPT ![c].uri = u]
    /\ UNCHANGED docs

\* get_cache_entry(), by a protocol handler that is about to add data.
GetCacheEntry(c) ==
    LET u == loads[c].uri
    IN  /\ u # NoUri
        /\ loads[c].cached = NoEntry \/ u \in HttpUris
        /\ \/ \E i \in Find(u) :
                /\ lru' = ToTop(i)
                /\ loads' = [loads EXCEPT ![c].cached = lru[i]]
                /\ UNCHANGED <<entry, cache_size, docs>>
           \/ /\ Find(u) = {}
              /\ \E freed \in SUBSET docs, e \in Entries \ ToSet(lru) :
                   LET S == Collected(lru, docs \ freed, FALSE)
                   IN  /\ docs' = docs \ freed
                       /\ \E q \in Without(lru, S) : lru' = <<e>> \o q
                       /\ entry' = [x \in Entries |->
                            IF x = e THEN [uri |-> u, size |-> 0, incomplete |-> TRUE,
                                           valid |-> TRUE]
                            ELSE IF x \in S THEN FreeEntry ELSE entry[x]]
                       /\ cache_size' = cache_size - SizeOf(S)
                       /\ loads' = [loads EXCEPT ![c].cached = e]

Resize(e, n) == cache_size' = cache_size + n - entry[e].size

\* add_fragment() or delete_entry_content(): the latter, and the former when it
\* truncates, make the entry incomplete.
AddData(c) ==
    LET e == loads[c].cached
    IN  /\ e \in ToSet(lru)
        /\ \E n \in Sizes, i \in {entry[e].incomplete, TRUE} :
             /\ entry' = [entry EXCEPT ![e].size = n, ![e].incomplete = i]
             /\ Resize(e, n)
        /\ UNCHANGED <<lru, docs, loads>>

\* abort_connection() and its kind.  After a success the entry is normalized.
EndConnection(c) ==
    LET e == loads[c].cached
    IN  /\ loads[c].uri # NoUri
        /\ loads' = [loads EXCEPT ![c] = FreeLoad]
        /\ \/ UNCHANGED <<entry, cache_size>>
           \/ /\ e \in ToSet(lru)
              /\ \E n \in {m \in Sizes : m <= entry[e].size} :
                   /\ entry' = [entry EXCEPT ![e].size = n, ![e].incomplete = FALSE]
                   /\ Resize(e, n)
        /\ UNCHANGED <<lru, docs>>

\* detach_connection(): a download too large for the cache; what it has saved is
\* stripped from the entry, which nobody else may find any more.
\*
\* mutant: it may
KeptValid(c) == TRUE
ValidAfterDetach(c) == FALSE
Strip(c) ==
    LET e == loads[c].cached
    IN  /\ loads' = [loads EXCEPT ![c].detached = TRUE]
        /\ \E n \in {m \in Sizes : m <= entry[e].size} :
             /\ entry' = [entry EXCEPT ![e].size = n,
                           ![e].valid = IF loads[c].detached THEN @ ELSE ValidAfterDetach(c)]
             /\ Resize(e, n)

DetachConnection(c) ==
    /\ loads[c].cached \in ToSet(lru)
    /\ docs' \in SUBSET docs
    /\ \/ loads[c].detached /\ docs' = docs /\ Strip(c)
       \/ /\ ~loads[c].detached /\ loads[c].uri \in LargeUris
          /\ \/ loads[c].cached \notin docs' /\ Strip(c)
             \/ UNCHANGED <<entry, cache_size, loads>>  \* "too important", or locked
    /\ UNCHANGED lru

-----------------------------------------------------------------------------
(* The cache manager of src/src/cache/dialogs.c.                            *)

DeleteItem(e) ==
    /\ e \in ToSet(lru) /\ entry[e].uri \in ManagedUris
    /\ UsersWait => ~IsEntryUsed(e)
    /\ ~IsObjectUsed(e)
    /\ Deleted(lru, {e})
    /\ UNCHANGED <<docs, loads>>

Invalidate(e) ==
    /\ e \in ToSet(lru) /\ entry[e].uri \in ManagedUris
    /\ entry' = [entry EXCEPT ![e].valid = FALSE]
    /\ UNCHANGED <<lru, cache_size, docs, loads>>

-----------------------------------------------------------------------------
Init ==
    /\ lru = <<>>
    /\ entry = [e \in Entries |-> FreeEntry]
    /\ cache_size = 0
    /\ docs = {}
    /\ loads = [c \in Conns |-> FreeLoad]

Next ==
    \/ \E u \in Uris : LoadUri(u) \/ Show(u)
    \/ \E c \in Conns : GetCacheEntry(c) \/ AddData(c) \/ EndConnection(c) \/ DetachConnection(c)
    \/ \E e \in Entries : Leave(e) \/ DeleteItem(e) \/ Invalidate(e)
    \/ \E whole \in BOOLEAN : ShrinkMemory(whole)

Spec == Init /\ [][Next]_vars
-----------------------------------------------------------------------------
\* The variables have the types of struct cache_entry and struct connection, and
\* adding, truncating, normalizing, stripping and deleting all account for what
\* they change (garbage_collection(): "cache_size out of sync").
TypeOK ==
    /\ lru \in Seq(Entries) /\ IsInjective(lru)
    /\ entry \in [Entries -> EntryRecord]
    /\ cache_size = SizeOf(ToSet(lru))
    /\ docs \subseteq Entries
    /\ loads \in [Conns -> LoadRecord]

\* Whatever is detached, invalidated, retried and deleted, find_in_cache() has at
\* most one answer: the list never holds two valid entries of a URI.
OneValidPerUri ==
    /\ TypeOK
    /\ \A i, j \in DOMAIN lru :
         /\ i # j /\ entry[lru[i]].valid /\ entry[lru[j]].valid
         => entry[lru[i]].uri # entry[lru[j]].uri

\* done_cache_entry(): "deleting locked cache entry", "deleting loading cache
\* entry".  No document is left with an entry that has been freed, and no
\* connection with one that has been freed or is another one by now.
UsersHaveEntry ==
    /\ docs \subseteq ToSet(lru)
    /\ \A c \in Conns :
         loads[c].cached # NoEntry =>
            /\ loads[c].cached \in ToSet(lru)
            /\ entry[loads[c].cached].uri = loads[c].uri

\* A second connection is started for a URI when the first has been detached,
\* and its entry is another one: two connections write into one entry only if
\* one of them is detached and loads by HTTP, so that it takes the entry that
\* is found now when another answer comes (http.c:1558).
OneWriter ==
    \A c, d \in Conns :
        c # d /\ loads[c].cached # NoEntry /\ loads[c].cached = loads[d].cached
        => loads[c].uri \in HttpUris /\ (loads[c].detached \/ loads[d].detached)

\* After a collection what is not in use fits into document.cache.memory.size,
\* and if something had to go, into the percentage to aim at, entries in use
\* in between or not.  Recent entries are kept before old ones: one that is
\* deleted while an older one stays that is not in use is the larger one.
OldestCollected ==
    [][ShrinkMemory(FALSE) =>
         LET idle == {e \in ToSet(lru') : e \notin docs' /\ ~IsEntryUsed(e)}
             size == MapThenSumSet(LAMBDA e : entry'[e].size, idle)
         IN  /\ size <= OptSize \/ cache_size' <= OptSize
             /\ lru' # lru => size <= GcSize
             /\ \A i, j \in DOMAIN lru :
                  i < j /\ lru[i] \notin ToSet(lru') /\ lru[j] \in idle
                    => entry[lru[j]].size < entry[lru[i]].size]_vars
=============================================================================
