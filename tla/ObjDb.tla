-------------------------------- MODULE ObjDb --------------------------------
(****************************************************************************)
(* The object database (libbit/src/odb.rs, pack.rs, pack/indexer.rs,        *)
(* delta.rs): objects are loose files or entries of packs, and a process    *)
(* finds a packed one through the index of its pack and three caches.       *)
(* Processes write loose objects and install fetched packs while others     *)
(* read.                                                                    *)
(*                                                                          *)
(* An oid is its first byte and the rest of it, a number.  The contents of  *)
(* an object are its oid, or Bad when a delta was applied to a wrong base.  *)
(****************************************************************************)
EXTENDS FiniteSetsExt, Functions, Integers, Sequences

CONSTANTS
    Oid,        \* the objects, <<byte, rest>>
    LastByte,   \* 255
    Width,      \* as many rests have a common prefix
    Pack,       \* the packs there are to fetch
    Entry,      \* the entries of each: kind, base (a distance or an oid), source, data
    Written,    \* the objects that are written loose
    Proc, Reader, Writer, Fetcher, Fault,
    None, Bad, Ambiguous

Byte == 0..LastByte

ASSUME ObjDbAssumption ==
    /\ LastByte \in Nat /\ Width \in Nat \ {0}
    /\ IsFiniteSet(Oid) /\ Oid \subseteq Byte \X Nat
    /\ \A o \in Oid : o[2] % Width # 0
    /\ IsFiniteSet(Pack) /\ Written \subseteq Oid
    /\ None \notin Oid \cup Pack \cup Nat /\ Bad \notin Oid /\ Ambiguous \notin Oid
    /\ None \notin Proc /\ None # Bad /\ None # Ambiguous /\ Bad # Ambiguous
    /\ Reader \cup Writer \cup Fetcher \subseteq Proc
    /\ Fault \subseteq {"kill"}

VARIABLES
    loose,      \* the loose objects there are files of
    torn,       \* who has renamed such a file into place and has yet to flush it, or None
    locks,      \* those whose lock file exists
    packs,      \* the .pack files in place
    idxs,       \* and the .idx files
    p           \* the processes

disk == <<loose, torn, locks, packs, idxs>>
vars == <<disk, p>>

\* The objects whose file is empty: its writer is between Lockfile::commit and the
\* drop of its buffer, or was killed there.
Empty == {oid \in Oid : torn[oid] # None}

-----------------------------------------------------------------------------
(* Packs and their indexes *)

\* PackfileReader::read_pack_obj at an offset: an object, or a delta with the
\* distance or the oid of its base.
ReadPackObj(k, offset) == Entry[k][offset]

\* Delta::expand, which checks the size of what it is given.
Expand(source, entry) == IF source = entry.source THEN entry.data ELSE Bad

\* The entries of a pack: the distance of an offset delta leads to an entry before it.
ASSUME EntryAssumption ==
    \A k \in Pack :
        /\ Entry[k] = [i \in 1..Len(Entry[k]) |-> Entry[k][i]] /\ Len(Entry[k]) \in Nat
        /\ \A i \in DOMAIN Entry[k] :
              /\ Entry[k][i].kind \in {"raw", "ofs", "ref"} /\ Entry[k][i].data \in Oid
              /\ Entry[k][i].kind = "ofs" => Entry[k][i].base \in 1..(i - 1)
              /\ Entry[k][i].kind = "ref" => Entry[k][i].base \in Oid

\* PackIndexer::expand_deltas of one entry, after the ones before it are in raw.
ExpandDeltas(k, raw, i) ==
    LET e == ReadPackObj(k, i)
        before == {j \in 1..(i - 1) : raw[j] = e.base}
    IN  CASE e.kind = "raw" -> e.data
          [] e.kind = "ofs" -> Expand(raw[i - e.base], e)
          [] e.kind = "ref" /\ before # {} -> Expand(raw[Max(before)], e)
          [] OTHER -> None

\* PackIndexer::index_pack expands every entry, in order; the base of a delta
\* must come before it.
Expanded ==
    [k \in Pack |->
        LET raw[i \in DOMAIN Entry[k]] == ExpandDeltas(k, raw, i)
        IN  raw]

\* The objects of each pack.
Objects == [k \in Pack |-> Range(Expanded[k])]

\* Otherwise the indexer panics, or reports that the delta does not fit.
Indexable(k) == Objects[k] \cap {None, Bad} = {}

Before(o, q) == o[1] < q[1] \/ (o[1] = q[1] /\ o[2] < q[2])

BuildFanout(oids) == [b \in Byte |-> Cardinality({o \in oids : o[1] <= b})]

\* The oids in their order: the i-th one has i - 1 before it.
Sorted(oids) ==
    [i \in 1..Cardinality(oids) |->
        CHOOSE o \in oids : Cardinality({q \in oids : Before(q, o)}) = i - 1]

\* The index files: an object that is in a pack twice is the last one.
Idx ==
    [k \in {k \in Pack : Indexable(k)} |->
        LET at == Expanded[k]
            oids == Range(at)
        IN  [oids |-> Sorted(oids),
             fanout |-> BuildFanout(oids),
             offset |-> [o \in oids |-> Max({i \in DOMAIN at : at[i] = o})]]]

\* The base that a delta names comes before it, the last copy of it too; no
\* object is twice in a pack that git writes.
ASSUME BaseAssumption ==
    \A k \in DOMAIN Idx : \A i \in DOMAIN Entry[k] :
        Entry[k][i].kind = "ref" => Idx[k].offset[Entry[k][i].base] < i

-----------------------------------------------------------------------------
(* Reading one pack.  A reader has three caches: the oids of the fanout     *)
(* buckets by where they begin, the offsets by oid, and the objects by      *)
(* offset.                                                                  *)

PackReader(k) ==
    [oids : [0..Cardinality(Oid) -> (SUBSET Oid) \cup {None}],
     offsets : [Oid -> Nat \cup {None}],
     objs : [DOMAIN Entry[k] -> Oid \cup {None}]]

NewReader(k) ==
    [oids |-> [low \in 0..Cardinality(Oid) |-> None],
     offsets |-> [oid \in Oid |-> None],
     objs |-> [offset \in DOMAIN Entry[k] |-> None]]

Low(idx, oid) == IF oid[1] = 0 THEN 0 ELSE idx.fanout[oid[1] - 1]
High(idx, oid) == idx.fanout[oid[1]]

\* A bug: the last oid of the bucket is left out.
ReadVecShort(idx, low, high) == {idx.oids[i] : i \in (low + 1)..(high - 1)}

\* The oids of a bucket.
ReadVec(idx, low, high) == {idx.oids[i] : i \in (low + 1)..high}

\* PackIndexReader::find_oid_index: the bucket of the oid, read once, and the
\* index of the oid or, if it is not there, of the first one after it.
FindOidIndex(r, idx, oid) ==
    LET low == Low(idx, oid)
        bucket == IF r.oids[low] # None THEN r.oids[low] ELSE ReadVec(idx, low, High(idx, oid))
    IN  [r |-> [r EXCEPT !.oids[low] = bucket],
         found |-> oid \in bucket,
         index |-> low + Cardinality({o \in bucket : Before(o, oid)}) + 1]

\* The offset at the index, kept for the next time; None if the oid is not there.
OffsetAt(find, idx, oid) ==
    LET offset == idx.offset[idx.oids[find.index]]
    IN  IF find.found THEN [r |-> [find.r EXCEPT !.offsets[oid] = offset], offset |-> offset]
        ELSE [r |-> find.r, offset |-> None]

\* find_oid_crc_offset.
ObjOffset(r, idx, oid) ==
    IF r.offsets[oid] # None THEN [r |-> r, offset |-> r.offsets[oid]]
    ELSE OffsetAt(FindOidIndex(r, idx, oid), idx, oid)

\* The object at the offset that was found, with what is at each offset.
ObjAt(at, find) ==
    IF find.offset = None THEN [r |-> find.r, obj |-> None] ELSE at[find.offset][find.r]

\* Pack::read_obj_raw and Pack::read_obj_header.
ReadFound(at, r, k, oid) == ObjAt(at, ObjOffset(r, Idx[k], oid))

\* A delta on its base; the contents are None when the base is not found.
ExpandDelta(base, e) ==
    [r |-> base.r, obj |-> IF base.obj = None THEN None ELSE Expand(base.obj, e)]

\* expand_raw_obj, with what is at each offset.
ExpandRawObj(at, r, k, offset) ==
    LET e == ReadPackObj(k, offset)
        base == IF e.kind = "ofs" THEN at[offset - e.base][r] ELSE ReadFound(at, r, k, e.base)
    IN  IF e.kind = "raw" THEN [r |-> r, obj |-> e.data] ELSE ExpandDelta(base, e)

\* A bug: the base is cached in place of the object.
CacheBase(r, k, offset, obj) ==
    LET e == ReadPackObj(k, offset)
    IN  [r EXCEPT !.objs[offset] = IF e.kind = "raw" THEN obj ELSE e.source]

CacheObj(r, k, offset, obj) == [r EXCEPT !.objs[offset] = obj]

\* An object that was read is cached, a header is not.
Keep(new, k, offset, header) ==
    IF header \/ new.obj \in {None, Bad} THEN new
    ELSE [new EXCEPT !.r = CacheObj(new.r, k, offset, new.obj)]

\* read_obj_raw_at: the object at an offset, its delta expanded; if it is the
\* header that is read, the type is the one of the last base.
ReadAt(at, r, k, offset, header) ==
    IF ~header /\ r.objs[offset] # None THEN [r |-> r, obj |-> r.objs[offset]]
    ELSE Keep(ExpandRawObj(at, r, k, offset), k, offset, header)

\* What is at each offset, for the reader r that reads it, after at most n deltas.
ReadObjRawAt(k, header) ==
    LET at[n \in 0..Len(Entry[k])] ==
            IF n = 0 THEN <<>>
            ELSE [offset \in DOMAIN Entry[k] |->
                     [r \in PackReader(k) |-> ReadAt(at[n - 1], r, k, offset, header)]]
    IN  at

ReadObjRaw(r, k, oid, header) == ReadFound(ReadObjRawAt(k, header)[Len(Entry[k])], r, k, oid)

\* A prefix is a byte and a number; the oids that have it follow the extended
\* one, the prefix with zeroes, which is no object itself.
Prefix == Byte \X {o[2] \div Width : o \in Oid}
HasPrefix(oid, prefix) ==
    oid[1] = prefix[1] /\ prefix[2] * Width <= oid[2] /\ oid[2] < prefix[2] * Width + Width
Extended(prefix) == <<prefix[1], prefix[2] * Width>>

\* Pack::prefix_matches scans from the place of the extended prefix as long as
\* the oids have the prefix.
Scan(oids, from, prefix) ==
    {oids[i] : i \in {i \in from..Len(oids) : \A j \in from..i : HasPrefix(oids[j], prefix)}}

\* A bug: the index is taken to be the one of the last oid before the prefix.
PrefixMatchesAfter(r, idx, prefix) ==
    LET find == FindOidIndex(r, idx, Extended(prefix))
    IN  [r |-> find.r, oids |-> Scan(idx.oids, find.index + 1, prefix)]

PrefixMatches(r, idx, prefix) ==
    LET find == FindOidIndex(r, idx, Extended(prefix))
    IN  [r |-> find.r, oids |-> Scan(idx.oids, find.index, prefix)]

-----------------------------------------------------------------------------
(* The processes *)

Closed == [pc |-> "closed", packs |-> <<>>, objs |-> [oid \in Oid |-> None], arg |-> None]

Go(x, state) == p' = [p EXCEPT ![x] = state]

\* Mutant: no pack is opened after the first time.
RefreshedOnce(known) == {known}

\* BitPackedObjDb::refresh opens the packs it does not know, in any order; one
\* that has no index ends it.
Refreshed(known) ==
    IF packs \subseteq idxs \cup DOMAIN known
    THEN {[k \in packs \cup DOMAIN known |-> IF k \in DOMAIN known THEN known[k] ELSE NewReader(k)]}
    ELSE {}

RefreshedInPart(known) ==
    {[k \in S \cup DOMAIN known |-> IF k \in DOMAIN known THEN known[k] ELSE NewReader(k)] :
        S \in SUBSET (packs \cap idxs)}

\* BitObjDb::new; if it fails, so does the command.
Open(x) ==
    /\ p[x].pc = "closed"
    /\ \/ \E known \in Refreshed(<<>>) : Go(x, [Closed EXCEPT !.pc = "ready", !.packs = known])
       \/ Refreshed(<<>>) = {} /\ UNCHANGED p
    /\ UNCHANGED disk

\* The command ends, and with it its caches.
Exit(x) ==
    /\ p[x].pc = "ready"
    /\ Go(x, Closed)
    /\ UNCHANGED disk

\* A process is killed: the lock file, the empty object or the pack it was at stays.
Kill(x) ==
    /\ "kill" \in Fault /\ p[x].pc \notin {"closed", "ready"}
    /\ Go(x, Closed)
    /\ UNCHANGED disk

ObjExists(find, oid) == [r |-> find.r, obj |-> IF find.offset = None THEN None ELSE oid]

\* What one pack answers.
Ask(r, k, how, oid) ==
    IF how = "exists" THEN ObjExists(ObjOffset(r, Idx[k], oid), oid)
    ELSE ReadObjRaw(r, k, oid, how = "header")

AfterOne(sofar, k, one) == [known |-> [sofar.known EXCEPT ![k] = one.r], obj |-> one.obj]

AskNext(sofar, k, how, oid) ==
    IF sofar.obj # None THEN sofar
    ELSE AfterOne(sofar, k, Ask(sofar.known[k], k, how, oid))

\* One pack after the other is asked, until one answers.
AskPacks(known, order, how, oid) ==
    LET asked[n \in 0..Len(order)] ==
            IF n = 0 THEN [known |-> known, obj |-> None]
            ELSE AskNext(asked[n - 1], order[n], how, oid)
    IN  asked[Len(order)]

\* BitLooseObjDb: a loose object is where its oid says; an empty file is there, and
\* cannot be read.
LocateObj(how, oid) == IF oid \in loose /\ (how = "exists" \/ torn[oid] = None) THEN oid ELSE None

\* The packs have been asked; the loose objects are asked if they have nothing,
\* and read_obj keeps what it has read.
AfterPacks(x, packed, how, oid) ==
    LET obj == IF packed.obj = None THEN LocateObj(how, oid) ELSE packed.obj
        objs == IF how = "read" /\ obj # None THEN [p[x].objs EXCEPT ![oid] = obj] ELSE p[x].objs
    IN  [got |-> obj, then |-> [p[x] EXCEPT !.packs = packed.known, !.objs = objs]]

\* BitRepo::read_obj, read_obj_header and obj_exists of an oid.
Answer(x, order, how, oid) ==
    IF how = "read" /\ p[x].objs[oid] # None THEN [got |-> p[x].objs[oid], then |-> p[x]]
    ELSE AfterPacks(x, AskPacks(p[x].packs, order, how, oid), how, oid)

How == {"read", "header", "exists"}

\* The packs in any order.
Orders(x) ==
    LET open == DOMAIN p[x].packs
    IN  {order \in [1..Cardinality(open) -> open] : Range(order) = open}

Query(x, how, oid) ==
    /\ p[x].pc = "ready"
    /\ \E order \in Orders(x) : Go(x, Answer(x, order, how, oid).then)
    /\ UNCHANGED disk

\* expand_prefix: the candidates of the packs, then the loose ones.  The name of
\* a lock file is no oid, which is an error.
Expansion(x, prefix) ==
    LET matches == [k \in DOMAIN p[x].packs |-> PrefixMatches(p[x].packs[k], Idx[k], prefix)]
        single == {o \in loose : HasPrefix(o, prefix)}
        candidates == ({None} \X single) \cup UNION {{k} \X matches[k].oids : k \in DOMAIN matches}
        n == Cardinality(candidates)
    IN  [got |-> IF \E o \in locks : HasPrefix(o, prefix) THEN Bad
                 ELSE IF n = 0 THEN None
                 ELSE IF n = 1 THEN (CHOOSE c \in candidates : TRUE)[2]
                 ELSE Ambiguous,
         then |-> [p[x] EXCEPT !.packs = [k \in DOMAIN matches |-> matches[k].r]]]

ExpandPrefix(x, prefix) ==
    /\ p[x].pc = "ready"
    /\ Go(x, Expansion(x, prefix).then)
    /\ UNCHANGED disk

-----------------------------------------------------------------------------
(* Storing *)

Done(state) == [state EXCEPT !.pc = "ready", !.arg = None]

\* BitLooseObjDb::write: an object that there is a file of, empty or not, is not
\* written again.
WriteObj(x, oid) ==
    /\ p[x].pc = "ready"
    /\ oid \notin loose
    /\ Go(x, [p[x] EXCEPT !.pc = "lock", !.arg = oid])
    /\ UNCHANGED disk

\* Lockfile::open; if the lock file is there, the write fails.
LockObj(x) ==
    /\ p[x].pc = "lock"
    /\ \/ /\ p[x].arg \notin locks
          /\ locks' = locks \cup {p[x].arg}
          /\ Go(x, [p[x] EXCEPT !.pc = "write"])
       \/ /\ p[x].arg \in locks
          /\ Go(x, Done(p[x]))
          /\ UNCHANGED locks
    /\ UNCHANGED <<loose, torn, packs, idxs>>

\* A bug: the buffer is given up with the lock file.
CommitUnflushed(x) ==
    /\ p[x].pc = "write"
    /\ loose' = loose \cup {p[x].arg}
    /\ torn' = [torn EXCEPT ![p[x].arg] = x]
    /\ locks' = locks \ {p[x].arg}
    /\ Go(x, Done(p[x]))
    /\ UNCHANGED <<packs, idxs>>

\* The lock file is renamed to the object, over the file of another writer that
\* did not find it either; the contents are still in the buffer.
CommitObj(x) ==
    /\ p[x].pc = "write"
    /\ loose' = loose \cup {p[x].arg}
    /\ torn' = [torn EXCEPT ![p[x].arg] = x]
    /\ locks' = locks \ {p[x].arg}
    /\ Go(x, [p[x] EXCEPT !.pc = "flush"])
    /\ UNCHANGED <<packs, idxs>>

\* The buffer is written when it is dropped: to the object, unless another file
\* has the name by then.
FlushObj(x) ==
    /\ p[x].pc = "flush"
    /\ torn' = [torn EXCEPT ![p[x].arg] = IF @ = x THEN None ELSE @]
    /\ Go(x, Done(p[x]))
    /\ UNCHANGED <<loose, locks, packs, idxs>>

\* recv_pack has written the pack to a file of another name, and indexes it.
RecvPack(x, k) ==
    /\ p[x].pc = "ready"
    /\ Go(x, IF Indexable(k) THEN [p[x] EXCEPT !.pc = "pack", !.arg = k] ELSE Closed)
    /\ UNCHANGED disk

RenamePack(x) ==
    /\ p[x].pc = "pack"
    /\ packs' = packs \cup {p[x].arg}
    /\ Go(x, [p[x] EXCEPT !.pc = "idx"])
    /\ UNCHANGED <<loose, torn, locks, idxs>>

RenameIdx(x) ==
    /\ p[x].pc = "idx"
    /\ idxs' = idxs \cup {p[x].arg}
    /\ Go(x, [p[x] EXCEPT !.pc = "refresh"])
    /\ UNCHANGED <<loose, torn, locks, packs>>

\* refresh_odb; if it fails, the fetch fails and some packs may be open.
Refresh(x) ==
    /\ p[x].pc = "refresh"
    /\ \/ \E known \in Refreshed(p[x].packs) :
             Go(x, [Done(p[x]) EXCEPT !.packs = known])
       \/ /\ Refreshed(p[x].packs) = {}
          /\ \E known \in RefreshedInPart(p[x].packs) :
                Go(x, [Done(p[x]) EXCEPT !.packs = known])
    /\ UNCHANGED disk

Init ==
    /\ loose = {} /\ torn = [oid \in Oid |-> None] /\ locks = {} /\ packs = {} /\ idxs = {}
    /\ p = [x \in Proc |-> Closed]

Next ==
    \/ \E x \in Proc : Open(x) \/ Exit(x) \/ Kill(x)
    \/ \E x \in Reader : \/ \E how \in How, oid \in Oid : Query(x, how, oid)
                         \/ \E prefix \in Prefix : ExpandPrefix(x, prefix)
    \/ \E x \in Writer : \/ \E oid \in Written : WriteObj(x, oid)
                         \/ LockObj(x) \/ CommitObj(x) \/ FlushObj(x)
    \/ \E x \in Fetcher : \/ \E k \in Pack : RecvPack(x, k)
                          \/ RenamePack(x) \/ RenameIdx(x) \/ Refresh(x)

Spec == Init /\ [][Next]_vars

-----------------------------------------------------------------------------
(* Properties *)

\* What a process finds the name of: the loose objects and those of its packs.
Packed(x) == UNION {Objects[k] : k \in DOMAIN p[x].packs}
Named(x) == loose \cup Packed(x)

\* What it can read of them.
Visible(x) == (loose \ Empty) \cup Packed(x)

\* The fanout bucket before the one of oid is empty, so both begin at one place.
AfterGap(k, oid) == oid[1] > 0 /\ ~\E o \in Objects[k] : o[1] = oid[1] - 1

\* The variables have their types; the packs that processes have open have
\* their indexes, and who writes an object has its lock.
TypeOK ==
    /\ loose \subseteq Oid /\ locks \subseteq Oid
    /\ torn \in [Oid -> Proc \cup {None}] /\ Empty \subseteq loose
    /\ packs \subseteq Pack /\ idxs \subseteq packs
    /\ \A x \in Proc : /\ p[x].pc \in {"closed", "ready", "lock", "write", "flush", "pack", "idx", "refresh"}
                       /\ DOMAIN p[x].packs \subseteq idxs
                       /\ p[x].pc = "write" => p[x].arg \in locks

\* A process that is asked for an object answers what satisfies Right.
Answers(Right(_, _, _)) ==
    \A x \in Reader : p[x].pc = "ready" =>
        \A order \in Orders(x), how \in How, oid \in Oid : Right(x, oid, Answer(x, order, how, oid).got)

\* The state is well formed and, whatever was asked before and is in the
\* caches, an object that is found is the one that was asked for (read_obj, read_obj_raw, find_oid_crc_offset).
ReadIsRight == TypeOK /\ Answers(LAMBDA x, oid, got : got \in {oid, None})

\* A loose object is found unless its file is empty, and one of an open pack
\* unless the pack has no object in the bucket before it or before the base of a
\* delta: then an earlier question for an oid of that bucket may have left the
\* empty bucket in the cache (read_stream, find_oid_index).
MissOnlyAfterGap ==
    Answers(LAMBDA x, oid, got : got = None =>
        /\ oid \notin loose \ Empty
        /\ \A k \in DOMAIN p[x].packs : oid \in Objects[k] =>
              \E o \in {oid} \cup {e.base : e \in {e \in Range(Entry[k]) : e.kind = "ref"}} : AfterGap(k, o))

\* "returns the offset of the object with oid `oid` in the packfile"
\* (pack.rs:270): an object that a process can see is found.
FoundIfThere == Answers(LAMBDA x, oid, got : got = None => oid \notin Visible(x))

\* A prefix expands to an object that has it, of a pack or with a file, and to one only if there is
\* no other; none is found only if there is none; except that objects after a
\* gap may be missed.  It is ambiguous if there are two, or the same one twice,
\* and an error only while a lock file is there (expand_prefix).
ExpandIsRight ==
    \A x \in Reader, prefix \in Prefix : p[x].pc = "ready" =>
        LET In(k) == Objects[k]
            open == DOMAIN p[x].packs
            has == {o \in Named(x) : HasPrefix(o, prefix)}
            sure == {o \in has : o \in loose \/ \E k \in open : o \in In(k) /\ ~AfterGap(k, o)}
            twice == {o \in has : \E k \in open :
                        o \in In(k) /\ (o \in loose \/ \E l \in open \ {k} : o \in In(l))}
            Right(got) ==
                CASE got = None -> sure = {}
                  [] got = Bad -> locks # {}
                  [] got = Ambiguous -> Cardinality(has) > 1 \/ twice # {}
                  [] OTHER -> got \in has /\ sure \subseteq {got}
        IN  Right(Expansion(x, prefix).got)

\* What a process stores, as a loose object or in a pack, it can read when the
\* write or the fetch succeeds, unless another writer that did not find the object
\* is writing it over or was killed there; and what it can read it can read as long
\* as it runs, but for a file that is empty for that reason (write, recv_pack,
\* refresh, Lockfile::commit).
StoredIsVisible ==
    [][\A x \in Proc : p'[x].pc = "ready" /\ p[x].pc # "closed" =>
          /\ Visible(x) \subseteq Visible(x)' \cup Empty'
          /\ p[x].pc = "flush" => p[x].arg \in Visible(x)' \/ torn'[p[x].arg] \in Proc \ {x}
          /\ p[x].pc = "refresh" /\ Refreshed(p[x].packs) # {} =>
                Objects[p[x].arg] \subseteq Visible(x)']_vars

\* What the processes that are at a step are at.
At(pc) == {p[x].arg : x \in {x \in Proc : p[x].pc = pc}}

\* The lock files, the empty objects and the packs without an index that no
\* process is about to complete.
Abandoned ==
    [locks |-> locks \ At("write"),
     empty |-> {oid \in Empty : ~(p[torn[oid]].pc = "flush" /\ p[torn[oid]].arg = oid)},
     packs |-> (packs \ idxs) \ At("idx")]

\* A lock file that fails every later write, an empty object that every later
\* write takes for the object, and a pack without an index, at which every later
\* open of the database fails, are left behind by a kill only: not by writers or
\* fetches that get into each other's way (write, Lockfile::commit, recv_pack).
OnlyKillAbandons ==
    [][\/ \A what \in {"locks", "empty", "packs"} : Abandoned'[what] \subseteq Abandoned[what]
       \/ \E x \in Proc : Kill(x)]_vars

=============================================================================
