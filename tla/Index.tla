-------------------------------- MODULE Index --------------------------------
(****************************************************************************)
(* The in-memory index of a bit repository (libbit/src/index.rs and         *)
(* libbit/src/index): the sorted map of entries, keyed by path and merge    *)
(* stage, and the tree cache, which remembers for a directory the tree      *)
(* object written for it so that the next write_tree can step over it.      *)
(*                                                                          *)
(* A path is a sequence of component names.  An index is a record           *)
(*   entries : [Key -> Oid \cup {None}]                                     *)
(*   cache   : [Dir -> Node], the node of the tree cache at each directory. *)
(* A tree object is the set of <<path, oid>> pairs of the blobs beneath it: *)
(* two trees of one directory have the same oid iff these sets are equal.   *)
(* The entry_count of a valid node is the cardinality of its tree.          *)
(****************************************************************************)
EXTENDS FiniteSetsExt, Integers, Sequences

CONSTANTS
    PathOrder,  \* the paths of interest, in the byte order of BitPath
    Oid,        \* blobs
    None,       \* no entry
    ConflictStage \* the stages at which a merge records the sides of a conflict

ASSUME IndexAssumption ==
    /\ PathOrder \in Seq(Seq(STRING))
    /\ None \notin Oid
    /\ ConflictStage \subseteq {"BASE", "OURS", "THEIRS"}

VARIABLES
    entries, cache,
    synced      \* {t} if the last operation wrote or read the tree t, else {}

vars == <<entries, cache, synced>>

-----------------------------------------------------------------------------
(* Paths and directories *)

Path == {PathOrder[i] : i \in 1..Len(PathOrder)}

Unmerged == {"BASE", "OURS", "THEIRS"}
Stage == {"NONE"} \cup Unmerged
Key == Path \X Stage

\* The directories above a path, the root <<>> included.
Parents(p) == {SubSeq(p, 1, n) : n \in 0..(Len(p) - 1)}

\* The directories above a path and the path itself.
CumulativeComponents(p) == Parents(p) \cup {p}

Dir == {<<>>} \cup UNION {Parents(p) : p \in Path}

\* The order compares bytes, and '/' is one of them: no path comes twice, and
\* what lies between two paths beneath a directory lies beneath it.
ASSUME OrderAssumption ==
    LET n == Len(PathOrder)
    IN  /\ \A i \in 1..n : PathOrder[i] # <<>>
        /\ \A i, j \in 1..n : PathOrder[i] = PathOrder[j] => i = j
        /\ \A i, j, k \in 1..n : i < j /\ j < k =>
              Parents(PathOrder[i]) \cap Parents(PathOrder[k]) \subseteq Parents(PathOrder[j])

-----------------------------------------------------------------------------
(* The tree cache *)

NoTree == {}
Absent == [kind |-> "absent", tree |-> NoTree]
Invalid == [kind |-> "invalid", tree |-> NoTree]
Valid(t) == [kind |-> "valid", tree |-> t]

\* What a tree object holds beneath directory d.
Beneath(t, d) == {e \in t : d \in Parents(e[1])}

\* Whether looking up d component by component finds a node.
Found(c, d) == \A a \in CumulativeComponents(d) : c[a] # Absent

\* Every node on the way to one of paths is invalidated, until one is missing.
InvalidatePaths(c, paths) ==
    [d \in Dir |->
        IF (\E path \in paths : d \in CumulativeComponents(path)) /\ Found(c, d)
        THEN Invalid ELSE c[d]]

\* Nodes built from the tree object alone.
ReadCacheTree(t) ==
    [d \in Dir |-> IF d = <<>> \/ Beneath(t, d) # {} THEN Valid(Beneath(t, d)) ELSE Absent]

\* A child that is valid and already has the oid of the subtree is kept as it
\* is, with everything below it.
UpdateCacheTreeInPlace(c, t) ==
    [d \in Dir |-> IF ReadCacheTree(t)[d] = Absent THEN c[d] ELSE ReadCacheTree(t)[d]]

UpdateCacheTree(c, t) ==
    LET Kept(a) == /\ a # <<>>
                   /\ Beneath(t, a) # {}
                   /\ Found(c, a)
                   /\ c[a] = Valid(Beneath(t, a))
    IN  [d \in Dir |->
            IF \E a \in CumulativeComponents(d) : Kept(a) THEN c[d] ELSE ReadCacheTree(t)[d]]

\* find_valid_child: only a node with at least one entry is of use.
FindValidChild(c, d) == Found(c, d) /\ c[d].kind = "valid" /\ c[d].tree # {}

-----------------------------------------------------------------------------
(* Operations on an index idx = [entries, cache] *)

Has(idx, key) == idx.entries[key] # None

InsertEntry(idx, key, oid) ==
    [entries |-> [idx.entries EXCEPT ![key] = oid],
     cache   |-> InvalidatePaths(idx.cache, {key[1]})]

RemoveEntriesKeepingCache(idx, keys) ==
    [idx EXCEPT !.entries = [key \in Key |-> IF key \in keys THEN None ELSE @[key]]]

\* remove_entry for each of keys: the cache is touched only for one that exists.
RemoveEntries(idx, keys) ==
    LET gone == {key \in keys : Has(idx, key)}
    IN  [entries |-> [key \in Key |-> IF key \in gone THEN None ELSE idx.entries[key]],
         cache   |-> InvalidatePaths(idx.cache, {key[1] : key \in gone})]

RemoveBase(idx, path) == RemoveEntries(idx, {<<path, "BASE">>})

RemoveConflicted(idx, path) == RemoveEntries(idx, {path} \X Unmerged)

\* The merged entries strictly below a directory.
RemoveDirectory(idx, dir) ==
    RemoveEntries(idx, {key \in Key : dir \in Parents(key[1]) /\ key[2] = "NONE"})

\* The order of keys in the map: by path, then by stage.
PathRank == [p \in Path |-> CHOOSE i \in 1..Len(PathOrder) : PathOrder[i] = p]
StageRank == [NONE |-> 0, BASE |-> 1, OURS |-> 2, THEIRS |-> 3]

Before(k1, k2) ==
    \/ PathRank[k1[1]] < PathRank[k2[1]]
    \/ k1[1] = k2[1] /\ StageRank[k1[2]] < StageRank[k2[2]]

\* The first key at or after (path, NONE) is skipped, whichever it is.
HasCollision(idx, path) ==
    LET range == {key \in Key : Has(idx, key) /\ ~Before(key, <<path, "NONE">>)}
    IN  \E first, key \in range : Before(first, key) /\ path \in CumulativeComponents(key[1])

RemoveFileDirCollisions(idx, path) ==
    RemoveEntries(idx, (CumulativeComponents(path) \cap Path) \X {"NONE"})

RemoveDirFileCollisions(idx, path) ==
    IF HasCollision(idx, path) THEN RemoveDirectory(idx, path) ELSE idx

RemoveCollisions(idx, path) ==
    RemoveDirFileCollisions(RemoveFileDirCollisions(idx, path), path)

AddEntryCommon(idx, key, oid) == InsertEntry(RemoveCollisions(idx, key[1]), key, oid)

AddEntry(idx, path, oid) ==
    AddEntryCommon(RemoveConflicted(idx, path), <<path, "NONE">>, oid)

AddConflictedEntry(idx, path, stage, oid) ==
    AddEntryCommon(RemoveEntries(idx, {<<path, "NONE">>}), <<path, stage>>, oid)

HasConflicts(idx) == \E key \in Path \X Unmerged : Has(idx, key)

\* The merged entries, as a tree.
EntriesTree(idx) ==
    {<<p, idx.entries[<<p, "NONE">>]>> : p \in {q \in Path : Has(idx, <<q, "NONE">>)}}

\* The number of entries that stepping over a cached tree leaves unread.
StepOverOneMore(t) == Cardinality(t) + 1
StepOverTree(t) == Cardinality(t)

\* The paths of the merged entries, in the order of the map.
EntryPaths(idx) ==
    LET Upto[n \in 0..Len(PathOrder)] ==
            IF n = 0 THEN <<>>
            ELSE IF Has(idx, <<PathOrder[n], "NONE">>) THEN Append(Upto[n - 1], PathOrder[n])
            ELSE Upto[n - 1]
    IN  Upto[Len(PathOrder)]

(****************************************************************************)
(* build_tree over the index iterator.  At entry n the iterator yields each *)
(* parent that was not a parent of entry n - 1; the first of them with a    *)
(* usable cache node stands for as many entries as the node counts, and     *)
(* they are stepped over unread.                                            *)
(****************************************************************************)
Yielded(es, n) == Parents(es[n]) \ (IF n = 1 THEN {<<>>} ELSE Parents(es[n - 1]))

Cached(idx, es, n) == {d \in Yielded(es, n) : FindValidChild(idx.cache, d)}

FirstOf(dirs) == CHOOSE d \in dirs : \A e \in dirs : Len(d) <= Len(e)

BuildTree(idx) ==
    LET es == EntryPaths(idx)
        Rest[n \in Nat \ {0}] ==
            IF n > Len(es) THEN {}
            ELSE IF Cached(idx, es, n) = {}
            THEN {<<es[n], idx.entries[<<es[n], "NONE">>]>>} \cup Rest[n + 1]
            ELSE LET t == idx.cache[FirstOf(Cached(idx, es, n))].tree
                 IN  t \cup Rest[n + StepOverTree(t)]
    IN  Rest[1]

-----------------------------------------------------------------------------
(* Behaviours: one operation of the index at a time, under the index lock *)

index == [entries |-> entries, cache |-> cache]

Update(idx, trees) == /\ entries' = idx.entries
                     /\ cache' = idx.cache
                     /\ synced' = trees

Init ==
    /\ entries = [key \in Key |-> None]
    /\ cache = [d \in Dir |-> Absent]
    /\ synced = {}

Add ==
    \E path \in Path, oid \in Oid : Update(AddEntry(index, path, oid), {})

Conflict ==
    \E path \in Path, oid \in Oid, stage \in ConflictStage :
        Update(AddConflictedEntry(index, path, stage, oid), {})

\* A path that is gone from the working tree: apply_diff's on_deleted for
\* each of its stages.
Remove ==
    \E path \in Path : Update(RemoveEntries(index, {path} \X Stage), {})

RemoveDir ==
    \E dir \in Dir \ {<<>>} : Update(RemoveDirectory(index, dir), {})

WriteTree ==
    /\ ~HasConflicts(index)
    /\ LET t == BuildTree(index)
       IN  Update([index EXCEPT !.cache = UpdateCacheTree(cache, t)], {t})

Next == Add \/ Conflict \/ Remove \/ RemoveDir \/ WriteTree

Spec == Init /\ [][Next]_vars

-----------------------------------------------------------------------------
(* Properties *)

\* Entries are blobs at known keys, and the nodes of the tree cache form a
\* tree: a directory has a node only when its parents have one.
TypeOK ==
    /\ entries \in [Key -> Oid \cup {None}]
    /\ cache \in [Dir -> [kind : {"absent", "invalid", "valid"}, tree : SUBSET (Path \X Oid)]]
    /\ \A d \in Dir : cache[d] # Absent => Found(cache, d)

\* A valid node of the tree cache describes exactly the entries now beneath
\* its directory, none of them conflicted: whatever write_tree or a diff steps
\* over is what it would have found (tree_cache.rs invalidate_path, called by
\* insert_entry and remove_entry).
CacheCoherent ==
    \A d \in Dir : cache[d].kind = "valid" =>
        /\ cache[d].tree = Beneath(EntriesTree(index), d)
        /\ \A key \in Path \X Unmerged : d \in Parents(key[1]) => entries[key] = None

\* After write_tree the tree it returned holds the index's entries, all of them
\* and nothing else, however much of it came from the cache.
TreeIsIndex == \A t \in synced : t = EntriesTree(index) /\ ~HasConflicts(index)

\* Stealing children from the old cache gives the cache a fresh read of the
\* tree would have given (the assertion at tree_cache.rs:143-151).
CacheAsIfFresh == \A t \in synced : cache = ReadCacheTree(t)

\* A path is either merged or in conflict, never both: a commit never
\* contains one side of a conflict that is still open.
MergedOrConflicted ==
    \A path \in Path : entries[<<path, "NONE">>] # None =>
        \A stage \in Unmerged : entries[<<path, stage>>] = None

=============================================================================
