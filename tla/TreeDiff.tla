------------------------------ MODULE TreeDiff ------------------------------
(****************************************************************************)
(* Trees, the iterators over them and the diff of two iterators             *)
(* (libbit/src/iter and libbit/src/diff/tree_diff.rs).                      *)
(*                                                                          *)
(* A path is a sequence of component names, the root <<>>.  A tree is a     *)
(* function from the paths below the root to a blob or Directory.  An       *)
(* iterator is the sequence of the entries it still has to yield: the root, *)
(* then every directory before its contents.  Two known tree oids are equal *)
(* iff the subtrees are, so an entry needs no oid.                          *)
(*                                                                          *)
(* ByteOrder lists paths by their bytes.  A directory p occurs twice: as p, *)
(* which is how diff_cmp sees it, and as Append(p, ""), the path with its   *)
(* trailing slash, which is how path_cmp_explicit sorts it.  The two differ *)
(* for a sibling such as p.rs, which lies between p and p/.                 *)
(****************************************************************************)
EXTENDS FiniteSets, Functions, Integers, Sequences, SequencesExt

CONSTANTS
    ByteOrder,  \* the paths, and the directories with a trailing slash
    Directory   \* what a tree holds at a directory

-----------------------------------------------------------------------------
(* Paths and trees *)

Root == [path |-> <<>>, what |-> Directory]

Position == [p \in Range(ByteOrder) |-> CHOOSE i \in DOMAIN ByteOrder : ByteOrder[i] = p]

Rank(p) == IF p = <<>> THEN 0 ELSE Position[p]

\* diff_cmp: the bytes of the path, a directory being compared without a slash.
Less(p, q) == Rank(p) < Rank(q)

\* path_cmp_explicit: the bytes of the path, a directory with its slash.
SortKey(e) == IF e.what = Directory THEN Append(e.path, "") ELSE e.path

Under(p, d) == IsPrefix(d, p)

Files(t) == {p \in DOMAIN t : t[p] # Directory}

\* The tree with the given files, a function from paths to blobs.
TreeOf(files) ==
    LET dirs == UNION {{SubSeq(p, 1, n) : n \in 1..(Len(p) - 1)} : p \in DOMAIN files}
    IN  [p \in DOMAIN files \cup dirs |-> IF p \in DOMAIN files THEN files[p] ELSE Directory]

Blobs(t) == Restrict(t, Files(t))

\* No path of the trees lies between a directory of theirs and its slash, so that
\* diff_cmp and path_cmp_explicit order their entries alike.
NoneBetween(trees) ==
    LET paths == UNION {DOMAIN t : t \in trees}
        dirs == UNION {DOMAIN t \ Files(t) : t \in trees}
    IN  \A d \in dirs, p \in paths : ~(Less(d, p) /\ Less(p, Append(d, "")))

-----------------------------------------------------------------------------
(* Iterators *)

Entries(t) ==
    <<Root>> \o SetToSortSeq({[path |-> p, what |-> t[p]] : p \in DOMAIN t},
                             LAMBDA e, f : Less(SortKey(e), SortKey(f)))

\* IndexTreeIter::next: before each file of the index, the directories above it
\* that have not been yielded.
IndexEntries(files) ==
    LET order == SetToSortSeq(DOMAIN files, Less)
        Above(n) == [i \in 1..(Len(order[n]) - 1) |-> SubSeq(order[n], 1, i)]
        Yield(n) ==
            LET dirs == SelectSeq(Above(n), LAMBDA d : ~\E m \in 1..(n - 1) : d \in Range(Above(m)))
            IN  [i \in DOMAIN dirs |-> [path |-> dirs[i], what |-> Directory]]
                \o <<[path |-> order[n], what |-> files[order[n]]]>>
    IN  <<Root>> \o FlattenSeq([n \in DOMAIN order |-> Yield(n)])

\* The entry at the head with everything below it, and what follows.
Subtree(s) == SelectSeq(s, LAMBDA e : Under(e.path, Head(s).path))
Over(s) == SubSeq(s, Len(Subtree(s)) + 1, Len(s))

IsTree(e) == e.what = Directory

\* A pathspec is a path; the empty one matches everything, the root included.
MatchesPath(pathspec, p) == Under(p, pathspec)

MatchTreeIter(pathspec, s) == SelectSeq(s, LAMBDA e : MatchesPath(pathspec, e.path))

-----------------------------------------------------------------------------
(* TreeDiffIter::next with INCLUDE_UNMODIFIED.  The result is the entry, of  *)
(* the given kind, and what the two iterators have left once the entry has  *)
(* been consumed or dropped: blob is the contents of the entry's blob, and  *)
(* tree its tree's entries, the tree itself first.  kind is that of the new *)
(* iterator: a tree's; the index's, whose trees have no oids unless they    *)
(* are cached; or the working tree's, whose trees have none either.  info   *)
(* is, of an index, the trees that are cached with the oid the old one has, *)
(* and of a working tree, the paths whose blobs differ.                     *)

OnDeleted(old, new) ==
    LET e == Head(old)
    IN  [kind |-> IF IsTree(e) THEN "DeletedTree" ELSE "DeletedBlob",
         path |-> e.path, blob |-> e.what, tree |-> Subtree(old), old |-> Over(old), new |-> new]

OnCreated(old, new) ==
    LET e == Head(new)
    IN  [kind |-> IF IsTree(e) THEN "CreatedTree" ELSE "CreatedBlob",
         path |-> e.path, blob |-> e.what, tree |-> Subtree(new), old |-> old, new |-> Over(new)]

OnMatch(old, new, kind, info) ==
    LET o == Head(old)
        n == Head(new)
        Entry(name, blob, tree, restOld, restNew) ==
            [kind |-> name, path |-> n.path, blob |-> blob, tree |-> tree,
             old |-> restOld, new |-> restNew]
        sameTree == \/ kind = "tree" /\ Subtree(old) = Subtree(new)
                    \/ kind = "index" /\ n.path \in info
        changed == IF kind = "worktree" THEN n.path \in info ELSE o.what # n.what
    IN  CASE IsTree(o) /\ IsTree(n) /\ sameTree ->
                Entry("UnmodifiedTree", Directory, Subtree(new), Over(old), Over(new))
          [] IsTree(o) /\ IsTree(n) /\ ~sameTree ->
                Entry("MaybeModifiedTree", Directory, <<>>, Tail(old), Tail(new))
          [] IsTree(o) /\ ~IsTree(n) ->
                Entry("TreeToBlob", n.what, Subtree(old), Over(old), Tail(new))
          [] ~IsTree(o) /\ IsTree(n) ->
                Entry("BlobToTree", o.what, Subtree(new), Tail(old), Over(new))
          [] OTHER ->
                IF changed
                THEN Entry("ModifiedBlob", IF kind = "worktree" THEN o.what ELSE n.what, <<>>,
                           Tail(old), Tail(new))
                ELSE Entry("UnmodifiedBlob", n.what, <<>>, Tail(old), Tail(new))

NextDiff(old, new, kind, info) ==
    CASE new = <<>> \/ (old # <<>> /\ Less(Head(old).path, Head(new).path)) ->
            OnDeleted(old, new)
      [] old = <<>> \/ Less(Head(new).path, Head(old).path) -> OnCreated(old, new)
      [] OTHER -> OnMatch(old, new, kind, info)

Unmodified == {"UnmodifiedBlob", "UnmodifiedTree", "MaybeModifiedTree"}

RECURSIVE TreesAreDiff(_, _, _)
TreesAreDiff(old, new, info) ==
    /\ old # <<>> \/ new # <<>>
    /\ LET d == NextDiff(old, new, "worktree", info)
       IN  d.kind \notin Unmodified \/ TreesAreDiff(d.old, d.new, info)

-----------------------------------------------------------------------------
(* TreeStatusDiffer: the paths that are new, modified and deleted *)

SkipTrees(s) == SelectSeq(s, LAMBDA e : ~IsTree(e))

\* TreeEntriesConsumer::collect_over_files: the files of a tree.
CollectFiles(tree) == LET files == SkipTrees(tree) IN [i \in DOMAIN files |-> files[i].path]

NoChanges == [new |-> <<>>, modified |-> <<>>, deleted |-> <<>>]

\* A bug: the file that replaces a directory is forgotten.
RecordDeletedOnly(status, d) ==
    LET Created(paths) == [status EXCEPT !.new = @ \o paths]
        Deleted(paths) == [status EXCEPT !.deleted = @ \o paths]
    IN  CASE d.kind = "CreatedBlob" -> Created(<<d.path>>)
          [] d.kind = "CreatedTree" -> Created(CollectFiles(d.tree))
          [] d.kind = "DeletedBlob" -> Deleted(<<d.path>>)
          [] d.kind \in {"DeletedTree", "TreeToBlob"} -> Deleted(CollectFiles(d.tree))
          [] d.kind = "ModifiedBlob" -> [status EXCEPT !.modified = Append(@, d.path)]
          [] d.kind = "BlobToTree" ->
                [Deleted(<<d.path>>) EXCEPT !.new = @ \o CollectFiles(d.tree)]

Record(status, d) ==
    LET Created(paths) == [status EXCEPT !.new = @ \o paths]
        Deleted(paths) == [status EXCEPT !.deleted = @ \o paths]
    IN  CASE d.kind = "CreatedBlob" -> Created(<<d.path>>)
          [] d.kind = "CreatedTree" -> Created(CollectFiles(d.tree))
          [] d.kind = "DeletedBlob" -> Deleted(<<d.path>>)
          [] d.kind = "DeletedTree" -> Deleted(CollectFiles(d.tree))
          [] d.kind = "ModifiedBlob" -> [status EXCEPT !.modified = Append(@, d.path)]
          [] d.kind = "TreeToBlob" ->
                [Deleted(CollectFiles(d.tree)) EXCEPT !.new = Append(@, d.path)]
          [] d.kind = "BlobToTree" ->
                [Deleted(<<d.path>>) EXCEPT !.new = @ \o CollectFiles(d.tree)]

\* run_diff
RECURSIVE RunDiff(_, _, _, _, _)
RunDiff(old, new, kind, info, status) ==
    IF old = <<>> /\ new = <<>> THEN status
    ELSE LET d == NextDiff(old, new, kind, info)
         IN  RunDiff(d.old, d.new, kind, info, IF d.kind \in Unmodified THEN status ELSE Record(status, d))

DiffIterators(old, new, kind, info) == RunDiff(old, new, kind, info, NoChanges)

\* WorkspaceStatus::iter_paths, which does not yield the new ones.
IterPaths(status) == Range(status.deleted) \cup Range(status.modified)

=============================================================================
