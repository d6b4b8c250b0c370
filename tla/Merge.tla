-------------------------------- MODULE Merge --------------------------------
(****************************************************************************)
(* Merging a commit into HEAD (libbit/src/merge.rs, libbit/src/iter/walk.rs *)
(* and cherrypick.rs): the walk over base, ours and theirs, the effect of   *)
(* every pair of changes on the working tree and the index, the virtual     *)
(* base of a criss-cross history, and the refusal of a merge that finds     *)
(* uncommitted changes, which checks out the index it began with.           *)
(****************************************************************************)
EXTENDS Checkout

CONSTANTS
    Merged, Marked, \* what xdiff makes of two changes: a merge, conflict markers
    Mixed,          \* new contents followed by what was left of longer old ones
    Case,           \* of a merge: its files, their contents, files the user may
                    \* have changed, and the number of bases
    Aside           \* the names tried for a file moved aside, by side and path

VARIABLES
    theirs,     \* the tree of the commit to merge
    bases,      \* the trees of the merge bases (the empty tree if there is
                \* none), then that of their virtual merge
    grand,      \* <<the tree of the merge base of two merge bases>>, else <<>>
    relation,   \* "null" or "ff" if the base is their or our commit, or "true"
    walk,       \* the iterators over base, ours and theirs
    uncommitted \* the paths of the changes a merge is refused for

mergeArgs == <<theirs, grand, relation>>
mergeVars == <<mergeArgs, bases, walk, uncommitted>>
allVars == <<vars, mergeVars>>

-----------------------------------------------------------------------------
(* What a merge does to files and to the index.  A step returns the state   *)
(* it leaves; the first error ends the merge.                               *)

Here == [wt |-> wt, index |-> index, uncommitted |-> uncommitted, ok |-> TRUE]

Error(st) == [st EXCEPT !.ok = FALSE]
Ensure(st, condition, next) == IF st.ok /\ condition THEN next ELSE Error(st)

\* write_to_disk: the file must not exist.
WriteToDisk(st, p, blob) ==
    Ensure(st, NoFileAbove(st.wt, p) /\ p \notin DOMAIN st.wt,
           [st EXCEPT !.wt = With(CreateDirs(@, p), p, blob)])

Rm(st, p) == Ensure(st, p \in Files(st.wt), [st EXCEPT !.wt = Without(@, {p})])

RmDir(st, p) ==
    Ensure(st, p \in DOMAIN st.wt \ Files(st.wt) /\ Children(st.wt, p) = {}, [st EXCEPT !.wt = Without(@, {p})])

RmDirAll(st, p) ==
    Ensure(st, p \in DOMAIN st.wt \ Files(st.wt), [st EXCEPT !.wt = Without(@, {p} \cup Children(@, p))])

\* create_dir, which does not create parents.
MakeDir(st, p) ==
    Ensure(st, p \notin DOMAIN st.wt /\ Missing(st.wt, p) = {} /\ NoFileAbove(st.wt, p),
           [st EXCEPT !.wt = With(@, p, Directory)])

\* add_entry of a tree's entry takes the file's stat data, so it must exist.
AddEntry(st, p, blob) ==
    Ensure(st, p \in DOMAIN st.wt, [st EXCEPT !.index = Ix!AddEntry(@, p, blob)])

AddConflicted(st, p, stage, blob) ==
    Ensure(st, TRUE, [st EXCEPT !.index = Ix!AddConflictedEntry(@, p, stage, blob)])

RemoveEntry(st, p) == Ensure(st, TRUE, [st EXCEPT !.index = Ix!RemoveEntries(@, {<<p, "NONE">>})])

RemoveDirectory(st, p) == Ensure(st, TRUE, [st EXCEPT !.index = Ix!RemoveDirectory(@, p)])

\* UniquePath::make: the first name that is free.
UniquePath(st, side, p) ==
    LET names == Aside[side][p]
    IN  names[CHOOSE i \in DOMAIN names : /\ names[i] \notin DOMAIN st.wt
                                          /\ \A j \in 1..(i - 1) : names[j] \in DOMAIN st.wt]

\* A rename; what is below a directory goes with it.
Moved(t, p, to) ==
    LET From(q) == p \o SubSeq(q, Len(to) + 1, Len(q))
        below == {to \o SubSeq(q, Len(p) + 1, Len(q)) : q \in Children(t, p)}
        kept == DOMAIN t \ ({p} \cup Children(t, p))
    IN  [q \in kept \cup {to} \cup below |-> IF q \in kept THEN t[q] ELSE t[From(q)]]

RmOurConflicted(st, p) == Rm(st, p)

MvOurConflicted(st, p) ==
    Ensure(st, p \in DOMAIN st.wt, [st EXCEPT !.wt = Moved(@, p, UniquePath(st, "HEAD", p))])

WriteTheirConflicted(st, p, blob) == WriteToDisk(st, UniquePath(st, "theirs", p), blob)

\* Writing over a file opened without truncating it.
Overwritten(now, new) == IF now = new THEN {new} ELSE {new, Mixed}

XDiff(b, o, t) ==
    IF o = t THEN {o} ELSE IF b = None THEN {Marked} ELSE {Merged, Marked}

\* three_way_merge: the states it may leave.
ThreeWayMerge(st, p, b, o, t) ==
    IF ~st.ok \/ p \notin Files(st.wt) THEN {Error(st)}
    ELSE UNION {{LET written == [st EXCEPT !.wt[p] = contents]
                     withBase == IF b = None THEN written ELSE AddConflicted(written, p, "BASE", b)
                 IN  IF result = Marked
                     THEN AddConflicted(AddConflicted(withBase, p, "OURS", o), p, "THEIRS", t)
                     ELSE AddEntry(written, p, contents) :
                     contents \in Overwritten(st.wt[p], result)} : result \in XDiff(b, o, t)}

-----------------------------------------------------------------------------
(* The walk over the three trees *)

First == CHOOSE p \in {Head(walk[i]).path : i \in {j \in 1..3 : walk[j] # <<>>}} :
            \A i \in 1..3 : walk[i] # <<>> => ~Less(Head(walk[i]).path, p)

At3(i) == IF walk[i] # <<>> /\ Head(walk[i]).path = First THEN Head(walk[i]) ELSE None

Used == {i \in 1..3 : At3(i) # None}

\* Trees that all agree are stepped over, a single one is not.
StepOver ==
    /\ Cardinality(Used) > 1
    /\ \A i, j \in Used : IsTree(At3(i)) /\ Subtree(walk[i]) = Subtree(walk[j])

WalkNext == [i \in 1..3 |-> IF i \notin Used THEN walk[i]
                            ELSE IF StepOver THEN Over(walk[i]) ELSE Tail(walk[i])]

\* diff_base_to_other, of the entry b of the base and the entry o of iterator i.
BaseTo(b, o, i) ==
    CASE b = None /\ o = None -> "None"
      [] b = None /\ o # None -> IF IsTree(o) THEN "CreatedTree" ELSE "CreatedBlob"
      [] b # None /\ o = None -> IF IsTree(b) THEN "DeletedTree" ELSE "DeletedBlob"
      [] OTHER ->
           CASE IsTree(b) /\ IsTree(o) ->
                    IF Subtree(walk[1]) = Subtree(walk[i]) THEN "UnmodifiedTree" ELSE "ModifiedTree"
             [] IsTree(b) /\ ~IsTree(o) -> "TreeToBlob"
             [] ~IsTree(b) /\ IsTree(o) -> "BlobToTree"
             [] OTHER -> IF b.what = o.what THEN "UnmodifiedBlob" ELSE "ModifiedBlob"

-----------------------------------------------------------------------------
(* What is done with the two changes of an entry *)

NoEffect(o, t) ==
    \/ <<o, t>> \in {<<"UnmodifiedBlob", "UnmodifiedBlob">>, <<"BlobToTree", "UnmodifiedBlob">>,
                     <<"BlobToTree", "BlobToTree">>, <<"BlobToTree", "DeletedBlob">>,
                     <<"DeletedBlob", "BlobToTree">>, <<"CreatedTree", "CreatedTree">>}
    \/ t \in {"UnmodifiedTree", "ModifiedTree"} /\ o \in {"UnmodifiedTree", "ModifiedTree", "DeletedTree"}
    \/ t = "UnmodifiedTree" /\ o = "TreeToBlob"
    \/ t = "DeletedTree" /\ o \in {"ModifiedTree", "TreeToBlob"}

\* base_to_ours_only, base_to_theirs_only and merge_entry: the states that
\* handling the first entry p of the walk may leave.
Effects(st, p, b, ours, their) ==
    LET pair == <<BaseTo(b, ours, 2), BaseTo(b, their, 3)>>
        o == ours.what
        t == their.what
        Conflicted(s, stage, blob) == AddConflicted(AddConflicted(s, p, "BASE", b.what), p, stage, blob)
    IN  CASE NoEffect(pair[1], pair[2]) -> {st}
          [] pair = <<"CreatedBlob", "None">> -> {AddEntry(st, p, o)}
          [] pair = <<"CreatedTree", "None">> -> {st}
          [] pair = <<"None", "CreatedBlob">> ->
                IF p \in DOMAIN st.wt THEN {[st EXCEPT !.uncommitted = @ \cup {p}]}
                ELSE {AddEntry(WriteToDisk(st, p, t), p, t)}
          [] pair = <<"None", "CreatedTree">> -> {MakeDir(st, p)}
          [] pair \in {<<"DeletedBlob", "DeletedBlob">>, <<"DeletedBlob", "UnmodifiedBlob">>} ->
                {RemoveEntry(st, p)}
          [] pair = <<"DeletedBlob", "ModifiedBlob">> ->
                {WriteToDisk(Conflicted(st, "THEIRS", t), p, t)}
          [] pair = <<"ModifiedBlob", "DeletedBlob">> -> {Conflicted(st, "OURS", o)}
          [] pair = <<"CreatedBlob", "CreatedBlob">> -> ThreeWayMerge(st, p, None, o, t)
          [] pair = <<"ModifiedBlob", "ModifiedBlob">> -> ThreeWayMerge(st, p, b.what, o, t)
          [] pair = <<"ModifiedBlob", "UnmodifiedBlob">> -> {AddEntry(st, p, o)}
          [] pair = <<"ModifiedBlob", "BlobToTree">> ->
                {MakeDir(MvOurConflicted(Conflicted(st, "OURS", o), p), p)}
          [] pair = <<"BlobToTree", "ModifiedBlob">> ->
                {WriteTheirConflicted(Conflicted(st, "THEIRS", t), p, t)}
          [] pair \in {<<"ModifiedTree", "TreeToBlob">>, <<"CreatedTree", "CreatedBlob">>} ->
                {WriteTheirConflicted(AddConflicted(st, p, "THEIRS", t), p, t)}
          [] pair \in {<<"TreeToBlob", "ModifiedTree">>, <<"CreatedBlob", "CreatedTree">>} ->
                {MvOurConflicted(AddConflicted(st, p, "OURS", o), p)}
          [] pair = <<"UnmodifiedTree", "DeletedTree">> -> {RmDirAll(RemoveDirectory(st, p), p)}
          [] pair = <<"UnmodifiedBlob", "ModifiedBlob">> ->
                {AddEntry(WriteToDisk(Rm(st, p), p, t), p, t)}
          [] pair = <<"UnmodifiedBlob", "BlobToTree">> -> {MakeDir(Rm(st, p), p)}
          [] pair = <<"DeletedTree", "DeletedTree">> -> {RemoveDirectory(st, p)}
          [] pair = <<"UnmodifiedTree", "TreeToBlob">> ->
                {AddEntry(WriteToDisk(RmDirAll(st, p), p, t), p, t)}
          [] pair = <<"UnmodifiedBlob", "DeletedBlob">> ->
                {RemoveEntry([st EXCEPT !.wt = IF p \in Files(@) THEN Without(@, {p}) ELSE @], p)}
          [] pair = <<"DeletedTree", "TreeToBlob">> -> {AddEntry(WriteToDisk(st, p, t), p, t)}
          [] pair = <<"TreeToBlob", "TreeToBlob">> -> ThreeWayMerge(st, p, None, o, t)

-----------------------------------------------------------------------------
(* The merge *)

Walk(b, o, t) == <<Entries(b), Entries(o), Entries(t)>>

\* merge_base_recursive: with two merge bases, they are merged first.
VirtualWalkFromOurs == Walk(bases[1], grand[1], bases[2])

VirtualWalk == Walk(grand[1], bases[1], bases[2])

MergeStart ==
    /\ pc = "idle" /\ cmd = "merge"
    /\ IF Len(bases) = 2
       THEN pc' = "virtual" /\ walk' = VirtualWalk
       ELSE pc' = "check" /\ UNCHANGED walk
    /\ UNCHANGED <<head, wt, index, saved, args, frames, rest, mig, began, edited>>
    /\ UNCHANGED <<mergeArgs, bases, uncommitted>>

MergeEntries ==
    /\ pc \in {"virtual", "merge"}
    /\ \E i \in 1..3 : walk[i] # <<>>
    /\ \E st \in Effects(Here, First, At3(1), At3(2), At3(3)) :
          /\ wt' = st.wt
          /\ uncommitted' = st.uncommitted
          /\ index' = IF st.ok THEN st.index ELSE saved
          /\ pc' = IF st.ok THEN pc ELSE "failed"
    /\ walk' = WalkNext
    /\ UNCHANGED <<head, saved, args, frames, rest, mig, began, edited, mergeArgs, bases>>

WalkDone(phase) == pc = phase /\ \A i \in 1..3 : walk[i] = <<>>

\* write_tree, which has an error for conflicts.
WriteTree == [index EXCEPT !.cache = Ix!UpdateCacheTree(@, Ix!EntriesTree(index))]

\* remove_collisions has left a file and a directory of one name.
HasCollisions == \E p, q \in DOMAIN FilesOf(index.entries) : p # q /\ Under(q, p)

\* make_virtual_base: the tree of the index is the tree of the virtual base.
\* A merge whose tree would have two entries of one name is not followed.
VirtualBase ==
    /\ WalkDone("virtual")
    /\ IF Ix!HasConflicts(index) \/ HasCollisions
       THEN /\ Abandon(IF HasCollisions THEN "unfollowed" ELSE "failed")
            /\ UNCHANGED bases
       ELSE /\ bases' = Append(bases, TreeOf(FilesOf(index.entries)))
            /\ index' = WriteTree
            /\ pc' = "check"
            /\ UNCHANGED <<head, wt, saved, args, frames, rest, mig, began, edited>>
    /\ UNCHANGED <<mergeArgs, walk, uncommitted>>

\* check_unstaged_changes: the paths of the diff of the index and the working
\* tree that are deleted or modified.
UnstagedChanges ==
    LET files == FilesOf(index.entries)
    IN  {p \in DOMAIN files : p \notin Files(wt) \/ wt[p] # files[p]}

\* pre_merge_checks: changes are collected, and the merge goes on.
PreMergeChecks == UnstagedChanges \cup IterPaths(DiffHead(<<>>))

\* merge_commits, of the two heads with their base.
MergeWalkFromTheirs == Walk(theirs, head, theirs)

MergeWalk == Walk(Last(bases), head, theirs)

MergeCheck ==
    /\ pc = "check"
    /\ uncommitted' = uncommitted \cup PreMergeChecks
    /\ \/ /\ relation = "null"
          /\ pc' = "save"
          /\ UNCHANGED <<args, frames, rest, mig, walk>>
       \/ /\ relation = "ff"
          /\ Begin("ff", theirs, Entries(theirs), "tree", FALSE, index)
          /\ UNCHANGED walk
       \/ /\ relation = "true"
          /\ pc' = "merge"
          /\ walk' = MergeWalk
          /\ UNCHANGED <<args, frames, rest, mig>>
    /\ UNCHANGED <<head, wt, index, saved, began, edited, mergeArgs, bases>>

\* The index the merge began with is put back and checked out.
MergeRefuse ==
    /\ WalkDone("merge") /\ uncommitted # {}
    /\ index' = saved
    /\ LET files == FilesOf(saved.entries)
       IN  Begin("refuse", TreeOf(files), IndexEntries(files), "index", FALSE, saved)
    /\ UNCHANGED <<head, wt, saved, began, edited, mergeVars>>

MergeRefused ==
    /\ pc = "apply" /\ cmd = "refuse" /\ ApplyDone
    /\ Abandon("refused")
    /\ UNCHANGED mergeVars

MergeConflicts ==
    /\ WalkDone("merge") /\ uncommitted = {} /\ Ix!HasConflicts(index)
    /\ pc' = "save"
    /\ UNCHANGED <<head, wt, index, saved, args, frames, rest, mig, began, edited, mergeVars>>

MergeCommit ==
    /\ WalkDone("merge") /\ uncommitted = {} /\ ~Ix!HasConflicts(index)
    /\ \/ /\ head' = TreeOf(FilesOf(index.entries))
          /\ index' = WriteTree
       \/ UNCHANGED <<head, index>>     \* no_commit
    /\ pc' = "save"
    /\ UNCHANGED <<wt, saved, args, frames, rest, mig, began, edited, mergeVars>>

\* As Crash, between two entries or before the commit is written.
MergeCrash ==
    /\ "crash" \in Fault /\ pc = "merge"
    /\ Abandon("crashed")
    /\ UNCHANGED mergeVars

Merge ==
    MergeStart \/ MergeEntries \/ VirtualBase \/ MergeCheck \/ MergeRefuse \/ MergeRefused
        \/ MergeConflicts \/ MergeCommit \/ MergeCrash

\* A clean working tree, or one change to it, staged or not.
Changes(t, files) ==
    LET Edited(p) == IF p \in Files(t) THEN {Mine, None} ELSE {Mine}
        Change(p, what) == IF what = None THEN Without(Blobs(t), {p}) ELSE With(Blobs(t), p, what)
        Fits(p) == \A q \in Files(t) : q = p \/ ~(Under(q, p) \/ Under(p, q))
    IN  {Blobs(t)} \cup UNION {{Change(p, what) : what \in Edited(p)} : p \in {p \in files : Fits(p)}}

InitOfMerge ==
    /\ \E c \in Case :
          LET trees == TreesOver(c.files, c.blobs)
          IN  /\ head \in trees
              /\ theirs \in trees
              /\ bases \in [1..c.bases -> trees]
              /\ grand \in [1..(c.bases - 1) -> trees]
              /\ \E changed \in Changes(head, c.edits) : wt = TreeOf(changed)
              /\ relation \in {"true"} \cup {r \in {"null", "ff"} : c.bases = 1 /\
                                     bases[1] = IF r = "null" THEN theirs ELSE head}
    /\ index \in {[entries |-> IndexOf(Blobs(head)), cache |-> Ix!ReadCacheTree(PairsOf(Blobs(head)))],
                 [entries |-> IndexOf(Blobs(wt)),
                  cache |-> Ix!InvalidatePaths(Ix!ReadCacheTree(PairsOf(Blobs(head))),
                                               {p \in Ix!Path : At(Blobs(head), p) # At(Blobs(wt), p)})]}
    /\ saved = index
    /\ cmd = "merge" /\ target = <<>> /\ forced = FALSE
    /\ pc = "idle"
    /\ frames = <<>> /\ rest = <<>> /\ mig = Nothing
    /\ began = [head |-> head, wt |-> wt, entries |-> FilesOf(index.entries)]
    /\ edited = {}

NoMerge == theirs = <<>> /\ bases = <<>> /\ grand = <<>> /\ relation = "none"

\* Either command.
InitMerge ==
    /\ InitOfMerge \/ (InitCheckout /\ NoMerge)
    /\ walk = <<<<>>, <<>>, <<>>>> /\ uncommitted = {}

MergeFinal == Final \cup {"refused", "unfollowed"}

MergeStopped == pc \in MergeFinal /\ UNCHANGED allVars

NextMerge == Merge \/ ((Start \/ Generate \/ Apply) /\ UNCHANGED mergeVars) \/ MergeStopped

MergeSpec == InitMerge /\ [][NextMerge]_allVars

-----------------------------------------------------------------------------
(* Properties *)

Clean == began.wt = began.head /\ NothingStaged

\* As Apart, of all the trees of a merge.
MergeApart ==
    Apart /\ NoneBetween({began.head, began.wt, TreeOf(began.entries), theirs} \cup Range(bases) \cup Range(grand))

\* The three-way merge of the file p.
ThreeWay(base, ours, their, p) ==
    LET bp == At(Blobs(base), p)
        op == At(Blobs(ours), p)
        tp == At(Blobs(their), p)
    IN  IF bp = op THEN tp ELSE IF bp = tp \/ op = tp THEN op ELSE Merged

\* what is the merge of p or, as three_way_merge writes it over ours and does not
\* truncate the file, a shorter merge followed by what is left of ours.
MergedOrMixed(what, base, ours, their, p) ==
    LET merge == ThreeWay(base, ours, their, p)
    IN  what = merge \/ (merge = Merged /\ what = Mixed)

MergeDone(conflicts) ==
    cmd = "merge" /\ pc = "done" /\ Clean /\ relation = "true" /\ grand = <<>> /\ Ix!HasConflicts(saved) = conflicts
        /\ MergeApart

\* A merge that begins with nothing uncommitted and ends without conflicts
\* leaves in the index and in the working tree, file by file, the three-way
\* merge of base, ours and theirs: every pair of changes merge_entry tells
\* apart, directories replacing files included (merge.rs:353-600).  It has two
\* exceptions.  Of a file that both changed, differently, and whose merge is
\* shorter than ours, three_way_merge leaves and stages the merge with the end of
\* ours.  And if a name lies between a directory and its slash, the walk can take
\* the directory for deleted by both.  A merge that ends with conflicts
\* has a reason: a file that all three sides have differently, or a file of one
\* side where another has a directory.
MergedIsThreeWay ==
    /\ MergeDone(FALSE) =>
        \A p \in Ix!Path : /\ MergedOrMixed(At(FilesOf(saved.entries), p), Last(bases), began.head, theirs, p)
                           /\ At(Blobs(wt), p) = At(FilesOf(saved.entries), p)
    /\ MergeDone(TRUE) =>
        LET sides == {Blobs(Last(bases)), Blobs(began.head), Blobs(theirs)}
        IN  \/ \E p \in Ix!Path : Cardinality({At(s, p) : s \in sides}) = 3
            \/ \E s1, s2 \in sides : \E p \in DOMAIN s1, q \in DOMAIN s2 : p # q /\ Under(q, p)

\* With nothing uncommitted, a checkout or a merge with one base finds every
\* file where it expects it: no mkdir, rm, rmdir_all, create_new or stat of
\* apply_migration or merge_entry fails, no todo!() is reached, and it is not
\* refused.  This is if no name lies between a directory and its slash: beside
\* a.rs the walk can take a directory a for a new one, and create_dir fails.
CleanNeverFails ==
    pc \in {"failed", "refused", "conflict", "panic"} /\ Clean /\ grand = <<>> /\ edited = {} => ~MergeApart

\* The virtual base of two merge bases is their merge, file by file, wherever HEAD
\* has what the first of them has at the path and above and below it, and with
\* the exception of MergedIsThreeWay (make_virtual_base; the index it merges into
\* is HEAD's, so where the two agree it is left with what HEAD has).
VirtualIsMerge ==
    grand # <<>> /\ pc = "check" /\ Clean /\ MergeApart =>
        LET AsInFirst(q) == At(Blobs(began.head), q) = At(Blobs(bases[1]), q)
        IN  \A p \in Ix!Path :
                (\A q \in Ix!Path : Under(p, q) \/ Under(q, p) => AsInFirst(q)) =>
                    MergedOrMixed(At(Blobs(Last(bases)), p), grand[1], bases[1], bases[2], p)

\* Whatever the outcome of a merge, a file with uncommitted changes that they
\* did not change, in directories they did not delete, still exists, under
\* its name or moved aside (base_to_ours_only, mv_our_conflicted and the safe
\* checkout of the index): if no name lies between a directory and its slash,
\* for the checkout of a fast-forward or a refused merge has the exception of
\* SafeKeepsWork.  A file they did change may be overwritten before the merge is
\* refused, and is not spoken of.
WorkKept ==
    cmd # "checkout" /\ edited = {} /\ grand = <<>> =>
        LET Untouched(p) ==
                /\ At(Blobs(bases[1]), p) = At(Blobs(theirs), p)
                /\ \A d \in DOMAIN bases[1] : Under(p, d) /\ bases[1][d] = Directory => At(theirs, d) = Directory
        IN  \A p \in Uncommitted : Untouched(p) => (\E q \in DOMAIN wt : wt[q] = began.wt[p]) \/ ~MergeApart

=============================================================================
