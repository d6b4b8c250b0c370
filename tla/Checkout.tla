------------------------------ MODULE Checkout ------------------------------
(****************************************************************************)
(* Checking out a tree (libbit/src/checkout.rs): generating the migration   *)
(* by walking the diff from the baseline to the target side by side with    *)
(* the working tree, and applying it, one file operation at a time.         *)
(*                                                                          *)
(* CheckoutCtxt::checkout calls itself, and reset_worktree, for a subtree:  *)
(* frames is the stack of these calls, each with the iterators of its diff. *)
(* All of them advance the one iterator over the working tree, rest.        *)
(****************************************************************************)
EXTENDS TreeDiff

CONSTANTS
    Blob,       \* the contents of files, Mine among them
    Committed,  \* contents of the files of the commits checked out
    Mine,       \* contents only the user has written
    None,       \* no index entry
    Ignored,    \* the paths the ignore file matches
    Family,     \* sets of files: the trees of one command are over one of them
    Fault       \* what may interfere: a subset of {"crash", "edit"}

VARIABLES
    head,       \* the tree of HEAD
    wt,         \* the working tree
    index,      \* the index as this process has it: entries and tree cache
    saved,      \* the index file
    target,     \* the tree to check out
    forced,     \* the strategy: Force, or else Safe
    cmd,        \* "checkout", or the step of a merge the checkout is part of
    pc,
    frames, rest,
    mig,        \* the migration and the conflicts found so far
    began,      \* HEAD, the working tree and the index when the command began
    edited      \* the files the user created while it was being applied

args == <<cmd, target, forced>>
vars == <<head, wt, index, saved, args, pc, frames, rest, mig, began, edited>>

FilePath == SelectSeq(ByteOrder, LAMBDA p : Last(p) # "")

\* The index operations, on values of the variable index.
Ix == INSTANCE Index WITH
        PathOrder <- FilePath, Oid <- Blob,
        ConflictStage <- {"BASE", "OURS", "THEIRS"},
        entries <- index.entries, cache <- index.cache, synced <- {}

IndexOf(files) ==
    [key \in Ix!Key |-> IF key[2] = "NONE" /\ key[1] \in DOMAIN files THEN files[key[1]] ELSE None]

FilesOf(entries) ==
    [p \in {q \in Ix!Path : entries[<<q, "NONE">>] # None} |-> entries[<<p, "NONE">>]]

PairsOf(files) == {<<p, files[p]>> : p \in DOMAIN files}

-----------------------------------------------------------------------------
(* Files *)

Without(t, gone) == [p \in DOMAIN t \ gone |-> t[p]]
With(t, p, what) == [q \in DOMAIN t \cup {p} |-> IF q = p THEN what ELSE t[q]]

Children(t, d) == {p \in DOMAIN t : Under(p, d) /\ p # d}

\* The directories above p that do not exist yet.
Missing(t, p) == {SubSeq(p, 1, n) : n \in 1..(Len(p) - 1)} \ DOMAIN t

\* Whether create_dir_all can create the directories above p.
NoFileAbove(t, p) == \A n \in 1..(Len(p) - 1) : SubSeq(p, 1, n) \in DOMAIN t => t[SubSeq(p, 1, n)] = Directory

CreateDirs(t, p) == [q \in DOMAIN t \cup Missing(t, p) |-> IF q \in DOMAIN t THEN t[q] ELSE Directory]

\* is_worktree_entry_modified, for each file: what the index does not have, or
\* has with other contents.
Modified == {p \in Files(wt) : index.entries[<<p, "NONE">>] # wt[p]}

\* The trees the cache of the index has with the oid they have in t.
CachedAs(t, idx) ==
    {d \in Ix!Dir : Ix!FindValidChild(idx.cache, d) /\ idx.cache[d].tree = Ix!Beneath(PairsOf(Blobs(t)), d)}

MatchesIgnore(p) == \E q \in Ignored : Under(p, q)

\* is_ignored: what the ignore file matches, alone or by a parent, unless the
\* index idx tracks it, at whatever stage.
IsIgnored(idx, p) ==
    MatchesIgnore(p) /\ \A key \in Ix!Key : key[1] = p => idx.entries[key] = None

\* WorktreeTreeIter
WorktreeEntries(idx) == SelectSeq(Entries(wt), LAMBDA e : ~IsIgnored(idx, e.path))

-----------------------------------------------------------------------------
(* The diffs of BitRepo and BitIndex *)

DiffHead(pathspec) ==
    DiffIterators(MatchTreeIter(pathspec, Entries(head)),
                  MatchTreeIter(pathspec, IndexEntries(FilesOf(index.entries))),
                  "index", CachedAs(head, index))

DiffTreeToTree(s, t) == DiffIterators(Entries(s), Entries(t), "tree", {})

DiffTreeWorktree(t, pathspec) ==
    DiffIterators(MatchTreeIter(pathspec, Entries(t)), MatchTreeIter(pathspec, WorktreeEntries(index)),
                  "worktree", Modified)

-----------------------------------------------------------------------------
(* Migrations *)

Nothing == [rmrfs |-> <<>>, rms |-> <<>>, mkdirs |-> <<>>, creates |-> <<>>, conflicts |-> <<>>]

Then(m1, m2) == [op \in DOMAIN Nothing |-> m1[op] \o m2[op]]

Delete(p) == [Nothing EXCEPT !.rms = <<p>>]
DeleteTree(p) == [Nothing EXCEPT !.rmrfs = <<p>>]
Create(p, blob) == [Nothing EXCEPT !.creates = <<<<p, blob>>>>]
MkDir(p) == [Nothing EXCEPT !.mkdirs = <<p>>]
ConflictAt(p) == [Nothing EXCEPT !.conflicts = <<p>>]

Update(p, blob) == Then(Delete(p), Create(p, blob))

CreateTree(tree) ==
    LET blobs == SelectSeq(tree, LAMBDA e : ~IsTree(e))
        dirs == SelectSeq(tree, LAMBDA e : IsTree(e) /\ e.path # <<>>)
    IN  [Nothing EXCEPT !.mkdirs = [i \in DOMAIN dirs |-> dirs[i].path],
                        !.creates = [i \in DOMAIN blobs |-> <<blobs[i].path, blobs[i].what>>]]

TreeToBlob(p, blob) == Then(DeleteTree(p), Create(p, blob))
BlobToTree(p, tree) == Then(Delete(p), CreateTree(tree))

IfForced(x, y) == IF forced THEN x ELSE y

\* cond!: a safe checkout reports a conflict where there is work to lose.
UnlessUnguarded(p, modified, effect) == effect

Unless(p, modified, effect) == IF modified /\ ~forced THEN ConflictAt(p) ELSE effect

\* A file deleted in the working tree comes back only if that is forced.
RestoreAlways(p, blob) == Create(p, blob)

Restore(p, blob) == IfForced(Create(p, blob), Nothing)

DeleteFileOnly(e) == IF IsTree(e) THEN Nothing ELSE Delete(e.path)

DeleteEntry(e) == IF IsTree(e) THEN DeleteTree(e.path) ELSE Delete(e.path)

-----------------------------------------------------------------------------
(* Generating the migration *)

CheckoutFrame(old, new, kind) == [call |-> "checkout", kind |-> kind, old |-> old, new |-> new]

\* reset_created_worktree: the tree itself has been created, its contents come next.
CreatedFrame(tree) == CheckoutFrame(<<>>, Tail(tree), "tree")

ResetFrame(tree) == [call |-> "reset", kind |-> "worktree", old |-> tree, new |-> <<>>]

Top == Last(frames)

\* The next entry of the diff the innermost call is at.
New == IF Top.call = "reset" THEN rest ELSE Top.new
D == NextDiff(Top.old, New, Top.kind, IF Top.kind = "index" THEN CachedAs(head, index) ELSE Modified)

InCall(call) ==
    /\ pc = "generate"
    /\ frames # <<>>
    /\ Top.call = call
    /\ Top.old # <<>> \/ New # <<>>

Behind == rest # <<>> /\ Less(Head(rest).path, D.path)

Even == rest # <<>> /\ Head(rest).path = D.path

\* D is handled: effect is added to the migration, the working tree iterator
\* goes on to left, and the call made, if any, comes next.
Handle(effect, left, called) ==
    /\ mig' = Then(mig, effect)
    /\ rest' = left
    /\ frames' = Append(Front(frames),
                       [Top EXCEPT !.old = D.old, !.new = IF Top.call = "reset" THEN <<>> ELSE D.new])
                \o called
    /\ UNCHANGED <<head, wt, index, saved, args, pc, began, edited>>

\* A case the code leaves as todo!().
Panic ==
    /\ pc' = "panic"
    /\ UNCHANGED <<head, wt, index, saved, args, frames, rest, mig, began, edited>>

WorktreeOnly ==
    /\ pc = "generate" /\ rest # <<>>
    /\ frames = <<>> \/ (InCall("checkout") /\ Behind)
    /\ mig' = Then(mig, IfForced(DeleteEntry(Head(rest)), Nothing))
    /\ rest' = Over(rest)
    /\ UNCHANGED <<head, wt, index, saved, args, pc, frames, began, edited>>

LocalChanges == TreesAreDiff(D.tree, Subtree(rest), Modified)

WithWorktreeDir ==
    /\ InCall("checkout") /\ Even /\ IsTree(Head(rest))
    /\ LET p == D.path
       IN  \/ /\ D.kind = "DeletedBlob"
              /\ Handle(Then(Delete(p), IfForced(DeleteTree(p), Nothing)), IfForced(Over(rest), rest), <<>>)
           \/ /\ D.kind \in {"CreatedBlob", "UnmodifiedBlob"}
              /\ Panic
           \/ /\ D.kind = "ModifiedBlob"
              /\ Handle(IfForced(TreeToBlob(p, D.blob), ConflictAt(p)), Over(rest), <<>>)
           \/ /\ D.kind = "MaybeModifiedTree"
              /\ Handle(Nothing, Tail(rest), <<>>)
           \/ /\ D.kind = "UnmodifiedTree"
              /\ Handle(Nothing, IfForced(rest, Over(rest)), IfForced(<<ResetFrame(D.tree)>>, <<>>))
           \/ /\ D.kind = "DeletedTree"
              /\ Handle(Unless(p, LocalChanges, DeleteTree(p)),
                        IfForced(rest, Over(rest)), <<>>)
           \/ /\ D.kind \in {"CreatedTree", "BlobToTree"}
              /\ Handle(IfForced(MkDir(p), ConflictAt(p)), IfForced(rest, Over(rest)),
                        IfForced(<<CreatedFrame(D.tree)>>, <<>>))
           \/ /\ D.kind = "TreeToBlob"
              /\ Handle(Unless(p, LocalChanges, TreeToBlob(p, D.blob)),
                        IfForced(rest, Over(rest)), <<>>)

WithWorktreeBlob ==
    /\ InCall("checkout") /\ Even /\ ~IsTree(Head(rest))
    /\ LET p == D.path
           changed == p \in Modified
       IN  \/ /\ D.kind = "UnmodifiedTree"
              /\ Panic
           \/ /\ D.kind # "UnmodifiedTree"
              /\ Handle(CASE D.kind = "DeletedBlob" -> Unless(p, changed, Delete(p))
                          [] D.kind = "CreatedBlob" -> Unless(p, TRUE, Update(p, D.blob))
                          [] D.kind = "ModifiedBlob" -> Unless(p, changed, Update(p, D.blob))
                          [] D.kind = "MaybeModifiedTree" -> Unless(p, TRUE, Delete(p))
                          [] D.kind = "UnmodifiedBlob" ->
                                IF changed /\ forced THEN Update(p, D.blob) ELSE Nothing
                          [] D.kind = "DeletedTree" -> Unless(p, TRUE, Then(Delete(p), DeleteTree(p)))
                          [] D.kind = "CreatedTree" -> Unless(p, TRUE, BlobToTree(p, D.tree))
                          [] D.kind = "BlobToTree" -> Unless(p, changed, BlobToTree(p, D.tree))
                          [] D.kind = "TreeToBlob" ->
                                Unless(p, TRUE, Then(Delete(p), TreeToBlob(p, D.blob))),
                        Tail(rest), <<>>)

NoWorktree ==
    /\ InCall("checkout") /\ ~Behind /\ ~Even
    /\ LET p == D.path
       IN  Handle(CASE D.kind = "DeletedBlob" -> Delete(p)
                    [] D.kind = "CreatedBlob" -> Create(p, D.blob)
                    [] D.kind = "ModifiedBlob" -> IfForced(Update(p, D.blob), ConflictAt(p))
                    [] D.kind = "MaybeModifiedTree" -> Nothing
                    [] D.kind = "UnmodifiedBlob" -> Restore(p, D.blob)
                    [] D.kind = "UnmodifiedTree" -> IfForced(CreateTree(D.tree), Nothing)
                    [] D.kind = "DeletedTree" -> DeleteTree(p)
                    [] D.kind = "CreatedTree" -> CreateTree(D.tree)
                    [] D.kind = "BlobToTree" -> BlobToTree(p, D.tree)
                    [] D.kind = "TreeToBlob" -> TreeToBlob(p, D.blob),
                  rest, <<>>)

\* The diff is from the tree to the working tree, so its effects are reversed.
ResetWorktree ==
    /\ InCall("reset")
    /\ LET p == D.path
       IN  Handle(CASE D.kind = "DeletedBlob" -> Create(p, D.blob)
                    [] D.kind = "CreatedBlob" -> Delete(p)
                    [] D.kind = "ModifiedBlob" -> Update(p, D.blob)
                    [] D.kind \in {"UnmodifiedBlob", "MaybeModifiedTree"} -> Nothing
                    [] D.kind = "DeletedTree" -> CreateTree(D.tree)
                    [] D.kind = "CreatedTree" -> DeleteTree(p)
                    [] D.kind = "BlobToTree" -> TreeToBlob(p, D.blob)
                    [] D.kind = "TreeToBlob" -> BlobToTree(p, D.tree),
                  D.new, <<>>)

Return ==
    /\ pc = "generate" /\ frames # <<>>
    /\ Top.old = <<>> /\ New = <<>>
    /\ frames' = Front(frames)
    /\ UNCHANGED <<head, wt, index, saved, args, pc, rest, mig, began, edited>>

GenerateEnd ==
    /\ pc = "generate" /\ frames = <<>> /\ rest = <<>>
    /\ pc' = IF mig.conflicts = <<>> THEN "apply" ELSE "conflict"
    /\ UNCHANGED <<head, wt, index, saved, args, frames, rest, mig, began, edited>>

-----------------------------------------------------------------------------
(* Applying it *)

\* One file operation is taken off the migration.
Applied(op) ==
    /\ mig' = [mig EXCEPT ![op] = Tail(@)]
    /\ UNCHANGED <<head, saved, args, pc, frames, rest, began, edited>>

ApplyRmrf ==
    /\ pc = "apply" /\ mig.rmrfs # <<>>
    /\ LET p == Head(mig.rmrfs)
       IN  /\ wt' = IF p \in DOMAIN wt /\ wt[p] = Directory THEN Without(wt, {p} \cup Children(wt, p)) ELSE wt
           /\ index' = Ix!RemoveDirectory(index, p)
    /\ Applied("rmrfs")

\* A directory the removal leaves empty goes too; the root holds .git.
RemoveFile(t, p) ==
    LET left == Without(t, {p})
    IN  IF Len(p) > 1 /\ Children(left, Front(p)) = {} THEN Without(left, {Front(p)}) ELSE left

ApplyRm ==
    /\ pc = "apply" /\ mig.rmrfs = <<>> /\ mig.rms # <<>>
    /\ LET p == Head(mig.rms)
       IN  /\ wt' = IF p \in Files(wt) THEN RemoveFile(wt, p) ELSE wt
           /\ index' = Ix!RemoveEntries(index, {<<p, "NONE">>})
    /\ Applied("rms")

Mkdirs == mig.rmrfs = <<>> /\ mig.rms = <<>> /\ mig.mkdirs # <<>>
Creates == mig.rmrfs = <<>> /\ mig.rms = <<>> /\ mig.mkdirs = <<>> /\ mig.creates # <<>>

ApplyMkdir ==
    /\ pc = "apply" /\ Mkdirs
    /\ LET p == Append(Head(mig.mkdirs), "")
       IN  /\ NoFileAbove(wt, p)
           /\ wt' = CreateDirs(wt, p)
    /\ UNCHANGED index
    /\ Applied("mkdirs")

\* create_new: the file must not exist.
CanOverwrite(p) == NoFileAbove(wt, p) /\ (p \in DOMAIN wt => wt[p] # Directory)

CanCreate(p) == NoFileAbove(wt, p) /\ p \notin DOMAIN wt

ApplyCreate ==
    /\ pc = "apply" /\ Creates
    /\ LET p == Head(mig.creates)[1]
           blob == Head(mig.creates)[2]
       IN  /\ CanCreate(p)
           /\ wt' = With(CreateDirs(wt, p), p, blob)
           /\ index' = Ix!AddEntry(index, p, blob)
    /\ Applied("creates")

\* The command fails: it returns early, and leaving the repository after an
\* error drops the index without saving it.
Abandon(outcome) ==
    /\ pc' = outcome
    /\ index' = saved
    /\ UNCHANGED <<head, wt, saved, args, frames, rest, mig, began, edited>>

ApplyFails ==
    /\ pc = "apply"
    /\ \/ Mkdirs /\ ~NoFileAbove(wt, Append(Head(mig.mkdirs), ""))
       \/ Creates /\ ~CanCreate(Head(mig.creates)[1])
    /\ Abandon("failed")

ApplyDone == \A op \in {"rmrfs", "rms", "mkdirs", "creates"} : mig[op] = <<>>

\* The index a forced checkout leaves has the target in its tree cache.
Refreshed ==
    IfForced([index EXCEPT !.cache = Ix!UpdateCacheTree(@, PairsOf(Blobs(target)))], index)

\* The checkout is done, and HEAD is moved to the target: by checkout and
\* reset, and for a fast-forward by the merge.
MoveHead ==
    /\ pc = "apply" /\ cmd \in {"checkout", "ff"} /\ ApplyDone
    /\ head' = target
    /\ index' = Refreshed
    /\ pc' = "save"
    /\ UNCHANGED <<wt, saved, args, frames, rest, mig, began, edited>>

\* Leaving the repository commits the index file.
SaveIndex ==
    /\ pc = "save"
    /\ saved' = index
    /\ pc' = "done"
    /\ UNCHANGED <<head, wt, index, args, frames, rest, mig, began, edited>>

\* The process dies, or a file operation has an I/O error: either way the
\* working tree stays as it is and the index file is not written.
Crash ==
    /\ "crash" \in Fault /\ pc \in {"apply", "save"}
    /\ Abandon("crashed")

\* A file the user creates meanwhile, at one of the paths the trees have, where no
\* removal is still to come.
UserCreates ==
    /\ "edit" \in Fault /\ pc = "apply" /\ edited = {}
    /\ \E p \in Files(target) \cup Files(began.head) \cup Files(began.wt) :
          /\ p \notin DOMAIN wt /\ NoFileAbove(wt, p)
          /\ \A i \in DOMAIN mig.rmrfs : ~Under(p, mig.rmrfs[i])
          /\ \A i \in DOMAIN mig.rms : p # mig.rms[i]
          /\ wt' = With(CreateDirs(wt, p), p, Mine)
          /\ edited' = {p}
    /\ UNCHANGED <<head, index, saved, args, pc, frames, rest, mig, began>>

Begin(command, tree, new, kind, force, idx) ==
    /\ cmd' = command
    /\ target' = tree
    /\ forced' = force
    /\ frames' = <<CheckoutFrame(Entries(head), new, kind)>>
    /\ rest' = WorktreeEntries(idx)
    /\ mig' = Nothing
    /\ pc' = "generate"

Start ==
    /\ pc = "idle" /\ cmd = "checkout"
    /\ Begin("checkout", target, Entries(target), "tree", forced, index)
    /\ UNCHANGED <<head, wt, index, saved, began, edited>>

Generate ==
    WorktreeOnly \/ WithWorktreeDir \/ WithWorktreeBlob \/ NoWorktree \/ ResetWorktree
        \/ Return \/ GenerateEnd

Apply ==
    ApplyRmrf \/ ApplyRm \/ ApplyMkdir \/ ApplyCreate \/ ApplyFails \/ MoveHead \/ SaveIndex
        \/ Crash \/ UserCreates

\* The trees over some of the given files.
TreesOver(files, blobs) ==
    LET Clash(S) == \E p, q \in S : p # q /\ Under(p, q)
    IN  UNION {{TreeOf(f) : f \in [S -> blobs]} : S \in {S \in SUBSET files : ~Clash(S)}}

\* Nothing is staged, or everything in the working tree is.
InitCheckout ==
    /\ \E files \in Family :
          /\ head \in TreesOver(files, Committed)
          /\ target \in TreesOver(files, Committed)
          /\ wt \in TreesOver(files, Committed \cup {Mine})
    /\ \E t \in {head, wt} :
          index = [entries |-> IndexOf(Blobs(t)), cache |-> [d \in Ix!Dir |-> Ix!Absent]]
    /\ saved = index
    /\ cmd = "checkout"
    /\ forced \in BOOLEAN
    /\ pc = "idle"
    /\ frames = <<>> /\ rest = <<>> /\ mig = Nothing
    /\ began = [head |-> head, wt |-> wt, entries |-> FilesOf(index.entries)]
    /\ edited = {}

Final == {"done", "conflict", "failed", "crashed", "panic"}

-----------------------------------------------------------------------------
(* Properties *)

NothingStaged == began.entries = Blobs(began.head)

\* Files that are ignored and not tracked: the working tree iterator does not
\* yield them, so a checkout that removes their directory removes them.
Expendable == {p \in Files(began.wt) : p \notin DOMAIN began.entries /\ MatchesIgnore(p)}

\* Files whose contents are not in the index: modified, or untracked but not
\* ignored.
Uncommitted ==
    {p \in Files(began.wt) : p \notin DOMAIN began.entries \/ began.entries[p] # began.wt[p]} \ Expendable

\* The diffs and the walk of the working tree meet entries in one order: there is
\* no file such as a.rs beside a directory a.
Apart == NoneBetween({began.head, began.wt, TreeOf(began.entries), target})

\* What f has at p, if anything.
At(f, p) == IF p \in DOMAIN f THEN f[p] ELSE None

\* The variables have their types; in particular every operation leaves a
\* working tree in which what is above a file is a directory.
TypeOK ==
    /\ \A t \in {head, wt, target} :
          \A p \in DOMAIN t : /\ t[p] \in Blob \cup {Directory}
                              /\ Missing(t, p) = {} /\ NoFileAbove(t, p)
    /\ {index.entries, saved.entries} \subseteq [Ix!Key -> Blob \cup {None}]
    /\ DOMAIN index.cache = Ix!Dir
    /\ forced \in BOOLEAN
    /\ edited \subseteq Ix!Path

\* A safe checkout never changes or removes a file with uncommitted changes,
\* neither when it succeeds nor when it stops on a conflict, an error or a crash
\* (checkout_tree_with_opts: "accounting for changes in the working tree").
WorkAccountedFor ==
    cmd = "checkout" /\ ~forced => \A p \in Uncommitted : p \in DOMAIN wt /\ wt[p] = began.wt[p]

\* Every file operation leaves a working tree and an index that are well
\* formed, and a safe checkout keeps uncommitted changes, whatever becomes of it
\* (checkout.rs:309-581, apply_migration): if no name lies between a directory
\* and its slash.  With such a name it does not, as WorkAccountedFor shows.
SafeKeepsWork == TypeOK /\ (WorkAccountedFor \/ ~Apart)

\* Unless a change was staged, a forced checkout that succeeds leaves the
\* working tree and the index exactly matching the target tree, whatever was
\* in the working tree and however its names are ordered, but for ignored files
\* the target does not have (CheckoutStrategy::Force, checkout.rs:44-48).
ForcedIsExact ==
    cmd = "checkout" /\ forced /\ NothingStaged /\ pc = "done" /\ edited = {} =>
        /\ Without(Blobs(wt), Expendable \ DOMAIN target) = Blobs(target)
        /\ FilesOf(saved.entries) = Blobs(target)

\* A file the user creates while the migration is being applied is never
\* overwritten: files are created with create_new (apply_migration, touch).
EditSurvives == \A p \in edited : p \in DOMAIN wt /\ wt[p] = Mine

\* A safe checkout that succeeds is a three-way merge of HEAD, the target and
\* the working tree, file by file: where HEAD and the target agree the file
\* stays as the user had it, elsewhere it is the target's; and the index is
\* the target's (checkout_tree_with_opts, "accounting for changes in the
\* working tree").  This is of files that are not ignored, or are tracked, and
\* if no name lies between a directory and its slash: then a tree that is in
\* both can be found deleted and created.
SafeIsThreeWay ==
    cmd = "checkout" /\ ~forced /\ NothingStaged /\ pc = "done" /\ edited = {} /\ Apart =>
        \A p \in Ix!Path :
            LET same == At(Blobs(target), p) = At(Blobs(began.head), p)
            IN  /\ \/ same /\ p \in Expendable
                   \/ At(Blobs(wt), p) = At(Blobs(IF same THEN began.wt ELSE target), p)
                /\ At(FilesOf(saved.entries), p) = At(Blobs(target), p)

\* Everything, and each path of HEAD.
Pathspecs == {<<>>} \cup DOMAIN head

\* The difference of two functions from files to blobs, in the order of paths.
IsDiffOf(status, old, new) ==
    /\ Range(status.new) = DOMAIN new \ DOMAIN old
    /\ Range(status.deleted) = DOMAIN old \ DOMAIN new
    /\ Range(status.modified) = {p \in DOMAIN old \cap DOMAIN new : old[p] # new[p]}
    /\ \A paths \in {status.new, status.deleted, status.modified} :
          \A i \in 2..Len(paths) : Less(paths[i - 1], paths[i])

\* The staged changes are the differences of HEAD and the index, each once and
\* in order, however much of the index is stepped over because its cached tree
\* is HEAD's (diff_head; get_output asserts the order, tree_diff.rs:412).  So
\* are those of two trees and, if nothing is staged, those of HEAD and the
\* working tree, which is compared with the index.  With a pathspec they are
\* those of the files beneath it, whether it is a file or a directory and on
\* either side.  Ignored files that are not tracked are no changes.  All this if
\* no name lies between a directory and its slash: beside a.rs, a file a/x that
\* both sides have can be both new and deleted.
DiffsAreRight ==
    pc \in {"idle", "check"} /\ Apart =>
        /\ IsDiffOf(DiffTreeToTree(head, target), Blobs(head), Blobs(target))
        /\ \A prefix \in Pathspecs :
              LET Matching(files) == Restrict(files, {p \in DOMAIN files : Under(p, prefix)})
              IN  /\ IsDiffOf(DiffHead(prefix), Matching(Blobs(head)), Matching(FilesOf(index.entries)))
                  /\ NothingStaged /\ pc = "idle" =>
                        IsDiffOf(DiffTreeWorktree(head, prefix), Matching(Blobs(head)),
                                 Matching(Without(Blobs(wt), Expendable)))

=============================================================================
