------------------------------ MODULE Lockfile ------------------------------
(***************************************************************************)
(* Lockfile transactions (libbit/src/lockfile.rs).                         *)
(*                                                                         *)
(* A file is changed by creating its lockfile exclusively, writing the new *)
(* contents through a BufWriter, and renaming the lockfile to the file.    *)
(* Every ref, reflog and index of a repository is read and written so.     *)
(*                                                                         *)
(* A process runs one transaction at a time, in one of three modes:        *)
(*   "mut"       Lockfile::with_mut       (overwrites: a ref)              *)
(*   "readonly"  Lockfile::with_readonly  (reads: a ref)                   *)
(*   "filelock"  Filelock                 (read, modify, write: the index, *)
(*                                         a reflog)                       *)
(*                                                                         *)
(* The contents of a file are the set of processes whose write it shows:   *)
(* with_mut replaces them, Filelock adds to what it loaded.  {} is an      *)
(* empty file, which is also what is on disk until the BufWriter has been  *)
(* flushed.                                                                *)
(***************************************************************************)
EXTENDS Naturals, FiniteSets

CONSTANTS
    Proc,       \* the processes that share the repository
    Path,       \* the files to lock: records with a stem and an ext
    Inode,      \* the files on disk
    Mode,       \* the transactions the processes run
    Fault,      \* what may go wrong: see FaultKind
    None

FaultKind == {"crash", "open", "rename", "perm", "flush"}

\* path.with_extension("lock"): the extension is replaced, not appended to.
WithExtension(f) == [stem |-> f.stem, ext |-> "lock"]

LockPath == {WithExtension(f) : f \in Path}

ASSUME LockfileAssumption ==
    /\ \A f \in Path : f.ext # "lock"
    /\ Mode \subseteq {"mut", "readonly", "filelock"}
    /\ Fault \subseteq FaultKind
    /\ None \notin Inode

VARIABLES
    \* the disk
    entry,      \* directory entries: path -> inode or None
    data,       \* what is on disk: inode -> contents
    \* the Lockfile (and Filelock) value of each process
    pc,
    mode,
    target,     \* Lockfile.path of the current (or last) transaction
    ino,        \* the open lockfile
    file,       \* Lockfile.file: the guarded file, opened when locking
    buf,        \* the BufWriter's contents; before that, Filelock.data
    committed,  \* the processes whose Lockfile.committed is set
    rolledBack, \* the processes whose Lockfile.rolled_back is set
    dirty,      \* the processes whose Filelock.dirty is set
    result      \* how the last transaction ended

disk == <<entry, data>>
flags == <<committed, rolledBack, dirty>>
vars == <<entry, data, pc, mode, target, ino, file, buf, committed,
          rolledBack, dirty, result>>

Contents == SUBSET Proc

Init ==
    /\ entry = [f \in Path \cup LockPath |-> None]
    /\ data = [i \in Inode |-> {}]
    /\ pc = [p \in Proc |-> "idle"]
    /\ mode = [p \in Proc |-> "none"]
    /\ target \in [Proc -> Path]
    /\ ino = [p \in Proc |-> None]
    /\ file = [p \in Proc |-> None]
    /\ buf = [p \in Proc |-> {}]
    /\ committed = {} /\ rolledBack = {} /\ dirty = {}
    /\ result = [p \in Proc |-> "none"]

-----------------------------------------------------------------------------

LockOf(p) == WithExtension(target[p])

\* Inodes with neither a name nor an open handle.
FreeInode ==
    {i \in Inode : /\ \A f \in Path \cup LockPath : entry[f] # i
                   /\ \A p \in Proc : ino[p] # i /\ file[p] # i}

Goto(p, label) == pc' = [pc EXCEPT ![p] = label]

Report(p, r) == result' = [result EXCEPT ![p] = r]

\* Lockfile::open, up to the exclusive creation of the lockfile.
OpenCreate(p, f, m) ==
    /\ pc[p] = "idle"
    /\ entry[WithExtension(f)] = None
    /\ FreeInode # {}
    /\ LET i == CHOOSE i \in FreeInode : TRUE
       IN  /\ entry' = [entry EXCEPT ![WithExtension(f)] = i]
           /\ data' = [data EXCEPT ![i] = {}]
           /\ ino' = [ino EXCEPT ![p] = i]
    /\ Goto(p, "created")
    /\ mode' = [mode EXCEPT ![p] = m]
    /\ target' = [target EXCEPT ![p] = f]
    /\ Report(p, "none")
    /\ UNCHANGED <<file, buf, flags>>

\* Lockfile::open when the lockfile exists: an error, nothing is retried.
OpenLocked(p, f) ==
    /\ pc[p] = "idle"
    /\ entry[WithExtension(f)] # None
    /\ target' = [target EXCEPT ![p] = f]
    /\ Report(p, "locked")
    /\ UNCHANGED <<disk, pc, mode, ino, file, buf, flags>>

\* Mutant: every guarded file is taken to be new.
OpenTargetAsNew(p) ==
    /\ pc[p] = "created"
    /\ Goto(p, IF mode[p] = "filelock" THEN "load" ELSE "open")
    /\ UNCHANGED <<disk, mode, target, ino, file, buf, flags, result>>

\* Mutant: the guarded file is opened with truncate.
OpenTargetTruncates(p) ==
    /\ pc[p] = "created"
    /\ file' = [file EXCEPT ![p] = entry[target[p]]]
    /\ data' = [i \in Inode |-> IF i = entry[target[p]] THEN {} ELSE data[i]]
    /\ Goto(p, IF mode[p] = "filelock" THEN "load" ELSE "open")
    /\ UNCHANGED <<entry, mode, target, ino, buf, flags, result>>

\* The rest of Lockfile::open: a handle to the guarded file, if there is one.
OpenTarget(p) ==
    /\ pc[p] = "created"
    /\ file' = [file EXCEPT ![p] = entry[target[p]]]
    /\ Goto(p, IF mode[p] = "filelock" THEN "load" ELSE "open")
    /\ UNCHANGED <<disk, mode, target, ino, buf, flags, result>>

\* The process no longer has a Lockfile value.
Done(p) ==
    /\ Goto(p, "idle")
    /\ mode' = [mode EXCEPT ![p] = "none"]
    /\ ino' = [ino EXCEPT ![p] = None]
    /\ file' = [file EXCEPT ![p] = None]
    /\ buf' = [buf EXCEPT ![p] = {}]
    /\ committed' = committed \ {p}
    /\ rolledBack' = rolledBack \ {p}
    /\ dirty' = dirty \ {p}
    /\ UNCHANGED target

\* Opening the guarded file fails: no Lockfile value exists yet, so nothing
\* removes the lockfile.
OpenTargetFails(p) ==
    /\ "open" \in Fault
    /\ pc[p] = "created"
    /\ Done(p)
    /\ Report(p, "err")
    /\ UNCHANGED disk

\* Filelock::lock_with_flags: deserialize the guarded file, or the default.
Load(p) ==
    /\ pc[p] = "load"
    /\ buf' = [buf EXCEPT ![p] = IF file[p] = None THEN {} ELSE data[file[p]]]
    /\ Goto(p, "open")
    /\ UNCHANGED <<disk, mode, target, ino, file, flags, result>>

\* Deserializing an empty file fails (an index; an empty reflog parses).
LoadFails(p) ==
    /\ pc[p] = "load"
    /\ file[p] # None
    /\ data[file[p]] = {}
    /\ Goto(p, "drop")
    /\ Report(p, "err")
    /\ UNCHANGED <<disk, mode, target, ino, file, buf, flags>>

\* with_readonly_inner: run the closure, then roll back whatever it returns.
WithReadonly(p) ==
    /\ pc[p] = "open"
    /\ mode[p] = "readonly"
    /\ rolledBack' = rolledBack \cup {p}
    /\ Goto(p, "drop")
    /\ \E r \in {"ok", "err"} : Report(p, r)
    /\ UNCHANGED <<disk, mode, target, ino, file, buf, committed, dirty>>

\* with_mut_inner when the closure returns Ok: it has filled the BufWriter.
WithMutOk(p) ==
    /\ pc[p] = "open"
    /\ mode[p] = "mut"
    /\ buf' = [buf EXCEPT ![p] = {p}]
    /\ Goto(p, "commit")
    /\ UNCHANGED <<disk, mode, target, ino, file, flags, result>>

\* Mutant: the closure's error is returned after the commit.
WithMutErrCommits(p) ==
    /\ pc[p] = "open"
    /\ mode[p] = "mut"
    /\ Goto(p, "commit")
    /\ UNCHANGED <<disk, mode, target, ino, file, buf, flags, result>>

\* with_mut_inner when the closure returns Err.
WithMutErr(p) ==
    /\ pc[p] = "open"
    /\ mode[p] = "mut"
    /\ rolledBack' = rolledBack \cup {p}
    /\ Goto(p, "drop")
    /\ Report(p, "err")
    /\ UNCHANGED <<disk, mode, target, ino, file, buf, committed, dirty>>

\* Filelock::deref_mut, and the change made through it.
DerefMut(p) ==
    /\ pc[p] = "open"
    /\ mode[p] = "filelock"
    /\ buf' = [buf EXCEPT ![p] = @ \cup {p}]
    /\ dirty' = dirty \cup {p}
    /\ UNCHANGED <<disk, pc, mode, target, ino, file, committed, rolledBack,
                   result>>

\* Filelock::rollback, and the drop of the guard that follows.
Rollback(p) ==
    /\ pc[p] = "open"
    /\ mode[p] = "filelock"
    /\ rolledBack' = rolledBack \cup {p}
    /\ Goto(p, "drop")
    /\ Report(p, "err")
    /\ UNCHANGED <<disk, mode, target, ino, file, buf, committed, dirty>>

\* Filelock::drop: a clean guard is left to Lockfile::drop, a dirty one is
\* serialized into the BufWriter and committed.
FilelockDrop(p) ==
    /\ pc[p] = "open"
    /\ mode[p] = "filelock"
    /\ IF p \in dirty
       THEN Goto(p, "commit") /\ UNCHANGED result
       ELSE Goto(p, "drop") /\ Report(p, "ok")
    /\ UNCHANGED <<disk, mode, target, ino, file, buf, flags>>

\* Mutant: `committed` is not set.
RenameUnrecorded(p) ==
    /\ pc[p] = "commit"
    /\ p \notin rolledBack
    /\ entry' = [entry EXCEPT ![target[p]] = ino[p], ![LockOf(p)] = None]
    /\ Goto(p, "renamed")
    /\ UNCHANGED <<data, mode, target, ino, file, buf, flags, result>>

\* Lockfile::commit up to the rename.  The BufWriter is not flushed: what is
\* renamed is the file as it is on disk.
Rename(p) ==
    /\ pc[p] = "commit"
    /\ p \notin rolledBack
    /\ entry' = [entry EXCEPT ![target[p]] = ino[p], ![LockOf(p)] = None]
    /\ committed' = committed \cup {p}
    /\ Goto(p, "renamed")
    /\ UNCHANGED <<data, mode, target, ino, file, buf, rolledBack, dirty,
                   result>>

\* Lockfile::commit when the rename (or a step before it) fails: with_mut
\* reports where the new contents are, Filelock::drop panics.
RenameFails(p) ==
    /\ "rename" \in Fault
    /\ pc[p] = "commit"
    /\ Goto(p, "drop")
    /\ Report(p, IF mode[p] = "mut" THEN "commit_failed" ELSE "panic")
    /\ UNCHANGED <<disk, mode, target, ino, file, buf, flags>>

\* The rest of Lockfile::commit: the permissions of the renamed file.
SetReadonly(p) ==
    /\ pc[p] = "renamed"
    /\ Goto(p, "drop")
    /\ Report(p, "committed")
    /\ UNCHANGED <<disk, mode, target, ino, file, buf, flags>>

\* Setting the permissions fails: an error although the rename is done.
SetReadonlyFails(p) ==
    /\ "perm" \in Fault
    /\ pc[p] = "renamed"
    /\ Goto(p, "drop")
    /\ Report(p, IF mode[p] = "mut" THEN "err" ELSE "panic")
    /\ UNCHANGED <<disk, mode, target, ino, file, buf, flags>>

\* Mutant: only an explicit rollback removes the lockfile.
DropCleanupRolledBack(p) ==
    /\ pc[p] = "drop"
    /\ p \notin committed
    /\ entry' = IF p \in rolledBack THEN [entry EXCEPT ![LockOf(p)] = None]
                                    ELSE entry
    /\ Done(p)
    /\ UNCHANGED <<data, result>>

\* Lockfile::drop of a transaction that did not commit: cleanup() removes the
\* lockfile.  The BufWriter is flushed into a file without a name.
DropCleanup(p) ==
    /\ pc[p] = "drop"
    /\ p \notin committed
    /\ entry' = [entry EXCEPT ![LockOf(p)] = None]
    /\ Done(p)
    /\ UNCHANGED <<data, result>>

\* Lockfile::drop of a committed transaction, and the drop of its fields: the
\* BufWriter is flushed now, after the rename.
DropFlush(p) ==
    /\ pc[p] = "drop"
    /\ p \in committed
    /\ data' = [data EXCEPT ![ino[p]] = buf[p]]
    /\ Done(p)
    /\ UNCHANGED <<entry, result>>

\* The drop of a BufWriter ignores the errors of its flush.
DropFlushFails(p) ==
    /\ "flush" \in Fault
    /\ pc[p] = "drop"
    /\ p \in committed
    /\ Done(p)
    /\ UNCHANGED <<disk, result>>

\* The process is killed: what the BufWriter holds is lost, the lockfile stays.
Crash(p) ==
    /\ "crash" \in Fault
    /\ pc[p] # "idle"
    /\ Done(p)
    /\ Report(p, "crashed")
    /\ UNCHANGED disk

\* The steps a process takes by itself once it has created the lockfile.
Step(p) ==
    \/ OpenTarget(p) \/ OpenTargetFails(p)
    \/ Load(p) \/ LoadFails(p)
    \/ WithReadonly(p) \/ WithMutOk(p) \/ WithMutErr(p)
    \/ DerefMut(p) \/ Rollback(p) \/ FilelockDrop(p)
    \/ Rename(p) \/ RenameFails(p)
    \/ SetReadonly(p) \/ SetReadonlyFails(p)
    \/ DropCleanup(p) \/ DropFlush(p) \/ DropFlushFails(p)

Next ==
    \E p \in Proc :
        \/ \E f \in Path, m \in Mode : OpenCreate(p, f, m)
        \/ \E f \in Path : OpenLocked(p, f)
        \/ Step(p)
        \/ Crash(p)

Spec == Init /\ [][Next]_vars

-----------------------------------------------------------------------------

TypeOK ==
    /\ entry \in [Path \cup LockPath -> Inode \cup {None}]
    /\ data \in [Inode -> Contents]
    /\ pc \in [Proc -> {"idle", "created", "load", "open", "commit",
                        "renamed", "drop"}]
    /\ mode \in [Proc -> Mode \cup {"none"}]
    /\ target \in [Proc -> Path]
    /\ ino \in [Proc -> Inode \cup {None}]
    /\ file \in [Proc -> Inode \cup {None}]
    /\ buf \in [Proc -> Contents]
    /\ committed \subseteq Proc
    /\ rolledBack \subseteq Proc
    /\ dirty \subseteq Proc
    /\ result \in [Proc -> {"none", "locked", "ok", "err", "panic",
                            "committed", "commit_failed", "crashed"}]

\* p has created a lockfile that it has neither renamed nor removed.
Holds(p) == pc[p] # "idle" /\ p \notin committed

(***************************************************************************)
(* Lockfile::drop asserts that a transaction is not both rolled back and   *)
(* committed, and unwraps the removal of the lockfile: as long as a        *)
(* transaction is neither, the lockfile on disk is the one it created.     *)
(***************************************************************************)
DropNeverPanics ==
    /\ committed \cap rolledBack = {}
    /\ \A p \in Proc : Holds(p) => entry[LockOf(p)] = ino[p]

(***************************************************************************)
(* The guarded file is not replaced between Lockfile::open and the rename: *)
(* what a holder opened is still the file under that name, so a commit     *)
(* replaces exactly the version the transaction saw.                       *)
(***************************************************************************)
TargetStable ==
    \A p \in Proc :
        pc[p] \in {"load", "open", "commit"} => file[p] = entry[target[p]]

\* Guarded files that are empty on disk and that no transaction is about to
\* complete.
Torn ==
    {f \in Path : /\ entry[f] # None /\ data[entry[f]] = {}
                  /\ ~\E p \in committed : ino[p] = entry[f] /\ buf[p] # {}}

\* Lockfiles on disk that belong to no running transaction.
Stale ==
    {l \in LockPath : /\ entry[l] # None
                      /\ ~\E p \in Proc : Holds(p) /\ LockOf(p) = l /\ ino[p] = entry[l]}

(***************************************************************************)
(* A file whose new contents are still in a BufWriter (commit renames      *)
(* before the flush) is completed by its writer: whatever else fails, only *)
(* a kill between the two, or a flush that fails, leaves a file torn, and  *)
(* only the file of that transaction.                                      *)
(***************************************************************************)
TornOnlyInFlight ==
    [][\A f \in Torn' \ Torn :
        \E p \in committed : ino[p] = entry[f] /\ (Crash(p) \/ DropFlushFails(p))]_vars

(***************************************************************************)
(* Whatever path a transaction takes, errors of the closure, of the rename *)
(* and of the permissions included, it leaves no lock behind: only a kill, *)
(* or a guarded file that cannot be opened, does, and leaves only the lock *)
(* of its own transaction.  And no other transaction ever takes such a     *)
(* lock away.                                                              *)
(***************************************************************************)
NoStaleLock ==
    [][/\ Stale \subseteq Stale'
       /\ \A l \in Stale' \ Stale :
             \E p \in Proc : LockOf(p) = l /\ (Crash(p) \/ OpenTargetFails(p))]_vars

(***************************************************************************)
(* A step that changes the name of a guarded file is the commit of the     *)
(* process that holds the lock, with complete contents: a closure that     *)
(* failed, a read-only transaction and a rolled back Filelock never reach  *)
(* the file.                                                               *)
(***************************************************************************)
OnlyCommitReplaces ==
    [][\A f \in Path :
        entry'[f] # entry[f] =>
            \E p \in Proc :
                /\ Holds(p) /\ target[p] = f /\ p \notin rolledBack
                /\ mode[p] # "readonly"
                /\ p \in buf[p] /\ entry'[f] = ino[p]]_vars

-----------------------------------------------------------------------------
(* What a comment of lockfile.rs says and the code does not do. *)

(***************************************************************************)
(* "if the closure returns an `Err` then the transaction is rolled back,   *)
(* otherwise it is committed to disk" (lockfile.rs:123-124): once every    *)
(* transaction has ended, a file that is only changed by Filelock's read,  *)
(* modify, write shows the change of each of them that reported success.   *)
(***************************************************************************)
CommittedToDisk ==
    (\A q \in Proc : pc[q] = "idle") =>
        \A p \in Proc :
            result[p] = "committed" =>
                entry[target[p]] # None /\ p \in data[entry[target[p]]]

=============================================================================
