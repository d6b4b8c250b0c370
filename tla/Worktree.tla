------------------------------ MODULE Worktree ------------------------------
(****************************************************************************)
(* Telling which files changed (libbit/src/diff.rs, index.rs and            *)
(* index/index_entry.rs).  An index entry keeps the stat data of its file,  *)
(* and status, add and add_all compare contents only when the stat data and *)
(* the times of the file and of the index leave a doubt.  The user writes   *)
(* files at any moment; the clock that stamps files is coarse, so several   *)
(* writes may get the same time.                                            *)
(*                                                                          *)
(* A file has contents, mtime and inode.  Its contents stand for its oid.   *)
(****************************************************************************)
EXTENDS Functions, Integers, Sequences

CONSTANTS
    FileOrder,  \* the files, in the order of the iterators
    Data,       \* contents
    Size,       \* their sizes
    Ignorable,  \* the files that .gitignore may match
    None,
    Proc,       \* processes running commands
    Command,    \* a subset of {"status", "add", "add_all"}
    MaxTime, MaxEdits, MaxCommands

File == Range(FileOrder)
Inode == 1..2

FileState == [data : Data, mtime : 1..MaxTime, inode : Inode]
Stats == [mtime : 1..MaxTime, size : Range(Size), inode : Inode]
IndexEntry == [stat : Stats, oid : Data]
IndexEntries == [File -> IndexEntry \cup {None}]
IndexFile == [entries : IndexEntries, mtime : 1..MaxTime]

ASSUME WorktreeAssumption ==
    /\ FileOrder \in Seq(File) /\ IsInjective(FileOrder)
    /\ Size \in [Data -> Nat]
    /\ Ignorable \subseteq File
    /\ Command \subseteq {"status", "add", "add_all"}
    /\ MaxTime \in Nat \ {0} /\ MaxEdits \in Nat /\ MaxCommands \in Nat

\* An Option that is None is not one that is Some.
ASSUME NoneAssumption ==
    /\ None \notin Data /\ None \notin Proc /\ None \notin Nat
    /\ None \notin FileState /\ None \notin IndexEntry /\ None \notin IndexFile

VARIABLES
    now,        \* the clock
    ignored,    \* the files that .gitignore matches
    files,      \* the working tree
    edits,      \* how many writes the user has made
    saved,      \* the index file: entries and mtime, None before it exists
    lock,       \* the process holding index.lock, or None
    odb,        \* the blobs in the object database
    ran,        \* how many commands were begun
    p           \* the state of each process

vars == <<now, ignored, files, edits, saved, lock, odb, ran, p>>

Stat(f) == [mtime |-> files[f].mtime, size |-> Size[files[f].data], inode |-> files[f].inode]

\* An entry with the given stat data; its oid is None while it is unknown.
Entry(stat, oid) == [stat |-> stat, oid |-> oid]

Idle == [pc |-> "idle", cmd |-> None, only |-> <<>>, mtime |-> None, entries |-> [f \in File |-> None],
         dirty |-> FALSE, todo |-> <<>>, stat |-> None,
         deleted |-> {}, modified |-> <<>>, new |-> <<>>, touched |-> {}]

-----------------------------------------------------------------------------
(* The user and the clock *)

Tick ==
    /\ now < MaxTime
    /\ now' = now + 1
    /\ UNCHANGED <<ignored, files, edits, saved, lock, odb, ran, p>>

\* Files touched while a command runs: its report may be of before or after.
Touch(f) == [x \in Proc |-> [p[x] EXCEPT !.touched = IF p[x].pc = "idle" THEN @ ELSE @ \cup {f}]]

\* A file is written in place or replaced by another, which has a new inode.
UserWrites(f) ==
    /\ edits < MaxEdits
    /\ edits' = edits + 1
    /\ \E data \in Data, inode \in Inode :
          files' = [files EXCEPT ![f] = [data |-> data, mtime |-> now, inode |-> inode]]
    /\ p' = Touch(f)
    /\ UNCHANGED <<now, ignored, saved, lock, odb, ran>>

UserRemoves(f) ==
    /\ edits < MaxEdits /\ files[f] # None
    /\ edits' = edits + 1
    /\ files' = [files EXCEPT ![f] = None]
    /\ p' = Touch(f)
    /\ UNCHANGED <<now, ignored, saved, lock, odb, ran>>

-----------------------------------------------------------------------------
(* Opening the index *)

\* BitIndex::new reads the time of the index file before it has the lock.  A
\* pathspec matches a file, or all.
Begin(x) ==
    /\ p[x].pc = "idle" /\ ran < MaxCommands
    /\ ran' = ran + 1
    /\ \E cmd \in Command, only \in {<<f>> : f \in File} \cup {FileOrder} :
          /\ only # FileOrder => cmd = "add"
          /\ p' = [p EXCEPT ![x] = [Idle EXCEPT !.pc = "open", !.cmd = cmd, !.only = only,
                                               !.mtime = IF saved = None THEN None ELSE saved.mtime]]
    /\ UNCHANGED <<now, ignored, files, edits, saved, lock, odb>>

\* Filelock::lock, which fails while the lock file exists.
LockFree == lock = None

Open(x) ==
    /\ p[x].pc = "open"
    /\ IF LockFree
       THEN /\ lock' = x
            /\ p' = [p EXCEPT ![x].pc = IF p[x].cmd = "add" THEN "add" ELSE "diff",
                              ![x].entries = IF saved = None THEN @ ELSE saved.entries,
                              ![x].todo = p[x].only]
       ELSE /\ p' = [p EXCEPT ![x] = Idle]
            /\ UNCHANGED lock
    /\ UNCHANGED <<now, ignored, files, edits, saved, odb, ran>>

\* An error: the index is rolled back.
Fail(x) ==
    /\ p' = [p EXCEPT ![x] = Idle]
    /\ lock' = None
    /\ UNCHANGED <<now, ignored, files, edits, saved, odb, ran>>

-----------------------------------------------------------------------------
(* Comparing the index with the working tree *)

\* The index may have been written in the tick of the entry's file, or before.
IsStrictlyRacy(mtime, entry) == mtime = None \/ mtime < entry.stat.mtime

IsRacyEntry(mtime, entry) == mtime = None \/ mtime <= entry.stat.mtime

HasChangesInner(x, entry, stat) ==
    IF entry.stat.mtime = stat.mtime /\ ~IsRacyEntry(p[x].mtime, entry) THEN "No"
    ELSE IF entry.stat.size # stat.size \/ entry.stat.inode # stat.inode THEN "Yes"
    ELSE "Maybe"

\* The iterator over the working tree leaves out the ignored files but for those
\* that are in the index.
IsIgnored(x, f) == p[x].entries[f] = None /\ f \in ignored

IsYielded(x, f) == files[f] # None /\ ~IsIgnored(x, f)

\* The next file of the two iterators, which stat it but do not read it.
DiffNext(x) ==
    /\ p[x].pc = "diff" /\ p[x].todo # <<>>
    /\ LET f == Head(p[x].todo)
           entry == p[x].entries[f]
           change == HasChangesInner(x, entry, Stat(f))
           done == [p[x] EXCEPT !.todo = Tail(@)]
           To(state) == p' = [p EXCEPT ![x] = state]
       IN  \/ entry = None /\ ~IsYielded(x, f) /\ To(done)
           \/ entry # None /\ ~IsYielded(x, f) /\ To([done EXCEPT !.deleted = @ \cup {f}])
           \/ /\ entry = None /\ IsYielded(x, f)
              /\ To([done EXCEPT !.new = Append(@, <<f, Entry(Stat(f), None)>>)])
           \/ /\ entry # None /\ IsYielded(x, f)
              /\ \/ change = "No" /\ To(done)
                 \/ change = "Yes" /\ To([done EXCEPT !.modified = Append(@, <<f, Entry(Stat(f), None)>>)])
                 \/ change = "Maybe" /\ To([p[x] EXCEPT !.pc = "hash", !.stat = Stat(f)])
    /\ UNCHANGED <<now, ignored, files, edits, saved, lock, odb, ran>>

\* The contents are compared.  If they are the same, the entry gets the stat
\* data that was read before; if not, the new entry has its oid from now on.
HashFile(x) ==
    /\ p[x].pc = "hash"
    /\ LET f == Head(p[x].todo)
           done == [p[x] EXCEPT !.pc = "diff", !.todo = Tail(@), !.stat = None]
           new == Entry(p[x].stat, files[f].data)
       IN  IF files[f] = None THEN Fail(x)
           ELSE /\ p' = [p EXCEPT ![x] =
                            IF files[f].data = p[x].entries[f].oid
                            THEN [done EXCEPT !.entries[f] = new, !.dirty = TRUE]
                            ELSE [done EXCEPT !.modified = Append(@, <<f, new>>)]]
                /\ UNCHANGED <<now, ignored, files, edits, saved, lock, odb, ran>>

DiffEnd(x) ==
    /\ p[x].pc = "diff" /\ p[x].todo = <<>>
    /\ p' = [p EXCEPT ![x].pc = IF p[x].cmd = "status" THEN "reported" ELSE "remove"]
    /\ UNCHANGED <<now, ignored, files, edits, saved, lock, odb, ran>>

-----------------------------------------------------------------------------
(* Adding *)

\* add_entry: BitEntry::write reads and stores the file unless the oid is known.
AddEntry(x, f, entry, then) ==
    IF entry.oid = None /\ files[f] = None THEN Fail(x)
    ELSE LET oid == IF entry.oid = None THEN files[f].data ELSE entry.oid
         IN  /\ odb' = IF entry.oid = None THEN odb \cup {oid} ELSE odb
             /\ p' = [p EXCEPT ![x] = [then EXCEPT !.entries[f] = Entry(entry.stat, oid), !.dirty = TRUE]]
             /\ UNCHANGED <<now, ignored, files, edits, saved, lock, ran>>

\* add_all, having the diff: apply_diff removes, then updates, then adds.
ApplyNoDeleted(x) ==
    /\ p[x].pc = "remove"
    /\ p' = [p EXCEPT ![x].pc = "apply"]
    /\ UNCHANGED <<now, ignored, files, edits, saved, lock, odb, ran>>

ApplyDeleted(x) ==
    /\ p[x].pc = "remove"
    /\ p' = [p EXCEPT ![x].pc = "apply",
                      ![x].entries = [f \in File |-> IF f \in p[x].deleted THEN None ELSE @[f]],
                      ![x].dirty = @ \/ p[x].deleted # {}]
    /\ UNCHANGED <<now, ignored, files, edits, saved, lock, odb, ran>>

ApplyModified(x) ==
    /\ p[x].pc = "apply" /\ p[x].modified # <<>>
    /\ AddEntry(x, Head(p[x].modified)[1], Head(p[x].modified)[2], [p[x] EXCEPT !.modified = Tail(@)])

ApplyNew(x) ==
    /\ p[x].pc = "apply" /\ p[x].modified = <<>> /\ p[x].new # <<>>
    /\ AddEntry(x, Head(p[x].new)[1], Head(p[x].new)[2], [p[x] EXCEPT !.new = Tail(@)])

\* add: the matching files that exist and are not ignored are stat'ed, then read, one after the other.
AddStat(x) ==
    /\ p[x].pc = "add" /\ p[x].todo # <<>>
    /\ p' = [p EXCEPT ![x] = IF ~IsYielded(x, Head(p[x].todo)) THEN [p[x] EXCEPT !.todo = Tail(@)]
                             ELSE [p[x] EXCEPT !.pc = "write", !.stat = Stat(Head(p[x].todo))]]
    /\ UNCHANGED <<now, ignored, files, edits, saved, lock, odb, ran>>

AddWrite(x) ==
    /\ p[x].pc = "write"
    /\ AddEntry(x, Head(p[x].todo), Entry(p[x].stat, None),
                [p[x] EXCEPT !.pc = "add", !.todo = Tail(@), !.stat = None])

\* The command is over: the index is written if it changed, and unlocked.
Finished(x) ==
    \/ p[x].pc = "reported"
    \/ p[x].pc = "apply" /\ p[x].modified = <<>> /\ p[x].new = <<>>
    \/ p[x].pc = "add" /\ p[x].todo = <<>>

Close(x) ==
    /\ Finished(x)
    /\ saved' = IF p[x].dirty THEN [entries |-> p[x].entries, mtime |-> now] ELSE saved
    /\ lock' = None
    /\ p' = [p EXCEPT ![x] = Idle]
    /\ UNCHANGED <<now, ignored, files, edits, odb, ran>>

Init ==
    /\ now = 1
    /\ ignored \in SUBSET Ignorable
    /\ files \in [File -> [data : Data, mtime : {1}, inode : {1}] \cup {None}]
    /\ edits = 0
    /\ saved = None /\ lock = None
    /\ odb = {}
    /\ ran = 0
    /\ p = [x \in Proc |-> Idle]

Next ==
    \/ Tick
    \/ \E f \in File : UserWrites(f) \/ UserRemoves(f)
    \/ \E x \in Proc : \/ Begin(x) \/ Open(x) \/ DiffNext(x) \/ HashFile(x) \/ DiffEnd(x)
                       \/ ApplyDeleted(x) \/ ApplyModified(x) \/ ApplyNew(x)
                       \/ AddStat(x) \/ AddWrite(x) \/ Close(x)

Spec == Init /\ [][Next]_vars

-----------------------------------------------------------------------------
(* Properties *)

\* The variables have their types; a process past opening has the lock.
TypeOK ==
    /\ now \in 1..MaxTime
    /\ files \in [File -> FileState \cup {None}]
    /\ saved # None => saved.entries \in IndexEntries /\ saved.mtime \in 1..now
    /\ odb \subseteq Data
    /\ \A x \in Proc : /\ p[x].entries \in IndexEntries
                       /\ p[x].pc \notin {"idle", "open"} => lock = x

\* The contents of f are not those in the given entries, or it is not there and
\* not ignored.
Changed(f, entries) ==
    \/ entries[f] # None /\ files[f] = None
    \/ entries[f] = None /\ files[f] # None /\ f \notin ignored
    \/ entries[f] # None /\ files[f] # None /\ entries[f].oid # files[f].data

\* A change the index file no longer lets anyone see: the file still has the
\* time of its entry, and that is before the time of the index.
Hidden(f) ==
    /\ saved # None /\ saved.entries[f] # None /\ files[f] # None
    /\ Changed(f, saved.entries)
    /\ saved.entries[f].stat.mtime = files[f].mtime
    /\ saved.entries[f].stat.mtime < saved.mtime

InReport(x, f) ==
    f \in p[x].deleted \cup {change[1] : change \in Range(p[x].modified) \cup Range(p[x].new)}

\* The state is well formed, and what status reports of a file nobody touches
\* meanwhile is right: every change that is not hidden, and nothing else but
\* files replaced by others with the same contents and files that were written
\* between their stat and their reading when they were added (has_changes,
\* add_entry).  It is right although the time of the index is read before the
\* lock is taken, and another process may write the index in between.
StatusIsRight ==
    /\ TypeOK
    /\ \A x \in Proc : p[x].pc = "reported" =>
           \A f \in File \ p[x].touched :
               LET before == IF saved = None THEN [g \in File |-> None] ELSE saved.entries
                   replaced == files[f] # None /\ before[f].stat.inode # files[f].inode
                   torn == Size[before[f].oid] # before[f].stat.size
               IN  /\ Changed(f, before) /\ ~Hidden(f) => InReport(x, f)
                   /\ InReport(x, f) => Changed(f, before) \/ replaced \/ torn

\* When add_all is done, the index has the contents of the files nobody
\* touched meanwhile, unless a change was hidden before ("Makes the index
\* exactly match the working tree (removes, updates, and adds)",
\* index.rs:173); and when add is done, of the files it was given, stored in
\* the object database.  Neither has begun to track an ignored file, nor lost
\* one that was tracked (WorktreeRawIter).
AddMatches ==
    \A x \in Proc : p[x].cmd \in {"add", "add_all"} /\ Finished(x) =>
        \A f \in Range(p[x].only) \ p[x].touched :
            LET tracked == saved # None /\ saved.entries[f] # None
                absent == p[x].entries[f] = None
            IN  CASE f \in ignored /\ ~tracked -> absent
                  [] p[x].cmd = "add_all" -> Changed(f, p[x].entries) => Hidden(f)
                  [] OTHER -> files[f] # None =>
                        ~absent /\ ~Changed(f, p[x].entries) /\ files[f].data \in odb

=============================================================================
