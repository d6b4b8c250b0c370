--------------------------- MODULE WorktreeProofs ---------------------------
(****************************************************************************)
(* For any files, contents, processes and commands, and a user who writes   *)
(* at any moment: what status reports of the files nobody touches meanwhile *)
(* is right, and what add and add_all leave in the index matches them.      *)
(****************************************************************************)
EXTENDS Worktree, TLAPS

-----------------------------------------------------------------------------
(* Lists *)

\* The list s with a at its end has what s has, and a.
Extends(s, a) == Range(Append(s, a)) = Range(s) \cup {a}

\* Something is added to a list.
LEMMA Appended ==
    ASSUME NEW S, NEW s \in Seq(S), NEW a \in S
    PROVE  Append(s, a) \in Seq(S) /\ Extends(s, a)
<1>1. /\ Append(s, a) \in Seq(S) /\ Len(s) \in Nat /\ DOMAIN s = 1..Len(s)
      /\ DOMAIN Append(s, a) = 1..(Len(s) + 1)
      /\ \A i \in 1..Len(s) : Append(s, a)[i] = s[i]
      /\ Append(s, a)[Len(s) + 1] = a
  OBVIOUS
<1> QED BY <1>1 DEF Extends, Range

\* The first of a list is taken; if there was nothing twice, there is nothing
\* twice, and it does not come again.
LEMMA Taken ==
    ASSUME NEW S, NEW s \in Seq(S), s # <<>>
    PROVE  /\ Head(s) \in S /\ Tail(s) \in Seq(S)
           /\ Range(s) = {Head(s)} \cup Range(Tail(s))
           /\ IsInjective(s) => IsInjective(Tail(s)) /\ Head(s) \notin Range(Tail(s))
<1>1. /\ Head(s) \in S /\ Tail(s) \in Seq(S) /\ Len(s) \in Nat /\ Len(s) # 0
      /\ DOMAIN s = 1..Len(s) /\ Head(s) = s[1]
      /\ DOMAIN Tail(s) = 1..(Len(s) - 1)
      /\ \A i \in 1..(Len(s) - 1) : Tail(s)[i] = s[i + 1]
  OBVIOUS
<1>2. /\ 1 \in DOMAIN s
      /\ \A i \in DOMAIN Tail(s) : i + 1 \in DOMAIN s /\ i + 1 # 1 /\ i \in Int
      /\ \A i \in DOMAIN s : i = 1 \/ (i - 1 \in DOMAIN Tail(s) /\ (i - 1) + 1 = i)
  BY <1>1
<1>3. Range(s) = {Head(s)} \cup Range(Tail(s))
  <2>1. \A i \in DOMAIN s : s[i] = Head(s) \/ \E j \in DOMAIN Tail(s) : s[i] = Tail(s)[j]
    BY <1>1, <1>2
  <2>2. \A j \in DOMAIN Tail(s) : \E i \in DOMAIN s : s[i] = Tail(s)[j]
    BY <1>1, <1>2, Zenon
  <2>3. Head(s) \in Range(s)
    BY <1>1, <1>2, Zenon DEF Range
  <2>4. Range(s) \subseteq {Head(s)} \cup Range(Tail(s))
    BY <2>1, Zenon DEF Range
  <2>5. Range(Tail(s)) \subseteq Range(s)
    BY <2>2, Zenon DEF Range
  <2> QED BY <2>3, <2>4, <2>5, Zenon
<1>4. ASSUME IsInjective(s) PROVE IsInjective(Tail(s)) /\ Head(s) \notin Range(Tail(s))
  <2>1. ASSUME NEW i \in DOMAIN Tail(s), NEW j \in DOMAIN Tail(s), Tail(s)[i] = Tail(s)[j]
        PROVE  i = j
    <3>1. i + 1 \in DOMAIN s /\ j + 1 \in DOMAIN s /\ s[i + 1] = s[j + 1]
      BY <1>1, <1>2, <2>1, Zenon
    <3>2. i + 1 = j + 1
      BY <1>4, <3>1, Zenon DEF IsInjective
    <3> QED BY <1>2, <3>2
  <2>2. \A i \in DOMAIN Tail(s) : Tail(s)[i] # Head(s)
    <3>1. \A i \in DOMAIN Tail(s) : s[i + 1] = s[1] => i + 1 = 1
      BY <1>2, <1>4, Zenon DEF IsInjective
    <3> QED BY <1>1, <1>2, <3>1, Zenon
  <2> QED BY <2>1, <2>2, Zenon DEF IsInjective, Range
<1> QED BY <1>1, <1>3, <1>4, Zenon

\* What is in a list.
LEMMA Elements ==
    ASSUME NEW S, NEW s \in Seq(S)
    PROVE  Range(s) \subseteq S /\ (s = <<>> <=> Range(s) = {})
<1>1. Len(s) \in Nat /\ DOMAIN s = 1..Len(s) /\ (s = <<>> <=> Len(s) = 0)
  OBVIOUS
<1>2. Len(s) # 0 => 1 \in DOMAIN s
  BY <1>1
<1>3. DOMAIN s = {} => Range(s) = {}
  BY Zenon DEF Range
<1>4. 1 \in DOMAIN s => s[1] \in Range(s)
  BY Zenon DEF Range
<1>5. Range(s) \subseteq S
  BY <1>1 DEF Range
<1> QED BY <1>1, <1>2, <1>3, <1>4, <1>5

-----------------------------------------------------------------------------
(* The invariants *)

Place == {"idle", "open", "diff", "hash", "reported", "remove", "apply", "add", "write"}

\* An entry of a diff; add_entry has to read the file if the oid is None.
NewEntry == [stat : Stats, oid : Data \cup {None}]

State ==
    [pc : Place, cmd : Command \cup {None}, only : Seq(File), mtime : Nat \cup {None},
     entries : IndexEntries, dirty : BOOLEAN, todo : Seq(File), stat : Stats \cup {None},
     deleted : SUBSET File, modified : Seq(File \X NewEntry), new : Seq(File \X NewEntry),
     touched : SUBSET File]

\* The place of a process tells which command it runs.
Placed(s) ==
    /\ s.pc \in {"add", "write"} => s.cmd = "add"
    /\ s.pc \in {"diff", "hash"} => s.cmd \in {"status", "add_all"}
    /\ s.pc = "reported" => s.cmd = "status"
    /\ s.pc \in {"remove", "apply"} => s.cmd = "add_all"
    /\ s.pc \in {"hash", "write"} => s.todo # <<>> /\ s.stat \in Stats
    /\ s.pc # "idle" => /\ s.cmd \in Command /\ IsInjective(s.only)
                        /\ s.cmd # "add" => s.only = FileOrder

\* The process has opened the index.
Working(s) == s.pc \notin {"idle", "open"}

Types ==
    /\ now \in 1..MaxTime
    /\ ignored \subseteq File
    /\ files \in [File -> FileState \cup {None}]
    /\ saved \in IndexFile \cup {None}
    /\ odb \subseteq Data
    /\ p \in [Proc -> State]
    /\ \A x \in Proc : Placed(p[x])
    /\ \A x \in Proc : Working(p[x]) => lock = x

\* Time goes on: the index was not written later than now, nor before a process
\* read its time.
Timely ==
    /\ saved # None => saved.mtime <= now
    /\ \A x \in Proc : p[x].mtime # None => saved # None /\ p[x].mtime <= saved.mtime

\* Nothing was done.
LEMMA IdleState == Idle \in State /\ Placed(Idle) /\ ~Working(Idle) /\ Idle.mtime = None
<1>1. <<>> \in Seq(File) /\ <<>> \in Seq(File \X NewEntry)
  OBVIOUS
<1>2. [f \in File |-> None] \in IndexEntries
  BY Zenon DEF IndexEntries
<1>3. Idle \in State
  BY <1>1, <1>2, Zenon DEF Idle, State, Place
<1> QED BY <1>3, Zenon DEF Idle, Placed, Working

\* One process takes a step.
LEMMA OneSteps ==
    ASSUME p \in [Proc -> State], NEW x \in Proc, NEW s, p' = [p EXCEPT ![x] = s]
    PROVE  /\ p'[x] = s
           /\ \A y \in Proc \ {x} : p'[y] = p[y]
           /\ s \in State => p' \in [Proc -> State]
OBVIOUS

\* The stat data of a file, and the entry it makes.
LEMMA StatType ==
    ASSUME Types, NEW f \in File, files[f] # None
    PROVE  /\ files[f] \in FileState /\ files[f].data \in Data
           /\ Stat(f) \in Stats
<1>1. files[f] \in FileState
  BY Zenon DEF Types
<1>2. files[f].data \in Data /\ files[f].mtime \in 1..MaxTime /\ files[f].inode \in Inode
  BY <1>1, Zenon DEF FileState
<1>3. Size[files[f].data] \in Range(Size)
  BY <1>2, WorktreeAssumption, Zenon DEF Range
<1> QED BY <1>1, <1>2, <1>3, Zenon DEF Stat, Stats

-----------------------------------------------------------------------------
(* Types *)

\* A process took a step that leaves its state well formed, and the others alone.
Took(x) ==
    /\ p' \in [Proc -> State]
    /\ Placed(p'[x])
    /\ \A y \in Proc \ {x} : p'[y] = p[y]

\* The fields of a process.
LEMMA StateFields ==
    ASSUME Types, NEW x \in Proc
    PROVE  /\ p[x] \in State /\ Placed(p[x]) /\ p \in [Proc -> State]
           /\ p[x].pc \in Place /\ p[x].cmd \in Command \cup {None}
           /\ p[x].only \in Seq(File) /\ p[x].mtime \in Nat \cup {None}
           /\ p[x].entries \in IndexEntries /\ p[x].dirty \in BOOLEAN
           /\ p[x].todo \in Seq(File) /\ p[x].stat \in Stats \cup {None}
           /\ p[x].deleted \subseteq File /\ p[x].touched \subseteq File
           /\ p[x].modified \in Seq(File \X NewEntry)
           /\ p[x].new \in Seq(File \X NewEntry)
BY Zenon DEF Types, State

\* BitIndex::new before it has the lock.
LEMMA BeginTakes ==
    ASSUME Types, NEW x \in Proc, Begin(x)
    PROVE  /\ Took(x)
           /\ p'[x].pc = "open" /\ p'[x].entries = [f \in File |-> None]
           /\ p'[x].deleted = {} /\ p'[x].modified = <<>> /\ p'[x].new = <<>>
           /\ p'[x].mtime = IF saved = None THEN None ELSE saved.mtime
<1>1. PICK cmd \in Command, only \in {<<f>> : f \in File} \cup {FileOrder} :
          /\ only # FileOrder => cmd = "add"
          /\ p' = [p EXCEPT ![x] = [Idle EXCEPT !.pc = "open", !.cmd = cmd, !.only = only,
                                               !.mtime = IF saved = None THEN None ELSE saved.mtime]]
  BY Zenon DEF Begin
<1> DEFINE mtime == IF saved = None THEN None ELSE saved.mtime
<1> DEFINE s == [Idle EXCEPT !.pc = "open", !.cmd = cmd, !.only = only, !.mtime = mtime]
<1>2. mtime \in Nat \cup {None}
  BY DEF Types, IndexFile
<1>3. only \in Seq(File) /\ IsInjective(only)
  <2>1. CASE only = FileOrder
    BY <2>1, WorktreeAssumption, Zenon
  <2>2. ASSUME NEW f \in File, only = <<f>> PROVE only \in Seq(File) /\ IsInjective(only)
    BY <2>2 DEF IsInjective
  <2> QED BY <1>1, <2>1, <2>2, Zenon
<1> HIDE DEF mtime
<1>4. /\ s \in State /\ s.pc = "open" /\ s.cmd = cmd /\ s.only = only /\ s.mtime = mtime
      /\ s.entries = [f \in File |-> None] /\ s.deleted = {} /\ s.modified = <<>> /\ s.new = <<>>
  <2>1. Idle \in State
    BY IdleState, Zenon
  <2> QED BY <1>2, <1>3, <2>1, Zenon DEF State, Idle, Place
<1>5. Placed(s)
  BY <1>1, <1>3, <1>4, Zenon DEF Placed
<1>6. p' = [p EXCEPT ![x] = s]
  BY <1>1, Zenon DEF mtime
<1> HIDE DEF s
<1> QED BY <1>4, <1>5, <1>6, OneSteps, StateFields, Zenon DEF Took, mtime

\* The lock is taken and the index read, or not.
LEMMA OpenTakes ==
    ASSUME Types, NEW x \in Proc, Open(x)
    PROVE  /\ Took(x)
           /\ \/ /\ lock = None /\ lock' = x
                 /\ p'[x].pc = IF p[x].cmd = "add" THEN "add" ELSE "diff"
                 /\ p'[x].entries = IF saved = None THEN p[x].entries ELSE saved.entries
                 /\ p'[x].todo = p[x].only
                 /\ p'[x].touched = p[x].touched
                 /\ p'[x].mtime = p[x].mtime
                 /\ p'[x].only = p[x].only
                 /\ p'[x].deleted = p[x].deleted
                 /\ p'[x].modified = p[x].modified
                 /\ p'[x].new = p[x].new
              \/ p'[x] = Idle /\ lock' = lock
<1>0. p[x] \in State
  BY StateFields, Zenon
<1>1. CASE LockFree
  <2> DEFINE place == IF p[x].cmd = "add" THEN "add" ELSE "diff"
  <2> DEFINE entries == IF saved = None THEN p[x].entries ELSE saved.entries
  <2> DEFINE s == [p[x] EXCEPT !.pc = place, !.entries = entries, !.todo = p[x].only]
  <2>1. p' = [p EXCEPT ![x] = s] /\ lock' = x /\ lock = None
    BY <1>1, Zenon DEF Open, LockFree
  <2>2. p[x].pc = "open"
    BY Zenon DEF Open
  <2>3. entries \in IndexEntries /\ place \in Place
    BY StateFields, Zenon DEF Types, IndexFile, Place
  <2> HIDE DEF entries, place
  <2>4. s \in State
    BY <1>0, <2>3, Zenon DEF State
  <2>5. /\ s.pc = place /\ s.entries = entries
        /\ s.todo = p[x].only
        /\ s.touched = p[x].touched /\ s.mtime = p[x].mtime /\ s.only = p[x].only
        /\ s.deleted = p[x].deleted /\ s.modified = p[x].modified /\ s.new = p[x].new
        /\ s.cmd = p[x].cmd
    BY StateFields DEF State
  <2>6. Placed(s)
    BY <2>2, <2>5, StateFields, WorktreeAssumption DEF Placed, place
  <2> HIDE DEF s
  <2> QED BY <2>1, <2>4, <2>5, <2>6, OneSteps, StateFields, Zenon DEF Took, place, entries
<1>2. CASE ~LockFree
  <2>1. p' = [p EXCEPT ![x] = Idle] /\ lock' = lock
    BY <1>2, Zenon DEF Open
  <2> QED BY <2>1, IdleState, OneSteps, StateFields, Zenon DEF Took
<1> QED BY <1>1, <1>2, Zenon

\* The fields that steps of a command leave as they are.
Same(x) ==
    /\ p'[x].cmd = p[x].cmd /\ p'[x].only = p[x].only /\ p'[x].mtime = p[x].mtime
    /\ p'[x].touched = p[x].touched

\* The report after a step.
Reports(x, deleted, modified, new) ==
    p'[x].deleted = deleted /\ p'[x].modified = modified /\ p'[x].new = new

\* The diff looks at a file's stat data.
LEMMA DiffNextTakes ==
    ASSUME Types, NEW x \in Proc, DiffNext(x)
    PROVE  LET f == Head(p[x].todo)
               entry == p[x].entries[f]
               fresh == <<f, Entry(Stat(f), None)>>
           IN  /\ Took(x) /\ Same(x) /\ p'[x].entries = p[x].entries
               /\ p[x].pc = "diff" /\ p[x].todo # <<>>
               /\ \/ /\ p'[x].pc = "diff" /\ p'[x].todo = Tail(p[x].todo)
                     /\ \/ /\ entry = None /\ ~IsYielded(x, f)
                           /\ Reports(x, p[x].deleted, p[x].modified, p[x].new)
                        \/ /\ entry # None /\ ~IsYielded(x, f)
                           /\ Reports(x, p[x].deleted \cup {f}, p[x].modified, p[x].new)
                        \/ /\ entry = None /\ IsYielded(x, f)
                           /\ Reports(x, p[x].deleted, p[x].modified, Append(p[x].new, fresh))
                        \/ /\ entry # None /\ IsYielded(x, f)
                           /\ HasChangesInner(x, entry, Stat(f)) = "No"
                           /\ Reports(x, p[x].deleted, p[x].modified, p[x].new)
                        \/ /\ entry # None /\ IsYielded(x, f)
                           /\ HasChangesInner(x, entry, Stat(f)) = "Yes"
                           /\ Reports(x, p[x].deleted, Append(p[x].modified, fresh), p[x].new)
                  \/ /\ entry # None /\ IsYielded(x, f)
                     /\ HasChangesInner(x, entry, Stat(f)) = "Maybe"
                     /\ p'[x].pc = "hash" /\ p'[x].todo = p[x].todo /\ p'[x].stat = Stat(f)
                     /\ Reports(x, p[x].deleted, p[x].modified, p[x].new)
<1> DEFINE f == Head(p[x].todo)
           entry == p[x].entries[f]
           fresh == <<f, Entry(Stat(f), None)>>
           tail == Tail(p[x].todo)
           yielded == IsYielded(x, f)
           inner == HasChangesInner(x, entry, Stat(f))
<1>0. p[x] \in State
  BY StateFields, Zenon
<1>1. p[x].pc = "diff" /\ p[x].todo # <<>>
  BY Zenon DEF DiffNext
<1>2. f \in File /\ tail \in Seq(File)
  BY <1>1, StateFields, Taken, Zenon
<1>3. yielded => Stat(f) \in Stats
  BY <1>2, StatType, Zenon DEF IsYielded
<1>4. Stat(f) \in Stats => fresh \in File \X NewEntry
  BY <1>2, Zenon DEF Entry, NewEntry
<1>5. yielded => Append(p[x].new, fresh) \in Seq(File \X NewEntry)
                 /\ Append(p[x].modified, fresh) \in Seq(File \X NewEntry)
  BY <1>3, <1>4, StateFields, Appended, Zenon
<1>6. inner \in {"No", "Yes", "Maybe"}
  BY Zenon DEF HasChangesInner
<1>7. PICK s : /\ p' = [p EXCEPT ![x] = s]
               /\ \/ entry = None /\ ~yielded /\ s = [p[x] EXCEPT !.todo = tail]
                  \/ /\ entry # None /\ ~yielded
                     /\ s = [p[x] EXCEPT !.todo = tail, !.deleted = p[x].deleted \cup {f}]
                  \/ /\ entry = None /\ yielded
                     /\ s = [p[x] EXCEPT !.todo = tail, !.new = Append(p[x].new, fresh)]
                  \/ /\ entry # None /\ yielded /\ inner = "No"
                     /\ s = [p[x] EXCEPT !.todo = tail]
                  \/ /\ entry # None /\ yielded /\ inner = "Yes"
                     /\ s = [p[x] EXCEPT !.todo = tail, !.modified = Append(p[x].modified, fresh)]
                  \/ /\ entry # None /\ yielded /\ inner = "Maybe"
                     /\ s = [p[x] EXCEPT !.pc = "hash", !.stat = Stat(f)]
  BY StateFields, Zenon DEF DiffNext, State
<1> HIDE DEF tail, yielded, inner, fresh
<1>8. /\ s \in State /\ Placed(s)
      /\ s.cmd = p[x].cmd /\ s.only = p[x].only /\ s.mtime = p[x].mtime
      /\ s.touched = p[x].touched /\ s.entries = p[x].entries
  <2>1. CASE s = [p[x] EXCEPT !.todo = tail]
    <3>1. /\ s \in State /\ s.pc = p[x].pc /\ s.stat = p[x].stat
          /\ s.cmd = p[x].cmd /\ s.only = p[x].only /\ s.mtime = p[x].mtime
          /\ s.touched = p[x].touched /\ s.entries = p[x].entries
      BY <1>0, <1>2, <2>1, Zenon DEF State
    <3> QED BY <1>1, <3>1, StateFields, Zenon DEF Placed
  <2>2. CASE s = [p[x] EXCEPT !.todo = tail, !.deleted = p[x].deleted \cup {f}]
    <3>1. p[x].deleted \cup {f} \subseteq File
      BY <1>2, StateFields, Zenon
    <3>2. /\ s \in State /\ s.pc = p[x].pc /\ s.stat = p[x].stat
          /\ s.cmd = p[x].cmd /\ s.only = p[x].only /\ s.mtime = p[x].mtime
          /\ s.touched = p[x].touched /\ s.entries = p[x].entries
      BY <1>0, <1>2, <2>2, <3>1, Zenon DEF State
    <3> QED BY <1>1, <3>2, StateFields, Zenon DEF Placed
  <2>3. CASE yielded /\ s = [p[x] EXCEPT !.todo = tail, !.new = Append(p[x].new, fresh)]
    <3>1. /\ s \in State /\ s.pc = p[x].pc /\ s.stat = p[x].stat
          /\ s.cmd = p[x].cmd /\ s.only = p[x].only /\ s.mtime = p[x].mtime
          /\ s.touched = p[x].touched /\ s.entries = p[x].entries
      BY <1>0, <1>2, <1>5, <2>3, Zenon DEF State
    <3> QED BY <1>1, <3>1, StateFields, Zenon DEF Placed
  <2>4. CASE yielded /\ s = [p[x] EXCEPT !.todo = tail, !.modified = Append(p[x].modified, fresh)]
    <3>1. /\ s \in State /\ s.pc = p[x].pc /\ s.stat = p[x].stat
          /\ s.cmd = p[x].cmd /\ s.only = p[x].only /\ s.mtime = p[x].mtime
          /\ s.touched = p[x].touched /\ s.entries = p[x].entries
      BY <1>0, <1>2, <1>5, <2>4, Zenon DEF State
    <3> QED BY <1>1, <3>1, StateFields, Zenon DEF Placed
  <2>5. CASE yielded /\ s = [p[x] EXCEPT !.pc = "hash", !.stat = Stat(f)]
    <3>1. Stat(f) \in Stats /\ "hash" \in Place
      BY <1>3, <2>5, Zenon DEF Place
    <3>2. /\ s \in State /\ s.pc = "hash" /\ s.stat = Stat(f) /\ s.todo = p[x].todo
          /\ s.cmd = p[x].cmd /\ s.only = p[x].only /\ s.mtime = p[x].mtime
          /\ s.touched = p[x].touched /\ s.entries = p[x].entries
      BY <1>0, <2>5, <3>1, Zenon DEF State
    <3> QED BY <1>1, <3>1, <3>2, StateFields, Zenon DEF Placed
  <2> QED BY <1>7, <2>1, <2>2, <2>3, <2>4, <2>5, Zenon
<1>9. p'[x] = s /\ Took(x) /\ Same(x) /\ p'[x].entries = p[x].entries
  BY <1>7, <1>8, OneSteps, StateFields, Zenon DEF Took, Same
<1>10. CASE entry # None /\ yielded /\ inner = "Maybe"
  <2>1. s = [p[x] EXCEPT !.pc = "hash", !.stat = Stat(f)]
    BY <1>7, <1>10, Zenon
  <2>2. /\ p'[x].pc = "hash" /\ p'[x].todo = p[x].todo /\ p'[x].stat = Stat(f)
        /\ Reports(x, p[x].deleted, p[x].modified, p[x].new)
    BY <1>9, <2>1, StateFields DEF State, Reports
  <2> QED BY <1>1, <1>9, <1>10, <2>2, Zenon DEF yielded, inner
<1>11. CASE ~(entry # None /\ yielded /\ inner = "Maybe")
  <2>1. ASSUME s = [p[x] EXCEPT !.todo = tail]
        PROVE  /\ s.pc = p[x].pc /\ s.todo = tail
               /\ s.deleted = p[x].deleted /\ s.modified = p[x].modified /\ s.new = p[x].new
    BY <1>0, <2>1, Zenon DEF State
  <2>2. ASSUME s = [p[x] EXCEPT !.todo = tail, !.deleted = p[x].deleted \cup {f}]
        PROVE  /\ s.pc = p[x].pc /\ s.todo = tail
               /\ s.deleted = p[x].deleted \cup {f} /\ s.modified = p[x].modified /\ s.new = p[x].new
    BY <1>0, <2>2, Zenon DEF State
  <2>3. ASSUME s = [p[x] EXCEPT !.todo = tail, !.new = Append(p[x].new, fresh)]
        PROVE  /\ s.pc = p[x].pc /\ s.todo = tail
               /\ s.deleted = p[x].deleted /\ s.modified = p[x].modified /\ s.new = Append(p[x].new, fresh)
    BY <1>0, <2>3, Zenon DEF State
  <2>4. ASSUME s = [p[x] EXCEPT !.todo = tail, !.modified = Append(p[x].modified, fresh)]
        PROVE  /\ s.pc = p[x].pc /\ s.todo = tail
               /\ s.deleted = p[x].deleted /\ s.modified = Append(p[x].modified, fresh) /\ s.new = p[x].new
    BY <1>0, <2>4, Zenon DEF State
  <2>5. p'[x].pc = "diff" /\ p'[x].todo = tail
    BY <1>1, <1>7, <1>9, <1>11, <2>1, <2>2, <2>3, <2>4, Zenon
  <2>6. \/ /\ entry = None /\ ~yielded
           /\ Reports(x, p[x].deleted, p[x].modified, p[x].new)
        \/ /\ entry # None /\ ~yielded
           /\ Reports(x, p[x].deleted \cup {f}, p[x].modified, p[x].new)
        \/ /\ entry = None /\ yielded
           /\ Reports(x, p[x].deleted, p[x].modified, Append(p[x].new, fresh))
        \/ /\ entry # None /\ yielded /\ inner = "No"
           /\ Reports(x, p[x].deleted, p[x].modified, p[x].new)
        \/ /\ entry # None /\ yielded /\ inner = "Yes"
           /\ Reports(x, p[x].deleted, Append(p[x].modified, fresh), p[x].new)
    BY <1>7, <1>9, <1>11, <2>1, <2>2, <2>3, <2>4, Zenon DEF Reports
  <2> QED BY <1>1, <1>9, <2>5, <2>6, Zenon DEF yielded, inner, tail, fresh
<1> QED BY <1>10, <1>11, Zenon

\* A command is given up.
LEMMA FailTakes ==
    ASSUME Types, NEW x \in Proc, Fail(x)
    PROVE  Took(x) /\ p'[x] = Idle
BY IdleState, OneSteps, StateFields, Zenon DEF Fail, Took

\* The diff reads a file.
LEMMA HashFileTakes ==
    ASSUME Types, NEW x \in Proc, HashFile(x)
    PROVE  LET f == Head(p[x].todo)
               new == Entry(p[x].stat, files[f].data)
           IN  /\ Took(x)
               /\ p[x].pc = "hash" /\ p[x].todo # <<>>
               /\ \/ Fail(x)
                  \/ /\ files[f] # None /\ Same(x)
                     /\ p'[x].pc = "diff" /\ p'[x].todo = Tail(p[x].todo)
                     /\ UNCHANGED <<now, ignored, files, edits, saved, lock, odb, ran>>
                     /\ \/ /\ files[f].data = p[x].entries[f].oid
                           /\ p'[x].entries = [p[x].entries EXCEPT ![f] = new]
                           /\ Reports(x, p[x].deleted, p[x].modified, p[x].new)
                        \/ /\ files[f].data # p[x].entries[f].oid
                           /\ p'[x].entries = p[x].entries
                           /\ Reports(x, p[x].deleted, Append(p[x].modified, <<f, new>>), p[x].new)
<1> DEFINE f == Head(p[x].todo)
           new == Entry(p[x].stat, files[f].data)
           tail == Tail(p[x].todo)
           entries == [p[x].entries EXCEPT ![f] = new]
           modified == Append(p[x].modified, <<f, new>>)
<1>0. p[x] \in State
  BY StateFields, Zenon
<1>1. p[x].pc = "hash" /\ p[x].todo # <<>> /\ p[x].stat \in Stats
  BY StateFields, Zenon DEF HashFile, Placed
<1>2. f \in File /\ tail \in Seq(File)
  BY <1>1, StateFields, Taken, Zenon
<1>3. CASE Fail(x)
  BY <1>1, <1>3, FailTakes, Zenon
<1>4. CASE ~Fail(x)
  <2>1. files[f] # None /\ UNCHANGED <<now, ignored, files, edits, saved, lock, odb, ran>>
    BY <1>4, Zenon DEF HashFile
  <2>2. new \in IndexEntry /\ new \in NewEntry
    BY <1>1, <1>2, <2>1, StatType, Zenon DEF Entry, IndexEntry, NewEntry
  <2>3. entries \in IndexEntries /\ modified \in Seq(File \X NewEntry)
    BY <1>2, <2>2, StateFields, Appended, Zenon DEF IndexEntries
  <2>4. PICK s : /\ p' = [p EXCEPT ![x] = s]
                 /\ \/ /\ files[f].data = p[x].entries[f].oid
                       /\ s = [p[x] EXCEPT !.pc = "diff", !.todo = tail, !.stat = None,
                                           !.entries = entries, !.dirty = TRUE]
                    \/ /\ files[f].data # p[x].entries[f].oid
                       /\ s = [p[x] EXCEPT !.pc = "diff", !.todo = tail, !.stat = None,
                                           !.modified = modified]
    BY <1>4, StateFields, Zenon DEF HashFile, State
  <2> HIDE DEF tail, entries, modified
  <2>5. "diff" \in Place
    BY Zenon DEF Place
  <2>6. /\ s \in State /\ s.pc = "diff" /\ s.todo = tail
        /\ s.cmd = p[x].cmd /\ s.only = p[x].only /\ s.mtime = p[x].mtime
        /\ s.touched = p[x].touched /\ s.deleted = p[x].deleted /\ s.new = p[x].new
        /\ \/ /\ files[f].data = p[x].entries[f].oid
              /\ s.entries = entries /\ s.modified = p[x].modified
           \/ /\ files[f].data # p[x].entries[f].oid
              /\ s.entries = p[x].entries /\ s.modified = modified
    <3>1. CASE /\ files[f].data = p[x].entries[f].oid
               /\ s = [p[x] EXCEPT !.pc = "diff", !.todo = tail, !.stat = None,
                                   !.entries = entries, !.dirty = TRUE]
      BY <1>0, <1>2, <2>3, <2>5, <3>1, Zenon DEF State
    <3>2. CASE /\ files[f].data # p[x].entries[f].oid
               /\ s = [p[x] EXCEPT !.pc = "diff", !.todo = tail, !.stat = None,
                                   !.modified = modified]
      BY <1>0, <1>2, <2>3, <2>5, <3>2, Zenon DEF State
    <3> QED BY <2>4, <3>1, <3>2, Zenon
  <2>7. Placed(s)
    BY <1>1, <2>6, StateFields, Zenon DEF Placed
  <2>8. p'[x] = s /\ Took(x)
    BY <2>4, <2>6, <2>7, OneSteps, StateFields, Zenon DEF Took
  <2> QED BY <1>1, <2>1, <2>6, <2>8, Zenon DEF Same, Reports, tail, entries, modified
<1> QED BY <1>3, <1>4, Zenon

\* The diff is over.
LEMMA DiffEndTakes ==
    ASSUME Types, NEW x \in Proc, DiffEnd(x)
    PROVE  /\ Took(x) /\ Same(x) /\ p'[x].entries = p[x].entries
           /\ p[x].pc = "diff" /\ p[x].todo = <<>>
           /\ p'[x].pc \in {"reported", "remove"}
           /\ Reports(x, p[x].deleted, p[x].modified, p[x].new)
<1> DEFINE place == IF p[x].cmd = "status" THEN "reported" ELSE "remove"
<1> DEFINE s == [p[x] EXCEPT !.pc = place]
<1>0. p[x] \in State
  BY StateFields, Zenon
<1>1. p' = [p EXCEPT ![x] = s] /\ p[x].pc = "diff" /\ p[x].todo = <<>>
  BY StateFields, Zenon DEF DiffEnd
<1>2. place \in Place /\ place \in {"reported", "remove"}
  BY Zenon DEF Place
<1> HIDE DEF place
<1>3. /\ s \in State /\ s.pc = place /\ s.todo = p[x].todo /\ s.entries = p[x].entries
      /\ s.cmd = p[x].cmd /\ s.only = p[x].only /\ s.mtime = p[x].mtime
      /\ s.touched = p[x].touched /\ s.deleted = p[x].deleted
      /\ s.modified = p[x].modified /\ s.new = p[x].new
  BY <1>0, <1>2, Zenon DEF State
<1> HIDE DEF s
<1>4. Placed(s)
  BY <1>1, <1>2, <1>3, StateFields, Zenon DEF Placed, place
<1>5. p'[x] = s /\ Took(x)
  BY <1>1, <1>3, <1>4, OneSteps, StateFields, Zenon DEF Took
<1> QED BY <1>1, <1>2, <1>3, <1>5, Zenon DEF Same, Reports

\* The entries of the deleted files are removed.
LEMMA ApplyDeletedTakes ==
    ASSUME Types, NEW x \in Proc, ApplyDeleted(x)
    PROVE  /\ Took(x) /\ Same(x)
           /\ p[x].pc = "remove" /\ p'[x].pc = "apply"
           /\ p'[x].entries = [f \in File |-> IF f \in p[x].deleted THEN None ELSE p[x].entries[f]]
           /\ Reports(x, p[x].deleted, p[x].modified, p[x].new)
<1> DEFINE entries == [f \in File |-> IF f \in p[x].deleted THEN None ELSE p[x].entries[f]]
           dirty == p[x].dirty \/ p[x].deleted # {}
           s == [p[x] EXCEPT !.pc = "apply", !.entries = entries, !.dirty = dirty]
<1>0. p[x] \in State
  BY StateFields, Zenon
<1>1. entries \in IndexEntries
  BY StateFields, Zenon DEF IndexEntries
<1>2. dirty \in BOOLEAN /\ "apply" \in Place
  BY Zenon DEF Place
<1>3. p' = [p EXCEPT ![x] = s] /\ p[x].pc = "remove"
  BY StateFields, Zenon DEF ApplyDeleted, State
<1> HIDE DEF entries, dirty
<1>4. /\ s \in State /\ s.pc = "apply" /\ s.entries = entries
      /\ s.cmd = p[x].cmd /\ s.only = p[x].only /\ s.mtime = p[x].mtime
      /\ s.touched = p[x].touched /\ s.deleted = p[x].deleted
      /\ s.modified = p[x].modified /\ s.new = p[x].new
  BY <1>0, <1>1, <1>2, Zenon DEF State
<1> HIDE DEF s
<1>5. Placed(s)
  BY <1>3, <1>4, StateFields, Zenon DEF Placed
<1>6. p'[x] = s /\ Took(x)
  BY <1>3, <1>4, <1>5, OneSteps, StateFields, Zenon DEF Took
<1> QED BY <1>3, <1>4, <1>6, Zenon DEF Same, Reports, entries

\* What an entry gets for its oid, and the process after it was added.
NewOid(f, entry) == IF entry.oid = None THEN files[f].data ELSE entry.oid

\* add_entry makes an entry, or the command is given up.
LEMMA AddEntryTakes ==
    ASSUME Types, NEW x \in Proc, NEW f \in File, NEW entry \in NewEntry,
           NEW s \in State, Placed(s), AddEntry(x, f, entry, s)
    PROVE  /\ Took(x)
           /\ \/ Fail(x)
              \/ /\ UNCHANGED <<now, ignored, files, edits, saved, lock, ran>>
                 /\ odb \subseteq odb' /\ odb' \subseteq Data
                 /\ entry.oid = None => files[f] # None /\ NewOid(f, entry) \in odb'
                 /\ p'[x].entries = [s.entries EXCEPT ![f] = Entry(entry.stat, NewOid(f, entry))]
                 /\ p'[x].pc = s.pc /\ p'[x].todo = s.todo
                 /\ p'[x].cmd = s.cmd /\ p'[x].only = s.only /\ p'[x].mtime = s.mtime
                 /\ p'[x].touched = s.touched
                 /\ Reports(x, s.deleted, s.modified, s.new)
<1>1. CASE Fail(x)
  BY <1>1, FailTakes, Zenon
<1>2. CASE ~Fail(x)
  <2> DEFINE oid == NewOid(f, entry)
             entries == [s.entries EXCEPT ![f] = Entry(entry.stat, oid)]
             t == [s EXCEPT !.entries = entries, !.dirty = TRUE]
  <2>1. entry.oid = None => files[f] # None
    BY <1>2, Zenon DEF AddEntry
  <2>2. oid \in Data /\ entry.stat \in Stats
    BY <2>1, StatType, Zenon DEF NewOid, NewEntry
  <2>3. entries \in IndexEntries
    <3>1. Entry(entry.stat, oid) \in IndexEntry /\ s.entries \in IndexEntries
      BY <2>2, Zenon DEF Entry, IndexEntry, State
    <3> QED BY <3>1, Zenon DEF IndexEntries
  <2>4. /\ p' = [p EXCEPT ![x] = [s EXCEPT !.entries[f] = Entry(entry.stat, oid), !.dirty = TRUE]]
        /\ odb' = IF entry.oid = None THEN odb \cup {oid} ELSE odb
        /\ UNCHANGED <<now, ignored, files, edits, saved, lock, ran>>
    BY <1>2, <2>1, Zenon DEF AddEntry, NewOid
  <2>5. p' = [p EXCEPT ![x] = t]
    BY <2>4, Zenon DEF State
  <2>6. odb \subseteq odb' /\ odb' \subseteq Data /\ (entry.oid = None => oid \in odb')
    BY <2>2, <2>4, Zenon DEF Types
  <2> HIDE DEF entries, oid
  <2>7. /\ t \in State /\ t.entries = entries /\ t.pc = s.pc /\ t.todo = s.todo
        /\ t.cmd = s.cmd /\ t.only = s.only /\ t.mtime = s.mtime /\ t.stat = s.stat
        /\ t.touched = s.touched /\ t.deleted = s.deleted
        /\ t.modified = s.modified /\ t.new = s.new
    BY <2>3, Zenon DEF State
  <2> HIDE DEF t
  <2>8. Placed(t)
    BY <2>7, Zenon DEF Placed
  <2>9. p'[x] = t /\ Took(x)
    BY <2>5, <2>7, <2>8, OneSteps, StateFields, Zenon DEF Took
  <2> QED BY <2>1, <2>4, <2>6, <2>7, <2>9, Zenon DEF Reports, entries, oid
<1> QED BY <1>1, <1>2, Zenon

\* An item of the diff is added to the index.
ItemAdded(x, item) ==
    /\ UNCHANGED <<now, ignored, files, edits, saved, lock, ran>>
    /\ odb \subseteq odb' /\ odb' \subseteq Data /\ Same(x)
    /\ item[1] \in File /\ item[2] \in NewEntry
    /\ p'[x].pc = "apply"
    /\ p'[x].entries = [p[x].entries EXCEPT ![item[1]] = Entry(item[2].stat, NewOid(item[1], item[2]))]

LEMMA ApplyModifiedTakes ==
    ASSUME Types, NEW x \in Proc, ApplyModified(x)
    PROVE  /\ Took(x) /\ p[x].pc = "apply" /\ p[x].modified # <<>>
           /\ \/ Fail(x)
              \/ /\ ItemAdded(x, Head(p[x].modified))
                 /\ Reports(x, p[x].deleted, Tail(p[x].modified), p[x].new)
<1> DEFINE item == Head(p[x].modified)
           tail == Tail(p[x].modified)
           s == [p[x] EXCEPT !.modified = tail]
<1>0. p[x] \in State
  BY StateFields, Zenon
<1>1. /\ p[x].pc = "apply" /\ p[x].modified # <<>>
      /\ AddEntry(x, item[1], item[2], s)
  BY Zenon DEF ApplyModified
<1>2. item \in File \X NewEntry /\ tail \in Seq(File \X NewEntry)
  BY <1>1, StateFields, Taken, Zenon
<1>3. item[1] \in File /\ item[2] \in NewEntry
  BY <1>2, Zenon
<1> HIDE DEF item, tail
<1>4. /\ s \in State /\ s.pc = "apply" /\ s.entries = p[x].entries /\ s.modified = tail
      /\ s.cmd = p[x].cmd /\ s.only = p[x].only /\ s.mtime = p[x].mtime
      /\ s.touched = p[x].touched /\ s.deleted = p[x].deleted /\ s.new = p[x].new
  BY <1>0, <1>1, <1>2, Zenon DEF State
<1> HIDE DEF s
<1>5. Placed(s)
  BY <1>1, <1>4, StateFields, Zenon DEF Placed
<1> QED BY <1>1, <1>3, <1>4, <1>5, AddEntryTakes DEF ItemAdded, Same, item, tail

LEMMA ApplyNewTakes ==
    ASSUME Types, NEW x \in Proc, ApplyNew(x)
    PROVE  /\ Took(x) /\ p[x].pc = "apply" /\ p[x].new # <<>>
           /\ \/ Fail(x)
              \/ /\ ItemAdded(x, Head(p[x].new))
                 /\ Reports(x, p[x].deleted, p[x].modified, Tail(p[x].new))
<1> DEFINE item == Head(p[x].new)
           tail == Tail(p[x].new)
           s == [p[x] EXCEPT !.new = tail]
<1>0. p[x] \in State
  BY StateFields, Zenon
<1>1. /\ p[x].pc = "apply" /\ p[x].new # <<>>
      /\ AddEntry(x, item[1], item[2], s)
  BY Zenon DEF ApplyNew
<1>2. item \in File \X NewEntry /\ tail \in Seq(File \X NewEntry)
  BY <1>1, StateFields, Taken, Zenon
<1>3. item[1] \in File /\ item[2] \in NewEntry
  BY <1>2, Zenon
<1> HIDE DEF item, tail
<1>4. /\ s \in State /\ s.pc = "apply" /\ s.entries = p[x].entries /\ s.new = tail
      /\ s.cmd = p[x].cmd /\ s.only = p[x].only /\ s.mtime = p[x].mtime
      /\ s.touched = p[x].touched /\ s.deleted = p[x].deleted /\ s.modified = p[x].modified
  BY <1>0, <1>1, <1>2, Zenon DEF State
<1> HIDE DEF s
<1>5. Placed(s)
  BY <1>1, <1>4, StateFields, Zenon DEF Placed
<1> QED BY <1>1, <1>3, <1>4, <1>5, AddEntryTakes DEF ItemAdded, Same, item, tail

\* add looks at a file.
LEMMA AddStatTakes ==
    ASSUME Types, NEW x \in Proc, AddStat(x)
    PROVE  /\ Took(x) /\ Same(x) /\ p'[x].entries = p[x].entries
           /\ p[x].pc = "add" /\ p[x].todo # <<>>
           /\ \/ /\ ~IsYielded(x, Head(p[x].todo))
                 /\ p'[x].pc = "add" /\ p'[x].todo = Tail(p[x].todo)
              \/ /\ IsYielded(x, Head(p[x].todo))
                 /\ p'[x].pc = "write" /\ p'[x].todo = p[x].todo
<1> DEFINE f == Head(p[x].todo)
           tail == Tail(p[x].todo)
<1>0. p[x] \in State
  BY StateFields, Zenon
<1>1. p[x].pc = "add" /\ p[x].todo # <<>>
  BY Zenon DEF AddStat
<1>2. f \in File /\ tail \in Seq(File) /\ "write" \in Place
  BY <1>1, StateFields, Taken, Zenon DEF Place
<1>3. CASE ~IsYielded(x, f)
  <2> DEFINE s == [p[x] EXCEPT !.todo = tail]
  <2>1. p' = [p EXCEPT ![x] = s]
    BY <1>3, StateFields, Zenon DEF AddStat
  <2> HIDE DEF tail
  <2>2. /\ s \in State /\ s.pc = "add" /\ s.entries = p[x].entries /\ s.todo = tail
        /\ s.cmd = p[x].cmd /\ s.only = p[x].only /\ s.mtime = p[x].mtime
        /\ s.touched = p[x].touched
    BY <1>0, <1>1, <1>2, Zenon DEF State
  <2> HIDE DEF s
  <2>3. Placed(s)
    BY <1>1, <2>2, StateFields, Zenon DEF Placed
  <2>4. p'[x] = s /\ Took(x)
    BY <2>1, <2>2, <2>3, OneSteps, StateFields, Zenon DEF Took
  <2> QED BY <1>1, <1>3, <2>2, <2>4, Zenon DEF Same, tail
<1>4. CASE IsYielded(x, f)
  <2> DEFINE s == [p[x] EXCEPT !.pc = "write", !.stat = Stat(f)]
  <2>1. p' = [p EXCEPT ![x] = s]
    BY <1>4, StateFields, Zenon DEF AddStat
  <2>2. Stat(f) \in Stats
    BY <1>2, <1>4, StatType, Zenon DEF IsYielded
  <2>3. /\ s \in State /\ s.pc = "write" /\ s.entries = p[x].entries /\ s.todo = p[x].todo
        /\ s.cmd = p[x].cmd /\ s.only = p[x].only /\ s.mtime = p[x].mtime
        /\ s.touched = p[x].touched /\ s.stat = Stat(f)
    BY <1>0, <1>2, <2>2, Zenon DEF State
  <2> HIDE DEF s
  <2>4. Placed(s)
    BY <1>1, <2>2, <2>3, StateFields, Zenon DEF Placed
  <2>5. p'[x] = s /\ Took(x)
    BY <2>1, <2>3, <2>4, OneSteps, StateFields, Zenon DEF Took
  <2> QED BY <1>1, <1>4, <2>3, <2>5, Zenon DEF Same
<1> QED BY <1>3, <1>4, Zenon

\* add reads a file.
LEMMA AddWriteTakes ==
    ASSUME Types, NEW x \in Proc, AddWrite(x)
    PROVE  LET f == Head(p[x].todo)
           IN  /\ Took(x) /\ p[x].pc = "write" /\ p[x].todo # <<>>
               /\ \/ Fail(x)
                  \/ /\ UNCHANGED <<now, ignored, files, edits, saved, lock, ran>>
                     /\ Same(x) /\ p'[x].pc = "add" /\ p'[x].todo = Tail(p[x].todo)
                     /\ odb \subseteq odb' /\ odb' \subseteq Data
                     /\ files[f] # None /\ files[f].data \in odb'
                     /\ p'[x].entries = [p[x].entries EXCEPT ![f] = Entry(p[x].stat, files[f].data)]
<1> DEFINE f == Head(p[x].todo)
           tail == Tail(p[x].todo)
           entry == Entry(p[x].stat, None)
           s == [p[x] EXCEPT !.pc = "add", !.todo = tail, !.stat = None]
<1>0. p[x] \in State
  BY StateFields, Zenon
<1>1. p[x].pc = "write" /\ p[x].todo # <<>> /\ p[x].stat \in Stats
  BY StateFields, Zenon DEF AddWrite, Placed
<1>2. f \in File /\ tail \in Seq(File) /\ "add" \in Place
  BY <1>1, StateFields, Taken, Zenon DEF Place
<1>3. entry \in NewEntry /\ entry.oid = None /\ entry.stat = p[x].stat
  BY <1>1, Zenon DEF Entry, NewEntry
<1>4. NewOid(f, entry) = files[f].data
  BY <1>3, Zenon DEF NewOid
<1>5. AddEntry(x, f, entry, s)
  BY Zenon DEF AddWrite
<1> HIDE DEF tail, entry
<1>6. /\ s \in State /\ s.pc = "add" /\ s.entries = p[x].entries /\ s.todo = tail
      /\ s.cmd = p[x].cmd /\ s.only = p[x].only /\ s.mtime = p[x].mtime
      /\ s.touched = p[x].touched
  BY <1>0, <1>1, <1>2, Zenon DEF State
<1> HIDE DEF s
<1>7. Placed(s)
  BY <1>1, <1>6, StateFields, Zenon DEF Placed
<1> QED BY <1>1, <1>2, <1>3, <1>4, <1>5, <1>6, <1>7, AddEntryTakes DEF Same, tail

\* The command is over.
LEMMA CloseTakes ==
    ASSUME Types, NEW x \in Proc, Close(x)
    PROVE  Took(x) /\ p'[x] = Idle
BY IdleState, OneSteps, StateFields, Zenon DEF Close, Took

\* The user touches a file; the processes at work take note.
LEMMA Touches ==
    ASSUME Types, NEW f \in File, p' = Touch(f), NEW x \in Proc
    PROVE  /\ p' \in [Proc -> State]
           /\ p'[x].pc = p[x].pc /\ p'[x].cmd = p[x].cmd /\ p'[x].only = p[x].only
           /\ p'[x].mtime = p[x].mtime /\ p'[x].entries = p[x].entries
           /\ p'[x].todo = p[x].todo /\ p'[x].stat = p[x].stat
           /\ Reports(x, p[x].deleted, p[x].modified, p[x].new)
           /\ p[x].touched \subseteq p'[x].touched
           /\ p[x].pc # "idle" => f \in p'[x].touched
<1> DEFINE touched(y) == IF p[y].pc = "idle" THEN p[y].touched ELSE p[y].touched \cup {f}
           s(y) == [p[y] EXCEPT !.touched = touched(y)]
<1>1. p' = [y \in Proc |-> s(y)]
  BY Zenon DEF Touch
<1>2. \A y \in Proc : touched(y) \subseteq File
  BY StateFields, Zenon
<1>3. /\ p[x].touched \subseteq touched(x)
      /\ p[x].pc # "idle" => f \in touched(x)
  OBVIOUS
<1> HIDE DEF touched
<1>4. ASSUME NEW y \in Proc PROVE s(y) \in State
  <2>1. touched(y) \subseteq File
    BY <1>2, Zenon
  <2>2. p[y] \in State
    BY StateFields, Zenon
  <2> QED BY <2>1, <2>2, Zenon DEF State
<1>5. /\ s(x).pc = p[x].pc /\ s(x).cmd = p[x].cmd /\ s(x).only = p[x].only
      /\ s(x).mtime = p[x].mtime /\ s(x).entries = p[x].entries
      /\ s(x).todo = p[x].todo /\ s(x).stat = p[x].stat /\ s(x).deleted = p[x].deleted
      /\ s(x).modified = p[x].modified /\ s(x).new = p[x].new /\ s(x).touched = touched(x)
  BY StateFields DEF State
<1> HIDE DEF s
<1> QED BY <1>1, <1>3, <1>4, <1>5 DEF Reports

\* Only the holder of the lock works: a process that takes it finds it free,
\* and one that lets it go works no more.
LEMMA OneWorks ==
    ASSUME Types, NEW x \in Proc, Took(x),
           \/ lock' = lock /\ (Working(p'[x]) => Working(p[x]))
           \/ lock = None /\ lock' = x
           \/ Working(p[x]) /\ ~Working(p'[x])
    PROVE  \A y \in Proc : Placed(p'[y]) /\ (Working(p'[y]) => lock' = y)
BY NoneAssumption DEF Types, Took

\* A step that leaves the files and the index alone.
LEMMA QuietStep ==
    ASSUME Types, Timely, NEW x \in Proc, Took(x),
           UNCHANGED <<now, ignored, files, saved>>, odb' \subseteq Data,
           p'[x].mtime \in {p[x].mtime, None},
           \/ lock' = lock /\ (Working(p'[x]) => Working(p[x]))
           \/ lock = None /\ lock' = x
           \/ Working(p[x]) /\ ~Working(p'[x])
    PROVE  Types' /\ Timely'
<1>1. \A y \in Proc : Placed(p'[y]) /\ (Working(p'[y]) => lock' = y)
  BY OneWorks, Zenon
<1>2. Types'
  BY <1>1, Zenon DEF Types, Took
<1>3. Timely'
  BY Zenon DEF Timely, Took
<1> QED BY <1>2, <1>3, Zenon

\* The types hold, and the time of the index goes on.
LEMMA TypesInit == Init => Types /\ Timely
<1> SUFFICES ASSUME Init PROVE Types /\ Timely
  OBVIOUS
<1>1. p \in [Proc -> State] /\ \A x \in Proc : Placed(p[x]) /\ ~Working(p[x]) /\ p[x].mtime = None
  BY IdleState, Zenon DEF Init
<1>2. files \in [File -> FileState \cup {None}]
  <2>1. {1} \subseteq 1..MaxTime /\ {1} \subseteq Inode
    BY WorktreeAssumption DEF Inode
  <2> QED BY <2>1, Zenon DEF Init, FileState
<1>3. now \in 1..MaxTime /\ ignored \subseteq File
  BY WorktreeAssumption DEF Init
<1> QED BY <1>1, <1>2, <1>3, Zenon DEF Init, Types, Timely

LEMMA TypesStep ==
    ASSUME Types, Timely, [Next]_vars
    PROVE  Types' /\ Timely'
<1>1. CASE UNCHANGED vars
  BY <1>1, Zenon DEF vars, Types, Timely
<1>2. CASE Tick
  <2>1. now' \in 1..MaxTime /\ now <= now'
    BY <1>2, WorktreeAssumption DEF Tick, Types
  <2>2. Types'
    BY <1>2, <2>1, Zenon DEF Tick, Types
  <2>3. Timely'
    <3>1. saved # None => saved.mtime \in Nat
      BY DEF Types, IndexFile
    <3> QED BY <1>2, <2>1, <3>1, WorktreeAssumption DEF Tick, Timely, Types
  <2> QED BY <2>2, <2>3, Zenon
<1>3. ASSUME NEW f \in File, UserWrites(f) \/ UserRemoves(f) PROVE Types' /\ Timely'
  <2>1. p' = Touch(f) /\ UNCHANGED <<now, ignored, saved, lock, odb>>
    BY <1>3, Zenon DEF UserWrites, UserRemoves
  <2>2. files' \in [File -> FileState \cup {None}]
    BY <1>3 DEF UserWrites, UserRemoves, Types, FileState
  <2>3. \A x \in Proc : Placed(p'[x]) /\ (Working(p'[x]) => lock' = x)
    BY <2>1, Touches, StateFields DEF Placed, Working, Types
  <2>4. Types'
    <3>1. p' \in [Proc -> State]
      <4>1. CASE Proc = {}
        BY <2>1, <4>1, Zenon DEF Touch
      <4>2. CASE Proc # {}
        BY <2>1, <4>2, Touches, Zenon
      <4> QED BY <4>1, <4>2, Zenon
    <3> QED BY <2>1, <2>2, <2>3, <3>1, Zenon DEF Types
  <2>5. Timely'
    BY <2>1, Touches, Zenon DEF Timely
  <2> QED BY <2>4, <2>5, Zenon
<1>4. ASSUME NEW x \in Proc, Begin(x) PROVE Types' /\ Timely'
  <2>1. Took(x) /\ p[x].pc = "idle" /\ p'[x].pc = "open"
    BY <1>4, BeginTakes, Zenon DEF Begin
  <2>2. UNCHANGED <<now, ignored, files, saved, lock, odb>>
    BY <1>4, Zenon DEF Begin
  <2>3. \A y \in Proc : Placed(p'[y]) /\ (Working(p'[y]) => lock' = y)
    BY <2>1, <2>2, OneWorks, Zenon DEF Working
  <2>4. Types'
    BY <2>1, <2>2, <2>3, Zenon DEF Types, Took
  <2>5. Timely'
    <3>1. p'[x].mtime = IF saved = None THEN None ELSE saved.mtime
      BY <1>4, BeginTakes, Zenon
    <3>2. saved # None => saved.mtime \in Nat
      BY DEF Types, IndexFile
    <3> QED BY <2>1, <2>2, <3>1, <3>2 DEF Timely, Took
  <2> QED BY <2>4, <2>5, Zenon
<1>5. ASSUME NEW x \in Proc, Open(x) PROVE Types' /\ Timely'
  <2>1. UNCHANGED <<now, ignored, files, saved, odb>> /\ p[x].pc = "open"
    BY <1>5, Zenon DEF Open
  <2> QED BY <1>5, <2>1, OpenTakes, IdleState, QuietStep, Zenon DEF Types
<1>6. ASSUME NEW x \in Proc, DiffNext(x) \/ DiffEnd(x) \/ ApplyDeleted(x) \/ AddStat(x)
      PROVE  Types' /\ Timely'
  <2>1. UNCHANGED <<now, ignored, files, saved, lock, odb>>
    BY <1>6, Zenon DEF DiffNext, DiffEnd, ApplyDeleted, AddStat
  <2>2. Took(x) /\ Same(x) /\ Working(p[x])
    BY <1>6, DiffNextTakes, DiffEndTakes, ApplyDeletedTakes, AddStatTakes, Zenon DEF Working
  <2> QED BY <2>1, <2>2, QuietStep, Zenon DEF Types, Same
<1>7. ASSUME NEW x \in Proc, HashFile(x) \/ ApplyModified(x) \/ ApplyNew(x) \/ AddWrite(x)
      PROVE  Types' /\ Timely'
  <2>1. Took(x) /\ Working(p[x])
    BY <1>7, HashFileTakes, ApplyModifiedTakes, ApplyNewTakes, AddWriteTakes, Zenon DEF Working
  <2>2. CASE Fail(x)
    <3>1. UNCHANGED <<now, ignored, files, saved, odb>> /\ p'[x] = Idle
      BY <2>2, FailTakes, Zenon DEF Fail
    <3> QED BY <2>1, <3>1, IdleState, QuietStep, Zenon DEF Types
  <2>3. CASE ~Fail(x)
    <3>1. UNCHANGED <<now, ignored, files, saved, lock>> /\ odb' \subseteq Data /\ Same(x)
      BY <1>7, <2>3, HashFileTakes, ApplyModifiedTakes, ApplyNewTakes, AddWriteTakes, Zenon
      DEF ItemAdded, Types
    <3> QED BY <2>1, <3>1, QuietStep, Zenon DEF Same
  <2> QED BY <2>2, <2>3, Zenon
<1>8. ASSUME NEW x \in Proc, Close(x) PROVE Types' /\ Timely'
  <2>1. Took(x) /\ p'[x] = Idle /\ Working(p[x])
    BY <1>8, CloseTakes, Zenon DEF Close, Finished, Working
  <2>2. /\ UNCHANGED <<now, ignored, files, odb>>
        /\ saved' = IF p[x].dirty THEN [entries |-> p[x].entries, mtime |-> now] ELSE saved
    BY <1>8, Zenon DEF Close
  <2>3. \A y \in Proc : Placed(p'[y]) /\ (Working(p'[y]) => lock' = y)
    BY <2>1, IdleState, OneWorks, Zenon
  <2>4. saved' \in IndexFile \cup {None}
    BY <2>2, StateFields, Zenon DEF Types, IndexFile
  <2>5. Types'
    BY <2>1, <2>2, <2>3, <2>4, Zenon DEF Types, Took
  <2>6. Timely'
    <3>1. saved' # None => saved'.mtime <= now
      BY <2>2 DEF Timely, Types
    <3>2. saved # None => saved.mtime \in Nat /\ saved' # None /\ saved.mtime <= saved'.mtime
      BY <2>2, NoneAssumption, StateFields DEF Timely, Types, IndexFile
    <3>3. saved' # None => saved'.mtime \in Nat
      BY <2>4 DEF IndexFile
    <3>4. \A y \in Proc : p[y].mtime \in Nat \cup {None}
      BY StateFields, Zenon
    <3> QED BY <2>1, <2>2, <3>1, <3>2, <3>3, <3>4, IdleState DEF Timely, Took
  <2> QED BY <2>5, <2>6, Zenon
<1> QED BY <1>1, <1>2, <1>3, <1>4, <1>5, <1>6, <1>7, <1>8, Zenon DEF Next

-----------------------------------------------------------------------------
(* What a command knows of a file *)

\* The entries a command starts from.
Before == IF saved = None THEN [g \in File |-> None] ELSE saved.entries

\* The entries the diff has for a file, and whether it says the file changed.
ItemsOf(x, f) == {e \in NewEntry : <<f, e>> \in Range(p[x].modified) \cup Range(p[x].new)}

Reported(x, f) == f \in p[x].deleted \/ ItemsOf(x, f) # {}

Replaced(f) == files[f] # None /\ Before[f].stat.inode # files[f].inode

Torn(f) == Size[Before[f].oid] # Before[f].stat.size

\* An entry to be added is that of a file which is there and may be tracked.
Valid(f, e) ==
    /\ files[f] # None /\ e.oid \in {None, files[f].data}
    /\ Before[f] # None \/ f \notin ignored

\* The diff has not come to the file, or has.
Waiting(x, f) == p[x].entries[f] = Before[f] /\ ~Reported(x, f)

Compared(x, f) ==
    /\ f \in p[x].deleted => files[f] = None
    /\ \A e \in ItemsOf(x, f) : Valid(f, e)
    /\ Before[f] = None => p[x].entries[f] = None
    /\ Changed(f, p[x].entries) => Changed(f, Before)
    /\ Changed(f, Before) /\ ~Hidden(f) => Reported(x, f)
    /\ Reported(x, f) => Changed(f, Before) \/ Replaced(f) \/ Torn(f)

\* A change that was not applied is still to be, or hidden.
Applied(x, f) ==
    /\ \A e \in ItemsOf(x, f) : Valid(f, e)
    /\ f \in ignored /\ Before[f] = None => p[x].entries[f] = None
    /\ Changed(f, p[x].entries) => Hidden(f) \/ ItemsOf(x, f) # {}

\* add has come to the file.
Added(x, f) ==
    IF f \in ignored /\ Before[f] = None THEN p[x].entries[f] = None
    ELSE files[f] # None => /\ p[x].entries[f] # None /\ p[x].entries[f].oid = files[f].data
                            /\ files[f].data \in odb

\* What holds of a file nobody touches, by the place of the command.
FileInv(x, f) ==
    /\ p[x].pc \in {"diff", "hash"} =>
           IF f \in Range(p[x].todo) THEN Waiting(x, f) ELSE Compared(x, f)
    /\ p[x].pc = "hash" /\ f = Head(p[x].todo) => files[f] # None /\ p[x].entries[f] # None
    /\ p[x].pc \in {"reported", "remove"} => Compared(x, f)
    /\ p[x].pc = "apply" => Applied(x, f)
    /\ p[x].pc \in {"add", "write"} =>
           /\ f \in Range(p[x].todo) => p[x].entries[f] = Before[f]
           /\ f \in Range(p[x].only) /\ f \notin Range(p[x].todo) => Added(x, f)
    /\ p[x].pc = "write" /\ f = Head(p[x].todo) =>
           files[f] # None /\ (Before[f] # None \/ f \notin ignored)

\* Nothing was done before the index is read, and no file comes twice.
Steady(x) ==
    /\ p[x].pc = "open" => /\ p[x].entries = [f \in File |-> None]
                           /\ p[x].deleted = {} /\ p[x].modified = <<>> /\ p[x].new = <<>>
    /\ p[x].pc \in {"diff", "hash", "add", "write"} => IsInjective(p[x].todo)

ProcInv(x) == Steady(x) /\ \A f \in File \ p[x].touched : FileInv(x, f)

WorkInv == \A x \in Proc : ProcInv(x)

\* The diff has one more entry for the file f, and the same ones for the others.
OneMore(x, f, e) ==
    /\ ItemsOf(x, f)' = ItemsOf(x, f) \cup {e}
    /\ \A g \in File \ {f} : ItemsOf(x, g)' = ItemsOf(x, g)

\* What the diff has for the files after it added an entry.
LEMMA ItemsAppended ==
    ASSUME Types, NEW x \in Proc, NEW f \in File, NEW e \in NewEntry,
           \/ p'[x].modified = Append(p[x].modified, <<f, e>>) /\ p'[x].new = p[x].new
           \/ p'[x].modified = p[x].modified /\ p'[x].new = Append(p[x].new, <<f, e>>)
    PROVE  OneMore(x, f, e)
<1> DEFINE items == Range(p[x].modified) \cup Range(p[x].new)
           after == Range(p'[x].modified) \cup Range(p'[x].new)
<1>1. after = items \cup {<<f, e>>}
  <2> DEFINE S == File \X NewEntry
             item == <<f, e>>
  <2>1. item \in S /\ p[x].modified \in Seq(S) /\ p[x].new \in Seq(S)
    BY StateFields, Zenon
  <2> HIDE DEF S, item
  <2>2. Extends(p[x].modified, item) /\ Extends(p[x].new, item)
    BY <2>1, Appended, Zenon
  <2> QED BY <2>2, Zenon DEF Extends, item
<1> HIDE DEF items, after
<1>2. \A g \in File, d \in NewEntry : <<g, d>> \in after <=> <<g, d>> \in items \/ (g = f /\ d = e)
  BY <1>1, Zenon
<1>3. \A g \in File : /\ ItemsOf(x, g) = {d \in NewEntry : <<g, d>> \in items}
                      /\ ItemsOf(x, g)' = {d \in NewEntry : <<g, d>> \in after}
  BY Zenon DEF ItemsOf, items, after
<1> QED BY <1>2, <1>3, Zenon DEF OneMore

\* The same after an entry was taken.
LEMMA ItemsTaken ==
    ASSUME Types, NEW x \in Proc, NEW item,
           \/ /\ p[x].modified # <<>> /\ item = Head(p[x].modified)
              /\ p'[x].modified = Tail(p[x].modified) /\ p'[x].new = p[x].new
           \/ /\ p[x].new # <<>> /\ item = Head(p[x].new)
              /\ p'[x].modified = p[x].modified /\ p'[x].new = Tail(p[x].new)
    PROVE  /\ item[1] \in File /\ item[2] \in ItemsOf(x, item[1])
           /\ ItemsOf(x, item[1])' \subseteq ItemsOf(x, item[1])
           /\ \A g \in File \ {item[1]} : ItemsOf(x, g)' = ItemsOf(x, g)
<1> DEFINE items == Range(p[x].modified) \cup Range(p[x].new)
           after == Range(p'[x].modified) \cup Range(p'[x].new)
<1>1. item \in File \X NewEntry /\ items = {item} \cup after
  BY StateFields, Taken
<1>2. PICK f \in File, e \in NewEntry : item = <<f, e>>
  BY <1>1
<1> HIDE DEF items, after
<1>3. \A g \in File, d \in NewEntry : <<g, d>> \in items <=> <<g, d>> \in after \/ (g = f /\ d = e)
  BY <1>1, <1>2, Zenon
<1>4. \A g \in File : /\ ItemsOf(x, g) = {d \in NewEntry : <<g, d>> \in items}
                      /\ ItemsOf(x, g)' = {d \in NewEntry : <<g, d>> \in after}
  BY Zenon DEF ItemsOf, items, after
<1>5. item[1] = f /\ item[2] = e
  BY <1>2, Zenon
<1>6. ASSUME NEW g \in File, NEW d PROVE d \in ItemsOf(x, g) <=> d \in ItemsOf(x, g)' \/ (g = f /\ d = e)
  BY <1>3, <1>4, Zenon
<1> QED BY <1>5, <1>6, Zenon

-----------------------------------------------------------------------------
(* What a step leaves as it is *)

SameFile(f) == files'[f] = files[f] /\ ignored' = ignored /\ saved' = saved

SameView(x, f) ==
    /\ SameFile(f) /\ odb \subseteq odb'
    /\ ItemsOf(x, f)' = ItemsOf(x, f)
    /\ f \in p'[x].deleted <=> f \in p[x].deleted
    /\ p'[x].entries[f] = p[x].entries[f]

LEMMA FileKept ==
    ASSUME NEW f, SameFile(f)
    PROVE  /\ Before' = Before
           /\ Changed(f, Before)' <=> Changed(f, Before)
           /\ Hidden(f)' <=> Hidden(f)
           /\ Replaced(f)' <=> Replaced(f)
           /\ Torn(f)' <=> Torn(f)
           /\ \A e : Valid(f, e)' <=> Valid(f, e)
<1>1. Before' = Before
  BY Zenon DEF SameFile, Before
<1>2. Changed(f, Before)' <=> Changed(f, Before)
  BY <1>1, Zenon DEF SameFile, Changed
<1>3. Hidden(f)' <=> Hidden(f)
  BY Zenon DEF SameFile, Changed, Hidden
<1>4. Replaced(f)' <=> Replaced(f)
  BY <1>1, Zenon DEF SameFile, Replaced
<1>5. Torn(f)' <=> Torn(f)
  BY <1>1, Zenon DEF Torn
<1>6. \A e : Valid(f, e)' <=> Valid(f, e)
  BY <1>1, Zenon DEF SameFile, Valid
<1> QED BY <1>1, <1>2, <1>3, <1>4, <1>5, <1>6, Zenon

LEMMA ViewKept ==
    ASSUME NEW x, NEW f, SameView(x, f)
    PROVE  /\ Waiting(x, f) => Waiting(x, f)'
           /\ Compared(x, f) => Compared(x, f)'
           /\ Applied(x, f) => Applied(x, f)'
           /\ Added(x, f) => Added(x, f)'
<1>1. SameFile(f)
  BY Zenon DEF SameView
<1>2. Reported(x, f)' <=> Reported(x, f)
  BY Zenon DEF SameView, Reported
<1>3. Changed(f, p[x].entries)' <=> Changed(f, p[x].entries)
  BY Zenon DEF SameView, SameFile, Changed
<1>4. Waiting(x, f) => Waiting(x, f)'
  BY <1>1, <1>2, FileKept, Zenon DEF SameView, Waiting
<1>5. Compared(x, f) => Compared(x, f)'
  BY <1>1, <1>2, <1>3, FileKept, Zenon DEF SameView, SameFile, Compared
<1>6. Applied(x, f) => Applied(x, f)'
  BY <1>1, <1>3, FileKept, Zenon DEF SameView, SameFile, Applied
<1>7. Added(x, f) => Added(x, f)'
  BY <1>1, FileKept, Zenon DEF SameView, SameFile, Added
<1> QED BY <1>4, <1>5, <1>6, <1>7, Zenon

\* A process that takes no step.  The index is not written while it works.
LEMMA OthersKept ==
    ASSUME NEW x \in Proc, ProcInv(x),
           p'[x].pc = p[x].pc, p'[x].todo = p[x].todo, p'[x].only = p[x].only,
           p'[x].entries = p[x].entries, Reports(x, p[x].deleted, p[x].modified, p[x].new),
           p[x].touched \subseteq p'[x].touched, ignored' = ignored, odb \subseteq odb',
           Working(p[x]) => saved' = saved,
           \A f \in File \ p'[x].touched : Working(p[x]) => files'[f] = files[f]
    PROVE  ProcInv(x)'
<1>1. Steady(x)'
  BY Zenon DEF ProcInv, Steady, Reports
<1>2. ASSUME NEW f \in File, f \notin p'[x].touched PROVE FileInv(x, f)'
  <2>1. FileInv(x, f)
    BY <1>2, Zenon DEF ProcInv
  <2>2. CASE ~Working(p[x])
    BY <2>2, Zenon DEF Working, FileInv
  <2>3. CASE Working(p[x])
    <3>1. ItemsOf(x, f)' = ItemsOf(x, f)
      BY Zenon DEF ItemsOf, Reports
    <3>2. SameView(x, f)
      BY <1>2, <2>3, <3>1, Zenon DEF SameView, SameFile, Reports
    <3>3. Before' = Before /\ files'[f] = files[f]
      BY <3>2, FileKept, Zenon DEF SameView, SameFile
    <3> QED BY <2>1, <3>2, <3>3, ViewKept, Zenon DEF FileInv
  <2> QED BY <2>2, <2>3, Zenon
<1> QED BY <1>1, <1>2, Zenon DEF ProcInv

\* The processes other than the one that took a step which leaves the files and
\* the index alone.
LEMMA OneStepped ==
    ASSUME WorkInv, NEW x \in Proc, Took(x), ProcInv(x)', odb \subseteq odb',
           UNCHANGED <<ignored, files>>,
           saved' = saved \/ \A y \in Proc \ {x} : ~Working(p[y])
    PROVE  WorkInv'
<1>1. ASSUME NEW y \in Proc \ {x} PROVE ProcInv(y)'
  <2>1. p'[y] = p[y] /\ ProcInv(y)
    BY Zenon DEF Took, WorkInv
  <2>2. Working(p[y]) => saved' = saved
    OBVIOUS
  <2> QED BY <2>1, <2>2, OthersKept, Zenon DEF Reports
<1> QED BY <1>1, Zenon DEF WorkInv

\* A process that does nothing.
LEMMA IdleInv == ASSUME NEW x, p[x].pc = "idle" PROVE ProcInv(x)
BY Zenon DEF ProcInv, Steady, FileInv

-----------------------------------------------------------------------------
(* Steps *)

\* The entries a command starts from are well formed.
LEMMA BeforeType ==
    ASSUME Types
    PROVE  Before \in IndexEntries
BY Zenon DEF Types, IndexFile, Before, IndexEntries

\* A change that HasChangesInner takes for none is hidden.
LEMMA NoIsHidden ==
    ASSUME Types, Timely, NEW x \in Proc, NEW f \in File,
           Before[f] # None, files[f] # None, Changed(f, Before),
           HasChangesInner(x, Before[f], Stat(f)) = "No"
    PROVE  Hidden(f)
<1>1. Before[f] \in IndexEntry
  BY BeforeType, Zenon DEF IndexEntries
<1>2. Before[f].stat.mtime \in Nat
  BY <1>1, WorktreeAssumption DEF IndexEntry, Stats
<1>3. /\ p[x].mtime # None /\ ~(p[x].mtime <= Before[f].stat.mtime)
      /\ Before[f].stat.mtime = Stat(f).mtime
  BY Zenon DEF HasChangesInner, IsRacyEntry
<1>4. Stat(f).mtime = files[f].mtime
  BY Zenon DEF Stat
<1>5. /\ saved # None /\ p[x].mtime <= saved.mtime /\ saved.mtime \in Nat /\ p[x].mtime \in Nat
  BY <1>3, StateFields DEF Timely, Types, IndexFile
<1>6. Before = saved.entries
  BY <1>5, Zenon DEF Before
<1> QED BY <1>2, <1>3, <1>4, <1>5, <1>6 DEF Hidden

\* A file that HasChangesInner takes for changed is, or was replaced, or was
\* written while it was added.
LEMMA YesIsChanged ==
    ASSUME Types, NEW x \in Proc, NEW f \in File,
           Before[f] # None, files[f] # None,
           HasChangesInner(x, Before[f], Stat(f)) = "Yes"
    PROVE  Changed(f, Before) \/ Replaced(f) \/ Torn(f)
<1>1. \/ Before[f].stat.size # Stat(f).size
      \/ Before[f].stat.inode # Stat(f).inode
  BY Zenon DEF HasChangesInner
<1>2. Stat(f).size = Size[files[f].data] /\ Stat(f).inode = files[f].inode
  BY Zenon DEF Stat
<1> QED BY <1>1, <1>2, Zenon DEF Changed, Replaced, Torn

\* The file the diff looks at is compared, unless it has to be read.
LEMMA DiffNextCompares ==
    ASSUME Types, Timely, NEW x \in Proc, DiffNext(x), NEW f \in File, f = Head(p[x].todo),
           Waiting(x, f), p'[x].pc = "diff"
    PROVE  Compared(x, f)'
<1> DEFINE fresh == Entry(Stat(f), None)
           item == <<f, fresh>>
<1>1. SameFile(f) /\ p'[x].entries = p[x].entries
  BY DiffNextTakes, Zenon DEF DiffNext, SameFile
<1>2. p[x].entries[f] = Before[f] /\ f \notin p[x].deleted /\ ItemsOf(x, f) = {}
  BY Zenon DEF Waiting, Reported
<1>3. Changed(f, p[x].entries)' <=> Changed(f, Before)
  BY <1>1, <1>2, Zenon DEF SameFile, Changed
<1>4. IsYielded(x, f) <=> files[f] # None /\ (Before[f] # None \/ f \notin ignored)
  BY <1>2, Zenon DEF IsYielded, IsIgnored
<1>5. SUFFICES /\ f \in p'[x].deleted => files[f] = None
               /\ \A e \in ItemsOf(x, f)' : Valid(f, e)
               /\ Changed(f, Before) /\ ~Hidden(f) => f \in p'[x].deleted \/ ItemsOf(x, f)' # {}
               /\ f \in p'[x].deleted \/ ItemsOf(x, f)' # {} =>
                      Changed(f, Before) \/ Replaced(f) \/ Torn(f)
  BY <1>1, <1>2, <1>3, FileKept, Zenon DEF Compared, Reported, SameFile
<1>6. IsYielded(x, f) => fresh \in NewEntry /\ fresh.oid = None /\ Valid(f, fresh)
  BY <1>4, StatType, Zenon DEF Entry, NewEntry, Valid
<1> HIDE DEF fresh
<1>7. CASE Before[f] = None /\ ~IsYielded(x, f) /\ Reports(x, p[x].deleted, p[x].modified, p[x].new)
  <2>1. ItemsOf(x, f)' = {} /\ f \notin p'[x].deleted
    BY <1>2, <1>7, Zenon DEF ItemsOf, Reports
  <2> QED BY <1>4, <1>7, <2>1, Zenon DEF Changed
<1>8. CASE /\ Before[f] # None /\ ~IsYielded(x, f)
           /\ Reports(x, p[x].deleted \cup {f}, p[x].modified, p[x].new)
  <2>1. ItemsOf(x, f)' = {} /\ f \in p'[x].deleted
    BY <1>2, <1>8, Zenon DEF ItemsOf, Reports
  <2> QED BY <1>4, <1>8, <2>1, Zenon DEF Changed
<1>9. CASE /\ Before[f] = None /\ IsYielded(x, f)
           /\ Reports(x, p[x].deleted, p[x].modified, Append(p[x].new, item))
  <2>1. ItemsOf(x, f)' = {fresh} /\ f \notin p'[x].deleted
    <3>1. /\ p'[x].modified = p[x].modified /\ p'[x].new = Append(p[x].new, item)
          /\ f \notin p'[x].deleted
      BY <1>2, <1>9, Zenon DEF Reports
    <3>2. ItemsOf(x, f)' = ItemsOf(x, f) \cup {fresh}
      <4>1. fresh \in NewEntry
        BY <1>6, <1>9, Zenon
      <4>2. OneMore(x, f, fresh)
        BY <3>1, <4>1, ItemsAppended, Zenon
      <4> QED BY <4>2, Zenon DEF OneMore
    <3> QED BY <1>2, <3>1, <3>2, Zenon
  <2> QED BY <1>4, <1>6, <1>9, <2>1, Zenon DEF Changed
<1>10. CASE /\ Before[f] # None /\ IsYielded(x, f)
            /\ HasChangesInner(x, Before[f], Stat(f)) = "No"
            /\ Reports(x, p[x].deleted, p[x].modified, p[x].new)
  <2>1. ItemsOf(x, f)' = {} /\ f \notin p'[x].deleted
    BY <1>2, <1>10, Zenon DEF ItemsOf, Reports
  <2> QED BY <1>4, <1>10, <2>1, NoIsHidden, Zenon
<1>11. CASE /\ Before[f] # None /\ IsYielded(x, f)
            /\ HasChangesInner(x, Before[f], Stat(f)) = "Yes"
            /\ Reports(x, p[x].deleted, Append(p[x].modified, item), p[x].new)
  <2>1. ItemsOf(x, f)' = {fresh} /\ f \notin p'[x].deleted
    <3>1. /\ p'[x].modified = Append(p[x].modified, item) /\ p'[x].new = p[x].new
          /\ f \notin p'[x].deleted
      BY <1>2, <1>11, Zenon DEF Reports
    <3>2. ItemsOf(x, f)' = ItemsOf(x, f) \cup {fresh}
      <4>1. fresh \in NewEntry
        BY <1>6, <1>11, Zenon
      <4>2. OneMore(x, f, fresh)
        BY <3>1, <4>1, ItemsAppended, Zenon
      <4> QED BY <4>2, Zenon DEF OneMore
    <3> QED BY <1>2, <3>1, <3>2, Zenon
  <2> QED BY <1>4, <1>6, <1>11, <2>1, YesIsChanged, Zenon
<1> QED BY <1>2, <1>7, <1>8, <1>9, <1>10, <1>11, DiffNextTakes, Zenon DEF fresh

\* What the diff has of the other files.
LEMMA DiffNextOthers ==
    ASSUME Types, NEW x \in Proc, DiffNext(x), NEW g \in File, g # Head(p[x].todo)
    PROVE  SameView(x, g)
<1> DEFINE f == Head(p[x].todo)
           fresh == Entry(Stat(f), None)
<1>1. SameFile(g) /\ p'[x].entries = p[x].entries /\ odb' = odb
  BY DiffNextTakes, Zenon DEF DiffNext, SameFile
<1>2. f \in File
  BY StateFields, Taken, Zenon DEF DiffNext
<1>3. IsYielded(x, f) => fresh \in NewEntry
  BY <1>2, StatType, Zenon DEF IsYielded, Entry, NewEntry
<1>4. /\ g \in p'[x].deleted <=> g \in p[x].deleted
      /\ \/ p'[x].modified = p[x].modified /\ p'[x].new = p[x].new
         \/ /\ IsYielded(x, f)
            /\ \/ p'[x].modified = Append(p[x].modified, <<f, fresh>>) /\ p'[x].new = p[x].new
               \/ p'[x].modified = p[x].modified /\ p'[x].new = Append(p[x].new, <<f, fresh>>)
  BY DiffNextTakes, Zenon DEF Reports
<1> HIDE DEF f, fresh
<1>5. ItemsOf(x, g)' = ItemsOf(x, g)
  <2>1. CASE p'[x].modified = p[x].modified /\ p'[x].new = p[x].new
    BY <2>1, Zenon DEF ItemsOf
  <2>2. CASE /\ IsYielded(x, f)
             /\ \/ p'[x].modified = Append(p[x].modified, <<f, fresh>>) /\ p'[x].new = p[x].new
                \/ p'[x].modified = p[x].modified /\ p'[x].new = Append(p[x].new, <<f, fresh>>)
    <3>1. OneMore(x, f, fresh)
      BY <1>2, <1>3, <2>2, ItemsAppended, Zenon
    <3> QED BY <3>1, Zenon DEF OneMore, f
  <2> QED BY <1>4, <2>1, <2>2, Zenon
<1> QED BY <1>1, <1>4, <1>5, Zenon DEF SameView

LEMMA DiffNextInv ==
    ASSUME Types, Timely, NEW x \in Proc, ProcInv(x), DiffNext(x)
    PROVE  ProcInv(x)'
<1> DEFINE h == Head(p[x].todo)
<1>1. /\ p[x].pc = "diff" /\ p[x].todo # <<>> /\ p'[x].touched = p[x].touched
      /\ p'[x].entries = p[x].entries /\ files' = files
      /\ p'[x].pc \in {"diff", "hash"}
  BY DiffNextTakes, Zenon DEF Same, DiffNext
<1>2. /\ h \in File /\ Range(p[x].todo) = {h} \cup Range(Tail(p[x].todo))
      /\ IsInjective(p[x].todo) /\ IsInjective(Tail(p[x].todo)) /\ h \notin Range(Tail(p[x].todo))
  BY <1>1, StateFields, Taken DEF ProcInv, Steady
<1>3. ASSUME NEW f \in File, f \notin p'[x].touched, p'[x].pc = "diff"
      PROVE  FileInv(x, f)'
  <2>1. p'[x].todo = Tail(p[x].todo)
    BY <1>3, DiffNextTakes, Zenon
  <2>2. IF f \in Range(p[x].todo) THEN Waiting(x, f) ELSE Compared(x, f)
    BY <1>1, <1>3, Zenon DEF ProcInv, FileInv
  <2>3. CASE f = h
    BY <1>2, <1>3, <2>1, <2>2, <2>3, DiffNextCompares, Zenon DEF FileInv
  <2>4. CASE f # h
    BY <1>2, <1>3, <2>1, <2>2, <2>4, DiffNextOthers, ViewKept, Zenon DEF FileInv
  <2> QED BY <2>3, <2>4, Zenon
<1>4. ASSUME NEW f \in File, f \notin p'[x].touched, p'[x].pc = "hash"
      PROVE  FileInv(x, f)'
  <2>1. /\ p'[x].todo = p[x].todo /\ Reports(x, p[x].deleted, p[x].modified, p[x].new)
        /\ p[x].entries[h] # None /\ IsYielded(x, h)
    BY <1>4, DiffNextTakes, Zenon
  <2>2. SameView(x, f)
    BY <1>1, <2>1, Zenon DEF DiffNext, SameView, SameFile, ItemsOf, Reports
  <2>3. IF f \in Range(p[x].todo) THEN Waiting(x, f) ELSE Compared(x, f)
    BY <1>1, <1>4, Zenon DEF ProcInv, FileInv
  <2>4. files[h] # None
    BY <2>1, Zenon DEF IsYielded
  <2> QED BY <1>1, <1>4, <2>1, <2>2, <2>3, <2>4, ViewKept, Zenon DEF FileInv
<1>5. Steady(x)'
  BY <1>1, <1>2, DiffNextTakes, Zenon DEF Steady
<1> QED BY <1>1, <1>3, <1>4, <1>5, Zenon DEF ProcInv

\* A file that was read is compared.
LEMMA HashFileInv ==
    ASSUME Types, NEW x \in Proc, ProcInv(x), HashFile(x), ~Fail(x)
    PROVE  ProcInv(x)'
<1>h. PICK h : h = Head(p[x].todo)
  OBVIOUS
<1>n. PICK new : new = Entry(p[x].stat, files[h].data)
  OBVIOUS
<1>1. /\ p[x].pc = "hash" /\ p[x].todo # <<>> /\ p'[x].touched = p[x].touched
      /\ files[h] # None /\ p'[x].pc = "diff" /\ p'[x].todo = Tail(p[x].todo)
      /\ UNCHANGED <<ignored, files, saved, odb>>
      /\ p'[x].deleted = p[x].deleted /\ p'[x].new = p[x].new
      /\ \/ /\ files[h].data = p[x].entries[h].oid
            /\ p'[x].entries = [p[x].entries EXCEPT ![h] = new]
            /\ p'[x].modified = p[x].modified
         \/ /\ files[h].data # p[x].entries[h].oid
            /\ p'[x].entries = p[x].entries
            /\ p'[x].modified = Append(p[x].modified, <<h, new>>)
  BY <1>h, <1>n, HashFileTakes, Zenon DEF Same, Reports
<1>2. /\ h \in File /\ Range(p[x].todo) = {h} \cup Range(Tail(p[x].todo))
      /\ IsInjective(p[x].todo) /\ IsInjective(Tail(p[x].todo)) /\ h \notin Range(Tail(p[x].todo))
  <2>1. IsInjective(p[x].todo) /\ p[x].todo \in Seq(File)
    BY <1>1, StateFields, Zenon DEF ProcInv, Steady
  <2> QED BY <1>h, <1>1, <2>1, Taken, Zenon
<1>3. p[x].entries \in [File -> IndexEntry \cup {None}]
  BY StateFields, Zenon DEF IndexEntries
<1>4. new \in NewEntry /\ new \in IndexEntry /\ new.oid = files[h].data
  <2>1. p[x].stat \in Stats /\ files[h].data \in Data
    BY <1>1, <1>2, StateFields, StatType, Zenon DEF Placed
  <2> QED BY <1>n, <2>1, Zenon DEF Entry, NewEntry, IndexEntry
<1>5. ASSUME NEW g \in File, g # h PROVE SameView(x, g)
  <2>1. ItemsOf(x, g)' = ItemsOf(x, g)
    <3>1. CASE p'[x].modified = p[x].modified
      BY <1>1, <3>1, Zenon DEF ItemsOf
    <3>2. CASE p'[x].modified = Append(p[x].modified, <<h, new>>)
      <4>1. OneMore(x, h, new)
        BY <1>1, <1>2, <1>4, <3>2, ItemsAppended, Zenon
      <4> QED BY <1>5, <4>1, Zenon DEF OneMore
    <3> QED BY <1>1, <3>1, <3>2, Zenon
  <2>2. p'[x].entries[g] = p[x].entries[g]
    BY <1>1, <1>3, <1>5, Zenon
  <2> QED BY <1>1, <2>1, <2>2, Zenon DEF SameView, SameFile
<1>6. ASSUME h \notin p[x].touched PROVE Compared(x, h)'
  <2>1. Waiting(x, h) /\ p[x].entries[h] # None
    BY <1>h, <1>1, <1>2, <1>6, Zenon DEF ProcInv, FileInv
  <2>2. /\ Before[h] = p[x].entries[h] /\ Before[h] # None
        /\ h \notin p'[x].deleted /\ ItemsOf(x, h) = {}
    BY <1>1, <2>1, Zenon DEF Waiting, Reported
  <2>3. SameFile(h) /\ None # new
    BY <1>1, <1>4, NoneAssumption, Zenon DEF SameFile
  <2>4. CASE files[h].data = p[x].entries[h].oid /\ p'[x].modified = p[x].modified
             /\ p'[x].entries = [p[x].entries EXCEPT ![h] = new]
    <3>1. ItemsOf(x, h)' = {}
      BY <1>1, <2>2, <2>4, Zenon DEF ItemsOf
    <3>2. p'[x].entries[h] = new
      BY <1>2, <1>3, <2>4, Zenon
    <3>3. ~Changed(h, Before) /\ ~Changed(h, p[x].entries)'
      BY <1>1, <1>4, <2>2, <2>3, <2>4, <3>2, Zenon DEF Changed
    <3> QED BY <2>2, <2>3, <3>1, <3>2, <3>3, FileKept, Zenon DEF Compared, Reported
  <2>5. CASE /\ files[h].data # p[x].entries[h].oid /\ p'[x].entries = p[x].entries
             /\ p'[x].modified = Append(p[x].modified, <<h, new>>)
    <3>1. ItemsOf(x, h)' = {new}
      <4>1. p'[x].new = p[x].new /\ new \in NewEntry /\ h \in File
        BY <1>1, <1>2, <1>4, Zenon
      <4>2. OneMore(x, h, new)
        BY <2>5, <4>1, ItemsAppended, Zenon
      <4> QED BY <2>2, <4>2, Zenon DEF OneMore
    <3>2. Changed(h, Before) /\ Valid(h, new)
      BY <1>1, <1>4, <2>2, <2>5, Zenon DEF Changed, Valid
    <3>3. ItemsOf(x, h)' # {} /\ \A e \in ItemsOf(x, h)' : Valid(h, e)
      BY <3>1, <3>2, Zenon
    <3>4. Before' = Before /\ Changed(h, Before)' /\ \A e \in ItemsOf(x, h)' : Valid(h, e)'
      BY <2>3, <3>2, <3>3, FileKept, Zenon
    <3> QED BY <2>2, <3>3, <3>4, Zenon DEF Compared, Reported
  <2> QED BY <1>1, <2>4, <2>5, Zenon
<1>7. ASSUME NEW f \in File, f \notin p'[x].touched PROVE FileInv(x, f)'
  <2>1. IF f \in Range(p[x].todo) THEN Waiting(x, f) ELSE Compared(x, f)
    BY <1>1, <1>7, Zenon DEF ProcInv, FileInv
  <2>2. CASE f = h
    <3>1. p'[x].pc = "diff" /\ f \notin Range(p'[x].todo) /\ f \notin p[x].touched
      BY <1>1, <1>2, <1>7, <2>2, Zenon
    <3>2. Compared(x, f)'
      BY <1>6, <2>2, <3>1, Zenon
    <3> QED BY <3>1, <3>2, Zenon DEF FileInv
  <2>3. CASE f # h
    BY <1>1, <1>2, <1>5, <2>1, <2>3, ViewKept, Zenon DEF FileInv
  <2> QED BY <2>2, <2>3, Zenon
<1>8. Steady(x)'
  BY <1>1, <1>2, Zenon DEF Steady
<1> QED BY <1>7, <1>8, Zenon DEF ProcInv

LEMMA DiffEndInv ==
    ASSUME Types, NEW x \in Proc, ProcInv(x), DiffEnd(x)
    PROVE  ProcInv(x)'
<1>1. /\ p[x].pc = "diff" /\ p[x].todo = <<>> /\ p'[x].touched = p[x].touched
      /\ p'[x].entries = p[x].entries /\ p'[x].pc \in {"reported", "remove"}
      /\ Reports(x, p[x].deleted, p[x].modified, p[x].new)
  BY DiffEndTakes, Zenon DEF Same
<1>2. ASSUME NEW f \in File, f \notin p'[x].touched PROVE FileInv(x, f)'
  <2>1. SameView(x, f)
    BY <1>1, Zenon DEF DiffEnd, SameView, SameFile, ItemsOf, Reports
  <2>2. Compared(x, f)
    <3>1. Range(p[x].todo) = {}
      BY <1>1, StateFields, Elements, Zenon
    <3> QED BY <1>1, <1>2, <3>1, Zenon DEF ProcInv, FileInv
  <2> QED BY <1>1, <2>1, <2>2, ViewKept, Zenon DEF FileInv
<1> QED BY <1>1, <1>2, Zenon DEF ProcInv, Steady

LEMMA ApplyDeletedInv ==
    ASSUME Types, NEW x \in Proc, ProcInv(x), ApplyDeleted(x)
    PROVE  ProcInv(x)'
<1>1. /\ p[x].pc = "remove" /\ p'[x].touched = p[x].touched /\ p'[x].pc = "apply"
      /\ Reports(x, p[x].deleted, p[x].modified, p[x].new)
      /\ p'[x].entries = [f \in File |-> IF f \in p[x].deleted THEN None ELSE p[x].entries[f]]
  BY ApplyDeletedTakes, Zenon DEF Same
<1>2. ASSUME NEW f \in File, f \notin p'[x].touched PROVE FileInv(x, f)'
  <2>1. SameFile(f) /\ ItemsOf(x, f)' = ItemsOf(x, f)
    BY <1>1, Zenon DEF ApplyDeleted, SameFile, ItemsOf, Reports
  <2>2. Compared(x, f)
    BY <1>1, <1>2, Zenon DEF ProcInv, FileInv
  <2>3. p'[x].entries[f] = IF f \in p[x].deleted THEN None ELSE p[x].entries[f]
    BY <1>1, Zenon
  <2>4. CASE f \in p[x].deleted
    <3>1. files'[f] = None /\ p'[x].entries[f] = None
      BY <2>1, <2>2, <2>3, <2>4, Zenon DEF Compared, SameFile
    <3>2. ~Changed(f, p[x].entries)'
      BY <3>1, Zenon DEF Changed
    <3>3. Applied(x, f)'
      BY <2>1, <2>2, <3>1, <3>2, FileKept, Zenon DEF Compared, Applied
    <3> QED BY <1>1, <3>3, Zenon DEF FileInv
  <2>5. CASE f \notin p[x].deleted
    <3>1. Changed(f, p[x].entries)' <=> Changed(f, p[x].entries)
      BY <2>1, <2>3, <2>5, Zenon DEF SameFile, Changed
    <3>2. Changed(f, p[x].entries) => Hidden(f) \/ ItemsOf(x, f) # {}
      BY <2>2, <2>5, Zenon DEF Compared, Reported
    <3>3. Applied(x, f)'
      BY <2>1, <2>2, <2>3, <2>5, <3>1, <3>2, FileKept, Zenon DEF Compared, Applied
    <3> QED BY <1>1, <3>3, Zenon DEF FileInv
  <2> QED BY <2>4, <2>5, Zenon
<1> QED BY <1>1, <1>2, Zenon DEF ProcInv, Steady

\* A change is applied: the entry of the file is what the file has.
LEMMA ItemAddedInv ==
    ASSUME Types, NEW x \in Proc, ProcInv(x), p[x].pc = "apply", NEW item, ItemAdded(x, item),
           p'[x].deleted = p[x].deleted,
           \/ /\ p[x].modified # <<>> /\ item = Head(p[x].modified)
              /\ p'[x].modified = Tail(p[x].modified) /\ p'[x].new = p[x].new
           \/ /\ p[x].new # <<>> /\ item = Head(p[x].new)
              /\ p'[x].modified = p[x].modified /\ p'[x].new = Tail(p[x].new)
    PROVE  ProcInv(x)'
<1>1. PICK h, e : h = item[1] /\ e = item[2]
  OBVIOUS
<1>2. PICK new : new = Entry(e.stat, NewOid(h, e))
  OBVIOUS
<1>3. /\ h \in File /\ e \in ItemsOf(x, h)
      /\ ItemsOf(x, h)' \subseteq ItemsOf(x, h)
      /\ \A g \in File \ {h} : ItemsOf(x, g)' = ItemsOf(x, g)
  BY <1>1, ItemsTaken, Zenon
<1>4. /\ p'[x].pc = "apply" /\ p'[x].touched = p[x].touched
      /\ UNCHANGED <<ignored, files, saved>> /\ odb \subseteq odb'
      /\ p'[x].entries = [p[x].entries EXCEPT ![h] = new]
  BY <1>1, <1>2, Zenon DEF ItemAdded, Same
<1>5. p[x].entries \in [File -> IndexEntry \cup {None}]
  BY StateFields, Zenon DEF IndexEntries
<1>6. ASSUME h \notin p[x].touched PROVE Applied(x, h)'
  <2>1. SameFile(h) /\ Applied(x, h) /\ p'[x].entries[h] = new
    BY <1>3, <1>4, <1>5, <1>6, Zenon DEF SameFile, ProcInv, FileInv
  <2>2. Valid(h, e)
    BY <1>3, <2>1, Zenon DEF Applied
  <2>3. new.oid = files[h].data
    BY <1>2, <2>2, Zenon DEF Valid, Entry, NewOid
  <2>4. new \in IndexEntry
    <3>1. e.stat \in Stats
      BY <1>3, Zenon DEF ItemsOf, NewEntry
    <3>2. files[h].data \in Data
      BY <1>3, <2>2, StatType, Zenon DEF Valid
    <3> QED BY <1>2, <2>3, <3>1, <3>2, Zenon DEF Entry, IndexEntry
  <2>5. ~Changed(h, p[x].entries)'
    BY <2>1, <2>2, <2>3, <2>4, NoneAssumption, Zenon DEF Changed, SameFile, Valid
  <2>6. ~(h \in ignored' /\ Before'[h] = None)
    BY <2>1, <2>2, FileKept, Zenon DEF SameFile, Valid
  <2>7. \A d \in ItemsOf(x, h)' : Valid(h, d)'
    BY <1>3, <2>1, FileKept, Zenon DEF Applied
  <2> QED BY <2>5, <2>6, <2>7, Zenon DEF Applied
<1>7. ASSUME NEW f \in File, f \notin p'[x].touched PROVE FileInv(x, f)'
  <2>1. Applied(x, f)'
    <3>1. CASE f = h
      BY <1>4, <1>6, <1>7, <3>1, Zenon
    <3>2. CASE f # h
      <4>1. SameView(x, f)
        BY <1>3, <1>4, <1>5, <3>2, Zenon DEF SameView, SameFile
      <4>2. Applied(x, f)
        BY <1>4, <1>7, Zenon DEF ProcInv, FileInv
      <4> QED BY <4>1, <4>2, ViewKept, Zenon
    <3> QED BY <3>1, <3>2, Zenon
  <2> QED BY <1>4, <2>1, Zenon DEF FileInv
<1> QED BY <1>4, <1>7, Zenon DEF ProcInv, Steady

LEMMA AddStatInv ==
    ASSUME Types, NEW x \in Proc, ProcInv(x), AddStat(x)
    PROVE  ProcInv(x)'
<1>1. PICK h : h = Head(p[x].todo)
  OBVIOUS
<1>2. /\ p[x].pc = "add" /\ p[x].todo # <<>> /\ p'[x].touched = p[x].touched
      /\ p'[x].only = p[x].only /\ p'[x].entries = p[x].entries
      /\ UNCHANGED <<ignored, files, saved, odb>>
      /\ \/ ~IsYielded(x, h) /\ p'[x].pc = "add" /\ p'[x].todo = Tail(p[x].todo)
         \/ IsYielded(x, h) /\ p'[x].pc = "write" /\ p'[x].todo = p[x].todo
  BY <1>1, AddStatTakes, Zenon DEF Same, AddStat
<1>3. /\ h \in File /\ Range(p[x].todo) = {h} \cup Range(Tail(p[x].todo))
      /\ IsInjective(p[x].todo) /\ IsInjective(Tail(p[x].todo)) /\ h \notin Range(Tail(p[x].todo))
  <2>1. IsInjective(p[x].todo) /\ p[x].todo \in Seq(File)
    BY <1>2, StateFields, Zenon DEF ProcInv, Steady
  <2> QED BY <1>1, <1>2, <2>1, Taken, Zenon
<1>4. ASSUME NEW f \in File, f \notin p'[x].touched PROVE FileInv(x, f)'
  <2>1. /\ f \in Range(p[x].todo) => p[x].entries[f] = Before[f]
        /\ f \in Range(p[x].only) /\ f \notin Range(p[x].todo) => Added(x, f)
    BY <1>2, <1>4, Zenon DEF ProcInv, FileInv
  <2>2. Before' = Before /\ (Added(x, f) => Added(x, f)')
    BY <1>2, Zenon DEF Before, Added
  <2>3. CASE ~IsYielded(x, h) /\ p'[x].pc = "add" /\ p'[x].todo = Tail(p[x].todo)
    <3>1. f = h => Added(x, f)
      <4> HAVE f = h
      <4>1. p[x].entries[f] = Before[f] /\ ~IsYielded(x, f)
        BY <1>3, <2>1, <2>3, Zenon
      <4> QED BY <4>1, Zenon DEF IsYielded, IsIgnored, Added
    <3>2. f \in Range(p'[x].todo) => p'[x].entries[f] = Before'[f]
      BY <1>2, <1>3, <2>1, <2>2, <2>3, Zenon
    <3>3. f \in Range(p'[x].only) /\ f \notin Range(p'[x].todo) => Added(x, f)'
      BY <1>2, <1>3, <2>1, <2>2, <2>3, <3>1, Zenon
    <3> QED BY <2>3, <3>2, <3>3, Zenon DEF FileInv
  <2>4. CASE IsYielded(x, h) /\ p'[x].pc = "write" /\ p'[x].todo = p[x].todo
    <3>1. f = h => files'[f] # None /\ (Before'[f] # None \/ f \notin ignored')
      <4> HAVE f = h
      <4>1. p[x].entries[f] = Before[f] /\ IsYielded(x, f)
        BY <1>3, <2>1, <2>4, Zenon
      <4> QED BY <1>2, <2>2, <4>1, Zenon DEF IsYielded, IsIgnored
    <3>2. f \in Range(p'[x].todo) => p'[x].entries[f] = Before'[f]
      BY <1>2, <2>1, <2>2, <2>4, Zenon
    <3>3. f \in Range(p'[x].only) /\ f \notin Range(p'[x].todo) => Added(x, f)'
      BY <1>2, <2>1, <2>2, <2>4, Zenon
    <3>4. Head(p'[x].todo) = h
      BY <1>1, <2>4, Zenon
    <3> QED BY <2>4, <3>1, <3>2, <3>3, <3>4, Zenon DEF FileInv
  <2> QED BY <1>2, <2>3, <2>4, Zenon
<1>5. Steady(x)'
  BY <1>2, <1>3, Zenon DEF Steady
<1> QED BY <1>4, <1>5, Zenon DEF ProcInv

LEMMA AddWriteInv ==
    ASSUME Types, NEW x \in Proc, ProcInv(x), AddWrite(x), ~Fail(x)
    PROVE  ProcInv(x)'
<1>1. PICK h : h = Head(p[x].todo)
  OBVIOUS
<1>2. PICK new : new = Entry(p[x].stat, files[h].data)
  OBVIOUS
<1>3. /\ p[x].pc = "write" /\ p[x].todo # <<>> /\ p'[x].touched = p[x].touched
      /\ p'[x].only = p[x].only /\ p'[x].pc = "add" /\ p'[x].todo = Tail(p[x].todo)
      /\ UNCHANGED <<ignored, files, saved>> /\ odb \subseteq odb'
      /\ files[h] # None /\ files[h].data \in odb'
      /\ p'[x].entries = [p[x].entries EXCEPT ![h] = new]
  BY <1>1, <1>2, AddWriteTakes, Zenon DEF Same
<1>4. /\ h \in File /\ Range(p[x].todo) = {h} \cup Range(Tail(p[x].todo))
      /\ IsInjective(p[x].todo) /\ IsInjective(Tail(p[x].todo)) /\ h \notin Range(Tail(p[x].todo))
  <2>1. IsInjective(p[x].todo) /\ p[x].todo \in Seq(File)
    BY <1>3, StateFields, Zenon DEF ProcInv, Steady
  <2> QED BY <1>1, <1>3, <2>1, Taken, Zenon
<1>5. p[x].entries \in [File -> IndexEntry \cup {None}]
  BY StateFields, Zenon DEF IndexEntries
<1>6. new # None /\ new.oid = files[h].data
  <2>1. p[x].stat \in Stats /\ files[h].data \in Data
    BY <1>3, <1>4, StateFields, StatType, Zenon DEF Placed
  <2> QED BY <1>2, <2>1, NoneAssumption DEF Entry, IndexEntry
<1>7. ASSUME NEW f \in File, f \notin p'[x].touched PROVE FileInv(x, f)'
  <2>1. /\ f \in Range(p[x].todo) => p[x].entries[f] = Before[f]
        /\ f \in Range(p[x].only) /\ f \notin Range(p[x].todo) => Added(x, f)
        /\ f = h => Before[f] # None \/ f \notin ignored
    BY <1>1, <1>3, <1>7, Zenon DEF ProcInv, FileInv
  <2>2. Before' = Before
    BY <1>3, Zenon DEF Before
  <2>3. CASE f = h
    <3>1. p'[x].entries[f] = new
      BY <1>3, <1>4, <1>5, <2>3, Zenon
    <3>2. Added(x, f)'
      BY <1>3, <1>6, <2>1, <2>2, <2>3, <3>1, Zenon DEF Added
    <3>3. f \notin Range(p'[x].todo)
      BY <1>3, <1>4, <2>3, Zenon
    <3> QED BY <1>3, <3>2, <3>3, Zenon DEF FileInv
  <2>4. CASE f # h
    <3>1. p'[x].entries[f] = p[x].entries[f]
      BY <1>3, <1>5, <2>4, Zenon
    <3>2. Added(x, f) => Added(x, f)'
      BY <1>3, <2>2, <3>1, Zenon DEF Added
    <3>3. f \in Range(p'[x].todo) <=> f \in Range(p[x].todo)
      BY <1>3, <1>4, <2>4, Zenon
    <3> QED BY <1>3, <2>1, <2>2, <3>1, <3>2, <3>3, Zenon DEF FileInv
  <2> QED BY <2>3, <2>4, Zenon
<1>8. Steady(x)'
  BY <1>3, <1>4, Zenon DEF Steady
<1> QED BY <1>7, <1>8, Zenon DEF ProcInv

\* The command begins with the entries of the index file.
LEMMA OpenInv ==
    ASSUME Types, NEW x \in Proc, ProcInv(x), Open(x)
    PROVE  ProcInv(x)'
<1>1. p[x].pc = "open" /\ UNCHANGED <<ignored, files, saved, odb>>
  BY Zenon DEF Open
<1>2. CASE p'[x] = Idle
  BY <1>2 DEF Idle, ProcInv, Steady, FileInv
<1>3. CASE p'[x] # Idle
  <2>1. /\ p'[x].pc = IF p[x].cmd = "add" THEN "add" ELSE "diff"
        /\ p'[x].entries = IF saved = None THEN p[x].entries ELSE saved.entries
        /\ p'[x].todo = p[x].only /\ p'[x].only = p[x].only
        /\ p'[x].deleted = p[x].deleted /\ p'[x].modified = p[x].modified
        /\ p'[x].new = p[x].new
    BY <1>3, OpenTakes, Zenon
  <2>2. /\ p[x].entries = [f \in File |-> None]
        /\ p[x].deleted = {} /\ p[x].modified = <<>> /\ p[x].new = <<>>
    BY <1>1, Zenon DEF ProcInv, Steady
  <2>3. p'[x].entries = Before' /\ Before' = Before
    BY <1>1, <2>1, <2>2, Zenon DEF Before
  <2>4. IsInjective(p[x].only) /\ (p[x].cmd # "add" => p[x].only = FileOrder)
    BY <1>1, StateFields, Zenon DEF Placed
  <2>5. \A f : ~Reported(x, f)'
    <3>1. Range(p'[x].modified) = {} /\ Range(p'[x].new) = {}
      BY <2>1, <2>2 DEF Range
    <3> QED BY <2>1, <2>2, <3>1, Zenon DEF Reported, ItemsOf
  <2>6. ASSUME NEW f \in File PROVE FileInv(x, f)'
    <3>1. CASE p[x].cmd = "add"
      BY <2>1, <2>3, <3>1, Zenon DEF FileInv
    <3>2. CASE p[x].cmd # "add"
      <4>1. p'[x].pc = "diff" /\ f \in Range(p'[x].todo)
        BY <2>1, <2>4, <3>2, Zenon DEF File
      <4>2. Waiting(x, f)'
        BY <2>3, <2>5, Zenon DEF Waiting
      <4> QED BY <4>1, <4>2, Zenon DEF FileInv
    <3> QED BY <3>1, <3>2, Zenon
  <2>7. Steady(x)'
    BY <2>1, <2>4, Zenon DEF Steady
  <2> QED BY <2>6, <2>7, Zenon DEF ProcInv
<1> QED BY <1>2, <1>3, Zenon

-----------------------------------------------------------------------------
(* The theorems *)

WorktreeInv == Types /\ Timely /\ WorkInv

LEMMA WorkInit == Init => WorkInv
<1> SUFFICES ASSUME Init, NEW x \in Proc PROVE ProcInv(x)
  BY Zenon DEF WorkInv
<1>1. p[x].pc = "idle"
  BY Zenon DEF Init, Idle
<1> QED BY <1>1, IdleInv, Zenon

LEMMA WorkStep ==
    ASSUME WorktreeInv, [Next]_vars
    PROVE  WorkInv'
<1> USE DEF WorktreeInv
<1>1. ASSUME NEW x \in Proc, p'[x].pc = "idle" PROVE ProcInv(x)'
  BY <1>1, Zenon DEF ProcInv, Steady, FileInv
<1>2. Idle.pc = "idle"
  BY Zenon DEF Idle
<1>3. CASE UNCHANGED vars \/ Tick
  <2>1. UNCHANGED <<ignored, files, saved, odb, p>>
    BY <1>3, Zenon DEF vars, Tick
  <2> QED BY <2>1, OthersKept, Zenon DEF WorkInv, Reports
<1>4. ASSUME NEW f \in File, UserWrites(f) \/ UserRemoves(f) PROVE WorkInv'
  <2>1. p' = Touch(f) /\ UNCHANGED <<ignored, saved, odb>>
    BY <1>4, Zenon DEF UserWrites, UserRemoves
  <2>2. ASSUME NEW g \in File \ {f} PROVE files'[g] = files[g]
    BY <1>4, Zenon DEF UserWrites, UserRemoves, Types
  <2>3. ASSUME NEW x \in Proc PROVE ProcInv(x)'
    <3>1. /\ p'[x].pc = p[x].pc /\ p'[x].todo = p[x].todo /\ p'[x].only = p[x].only
          /\ p'[x].entries = p[x].entries /\ p[x].touched \subseteq p'[x].touched
          /\ Reports(x, p[x].deleted, p[x].modified, p[x].new)
      BY <2>1, Touches, Zenon
    <3>2. Working(p[x]) => f \in p'[x].touched
      BY <2>1, Touches, Zenon DEF Working
    <3>3. ProcInv(x)
      BY Zenon DEF WorkInv
    <3>4. \A g \in File \ p'[x].touched : Working(p[x]) => files'[g] = files[g]
      BY <2>2, <3>2, Zenon
    <3> QED BY <2>1, <3>1, <3>3, <3>4, OthersKept, Zenon
  <2> QED BY <2>3, Zenon DEF WorkInv
<1>5. ASSUME NEW x \in Proc, Begin(x) PROVE WorkInv'
  <2>1. /\ Took(x) /\ p'[x].pc = "open" /\ p'[x].entries = [f \in File |-> None]
        /\ p'[x].deleted = {} /\ p'[x].modified = <<>> /\ p'[x].new = <<>>
    BY <1>5, BeginTakes, Zenon
  <2>2. ProcInv(x)'
    BY <2>1, Zenon DEF ProcInv, Steady, FileInv
  <2> QED BY <1>5, <2>1, <2>2, OneStepped, Zenon DEF Begin
<1>6. ASSUME NEW x \in Proc, Open(x) PROVE WorkInv'
  <2>1. ProcInv(x)'
    BY <1>6, OpenInv, Zenon DEF WorkInv
  <2> QED BY <1>6, <2>1, OpenTakes, OneStepped, Zenon DEF Open
<1>7. ASSUME NEW x \in Proc, DiffNext(x) PROVE WorkInv'
  <2>1. ProcInv(x)'
    BY <1>7, DiffNextInv, Zenon DEF WorkInv
  <2> QED BY <1>7, <2>1, DiffNextTakes, OneStepped, Zenon DEF DiffNext
<1>8. ASSUME NEW x \in Proc, HashFile(x), ~Fail(x) PROVE WorkInv'
  <2>1. ProcInv(x)'
    BY <1>8, HashFileInv, Zenon DEF WorkInv
  <2> QED BY <1>8, <2>1, HashFileTakes, OneStepped, Zenon
<1>9. ASSUME NEW x \in Proc, DiffEnd(x) PROVE WorkInv'
  <2>1. ProcInv(x)'
    BY <1>9, DiffEndInv, Zenon DEF WorkInv
  <2> QED BY <1>9, <2>1, DiffEndTakes, OneStepped, Zenon DEF DiffEnd
<1>10. ASSUME NEW x \in Proc, ApplyDeleted(x) PROVE WorkInv'
  <2>1. ProcInv(x)'
    BY <1>10, ApplyDeletedInv, Zenon DEF WorkInv
  <2> QED BY <1>10, <2>1, ApplyDeletedTakes, OneStepped, Zenon DEF ApplyDeleted
<1>11. ASSUME NEW x \in Proc, ApplyModified(x) \/ ApplyNew(x), ~Fail(x) PROVE WorkInv'
  <2>1. PICK item : /\ ItemAdded(x, item) /\ p[x].pc = "apply" /\ Took(x)
                    /\ p'[x].deleted = p[x].deleted
                    /\ \/ /\ p[x].modified # <<>> /\ item = Head(p[x].modified)
                          /\ p'[x].modified = Tail(p[x].modified) /\ p'[x].new = p[x].new
                       \/ /\ p[x].new # <<>> /\ item = Head(p[x].new)
                          /\ p'[x].modified = p[x].modified /\ p'[x].new = Tail(p[x].new)
    BY <1>11, ApplyModifiedTakes, ApplyNewTakes, Zenon DEF Reports
  <2>2. ProcInv(x)'
    BY <2>1, ItemAddedInv, Zenon DEF WorkInv
  <2> QED BY <2>1, <2>2, OneStepped, Zenon DEF ItemAdded
<1>12. ASSUME NEW x \in Proc, AddStat(x) PROVE WorkInv'
  <2>1. ProcInv(x)'
    BY <1>12, AddStatInv, Zenon DEF WorkInv
  <2> QED BY <1>12, <2>1, AddStatTakes, OneStepped, Zenon DEF AddStat
<1>13. ASSUME NEW x \in Proc, AddWrite(x), ~Fail(x) PROVE WorkInv'
  <2>1. ProcInv(x)'
    BY <1>13, AddWriteInv, Zenon DEF WorkInv
  <2> QED BY <1>13, <2>1, AddWriteTakes, OneStepped, Zenon
<1>14. ASSUME NEW x \in Proc, Fail(x) PROVE WorkInv'
  <2>1. Took(x) /\ ProcInv(x)'
    BY <1>1, <1>2, <1>14, FailTakes, Zenon
  <2> QED BY <1>14, <2>1, OneStepped, Zenon DEF Fail
<1>15. ASSUME NEW x \in Proc, Close(x) PROVE WorkInv'
  <2>1. Took(x) /\ ProcInv(x)'
    BY <1>1, <1>2, <1>15, CloseTakes, Zenon
  <2>2. \A y \in Proc \ {x} : ~Working(p[y])
    BY <1>15, Zenon DEF Close, Finished, Working, Types
  <2> QED BY <1>15, <2>1, <2>2, OneStepped, Zenon DEF Close
<1> QED BY <1>3, <1>4, <1>5, <1>6, <1>7, <1>8, <1>9, <1>10, <1>11, <1>12, <1>13, <1>14, <1>15, Zenon
        DEF Next

\* At every moment, of every file that nobody has touched since a command began:
\* what the command has of it is what its place in the work says (WorkInv);
\* only the holder of index.lock works, and time goes on.
THEOREM WorktreeInvariant == Spec => []WorktreeInv
<1>1. Init => WorktreeInv
  BY TypesInit, WorkInit, Zenon DEF WorktreeInv
<1>2. WorktreeInv /\ [Next]_vars => WorktreeInv'
  BY TypesStep, WorkStep, Zenon DEF WorktreeInv
<1> QED BY <1>1, <1>2, PTL DEF Spec

\* The diff has something for a file if and only if the file is in the report.
LEMMA ReportedIsInReport ==
    ASSUME Types, NEW x \in Proc, NEW f \in File
    PROVE  InReport(x, f) <=> Reported(x, f)
<1> DEFINE items == Range(p[x].modified) \cup Range(p[x].new)
<1>1. items \subseteq File \X NewEntry
  BY StateFields, Elements, Zenon
<1> HIDE DEF items
<1>2. \A i \in items : i[1] \in File /\ i[2] \in NewEntry /\ i = <<i[1], i[2]>>
  BY <1>1
<1>3. (\E i \in items : i[1] = f) <=> \E e \in NewEntry : <<f, e>> \in items
  BY <1>2, Zenon
<1> QED BY <1>3, Zenon DEF InReport, Reported, ItemsOf, items

\* What status reports of a file nobody touched since it began is right: every
\* change that is not hidden, and nothing but changes, replaced files and files
\* that were written while they were added (BitIndex::status, has_changes).
THEOREM StatusReportsRight == Spec => []StatusIsRight
<1>1. WorktreeInv => StatusIsRight
  <2> SUFFICES ASSUME WorktreeInv PROVE StatusIsRight
    OBVIOUS
  <2>1. TypeOK
    BY StateFields DEF WorktreeInv, Types, Timely, TypeOK, Working, IndexFile
  <2>2. ASSUME NEW x \in Proc, p[x].pc = "reported", NEW f \in File \ p[x].touched
        PROVE  /\ Changed(f, Before) /\ ~Hidden(f) => InReport(x, f)
               /\ InReport(x, f) => Changed(f, Before) \/ Replaced(f) \/ Torn(f)
    <3>1. Compared(x, f)
      BY <2>2, Zenon DEF WorktreeInv, WorkInv, ProcInv, FileInv
    <3> QED BY <3>1, ReportedIsInReport, Zenon DEF WorktreeInv, Compared
  <2> QED BY <2>1, <2>2, Zenon DEF StatusIsRight, Before, Replaced, Torn
<1> QED BY <1>1, WorktreeInvariant, PTL

\* When add_all or add is done, the index has what the files nobody touched
\* have, but for hidden changes; no ignored file was begun to be tracked, and
\* what add was given is stored (apply_diff, BitIndex::add, add_entry).
THEOREM AddsMatch == Spec => []AddMatches
<1>1. WorktreeInv => AddMatches
  <2> SUFFICES ASSUME WorktreeInv, NEW x \in Proc, p[x].cmd \in {"add", "add_all"}, Finished(x),
                      NEW f \in Range(p[x].only) \ p[x].touched
               PROVE  LET tracked == saved # None /\ saved.entries[f] # None
                          absent == p[x].entries[f] = None
                      IN  CASE f \in ignored /\ ~tracked -> absent
                            [] p[x].cmd = "add_all" -> Changed(f, p[x].entries) => Hidden(f)
                            [] OTHER -> files[f] # None =>
                                  ~absent /\ ~Changed(f, p[x].entries) /\ files[f].data \in odb
    BY Zenon DEF AddMatches
  <2>1. f \in File
    BY StateFields, Elements, Zenon DEF WorktreeInv
  <2>2. (saved # None /\ saved.entries[f] # None) <=> Before[f] # None
    BY <2>1, Zenon DEF Before
  <2>3. CASE p[x].cmd = "add_all"
    <3>1. p[x].pc = "apply" /\ p[x].modified = <<>> /\ p[x].new = <<>>
      BY <2>3, StateFields, Zenon DEF WorktreeInv, Finished, Placed
    <3>2. Applied(x, f)
      BY <2>1, <3>1, Zenon DEF WorktreeInv, WorkInv, ProcInv, FileInv
    <3>3. ItemsOf(x, f) = {}
      <4>1. Range(p[x].modified) = {} /\ Range(p[x].new) = {}
        BY <3>1 DEF Range
      <4> QED BY <4>1, Zenon DEF ItemsOf
    <3> QED BY <2>2, <2>3, <3>2, <3>3, Zenon DEF Applied
  <2>4. CASE p[x].cmd = "add"
    <3>1. p[x].pc = "add" /\ p[x].todo = <<>>
      BY <2>4, StateFields, Zenon DEF WorktreeInv, Finished, Placed
    <3>2. f \notin Range(p[x].todo)
      BY <3>1 DEF Range
    <3>3. Added(x, f)
      BY <2>1, <3>1, <3>2, Zenon DEF WorktreeInv, WorkInv, ProcInv, FileInv
    <3> QED BY <2>2, <2>4, <3>3, Zenon DEF Added, Changed
  <2> QED BY <2>3, <2>4, Zenon
<1> QED BY <1>1, WorktreeInvariant, PTL

=============================================================================
