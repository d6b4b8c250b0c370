-------------------------------- MODULE RefDb --------------------------------
(****************************************************************************)
(* References, reflogs, the revisions that name commits by them (rev.rs)    *)
(* and the commands that move them (refs/refdb.rs, commit.rs, reset.rs,     *)
(* merge.rs, and the update functions of repo.rs), run by several bit       *)
(* processes in one repository, or by one after the other.                  *)
(*                                                                          *)
(* Each step of a command is one access under a lockfile (Lockfile.tla).    *)
(* Nobody waits for a lock: an access that finds its lockfile taken fails,  *)
(* and with it the command.  The index lock is taken once and kept until    *)
(* the process ends; the locks of refs and reflogs are held for the one     *)
(* access, so another process that is running, or was killed, may hold any  *)
(* of them.  The lock of a file that is written is gone with the rename that *)
(* puts it in its place, when what was written is still in the writer's     *)
(* buffer: the file is empty until the writer's next step, which flushes it. *)
(* Following HEAD to the commit its branch names, two reads in the code, is *)
(* one step.                                                                *)
(*                                                                          *)
(* What is in the working tree and the index is left out: whether there is  *)
(* anything to commit, and whether a checkout conflicts, is a free choice.  *)
(****************************************************************************)
EXTENDS Integers, Sequences

CONSTANTS
    Proc,
    Branch,
    Master,      \* the branch a new repository's HEAD names
    Suffixes,    \* what may follow the base of a revision: sequences of <<kind, number>>
    Bound,       \* whether commands run alone or not: how many commits, and how
                 \* long a reflog may be when a command begins
    Fault,       \* what may go wrong unless they run alone: "kill", "signature"
    None

ASSUME RefDbAssumption ==
    /\ Master \in Branch
    /\ Bound \in [BOOLEAN -> [commits : Nat, log : Nat]]
    /\ \A suffixes \in Suffixes : suffixes \in Seq({"^", "~", "@"} \X Nat)
    /\ Fault \subseteq {"kill", "signature"}
    /\ None \notin Branch \cup Proc
    /\ "HEAD" \notin Branch

VARIABLES
    alone,      \* whether a command begins only when no other one runs
    parents,    \* parents[c] are the parents of commit c
    refs,       \* what was written to each ref file
    logs,       \* and to each reflog
    torn,       \* the process that has to flush it yet: until then the file is
                \* empty; None if there is none
    lost,       \* history: the refs whose reflog was read for an update, or its
                \* writer killed, while it was empty
    indexLock,  \* the process that holds the index lock, or None
    pc, cmd,
    sym,        \* the ref the command updates
    to,         \* what it sets it to
    oid,        \* the commit it resolved last, 0 if the ref does not resolve
    onHead      \* whether HEAD has named sym ever since the command set it

vars == <<alone, parents, refs, logs, torn, lost, indexLock, pc, cmd, sym, to, oid, onHead>>
files == <<torn, lost>>
shared == <<alone, parents, refs, logs, files, indexLock>>

-----------------------------------------------------------------------------
(* References *)

Ref == {"HEAD"} \cup Branch
Commits == 1..Len(parents)

Direct(c) == [kind |-> "direct", oid |-> c, ref |-> None]
Symbolic(r) == [kind |-> "symbolic", oid |-> 0, ref |-> r]
Missing == [kind |-> "missing", oid |-> 0, ref |-> None]

\* The commit a reference fully resolves to, 0 if it names a branch that does
\* not exist yet.  HEAD is the only file that holds a symbolic ref.
ResolveRef(r) == IF r.kind = "symbolic" THEN refs[r.ref].oid ELSE r.oid

ResolveHead == ResolveRef(refs["HEAD"])

\* An empty ref file exists, but reading it is an error: it is no ref.
File == {"ref", "log"} \X Ref
Whole(r) == torn[<<"ref", r>>] = None
Readable(r) == r.kind = "symbolic" => Whole(r.ref)
HeadReadable == Whole("HEAD") /\ Readable(refs["HEAD"])

\* An empty reflog is one without entries.
LoadLog(r) == IF torn[<<"log", r>>] = None THEN logs[r] ELSE <<>>

\* The ref that "the current branch" is: HEAD itself when it is detached.
CurrentRef == IF refs["HEAD"].kind = "symbolic" THEN refs["HEAD"].ref ELSE "HEAD"

-----------------------------------------------------------------------------
(* Revisions: a base, which is HEAD, a branch or a commit, and suffixes.  A *)
(* revision that does not resolve, an error, is Missing.                    *)

\* HEAD is read once, even if it names no branch; the name of a branch must
\* be one of a ref that exists.
ResolveName(r) ==
    IF r = "HEAD" THEN IF Whole("HEAD") THEN refs["HEAD"] ELSE Missing
    ELSE IF refs[r] = Missing THEN Missing ELSE Symbolic(r)

Bases == {Direct(c) : c \in Commits} \cup {ResolveName(r) : r \in Ref}

GetNthParent(r, n) ==
    LET c == ResolveRef(r)
    IN  IF c = 0 \/ ~Readable(r) THEN Missing
        ELSE IF n = 0 THEN Direct(c)
        ELSE IF n > Len(parents[c]) THEN Missing ELSE Direct(parents[c][n])

\* Entries counted from the oldest.
ReflogFromOldest(r, n) ==
    IF r.kind # "symbolic" \/ refs[r.ref] = Missing \/ n >= Len(LoadLog(r.ref)) THEN Missing
    ELSE Direct(LoadLog(r.ref)[n + 1])

\* The newest entry is the last one.
ReflogGet(r, n) ==
    IF r.kind # "symbolic" \/ refs[r.ref] = Missing \/ n >= Len(LoadLog(r.ref)) THEN Missing
    ELSE Direct(LoadLog(r.ref)[Len(LoadLog(r.ref)) - n])

ResolveSuffix(r, kind, n) ==
    LET Ancestor[i \in 0..n] == IF i = 0 THEN r ELSE GetNthParent(Ancestor[i - 1], 1)
    IN  CASE kind = "^" -> GetNthParent(r, n)
          [] kind = "~" -> Ancestor[n]
          [] kind = "@" -> ReflogGet(r, n)

ResolveRev(base, suffixes) ==
    LET upTo[i \in 0..Len(suffixes)] ==
            IF i = 0 THEN base
            ELSE ResolveSuffix(upTo[i - 1], suffixes[i][1], suffixes[i][2])
    IN  upTo[Len(suffixes)]

\* What the revisions resolve to that name a commit in the end.
Revisions ==
    {r \in {ResolveRev(base, suffixes) : base \in Bases, suffixes \in Suffixes} :
        ResolveRef(r) # 0 /\ Readable(r)}

-----------------------------------------------------------------------------
(* Processes *)

Running(p) == pc[p] \notin {"idle", "dead"}

\* A lockfile of a ref or reflog may exist because someone else made it.
MayBeLocked(p) == \E q \in Proc \ {p} : pc[q] # "idle"

Goto(p, label) == pc' = [pc EXCEPT ![p] = label]

\* A process that ends, or is killed, leaves none of its own state.
Forget(p, label) ==
    /\ Goto(p, label)
    /\ cmd' = [cmd EXCEPT ![p] = "none"]
    /\ sym' = [sym EXCEPT ![p] = "HEAD"]
    /\ to' = [to EXCEPT ![p] = Missing]
    /\ oid' = [oid EXCEPT ![p] = 0]

\* The index lock is released with the repository.
End(p) == /\ Forget(p, "idle")
          /\ indexLock' = IF indexLock = p THEN None ELSE indexLock

Leave(p) == End(p) /\ onHead' = [onHead EXCEPT ![p] = FALSE]

\* HEAD may have been rewritten.
KeepOnHead(p) ==
    onHead' = [q \in Proc |-> (q = p \/ onHead[q]) /\ refs'["HEAD"] = Symbolic(sym[q])]

\* Where a process has a file to flush.
Flushing == {"flushref", "flushhead", "flushheadlog", "flushlog"}

\* The rename that replaces a file leaves it empty; what is flushed is lost if
\* another process has replaced the file since.
Replace(p, file) == torn' = [torn EXCEPT ![file] = p]
Flush(p, file) == torn' = [torn EXCEPT ![file] = IF torn[file] = p THEN None ELSE torn[file]]

\* An access whose lockfile is taken ends the command with an error, and so does
\* reading a ref that someone else has not flushed, or never will.
Locked(p) ==
    /\ Running(p) /\ pc[p] \notin Flushing
    /\ MayBeLocked(p)
    /\ Leave(p)
    /\ UNCHANGED <<alone, parents, refs, logs, files>>

\* Its lockfiles stay behind, and a file it has not flushed stays empty.
Killed(p) ==
    /\ "kill" \in Fault /\ ~alone
    /\ Running(p)
    /\ Forget(p, "dead")
    /\ onHead' = [onHead EXCEPT ![p] = FALSE]
    /\ lost' = lost \cup {r \in Ref : torn[<<"log", r>>] = p}
    /\ UNCHANGED <<alone, parents, refs, logs, torn, indexLock>>

Begin(p, c, label) ==
    /\ pc[p] = "idle"
    /\ alone => \A q \in Proc : pc[q] = "idle"
    /\ \A r \in Ref : Len(logs[r]) < Bound[alone].log
    /\ cmd' = [cmd EXCEPT ![p] = c]
    /\ Goto(p, label)
    /\ UNCHANGED <<shared, onHead>>

-----------------------------------------------------------------------------
(* commit *)

CommitReadHead(p) ==
    /\ Begin(p, "commit", "parent")
    /\ Whole("HEAD")
    /\ sym' = [sym EXCEPT ![p] = CurrentRef]
    /\ UNCHANGED <<to, oid>>

\* A commit that forgets its parent.
CommitRootless(p) ==
    /\ pc[p] = "parent"
    /\ oid' = [oid EXCEPT ![p] = 0]
    /\ Goto(p, "tree")
    /\ UNCHANGED <<shared, cmd, sym, to, onHead>>

CommitParent(p) ==
    /\ pc[p] = "parent"
    /\ Whole(sym[p]) /\ Readable(refs[sym[p]])
    /\ oid' = [oid EXCEPT ![p] = ResolveRef(refs[sym[p]])]
    /\ Goto(p, "tree")
    /\ UNCHANGED <<shared, cmd, sym, to, onHead>>

\* write_tree takes the index lock.
CommitTree(p) ==
    /\ pc[p] = "tree"
    /\ indexLock = None
    /\ indexLock' = p
    /\ Goto(p, "write")
    /\ UNCHANGED <<alone, parents, refs, logs, files, cmd, sym, to, oid, onHead>>

\* The tree is HEAD's tree, or there are conflicts: the command bails out.
NothingToCommit(p) ==
    /\ pc[p] = "write"
    /\ cmd[p] = "commit"
    /\ Leave(p)
    /\ UNCHANGED <<alone, parents, refs, logs, files>>

\* The ref moves before the object is in the database.
CommitSetFirst(p) ==
    /\ pc[p] = "write"
    /\ cmd[p] = "commit"
    /\ Len(parents) < Bound[alone].commits
    /\ refs' = [refs EXCEPT ![sym[p]] = Direct(Len(parents) + 1)]
    /\ to' = [to EXCEPT ![p] = Direct(Len(parents) + 1)]
    /\ Goto(p, "set")
    /\ UNCHANGED <<alone, parents, logs, files, indexLock, cmd, sym, oid, onHead>>

CommitWrite(p) ==
    /\ pc[p] = "write"
    /\ cmd[p] = "commit"
    /\ Len(parents) < Bound[alone].commits
    /\ parents' = Append(parents, IF oid[p] = 0 THEN <<>> ELSE <<oid[p]>>)
    /\ to' = [to EXCEPT ![p] = Direct(Len(parents) + 1)]
    /\ Goto(p, "set")
    /\ UNCHANGED <<alone, refs, logs, files, indexLock, cmd, sym, oid, onHead>>

-----------------------------------------------------------------------------
(* checkout, reset, branch *)

\* checkout of a revision.
CheckoutResolve(p) ==
    /\ Begin(p, "checkout", "checkout")
    /\ sym' = [sym EXCEPT ![p] = "HEAD"]
    /\ \E r \in Revisions :
          /\ to' = [to EXCEPT ![p] = r]
          /\ oid' = [oid EXCEPT ![p] = ResolveRef(r)]

\* The index and the working tree are brought to the target, under the index
\* lock, before HEAD moves; or it conflicts and the command fails.
CheckoutTree(p) ==
    /\ pc[p] = "checkout"
    /\ indexLock = None
    /\ indexLock' = p
    /\ Goto(p, IF cmd[p] = "reset" THEN "current" ELSE "set")
    /\ UNCHANGED <<alone, parents, refs, logs, files, cmd, sym, to, oid, onHead>>

CheckoutConflict(p) ==
    /\ pc[p] = "checkout"
    /\ indexLock = None
    /\ Leave(p)
    /\ UNCHANGED <<alone, parents, refs, logs, files>>

\* A soft reset moves the current branch and nothing else; a mixed or a hard
\* one first writes the index, or the index and the working tree.  The
\* repository is never in the Merging state: nothing writes MERGE_HEAD.
ResetResolve(p) ==
    /\ \E label \in {"current", "checkout"} : Begin(p, "reset", label)
    /\ \E c \in {ResolveRef(r) : r \in Revisions} :
          /\ to' = [to EXCEPT ![p] = Direct(c)]
          /\ oid' = [oid EXCEPT ![p] = c]
    /\ UNCHANGED sym

UpdateCurrentRef(p) ==
    /\ pc[p] = "current"
    /\ Whole("HEAD")
    /\ sym' = [sym EXCEPT ![p] = CurrentRef]
    /\ Goto(p, "set")
    /\ UNCHANGED <<shared, cmd, to, oid, onHead>>

\* The new branch must not exist; HEAD is resolved in another access.
CreateBranch(p) ==
    /\ Begin(p, "branch", "from")
    /\ \E b \in Branch :
          /\ refs[b] = Missing
          /\ sym' = [sym EXCEPT ![p] = b]
    /\ UNCHANGED <<to, oid>>

CreateFrom(p) ==
    /\ pc[p] = "from"
    /\ HeadReadable
    /\ oid' = [oid EXCEPT ![p] = ResolveHead]
    /\ IF ResolveHead # 0
       THEN /\ to' = [to EXCEPT ![p] = Direct(ResolveHead)]
            /\ Goto(p, "set")
       ELSE /\ Goto(p, "unborn")
            /\ UNCHANGED to
    /\ UNCHANGED <<shared, cmd, sym, onHead>>

\* On an empty branch, only the name in HEAD changes; nothing is logged.
CreateUnborn(p) ==
    /\ pc[p] = "unborn"
    /\ refs' = [refs EXCEPT !["HEAD"] = Symbolic(sym[p])]
    /\ Replace(p, <<"ref", "HEAD">>)
    /\ KeepOnHead(None)
    /\ Goto(p, "flushhead")
    /\ UNCHANGED <<alone, parents, logs, lost, indexLock, cmd, sym, to, oid>>

FlushUnborn(p) ==
    /\ pc[p] = "flushhead"
    /\ Flush(p, <<"ref", "HEAD">>)
    /\ Leave(p)
    /\ UNCHANGED <<alone, parents, refs, logs, lost>>

-----------------------------------------------------------------------------
(* merge *)

Ancestors[c \in Commits] == {c} \cup UNION {Ancestors[parents[c][i]] : i \in 1..Len(parents[c])}

\* The revision is resolved to a ref, and HEAD to our commit.
MergeResolve(p) ==
    /\ Begin(p, "merge", "theirs")
    /\ HeadReadable /\ ResolveHead # 0
    /\ oid' = [oid EXCEPT ![p] = ResolveHead]
    /\ \E r \in Revisions : to' = [to EXCEPT ![p] = r]
    /\ UNCHANGED sym

\* Their commit is read and, under the index lock, merged into the working tree
\* and the index.
MergeTheirs(p) ==
    LET theirs == ResolveRef(to[p])
    IN  /\ pc[p] = "theirs"
        /\ Readable(to[p])
        /\ indexLock = None
        /\ oid[p] \in Ancestors[theirs] \ {theirs}
        /\ indexLock' = p
        /\ Goto(p, "ff")
        /\ UNCHANGED <<alone, parents, refs, logs, files, cmd, sym, to, oid, onHead>>

\* no_ff, or their histories differ.
MergeTrees(p) ==
    LET theirs == ResolveRef(to[p])
    IN  /\ pc[p] = "theirs"
        /\ Readable(to[p])
        /\ indexLock = None
        /\ theirs \notin Ancestors[oid[p]]
        /\ indexLock' = p
        /\ to' = [to EXCEPT ![p] = Direct(theirs)]
        /\ Goto(p, "mergecommit")
        /\ UNCHANGED <<alone, parents, refs, logs, files, cmd, sym, oid, onHead>>

\* There is nothing to merge or it is refused; there are conflicts, or no_commit.
MergeStops(p) ==
    /\ pc[p] \in {"theirs", "mergecommit"}
    /\ indexLock \in {None, p}
    /\ Leave(p)
    /\ UNCHANGED <<alone, parents, refs, logs, files>>

\* A fast-forward resolves the ref again.
MergeFastForward(p) ==
    /\ pc[p] = "ff"
    /\ Readable(to[p])
    /\ to' = [to EXCEPT ![p] = Direct(ResolveRef(to[p]))]
    /\ Goto(p, "current")
    /\ UNCHANGED <<shared, cmd, sym, oid, onHead>>

MergeCommit(p) ==
    /\ pc[p] = "mergecommit"
    /\ Len(parents) < Bound[alone].commits
    /\ parents' = Append(parents, <<oid[p], to[p].oid>>)
    /\ to' = [to EXCEPT ![p] = Direct(Len(parents) + 1)]
    /\ Goto(p, "current")
    /\ UNCHANGED <<alone, refs, logs, files, indexLock, cmd, sym, oid, onHead>>

-----------------------------------------------------------------------------
(* update: set the ref, then record the update in the reflogs *)

SetRef(p) ==
    /\ pc[p] = "set"
    /\ refs' = [refs EXCEPT ![sym[p]] = to[p]]
    /\ Replace(p, <<"ref", sym[p]>>)
    /\ KeepOnHead(p)
    /\ Goto(p, "flushref")
    /\ UNCHANGED <<alone, parents, logs, lost, indexLock, cmd, sym, to, oid>>

FlushRef(p) ==
    /\ pc[p] = "flushref"
    /\ Flush(p, <<"ref", sym[p]>>)
    /\ Goto(p, "resolve")
    /\ UNCHANGED <<alone, parents, refs, logs, lost, indexLock, cmd, sym, to, oid, onHead>>

UpdateResolve(p) ==
    /\ pc[p] = "resolve"
    /\ Readable(to[p])
    /\ oid' = [oid EXCEPT ![p] = ResolveRef(to[p])]
    /\ Goto(p, "head")
    /\ UNCHANGED <<shared, cmd, sym, to, onHead>>

\* The committer cannot be determined: the ref has moved, the command fails.
NoSignature(p) ==
    /\ "signature" \in Fault /\ ~alone
    /\ pc[p] = "head"
    /\ Leave(p)
    /\ UNCHANGED <<alone, parents, refs, logs, files>>

\* HEAD's log records the update too when HEAD names the ref.
UpdateReadHead(p) ==
    /\ pc[p] = "head"
    /\ Whole("HEAD")
    /\ Goto(p, IF refs["HEAD"] = Symbolic(sym[p]) THEN "loghead" ELSE "log")
    /\ UNCHANGED <<shared, cmd, sym, to, oid, onHead>>

\* append: an entry's old oid is the new oid of the entry before it, so that
\* the sequence of new oids is all there is to a log.  The log is read, extended
\* and replaced under its lock.
AppendLog(p, r, c) ==
    /\ logs' = [logs EXCEPT ![r] = Append(LoadLog(r), c)]
    /\ lost' = IF torn[<<"log", r>>] = None THEN lost ELSE lost \cup {r}
    /\ Replace(p, <<"log", r>>)

LogHead(p) ==
    /\ pc[p] = "loghead"
    /\ AppendLog(p, "HEAD", oid[p])
    /\ Goto(p, "flushheadlog")
    /\ UNCHANGED <<alone, parents, refs, indexLock, cmd, sym, to, oid, onHead>>

FlushHeadLog(p) ==
    /\ pc[p] = "flushheadlog"
    /\ Flush(p, <<"log", "HEAD">>)
    /\ Goto(p, "log")
    /\ UNCHANGED <<alone, parents, refs, logs, lost, indexLock, cmd, sym, to, oid, onHead>>

\* An update that is not recorded in the ref's own log.
LogSymSkipped(p) ==
    /\ pc[p] = "log"
    /\ Goto(p, "flushlog")
    /\ UNCHANGED <<shared, cmd, sym, to, oid, onHead>>

LogSym(p) ==
    /\ pc[p] = "log"
    /\ AppendLog(p, sym[p], oid[p])
    /\ Goto(p, "flushlog")
    /\ UNCHANGED <<alone, parents, refs, indexLock, cmd, sym, to, oid, onHead>>

\* The command is done.
FlushLog(p) ==
    /\ pc[p] = "flushlog"
    /\ Flush(p, <<"log", sym[p]>>)
    /\ Leave(p)
    /\ UNCHANGED <<alone, parents, refs, logs, lost>>

-----------------------------------------------------------------------------
Init ==
    /\ alone \in BOOLEAN
    /\ parents = <<>>
    /\ refs = [r \in Ref |-> IF r = "HEAD" THEN Symbolic(Master) ELSE Missing]
    /\ logs = [r \in Ref |-> <<>>]
    /\ torn = [file \in File |-> None]
    /\ lost = {}
    /\ indexLock = None
    /\ pc = [p \in Proc |-> "idle"]
    /\ cmd = [p \in Proc |-> "none"]
    /\ sym = [p \in Proc |-> "HEAD"]
    /\ to = [p \in Proc |-> Missing]
    /\ oid = [p \in Proc |-> 0]
    /\ onHead = [p \in Proc |-> FALSE]

Step(p) ==
    \/ CommitReadHead(p) \/ CommitParent(p) \/ CommitTree(p)
    \/ NothingToCommit(p) \/ CommitWrite(p)
    \/ CheckoutResolve(p) \/ CheckoutTree(p) \/ CheckoutConflict(p)
    \/ ResetResolve(p) \/ UpdateCurrentRef(p)
    \/ CreateBranch(p) \/ CreateFrom(p) \/ CreateUnborn(p) \/ FlushUnborn(p)
    \/ MergeResolve(p) \/ MergeTheirs(p) \/ MergeTrees(p) \/ MergeStops(p)
    \/ MergeFastForward(p) \/ MergeCommit(p)
    \/ SetRef(p) \/ FlushRef(p) \/ UpdateResolve(p) \/ UpdateReadHead(p)
    \/ LogHead(p) \/ FlushHeadLog(p) \/ LogSym(p) \/ FlushLog(p)
    \/ NoSignature(p) \/ Locked(p) \/ Killed(p)

Next == \E p \in Proc : Step(p)

Spec == Init /\ [][Next]_vars

-----------------------------------------------------------------------------
(* Properties *)

Target == [kind : {"direct", "symbolic", "missing"}, oid : Nat, ref : Branch \cup {None}]

\* The variables have their types.
TypeOK ==
    /\ alone \in BOOLEAN
    /\ parents \in Seq(Seq(Nat))
    /\ refs \in [Ref -> Target]
    /\ logs \in [Ref -> Seq(Nat)]
    /\ indexLock \in Proc \cup {None}
    /\ pc \in [Proc -> Flushing \cup {"idle", "dead", "parent", "tree", "write", "checkout", "current", "from", "unborn",
                                     "theirs", "ff", "mergecommit", "set", "resolve", "head", "loghead", "log"}]
    /\ cmd \in [Proc -> {"none", "commit", "checkout", "reset", "branch", "merge"}]
    /\ sym \in [Proc -> Ref]
    /\ to \in [Proc -> Target]
    /\ oid \in [Proc -> Nat]
    /\ onHead \in [Proc -> BOOLEAN]

\* The file that a process has to flush, by where it is and the ref it updates.
MustFlush(label, s, file) ==
    \/ label = "flushref" /\ file = <<"ref", s>>
    \/ label = "flushhead" /\ file = <<"ref", "HEAD">>
    \/ label = "flushheadlog" /\ file = <<"log", "HEAD">>
    \/ label = "flushlog" /\ file = <<"log", s>>

EmptyInFlight ==
    /\ torn \in [File -> Proc \cup {None}]
    /\ lost \subseteq Ref
    /\ \A file \in File : \A p \in Proc :
          torn[file] = p => pc[p] = "dead" \/ MustFlush(pc[p], sym[p], file)

\* Wherever processes are interrupted, the state is well formed.  A ref or a
\* reflog is empty only while the process that replaced it last has to flush it,
\* or because it was killed before it did (Lockfile::commit, drop).  Otherwise
\* HEAD names a branch or a commit, a branch that exists names a commit, every
\* commit named by a ref, by a reflog or as a parent has been written, and only
\* HEAD is symbolic (set_ref validates before it writes, and commit writes the
\* object first).
RefsResolve ==
    /\ TypeOK
    /\ EmptyInFlight
    /\ refs["HEAD"].kind # "missing"
    /\ \A b \in Branch : refs[b].kind # "symbolic"
    /\ \A r \in Ref : refs[r].kind = "direct" => refs[r].oid \in Commits
    /\ \A r \in Ref : \A i \in 1..Len(logs[r]) : logs[r][i] \in Commits
    /\ \A c \in Commits : \A i \in 1..Len(parents[c]) : parents[c][i] \in 1..(c - 1)

Logged(r, c) == \E i \in 1..Len(logs[r]) : logs[r][i] = c

\* A commit or a merge that is reported done is in the log of the ref it moved,
\* whoever else moved it meanwhile, and in HEAD's log too if HEAD named that ref
\* all along: it can be found again by reflog even when another process's
\* update has overwritten it (refdb.rs:165-183).  The one exception is a log that
\* was empty when a process read it to append to it, because the one that
\* replaced it last had not flushed it yet or was killed before it did.
DoneIsLogged ==
    [][\A p \in Proc : (FlushLog(p) /\ cmd[p] \in {"commit", "merge"}) =>
          /\ sym[p] \notin lost => Logged(sym[p], to[p].oid)
          /\ onHead[p] /\ "HEAD" \notin lost => Logged("HEAD", to[p].oid)]_vars

Quiet == \A p \in Proc : pc[p] = "idle"
Newest == <<<<"@", 0>>>>

\* When commands run one at a time, the newest entry of HEAD's log is the commit
\* HEAD is at, and r@{0} resolves to what r does, for HEAD while it names a
\* branch and for every branch, whatever was committed, checked out, reset,
\* branched or merged before (update, append, resolve_rev_internal).
LogIsCurrent ==
    alone /\ Quiet =>
        /\ ResolveHead # 0 =>
              /\ logs["HEAD"] # <<>> /\ logs["HEAD"][Len(logs["HEAD"])] = ResolveHead
              /\ CurrentRef # "HEAD" => ResolveRev(ResolveName("HEAD"), Newest) = Direct(ResolveHead)
        /\ \A b \in Branch : refs[b] # Missing => ResolveRev(ResolveName(b), Newest) = refs[b]

\* When commands run one at a time, a commit moves its branch, or the detached
\* HEAD, from the commit's parent to the commit, and a merge moves it to a
\* descendant: what was on a branch stays on it.
CommitExtends ==
    [][\A p \in Proc : \A r \in Ref :
          (alone /\ pc[p] = "set" /\ refs'[r] # refs[r]) =>
              /\ cmd[p] = "commit" =>
                    parents[refs'[r].oid] = IF refs[r] = Missing THEN <<>> ELSE <<refs[r].oid>>
              /\ cmd[p] = "merge" => refs[r].oid \in Ancestors[refs'[r].oid]]_vars

=============================================================================
