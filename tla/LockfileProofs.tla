--------------------------- MODULE LockfileProofs ---------------------------
(* Proofs about lockfile transactions, for any processes, paths and faults. *)
EXTENDS Lockfile, TLAPS

(***************************************************************************)
(* The lockfile invariant.  Besides DropNeverPanics and TargetStable it    *)
(* says which inodes belong to whom: the lockfiles of different processes  *)
(* differ, a committed process is past its rename, and a holder's lockfile *)
(* has no other name.                                                      *)
(***************************************************************************)
Owned ==
    /\ \A p \in Proc : pc[p] # "idle" => ino[p] \in Inode
    /\ \A p \in Proc : p \in committed => pc[p] \in {"renamed", "drop"}
    /\ \A p \in Proc : pc[p] = "renamed" => p \in committed
    /\ \A p \in Proc : p \in rolledBack => pc[p] = "drop"
    /\ \A p, q \in Proc :
          p # q /\ pc[p] # "idle" /\ pc[q] # "idle" => ino[p] # ino[q]

LockInv == TypeOK /\ Owned /\ DropNeverPanics /\ TargetStable

\* Initially nobody holds a lock.
LEMMA InitLockInv == Init => LockInv
BY LockfileAssumption DEF Init, LockInv, TypeOK, Owned, DropNeverPanics,
   TargetStable, Contents, Holds, LockPath

\* A guarded file is never a lockfile: lockfile names end in ".lock".
LEMMA PathsApart ==
    ASSUME NEW f \in Path, NEW g \in Path
    PROVE  WithExtension(f) # g
<1>1. WithExtension(f).ext = "lock"
    BY Zenon DEF WithExtension
<1>2. g.ext # "lock"
    BY LockfileAssumption, Zenon
<1> QED BY <1>1, <1>2, Zenon

\* Every step keeps the types.
LEMMA TypeInductive == TypeOK /\ [Next]_vars => TypeOK'
<1> SUFFICES ASSUME TypeOK, [Next]_vars PROVE TypeOK'
    OBVIOUS
<1> USE DEF TypeOK, Contents, Goto, Report, disk, flags, LockOf, LockPath
<1>1. ASSUME NEW p \in Proc, NEW f \in Path, NEW m \in Mode,
             OpenCreate(p, f, m)
      PROVE  TypeOK'
    BY <1>1, Zenon DEF OpenCreate, FreeInode
<1>2. ASSUME NEW p \in Proc, NEW f \in Path, OpenLocked(p, f)
      PROVE  TypeOK'
    BY <1>2, Zenon DEF OpenLocked
<1>3. ASSUME NEW p \in Proc, Step(p)
      PROVE  TypeOK'
  <2>1. CASE OpenTarget(p)
    BY <2>1, Zenon DEF OpenTarget
  <2>2. CASE OpenTargetFails(p)
    BY <2>2, Zenon DEF OpenTargetFails, Done
  <2>3. CASE Load(p)
    BY <2>3, Zenon DEF Load
  <2>4. CASE LoadFails(p)
    BY <2>4, Zenon DEF LoadFails
  <2>5. CASE WithReadonly(p)
    BY <2>5, Zenon DEF WithReadonly
  <2>6. CASE WithMutOk(p)
    BY <2>6, Zenon DEF WithMutOk
  <2>7. CASE WithMutErr(p)
    BY <2>7, Zenon DEF WithMutErr
  <2>8. CASE DerefMut(p)
    BY <2>8, Zenon DEF DerefMut
  <2>9. CASE Rollback(p)
    BY <2>9, Zenon DEF Rollback
  <2>10. CASE FilelockDrop(p)
    BY <2>10, Zenon DEF FilelockDrop
  <2>11. CASE Rename(p)
    BY <2>11, Zenon DEF Rename
  <2>12. CASE RenameFails(p)
    BY <2>12, Zenon DEF RenameFails
  <2>13. CASE SetReadonly(p)
    BY <2>13, Zenon DEF SetReadonly
  <2>14. CASE SetReadonlyFails(p)
    BY <2>14, Zenon DEF SetReadonlyFails
  <2>15. CASE DropCleanup(p)
    BY <2>15, Zenon DEF DropCleanup, Done
  <2>16. CASE DropFlush(p)
    BY <2>16, Zenon DEF DropFlush, Done
  <2>17. CASE DropFlushFails(p)
    BY <2>17, Zenon DEF DropFlushFails, Done
  <2> QED BY <1>3, <2>1, <2>2, <2>3, <2>4, <2>5, <2>6, <2>7, <2>8, <2>9, <2>10, <2>11, <2>12, <2>13, <2>14, <2>15, <2>16, <2>17, Zenon DEF Step
<1>4. ASSUME NEW p \in Proc, Crash(p)
      PROVE  TypeOK'
    BY <1>4, Zenon DEF Crash, Done
<1>5. CASE UNCHANGED vars
    BY <1>5, Zenon DEF vars
<1> QED BY <1>1, <1>2, <1>3, <1>4, <1>5, Zenon DEF Next

\* Ending a transaction that holds no lock any more, or whose lock stays.
LEMMA EndStep ==
    ASSUME LockInv, TypeOK', NEW p \in Proc, Done(p), UNCHANGED entry
    PROVE  LockInv'
<1> USE DEF LockInv, TypeOK, Done, Goto
<1>1. Owned'
    BY DEF Owned
<1>2. DropNeverPanics'
    BY DEF DropNeverPanics, Owned, Holds, LockOf
<1>3. TargetStable'
    BY DEF TargetStable
<1> QED BY <1>1, <1>2, <1>3, Zenon

\* Every step keeps the lockfile invariant.
LEMMA LockInvInductive == LockInv /\ [Next]_vars => LockInv'
<1> SUFFICES ASSUME LockInv, [Next]_vars PROVE LockInv'
    OBVIOUS
<1> TypeOK'
    BY TypeInductive, Zenon DEF LockInv
<1>1. ASSUME NEW p \in Proc, NEW f \in Path, NEW m \in Mode,
             OpenCreate(p, f, m)
      PROVE  LockInv'
  <2> DEFINE i == CHOOSE i \in FreeInode : TRUE
  <2>1. i \in FreeInode
    BY <1>1, Zenon DEF OpenCreate
  <2> HIDE DEF i
  <2>2. /\ entry' = [entry EXCEPT ![WithExtension(f)] = i]
        /\ ino' = [ino EXCEPT ![p] = i]
    BY <1>1, Zenon DEF OpenCreate, i
  <2> USE DEF LockInv, TypeOK, OpenCreate, Goto, flags
  <2>3. Owned'
    BY <1>1, <2>1, <2>2, LockfileAssumption DEF Owned, FreeInode
  <2>4. \A q \in Proc : q # p /\ Holds(q) => LockOf(q) # WithExtension(f)
    BY <1>1, LockfileAssumption DEF DropNeverPanics, Owned, Holds, LockOf
  <2>5. DropNeverPanics'
    BY <1>1, <2>2, <2>4 DEF DropNeverPanics, Owned, Holds, LockOf, LockPath
  <2>6. TargetStable'
    BY <1>1, <2>2, PathsApart DEF TargetStable
  <2> QED BY <2>3, <2>5, <2>6, Zenon
<1>2. ASSUME NEW p \in Proc, NEW f \in Path, OpenLocked(p, f)
      PROVE  LockInv'
    BY <1>2 DEF OpenLocked, LockInv, TypeOK, Owned, DropNeverPanics,
       TargetStable, Holds, LockOf, disk, flags
<1>3. ASSUME NEW p \in Proc, Step(p)
      PROVE  LockInv'
  <2> USE DEF Goto, disk, flags
  <2>1. CASE OpenTarget(p)
    BY <2>1 DEF OpenTarget, LockInv, TypeOK, Owned, DropNeverPanics,
       TargetStable, Holds, LockOf
  <2>2. CASE LoadFails(p)
    BY <2>2 DEF LoadFails, LockInv, TypeOK, Owned, DropNeverPanics,
       TargetStable, Holds, LockOf
  <2>3. CASE WithReadonly(p)
    BY <2>3 DEF WithReadonly, LockInv, TypeOK, Owned, DropNeverPanics,
       TargetStable, Holds, LockOf
  <2>4. CASE WithMutOk(p)
    BY <2>4 DEF WithMutOk, LockInv, TypeOK, Owned, DropNeverPanics,
       TargetStable, Holds, LockOf
  <2>5. CASE WithMutErr(p)
    BY <2>5 DEF WithMutErr, LockInv, TypeOK, Owned, DropNeverPanics,
       TargetStable, Holds, LockOf
  <2>6. CASE DerefMut(p)
    BY <2>6 DEF DerefMut, LockInv, TypeOK, Owned, DropNeverPanics,
       TargetStable, Holds, LockOf
  <2>7. CASE Rollback(p)
    BY <2>7 DEF Rollback, LockInv, TypeOK, Owned, DropNeverPanics,
       TargetStable, Holds, LockOf
  <2>8. CASE FilelockDrop(p)
    BY <2>8 DEF FilelockDrop, LockInv, TypeOK, Owned, DropNeverPanics,
       TargetStable, Holds, LockOf
  <2>9. CASE RenameFails(p)
    BY <2>9 DEF RenameFails, LockInv, TypeOK, Owned, DropNeverPanics,
       TargetStable, Holds, LockOf
  <2>10. CASE SetReadonly(p)
    BY <2>10 DEF SetReadonly, LockInv, TypeOK, Owned, DropNeverPanics,
       TargetStable, Holds, LockOf
  <2>11. CASE SetReadonlyFails(p)
    BY <2>11 DEF SetReadonlyFails, LockInv, TypeOK, Owned, DropNeverPanics,
       TargetStable, Holds, LockOf
  <2>12. CASE Load(p)
    BY <2>12 DEF Load, LockInv, TypeOK, Owned, DropNeverPanics,
       TargetStable, Holds, LockOf
  <2>13. CASE Rename(p)
    <3> USE DEF LockInv, TypeOK, Rename
    <3>1. Owned'
      BY <2>13 DEF Owned
    <3>2. \A q \in Proc : q # p /\ Holds(q) =>
              LockOf(q) # LockOf(p) /\ target[q] # target[p]
      BY <2>13 DEF DropNeverPanics, Owned, Holds, LockOf
    <3>3. \A q \in Proc : target[q] # LockOf(p) /\ LockOf(q) # target[p]
      BY PathsApart, Zenon DEF LockOf
    <3>4. DropNeverPanics'
      BY <2>13, <3>2, <3>3 DEF DropNeverPanics, Owned, Holds, LockOf, LockPath
    <3>5. \A q \in Proc :
              pc'[q] \in {"load", "open", "commit"} => q # p /\ Holds(q)
      BY <2>13, Zenon DEF Owned, Holds
    <3>6. TargetStable'
      BY <2>13, <3>2, <3>3, <3>5, Zenon DEF TargetStable
    <3> QED BY <3>1, <3>4, <3>6, Zenon
  <2>14. CASE DropCleanup(p)
    <3> USE DEF LockInv, TypeOK, DropCleanup, Done
    <3>1. Owned'
      BY <2>14 DEF Owned
    <3>2. \A q \in Proc : q # p /\ Holds(q) => LockOf(q) # LockOf(p)
      BY <2>14 DEF DropNeverPanics, Owned, Holds, LockOf
    <3>3. DropNeverPanics'
      BY <2>14, <3>2 DEF DropNeverPanics, Owned, Holds, LockOf, LockPath
    <3>4. \A q \in Proc : target[q] # LockOf(p)
      BY PathsApart, Zenon DEF LockOf
    <3>5. TargetStable'
      BY <2>14, <3>4 DEF TargetStable
    <3> QED BY <3>1, <3>3, <3>5, Zenon
  <2>15. CASE OpenTargetFails(p)
    BY <2>15, EndStep, Zenon DEF OpenTargetFails
  <2>16. CASE DropFlush(p)
    BY <2>16, EndStep, Zenon DEF DropFlush
  <2>17. CASE DropFlushFails(p)
    BY <2>17, EndStep, Zenon DEF DropFlushFails
  <2> QED BY <1>3, <2>1, <2>2, <2>3, <2>4, <2>5, <2>6, <2>7, <2>8, <2>9, <2>10, <2>11, <2>12, <2>13, <2>14, <2>15, <2>16, <2>17, Zenon DEF Step
<1>4. ASSUME NEW p \in Proc, Crash(p)
      PROVE  LockInv'
    BY <1>4, EndStep, Zenon DEF Crash, disk
<1>5. CASE UNCHANGED vars
    BY <1>5, Zenon DEF vars, LockInv, TypeOK, Owned, DropNeverPanics, TargetStable,
       Holds, LockOf
<1> QED BY <1>1, <1>2, <1>3, <1>4, <1>5, Zenon DEF Next

(***************************************************************************)
(* DropNeverPanics and TargetStable hold of every behaviour, whatever      *)
(* faults occur: Lockfile::drop finds the lockfile it is to remove, and no *)
(* transaction overwrites a version of the file that it has not opened.    *)
(***************************************************************************)
THEOREM LockSafety == Spec => [](TypeOK /\ DropNeverPanics /\ TargetStable)
<1>1. LockInv => TypeOK /\ DropNeverPanics /\ TargetStable
    BY Zenon DEF LockInv
<1> QED BY <1>1, InitLockInv, LockInvInductive, PTL DEF Spec

(***************************************************************************)
(* What the holder of a lock opened is still the file under that name when *)
(* it renames (Lockfile::with_mode, Lockfile::commit).                     *)
(***************************************************************************)
COROLLARY TargetSafety == Spec => []TargetStable
BY LockSafety, PTL

-----------------------------------------------------------------------------
(* What a commit writes.                                                   *)

(***************************************************************************)
(* From the moment a transaction goes on to commit, its BufWriter holds    *)
(* its own write; a read-only one never goes on to commit.                 *)
(***************************************************************************)
WriteInv ==
    \A p \in Proc :
        /\ p \in dirty => pc[p] \notin {"idle", "created", "load"}
        /\ p \in dirty => p \in buf[p]
        /\ pc[p] = "commit" \/ p \in committed => p \in buf[p]
        /\ pc[p] = "commit" => mode[p] # "readonly"

\* Every step keeps WriteInv.
LEMMA WriteInvInductive == LockInv /\ WriteInv /\ [Next]_vars => WriteInv'
<1> SUFFICES ASSUME LockInv, WriteInv, [Next]_vars PROVE WriteInv'
    OBVIOUS
<1> USE DEF LockInv, TypeOK, Owned, WriteInv, Contents, Goto, disk, flags
<1>1. ASSUME NEW p \in Proc, NEW f \in Path, NEW m \in Mode,
             OpenCreate(p, f, m)
      PROVE  WriteInv'
    BY <1>1, Zenon DEF OpenCreate
<1>2. ASSUME NEW p \in Proc, NEW f \in Path, OpenLocked(p, f)
      PROVE  WriteInv'
    BY <1>2, Zenon DEF OpenLocked
<1>3. ASSUME NEW p \in Proc, Step(p)
      PROVE  WriteInv'
  <2>1. CASE OpenTarget(p)
    BY <2>1, Zenon DEF OpenTarget
  <2>2. CASE OpenTargetFails(p)
    BY <2>2, Zenon DEF OpenTargetFails, Done
  <2>3. CASE Load(p)
    BY <2>3, Zenon DEF Load
  <2>4. CASE LoadFails(p)
    BY <2>4, Zenon DEF LoadFails
  <2>5. CASE WithReadonly(p)
    BY <2>5, Zenon DEF WithReadonly
  <2>6. CASE WithMutOk(p)
    BY <2>6, Zenon DEF WithMutOk
  <2>7. CASE WithMutErr(p)
    BY <2>7, Zenon DEF WithMutErr
  <2>8. CASE DerefMut(p)
    BY <2>8, Zenon DEF DerefMut
  <2>9. CASE Rollback(p)
    BY <2>9, Zenon DEF Rollback
  <2>10. CASE FilelockDrop(p)
    BY <2>10 DEF FilelockDrop
  <2>11. CASE Rename(p)
    BY <2>11, Zenon DEF Rename
  <2>12. CASE RenameFails(p)
    BY <2>12, Zenon DEF RenameFails
  <2>13. CASE SetReadonly(p)
    BY <2>13, Zenon DEF SetReadonly
  <2>14. CASE SetReadonlyFails(p)
    BY <2>14, Zenon DEF SetReadonlyFails
  <2>15. CASE DropCleanup(p)
    BY <2>15, Zenon DEF DropCleanup, Done
  <2>16. CASE DropFlush(p)
    BY <2>16, Zenon DEF DropFlush, Done
  <2>17. CASE DropFlushFails(p)
    BY <2>17, Zenon DEF DropFlushFails, Done
  <2> QED BY <1>3, <2>1, <2>2, <2>3, <2>4, <2>5, <2>6, <2>7, <2>8, <2>9, <2>10, <2>11, <2>12, <2>13, <2>14, <2>15, <2>16, <2>17, Zenon DEF Step
<1>4. ASSUME NEW p \in Proc, Crash(p)
      PROVE  WriteInv'
    BY <1>4, Zenon DEF Crash, Done
<1>5. CASE UNCHANGED vars
    BY <1>5, Zenon DEF vars
<1> QED BY <1>1, <1>2, <1>3, <1>4, <1>5, Zenon DEF Next

(***************************************************************************)
(* The name of a guarded file changes only by the commit of the holder of  *)
(* its lock, who was not rolled back, is not read-only, and has its write  *)
(* in the BufWriter.                                                       *)
(***************************************************************************)
THEOREM CommitSafety == Spec => OnlyCommitReplaces
<1> DEFINE A == \A f \in Path :
        entry'[f] # entry[f] =>
            \E p \in Proc :
                /\ Holds(p) /\ target[p] = f /\ p \notin rolledBack
                /\ mode[p] # "readonly"
                /\ p \in buf[p] /\ entry'[f] = ino[p]
<1>1. Init => WriteInv
    BY Zenon DEF Init, WriteInv
<1>2. ASSUME LockInv, WriteInv, [Next]_vars
      PROVE  [A]_vars
  <2> USE DEF LockInv, TypeOK, Goto, disk, flags
  <2>0. \A p \in Proc, g \in Path : g # LockOf(p)
    BY <1>2, PathsApart, Zenon DEF LockOf
  <2>1. ASSUME NEW p \in Proc, NEW f \in Path, NEW m \in Mode,
               OpenCreate(p, f, m)
        PROVE  \A g \in Path : entry'[g] = entry[g]
    BY <1>2, <2>1, PathsApart, Zenon DEF OpenCreate
  <2>2. ASSUME NEW p \in Proc, DropCleanup(p)
        PROVE  \A g \in Path : entry'[g] = entry[g]
    BY <1>2, <2>0, <2>2, Zenon DEF DropCleanup
  <2>3. ASSUME NEW p \in Proc, Rename(p)
        PROVE  A
    <3>1. Holds(p)
      BY <1>2, <2>3, Zenon DEF Rename, Holds, Owned
    <3>2. p \notin rolledBack /\ mode[p] # "readonly" /\ p \in buf[p]
      BY <1>2, <2>3, Zenon DEF Rename, WriteInv
    <3>3. \A f \in Path : f # target[p] => entry'[f] = entry[f]
      BY <1>2, <2>0, <2>3, Zenon DEF Rename
    <3>4. entry'[target[p]] = ino[p]
      BY <1>2, <2>0, <2>3, Zenon DEF Rename
    <3> QED BY <3>1, <3>2, <3>3, <3>4, Zenon
  <2>4. ASSUME NEW p \in Proc, Step(p), ~Rename(p), ~DropCleanup(p)
        PROVE  UNCHANGED entry
    BY <2>4, Zenon DEF Step, OpenTarget, OpenTargetFails, Load, LoadFails,
       WithReadonly, WithMutOk, WithMutErr, DerefMut, Rollback, FilelockDrop,
       RenameFails, SetReadonly, SetReadonlyFails, DropFlush, DropFlushFails
  <2>5. ASSUME NEW p \in Proc, (\E f \in Path : OpenLocked(p, f)) \/ Crash(p)
        PROVE  UNCHANGED entry
    BY <2>5, Zenon DEF OpenLocked, Crash
  <2>6. CASE UNCHANGED vars
    BY <2>6, Zenon DEF vars
  <2> QED BY <1>2, <2>1, <2>2, <2>3, <2>4, <2>5, <2>6, Zenon DEF Next
<1> QED BY <1>1, <1>2, InitLockInv, LockInvInductive, WriteInvInductive, PTL
        DEF Spec, OnlyCommitReplaces

-----------------------------------------------------------------------------
(* What a transaction leaves behind.                                       *)

\* A lock that a step leaves behind is that of a transaction that was killed
\* or could not open the guarded file.
LEMMA StaleStep ==
    ASSUME LockInv, [Next]_vars, NEW l \in LockPath, l \in Stale', l \notin Stale
    PROVE  \E p \in Proc : LockOf(p) = l /\ (Crash(p) \/ OpenTargetFails(p))
<1> DEFINE Left == \E p \in Proc : /\ Holds(p)' /\ LockOf(p)' = l
                                   /\ ino'[p] = entry'[l]
<1> DEFINE Failed == \E p \in Proc : LockOf(p) = l /\ (Crash(p) \/ OpenTargetFails(p))
<1>a. entry'[l] # None /\ ~Left
    BY Zenon DEF Stale
<1>b. entry[l] = None \/ \E p \in Proc : Holds(p) /\ LockOf(p) = l /\ ino[p] = entry[l]
    BY Zenon DEF Stale
<1> SUFFICES ASSUME ~Failed PROVE Left
    BY <1>a, Zenon
<1> USE <1>a, <1>b DEF LockInv, TypeOK, Owned, Holds, LockOf, Goto, disk, flags
<1>1. ASSUME NEW p \in Proc, NEW f \in Path, NEW m \in Mode,
             OpenCreate(p, f, m)
      PROVE  Left
    BY <1>1 DEF OpenCreate, LockPath
<1>2. ASSUME NEW p \in Proc, NEW f \in Path, OpenLocked(p, f)
      PROVE  Left
    BY <1>2, Zenon DEF OpenLocked
<1>3. ASSUME NEW p \in Proc, Step(p)
      PROVE  Left
  <2>1. CASE OpenTarget(p)
    BY <2>1, Zenon DEF OpenTarget
  <2>2. CASE Load(p)
    BY <2>2, Zenon DEF Load
  <2>3. CASE LoadFails(p)
    BY <2>3, Zenon DEF LoadFails
  <2>4. CASE WithReadonly(p)
    BY <2>4, Zenon DEF WithReadonly
  <2>5. CASE WithMutOk(p)
    BY <2>5, Zenon DEF WithMutOk
  <2>6. CASE WithMutErr(p)
    BY <2>6, Zenon DEF WithMutErr
  <2>7. CASE DerefMut(p)
    BY <2>7, Zenon DEF DerefMut
  <2>8. CASE Rollback(p)
    BY <2>8, Zenon DEF Rollback
  <2>9. CASE FilelockDrop(p)
    BY <2>9 DEF FilelockDrop
  <2>10. CASE RenameFails(p)
    BY <2>10, Zenon DEF RenameFails
  <2>11. CASE SetReadonly(p)
    BY <2>11, Zenon DEF SetReadonly
  <2>12. CASE SetReadonlyFails(p)
    BY <2>12, Zenon DEF SetReadonlyFails
  <2>13. CASE OpenTargetFails(p)
    <3>1. LockOf(p) # l
      BY <2>13, Zenon
    <3> QED BY <2>13, <3>1, Zenon DEF OpenTargetFails, Done
  <2>14. CASE Rename(p)
    <3>1. \A g \in Path : g # l
      BY PathsApart DEF LockPath
    <3>2. l # LockOf(p) /\ entry'[l] = entry[l]
      BY <2>14, <3>1 DEF Rename, LockPath
    <3> QED BY <2>14, <3>2 DEF Rename
  <2>15. CASE DropCleanup(p)
    <3>1. l # LockOf(p) /\ entry'[l] = entry[l]
      BY <2>15, Zenon DEF DropCleanup, LockPath
    <3> QED BY <2>15, <3>1, Zenon DEF DropCleanup, Done
  <2>16. CASE DropFlush(p)
    BY <2>16 DEF DropFlush, Done
  <2>17. CASE DropFlushFails(p)
    BY <2>17 DEF DropFlushFails, Done
  <2> QED BY <1>3, <2>1, <2>2, <2>3, <2>4, <2>5, <2>6, <2>7, <2>8, <2>9, <2>10, <2>11, <2>12, <2>13, <2>14, <2>15, <2>16, <2>17, Zenon DEF Step
<1>4. ASSUME NEW p \in Proc, Crash(p)
      PROVE  Left
  <2>1. LockOf(p) # l
    BY <1>4, Zenon
  <2> QED BY <1>4, <2>1, Zenon DEF Crash, Done
<1>5. CASE UNCHANGED vars
    BY <1>5, Zenon DEF vars
<1> QED BY <1>1, <1>2, <1>3, <1>4, <1>5, Zenon DEF Next

\* A file that a step leaves torn is that of a transaction that had renamed it
\* and was then killed or could not flush.
LEMMA TornStep ==
    ASSUME LockInv, WriteInv, [Next]_vars, NEW f \in Path, f \in Torn', f \notin Torn
    PROVE  \E p \in committed : ino[p] = entry[f] /\ (Crash(p) \/ DropFlushFails(p))
<1> DEFINE Left == \E p \in committed' : ino'[p] = entry'[f] /\ buf'[p] # {}
<1> DEFINE Failed == \E p \in committed : ino[p] = entry[f] /\ (Crash(p) \/ DropFlushFails(p))
<1>a. entry'[f] # None /\ data'[entry'[f]] = {}
    BY Zenon DEF Torn
<1>b. \/ entry[f] = None \/ data[entry[f]] # {}
      \/ \E p \in committed : ino[p] = entry[f] /\ buf[p] # {}
    BY Zenon DEF Torn
<1> SUFFICES ASSUME ~Failed PROVE Left
    BY Zenon DEF Torn
<1> USE <1>a, <1>b DEF LockInv, TypeOK, Owned, WriteInv, LockOf, Goto, disk, flags
<1>1. ASSUME NEW p \in Proc, NEW g \in Path, NEW m \in Mode,
             OpenCreate(p, g, m)
      PROVE  Left
  <2> DEFINE i == CHOOSE i \in FreeInode : TRUE
  <2>1. i \in FreeInode
    BY <1>1, Zenon DEF OpenCreate
  <2> HIDE DEF i
  <2>2. /\ entry' = [entry EXCEPT ![WithExtension(g)] = i]
        /\ data' = [data EXCEPT ![i] = {}]
        /\ ino' = [ino EXCEPT ![p] = i]
    BY <1>1, Zenon DEF OpenCreate, i
  <2>3. entry'[f] = entry[f] /\ data'[entry[f]] = data[entry[f]]
    BY <2>1, <2>2, PathsApart DEF FreeInode
  <2>4. pc[p] = "idle" /\ UNCHANGED <<committed, buf>>
    BY <1>1, Zenon DEF OpenCreate
  <2>5. p \notin committed
    BY <2>4, Zenon
  <2> QED BY <2>2, <2>3, <2>4, <2>5
<1>2. ASSUME NEW p \in Proc, NEW g \in Path, OpenLocked(p, g)
      PROVE  Left
    BY <1>2, Zenon DEF OpenLocked
<1>3. ASSUME NEW p \in Proc, Step(p)
      PROVE  Left
  <2>1. CASE OpenTarget(p)
    BY <2>1, Zenon DEF OpenTarget
  <2>2. CASE Load(p)
    BY <2>2 DEF Load
  <2>3. CASE LoadFails(p)
    BY <2>3, Zenon DEF LoadFails
  <2>4. CASE WithReadonly(p)
    BY <2>4, Zenon DEF WithReadonly
  <2>5. CASE WithMutOk(p)
    BY <2>5 DEF WithMutOk
  <2>6. CASE WithMutErr(p)
    BY <2>6, Zenon DEF WithMutErr
  <2>7. CASE DerefMut(p)
    BY <2>7 DEF DerefMut
  <2>8. CASE Rollback(p)
    BY <2>8, Zenon DEF Rollback
  <2>9. CASE FilelockDrop(p)
    BY <2>9, Zenon DEF FilelockDrop
  <2>10. CASE RenameFails(p)
    BY <2>10, Zenon DEF RenameFails
  <2>11. CASE SetReadonly(p)
    BY <2>11, Zenon DEF SetReadonly
  <2>12. CASE SetReadonlyFails(p)
    BY <2>12, Zenon DEF SetReadonlyFails
  <2>13. CASE OpenTargetFails(p)
    BY <2>13 DEF OpenTargetFails, Done
  <2>14. CASE Rename(p)
    <3>1. \A g \in Path : g # LockOf(p)
      BY PathsApart, Zenon
    <3>2. CASE f = target[p]
      <4>1. entry'[f] = ino[p]
        BY <2>14, <3>1, <3>2, Zenon DEF Rename
      <4> QED BY <2>14, <4>1, Zenon DEF Rename
    <3>3. CASE f # target[p]
      <4>1. entry'[f] = entry[f]
        BY <2>14, <3>1, <3>3, Zenon DEF Rename
      <4> QED BY <2>14, <4>1, Zenon DEF Rename
    <3> QED BY <3>2, <3>3, Zenon
  <2>15. CASE DropCleanup(p)
    <3>1. entry'[f] = entry[f]
      BY <2>15, PathsApart, Zenon DEF DropCleanup
    <3> QED BY <2>15, <3>1 DEF DropCleanup, Done
  <2>16. CASE DropFlush(p)
    BY <2>16 DEF DropFlush, Done
  <2>17. CASE DropFlushFails(p)
    <3>1. ino[p] # entry[f]
      BY <2>17, Zenon DEF DropFlushFails
    <3> QED BY <2>17, <3>1, Zenon DEF DropFlushFails, Done
  <2> QED BY <1>3, <2>1, <2>2, <2>3, <2>4, <2>5, <2>6, <2>7, <2>8, <2>9, <2>10, <2>11, <2>12, <2>13, <2>14, <2>15, <2>16, <2>17, Zenon DEF Step
<1>4. ASSUME NEW p \in Proc, Crash(p)
      PROVE  Left
  <2>1. p \in committed => ino[p] # entry[f]
    BY <1>4, Zenon
  <2> QED BY <1>4, <2>1, Zenon DEF Crash, Done
<1>5. CASE UNCHANGED vars
    BY <1>5, Zenon DEF vars
<1> QED BY <1>1, <1>2, <1>3, <1>4, <1>5, Zenon DEF Next

\* A lock without a transaction stays.
LEMMA StaleStays ==
    ASSUME LockInv, [Next]_vars
    PROVE  Stale \subseteq Stale'
<1> SUFFICES ASSUME NEW l \in Stale PROVE l \in Stale'
    OBVIOUS
<1>a. l \in LockPath /\ entry[l] # None
    BY Zenon DEF Stale
<1>b. \A q \in Proc : Holds(q) /\ LockOf(q) = l => ino[q] # entry[l]
    BY Zenon DEF Stale
<1>c. \A q \in Proc : Holds(q) => LockOf(q) # l
    BY <1>b, Zenon DEF LockInv, DropNeverPanics
<1>d. \A g \in Path : g # l
    BY <1>a, PathsApart DEF LockPath
<1> USE DEF LockInv, TypeOK, Owned, Holds, LockOf, Goto, disk, flags
<1> DEFINE Kept == /\ entry'[l] = entry[l]
                   /\ \A q \in Proc : Holds(q)' => LockOf(q)' # l
<1>1. ASSUME NEW p \in Proc, NEW f \in Path, NEW m \in Mode, OpenCreate(p, f, m)
      PROVE  Kept
  <2>1. WithExtension(f) # l
    BY <1>1, <1>a, Zenon DEF OpenCreate
  <2>2. entry'[l] = entry[l]
    BY <1>1, <1>a, <2>1, Zenon DEF OpenCreate
  <2>3. \A q \in Proc : Holds(q)' => LockOf(q)' # l
    BY <1>1, <1>c, <2>1, Zenon DEF OpenCreate
  <2> QED BY <2>2, <2>3, Zenon
<1>2. ASSUME NEW p \in Proc, NEW f \in Path, OpenLocked(p, f)
      PROVE  Kept
    BY <1>2, <1>c, Zenon DEF OpenLocked
<1>3. ASSUME NEW p \in Proc, Step(p) \/ Crash(p)
      PROVE  Kept
  <2>1. /\ UNCHANGED target
        /\ \A q \in Proc : q # p => pc'[q] = pc[q] /\ (q \in committed' <=> q \in committed)
        /\ pc'[p] # "idle" => p \in committed' \/ p \notin committed
    BY <1>3, Zenon DEF Step, Crash, OpenTarget, OpenTargetFails, Load, LoadFails,
       WithReadonly, WithMutOk, WithMutErr, DerefMut, Rollback, FilelockDrop, Rename,
       RenameFails, SetReadonly, SetReadonlyFails, DropCleanup, DropFlush, DropFlushFails, Done
  <2>2. pc[p] # "idle"
    BY <1>3, Zenon DEF Step, Crash, OpenTarget, OpenTargetFails, Load, LoadFails,
       WithReadonly, WithMutOk, WithMutErr, DerefMut, Rollback, FilelockDrop, Rename,
       RenameFails, SetReadonly, SetReadonlyFails, DropCleanup, DropFlush, DropFlushFails
  <2>3. \A q \in Proc : Holds(q)' => LockOf(q)' # l
    BY <1>c, <2>1, <2>2, Zenon
  <2>4. CASE Rename(p) \/ DropCleanup(p)
    <3>1. Holds(p)
      BY <2>4, Zenon DEF Rename, DropCleanup
    <3>2. LockOf(p) # l /\ target[p] # l
      BY <3>1, <1>c, <1>d, Zenon
    <3> QED BY <2>3, <2>4, <3>2, <1>a, Zenon DEF Rename, DropCleanup
  <2>5. CASE ~(Rename(p) \/ DropCleanup(p))
    <3>1. UNCHANGED entry
      BY <1>3, <2>5, Zenon DEF Step, Crash, OpenTarget, OpenTargetFails, Load, LoadFails,
         WithReadonly, WithMutOk, WithMutErr, DerefMut, Rollback, FilelockDrop,
         RenameFails, SetReadonly, SetReadonlyFails, DropFlush, DropFlushFails
    <3> QED BY <2>3, <3>1, Zenon
  <2> QED BY <2>4, <2>5, Zenon
<1>4. ASSUME UNCHANGED vars
      PROVE  Kept
    BY <1>4, <1>c, Zenon DEF vars
<1>5. Kept
    BY <1>1, <1>2, <1>3, <1>4, Zenon DEF Next
<1> QED BY <1>5, <1>a, Zenon DEF Stale

(***************************************************************************)
(* Only a kill, or a guarded file that cannot be opened, leaves a lock     *)
(* behind, and only its own; nobody removes such a lock.  So no error of a *)
(* closure, a rename or the permissions locks a ref for good.              *)
(***************************************************************************)
THEOREM StaleLockSafety == Spec => NoStaleLock
<1>1. LockInv /\ [Next]_vars =>
        [/\ Stale \subseteq Stale'
         /\ \A l \in Stale' \ Stale :
               \E p \in Proc : LockOf(p) = l /\ (Crash(p) \/ OpenTargetFails(p))]_vars
  <2> SUFFICES ASSUME LockInv, [Next]_vars
               PROVE  /\ Stale \subseteq Stale'
                      /\ \A l \in Stale' \ Stale :
                            \E p \in Proc : LockOf(p) = l /\ (Crash(p) \/ OpenTargetFails(p))
    OBVIOUS
  <2>1. \A l \in Stale' : l \in LockPath
    BY Zenon DEF Stale
  <2> QED BY <2>1, StaleStep, StaleStays, Zenon
<1> QED BY <1>1, InitLockInv, LockInvInductive, PTL DEF Spec, NoStaleLock

(***************************************************************************)
(* A file that was renamed before its contents were flushed is completed   *)
(* by the transaction that renamed it, unless that one is killed or its    *)
(* flush fails: no other step leaves a file torn.                          *)
(***************************************************************************)
THEOREM TornSafety == Spec => TornOnlyInFlight
<1>1. Init => WriteInv
    BY Zenon DEF Init, WriteInv
<1>2. LockInv /\ WriteInv /\ [Next]_vars =>
        [\A f \in Torn' \ Torn :
            \E p \in committed : ino[p] = entry[f] /\ (Crash(p) \/ DropFlushFails(p))]_vars
  <2> SUFFICES ASSUME LockInv, WriteInv, [Next]_vars
               PROVE  \A f \in Torn' \ Torn :
                         \E p \in committed : ino[p] = entry[f] /\ (Crash(p) \/ DropFlushFails(p))
    OBVIOUS
  <2>1. \A f \in Torn' : f \in Path
    BY Zenon DEF Torn
  <2> QED BY <2>1, TornStep, Zenon
<1> QED BY <1>1, <1>2, InitLockInv, LockInvInductive, WriteInvInductive, PTL
        DEF Spec, TornOnlyInFlight

=============================================================================
