----------------------------- MODULE RefDbProofs -----------------------------
(****************************************************************************)
(* Proofs about the commands that move references, for any number of        *)
(* processes, branches, commits and reflog entries, and any set of          *)
(* revisions: whoever is interrupted where, the refs and reflogs name only  *)
(* commits that were written, and are empty only between a rename and a      *)
(* flush (RefsResolve); a commit or merge that is reported done can be found *)
(* by reflog unless the log was empty when it was appended to (DoneIsLogged); *)
(* when commands run one at a time, the reflogs are up to date              *)
(* (LogIsCurrent) and a commit or a merge only adds to a branch             *)
(* (CommitExtends).                                                         *)
(****************************************************************************)
EXTENDS RefDb, WellFoundedInduction, TLAPS

-----------------------------------------------------------------------------
(* Sets of numbers and iteration *)

NatLess == OpToRel(<, Nat)

\* The library's fact, for a name that hides the operator.
LEMMA NatLessWellFounded == IsWellFoundedOn(NatLess, Nat)
BY NatLessThanWellFounded, Zenon DEF NatLess

\* What the relation holds.
LEMMA NatLessPairs == \A x, y \in Nat : <<y, x>> \in NatLess <=> y < x
BY Zenon DEF NatLess, OpToRel

\* A nonempty set of natural numbers has a least element.
LEMMA NatMin ==
    ASSUME NEW S \in SUBSET Nat, S # {}
    PROVE  \E x \in S : \A y \in S : x <= y
<1>1. PICK x \in S : \A y \in S : ~(<<y, x>> \in NatLess)
  BY NatLessWellFounded, WFMin, Zenon
<1>2. \A y \in S : ~(y < x)
  BY <1>1, NatLessPairs, Zenon
<1> QED
  BY <1>2, SMT

\* A set of numbers up to n that holds 0 and the successor of each of its
\* elements holds them all.
LEMMA UpTo ==
    ASSUME NEW n \in Nat, NEW S, 0 \in S, \A i \in 1..n : i - 1 \in S => i \in S
    PROVE  0..n \subseteq S
<1> DEFINE Bad == (0..n) \ S
<1> SUFFICES ASSUME Bad # {} PROVE FALSE
  OBVIOUS
<1>1. Bad \in SUBSET Nat
  OBVIOUS
<1>2. PICK m \in Bad : \A i \in Bad : m <= i
  <2> HIDE DEF Bad
  <2> QED BY <1>1, NatMin, Zenon
<1>3. m \in 1..n /\ m - 1 \in 0..n /\ m - 1 < m
  OBVIOUS
<1>4. m - 1 \notin Bad
  <2>1. m \in Nat /\ m - 1 \in Nat
    BY <1>3
  <2> HIDE DEF Bad
  <2> QED BY <1>2, <1>3, <2>1
<1> QED BY <1>3, <1>4, Zenon

\* What functions return that are applied one after the other to x.
Iterates(f, n, x, g) == f[0] = x /\ \A i \in 1..n : f[i] = g[i][f[i - 1]]

\* If they are functions on S and x is in S, the sequence of what they return
\* exists.
LEMMA IterationExists ==
    ASSUME NEW S, NEW n \in Nat, NEW x \in S, NEW g \in [1..n -> [S -> S]]
    PROVE  \E f \in [0..n -> S] : Iterates(f, n, x, g)
<1> DEFINE Good(m) == \E f \in [0..m -> S] : f[0] = x /\ \A i \in 1..m : f[i] = g[i][f[i - 1]]
<1> DEFINE T == {m \in 0..n : Good(m)}
<1>1. Good(0)
  <2> DEFINE f == [i \in 0..0 |-> x]
  <2>1. f \in [0..0 -> S] /\ f[0] = x /\ \A i \in 1..0 : f[i] = g[i][f[i - 1]]
    OBVIOUS
  <2> QED BY <2>1, Zenon
<1>2. ASSUME NEW m \in 1..n, Good(m - 1) PROVE Good(m)
  <2>1. PICK f \in [0..(m - 1) -> S] : f[0] = x /\ \A i \in 1..(m - 1) : f[i] = g[i][f[i - 1]]
    BY <1>2, Zenon
  <2> DEFINE h == [i \in 0..m |-> IF i = m THEN g[m][f[m - 1]] ELSE f[i]]
  <2>2. \A i \in 0..m : i # m => i \in 0..(m - 1)
    OBVIOUS
  <2>3. f[m - 1] \in S /\ g[m][f[m - 1]] \in S
    OBVIOUS
  <2>4. h \in [0..m -> S]
    BY <2>2, <2>3, Zenon
  <2>5. h[0] = x
    BY <2>1
  <2>6. \A i \in 1..m : h[i] = g[i][h[i - 1]]
    BY <2>1
  <2> HIDE DEF h
  <2> QED BY <2>4, <2>5, <2>6, Zenon
<1>3. 0 \in T
  BY <1>1
<1>4. \A m \in 1..n : m - 1 \in T => m \in T
  <2> HIDE DEF Good
  <2> QED BY <1>2
<1>5. n \in T
  <2> HIDE DEF T
  <2>1. n \in 0..n
    OBVIOUS
  <2> QED BY <1>3, <1>4, <2>1, UpTo, Zenon
<1> QED BY <1>5, Zenon DEF Iterates

-----------------------------------------------------------------------------
(* References that resolve *)

Known == {Direct(c) : c \in Commits}
Names == {Symbolic(b) : b \in Branch}
Value == Known \cup Names \cup {Missing}

\* The three kinds of reference are told apart by their kind.
LEMMA ValueFacts ==
    ASSUME parents \in Seq(Seq(Nat))
    PROVE  /\ \A t \in Known : /\ t.kind = "direct" /\ t.oid \in Commits /\ t.ref = None
                               /\ t = Direct(t.oid) /\ t # Missing /\ t \notin Names
           /\ \A t \in Names : /\ t.kind = "symbolic" /\ t.oid = 0 /\ t.ref \in Branch
                               /\ t = Symbolic(t.ref) /\ t # Missing /\ t \notin Known
           /\ Missing.kind = "missing" /\ Missing.oid = 0 /\ Missing \notin Known \cup Names
           /\ \A c \in Commits : c \in Nat /\ c # 0 /\ Direct(c) \in Known /\ Direct(c).oid = c
           /\ \A b \in Branch : Symbolic(b) \in Names /\ Symbolic(b).ref = b
           /\ Value \subseteq Target
<1>1. Commits \subseteq Nat \ {0}
  BY DEF Commits
<1>2. \A t \in Known : /\ t.kind = "direct" /\ t.oid \in Commits /\ t.ref = None
                       /\ t = Direct(t.oid) /\ t # Missing /\ t \notin Names
  BY DEF Known, Names, Direct, Symbolic, Missing
<1>3. \A t \in Names : /\ t.kind = "symbolic" /\ t.oid = 0 /\ t.ref \in Branch
                       /\ t = Symbolic(t.ref) /\ t # Missing /\ t \notin Known
  BY DEF Known, Names, Direct, Symbolic, Missing
<1>4. Missing.kind = "missing" /\ Missing.oid = 0 /\ Missing \notin Known \cup Names
  BY Zenon DEF Known, Names, Direct, Symbolic, Missing
<1>5. \A c \in Commits : c \in Nat /\ c # 0 /\ Direct(c) \in Known /\ Direct(c).oid = c
  BY <1>1, Zenon DEF Known, Direct
<1>6. \A b \in Branch : Symbolic(b) \in Names /\ Symbolic(b).ref = b
  BY Zenon DEF Names, Symbolic
<1>7. Value \subseteq Target
  BY <1>1 DEF Value, Known, Names, Direct, Symbolic, Missing, Target
<1> QED BY <1>2, <1>3, <1>4, <1>5, <1>6, <1>7, Zenon

\* What a process holds at each step of a command: the command it runs, the
\* ref s it updates, the reference t it sets it to, the commit o it resolved.
Fits(label, c, s, t, o) ==
    /\ label \in {"parent", "tree", "write"} => c = "commit"
    /\ label = "checkout" => c \in {"checkout", "reset"}
    /\ label = "current" => c \in {"reset", "merge"}
    /\ label \in {"from", "unborn"} => c = "branch" /\ s \in Branch
    /\ label \in {"theirs", "ff", "mergecommit"} => c = "merge"
    /\ label \in {"theirs", "ff", "checkout", "set", "flushref", "resolve"} => t # Missing
    /\ label \in {"current", "mergecommit"} => t \in Known
    /\ label = "checkout" /\ c = "reset" => t \in Known
    /\ label \in {"checkout", "set"} /\ t \in Names => s = "HEAD" /\ c = "checkout"
    /\ label \in {"set", "flushref", "resolve", "head", "loghead", "flushheadlog", "log", "flushlog"}
          /\ c \in {"commit", "merge"} => t \in Known
    /\ label \in {"theirs", "mergecommit", "head", "loghead", "flushheadlog", "log", "flushlog"} => o \in Commits

\* HEAD is a commit or names a branch, a branch is a commit or missing, what is
\* logged was written, and a process never holds the name of a branch that does
\* not exist.
RefInv ==
    /\ TypeOK
    /\ \A c \in Commits : \A i \in 1..Len(parents[c]) : parents[c][i] \in 1..(c - 1)
    /\ refs["HEAD"] \in Known \cup Names
    /\ \A b \in Branch : refs[b] \in Known \cup {Missing}
    /\ \A r \in Ref : \A i \in 1..Len(logs[r]) : logs[r][i] \in Commits
    /\ \A p \in Proc :
          /\ to[p] \in Value
          /\ to[p] \in Names => refs[to[p].ref] \in Known
          /\ oid[p] \in {0} \cup Commits
          /\ Fits(pc[p], cmd[p], sym[p], to[p], oid[p])

\* What a reference resolves to.
LEMMA Resolves ==
    ASSUME RefInv
    PROVE  /\ \A t \in Known : ResolveRef(t) = t.oid /\ ResolveRef(t) \in Commits
           /\ \A t \in Names : /\ refs[t.ref] \in Known \cup {Missing}
                               /\ ResolveRef(t) = refs[t.ref].oid
                               /\ refs[t.ref] \in Known <=> ResolveRef(t) # 0
                               /\ ResolveRef(t) \in {0} \cup Commits
           /\ ResolveRef(Missing) = 0
           /\ \A r \in Ref : refs[r] \in Value
<1>1. parents \in Seq(Seq(Nat))
  BY Zenon DEF RefInv, TypeOK
<1>2. \A b \in Branch : refs[b] \in Known \cup {Missing}
  BY Zenon DEF RefInv
<1>3. \A t \in Known : ResolveRef(t) = t.oid /\ ResolveRef(t) \in Commits
  BY <1>1, ValueFacts, Zenon DEF ResolveRef
<1>4. ASSUME NEW t \in Names
      PROVE  /\ refs[t.ref] \in Known \cup {Missing}
             /\ ResolveRef(t) = refs[t.ref].oid
             /\ refs[t.ref] \in Known <=> ResolveRef(t) # 0
             /\ ResolveRef(t) \in {0} \cup Commits
  <2>1. t.ref \in Branch /\ t.kind = "symbolic"
    BY <1>1, ValueFacts, Zenon
  <2>2. refs[t.ref] \in Known \cup {Missing}
    BY <1>2, <2>1, Zenon
  <2>3. ResolveRef(t) = refs[t.ref].oid
    BY <2>1, Zenon DEF ResolveRef
  <2>4. Missing.oid = 0 /\ Missing \notin Known /\ \A k \in Known : k.oid \in Commits
    BY <1>1, ValueFacts, Zenon
  <2>5. 0 \notin Commits
    BY <1>1 DEF Commits
  <2> QED BY <2>2, <2>3, <2>4, <2>5, Zenon
<1>5. ResolveRef(Missing) = 0
  BY <1>1, ValueFacts, Zenon DEF ResolveRef
<1>6. \A r \in Ref : refs[r] \in Value
  BY <1>2, Zenon DEF RefInv, Ref, Value
<1> QED BY <1>3, <1>4, <1>5, <1>6, Zenon

-----------------------------------------------------------------------------
(* Revisions *)

\* Neither a parent nor an entry of a reflog is anything but a commit.
LEMMA OneSuffixStays ==
    ASSUME RefInv, NEW t \in Value, NEW n \in Nat
    PROVE  GetNthParent(t, n) \in Value /\ ReflogGet(t, n) \in Value
<1>1. parents \in Seq(Seq(Nat))
  BY Zenon DEF RefInv, TypeOK
<1>2. ResolveRef(t) \in {0} \cup Commits
  BY Resolves, Zenon DEF Value
<1>3. GetNthParent(t, n) \in Value
  <2>1. CASE ResolveRef(t) = 0 \/ ~Readable(t)
    BY <2>1, Zenon DEF GetNthParent, Value
  <2>2. CASE ResolveRef(t) \in Commits /\ n = 0
    BY <2>2, <1>1, ValueFacts, Zenon DEF GetNthParent, Value
  <2>3. CASE ResolveRef(t) \in Commits /\ Readable(t) /\ n # 0
    <3> DEFINE c == ResolveRef(t)
    <3>1. c # 0
      BY <2>3, <1>1 DEF Commits
    <3>2. CASE n > Len(parents[c])
      BY <2>3, <3>1, <3>2, Zenon DEF GetNthParent, Value
    <3>3. CASE ~(n > Len(parents[c]))
      <4>1. parents[c] \in Seq(Nat) /\ c \in Nat /\ c <= Len(parents) /\ Len(parents) \in Nat
        BY <2>3, <1>1 DEF Commits
      <4>2. n \in 1..Len(parents[c])
        BY <2>3, <3>3, <4>1
      <4>3. parents[c][n] \in 1..(c - 1)
        BY <2>3, <4>2, Zenon DEF RefInv
      <4>4. parents[c][n] \in Commits
        BY <4>1, <4>3 DEF Commits
      <4>5. GetNthParent(t, n) = Direct(parents[c][n])
        BY <2>3, <3>1, <3>3, Zenon DEF GetNthParent
      <4> QED BY <4>4, <4>5, Zenon DEF Value, Known
    <3> QED BY <3>2, <3>3, Zenon
  <2> QED BY <1>2, <2>1, <2>2, <2>3, Zenon
<1>4. ReflogGet(t, n) \in Value
  <2> DEFINE log == LoadLog(t.ref)
  <2>1. CASE t.kind # "symbolic" \/ refs[t.ref] = Missing \/ n >= Len(log)
    BY <2>1, Zenon DEF ReflogGet, Value
  <2>2. CASE ~(t.kind # "symbolic" \/ refs[t.ref] = Missing \/ n >= Len(log))
    <3>1. t \in Names /\ t.ref \in Ref
      BY <2>2, <1>1, ValueFacts, Zenon DEF Value, Ref
    <3>2. log \in Seq(Nat) /\ \A i \in 1..Len(log) : log[i] \in Commits
      <4>1. logs[t.ref] \in Seq(Nat) /\ \A i \in 1..Len(logs[t.ref]) : logs[t.ref][i] \in Commits
        BY <3>1, Zenon DEF RefInv, TypeOK
      <4>2. <<>> \in Seq(Nat) /\ \A i \in 1..Len(<<>>) : <<>>[i] \in Commits
        OBVIOUS
      <4> QED BY <4>1, <4>2, Zenon DEF LoadLog
    <3>3. Len(log) - n \in 1..Len(log)
      BY <2>2, <3>2
    <3>4. log[Len(log) - n] \in Commits
      BY <3>2, <3>3, Zenon
    <3>5. ReflogGet(t, n) = Direct(log[Len(log) - n])
      BY <2>2, Zenon DEF ReflogGet
    <3> QED BY <3>4, <3>5, Zenon DEF Value, Known
  <2> QED BY <2>1, <2>2, Zenon
<1> QED BY <1>3, <1>4, Zenon

\* A suffix leads from a reference to a reference.
LEMMA SuffixStays ==
    ASSUME RefInv, NEW t \in Value, NEW kind \in {"^", "~", "@"}, NEW n \in Nat
    PROVE  ResolveSuffix(t, kind, n) \in Value
<1> DEFINE parent == [x \in Value |-> GetNthParent(x, 1)]
<1> DEFINE g == [i \in 1..n |-> parent]
<1> DEFINE Solves(f) == f = [i \in 0..n |-> IF i = 0 THEN t ELSE GetNthParent(f[i - 1], 1)]
<1> DEFINE Ancestor == CHOOSE f : Solves(f)
<1>1. parent \in [Value -> Value]
  BY OneSuffixStays, Zenon
<1>2. g \in [1..n -> [Value -> Value]]
  <2> HIDE DEF parent
  <2> QED BY <1>1, Zenon
<1>3. \A i \in 1..n : \A x \in Value : g[i][x] = GetNthParent(x, 1)
  OBVIOUS
<1>4. PICK f \in [0..n -> Value] : Iterates(f, n, t, g)
  <2> HIDE DEF g
  <2> QED BY <1>2, IterationExists, Zenon
<1>5. \A i \in 0..n : f[i] = IF i = 0 THEN t ELSE GetNthParent(f[i - 1], 1)
  <2>1. \A i \in 1..n : i - 1 \in 0..n
    OBVIOUS
  <2>2. \A i \in 1..n : g[i][f[i - 1]] = GetNthParent(f[i - 1], 1)
    <3> HIDE DEF g
    <3> QED BY <1>3, <2>1, Zenon
  <2> HIDE DEF g
  <2> QED BY <1>4, <2>2 DEF Iterates
<1>6. Solves(f)
  BY <1>5, Zenon
<1>7. Solves(Ancestor)
  <2> HIDE DEF Solves
  <2> QED BY <1>6, Zenon
<1>8. \A i \in 0..n : Ancestor[i] \in Value
  <2> DEFINE T == {i \in 0..n : Ancestor[i] \in Value}
  <2> HIDE DEF Ancestor
  <2>1. 0 \in T
    BY <1>7
  <2>2. \A i \in 1..n : i - 1 \in T => i \in T
    <3> SUFFICES ASSUME NEW i \in 1..n, Ancestor[i - 1] \in Value PROVE Ancestor[i] \in Value
      OBVIOUS
    <3>1. Ancestor[i] = GetNthParent(Ancestor[i - 1], 1)
      BY <1>7
    <3> QED BY <3>1, OneSuffixStays, Zenon
  <2>3. 0..n \subseteq T
    <3> HIDE DEF T
    <3> QED BY <2>1, <2>2, UpTo, Zenon
  <2> QED BY <2>3, Zenon
<1>9. ResolveSuffix(t, "~", n) = Ancestor[n]
  BY Zenon DEF ResolveSuffix
<1>10. n \in 0..n
  OBVIOUS
<1>11. ResolveSuffix(t, "~", n) \in Value
  <2> HIDE DEF Ancestor
  <2> QED BY <1>8, <1>9, <1>10, Zenon
<1>12. ResolveSuffix(t, "^", n) \in Value /\ ResolveSuffix(t, "@", n) \in Value
  BY OneSuffixStays, Zenon DEF ResolveSuffix
<1> QED BY <1>11, <1>12, Zenon

\* So do any number of them, one after the other.
LEMMA RevStays ==
    ASSUME RefInv, NEW base \in Value, NEW suffixes \in Seq({"^", "~", "@"} \X Nat)
    PROVE  ResolveRev(base, suffixes) \in Value
<1> DEFINE n == Len(suffixes)
<1> DEFINE next(i) == [x \in Value |-> ResolveSuffix(x, suffixes[i][1], suffixes[i][2])]
<1> DEFINE g == [i \in 1..n |-> next(i)]
<1> DEFINE Solves(f) == f = [i \in 0..n |-> IF i = 0 THEN base
                                            ELSE ResolveSuffix(f[i - 1], suffixes[i][1], suffixes[i][2])]
<1> DEFINE upTo == CHOOSE f : Solves(f)
<1>0. n \in Nat
  OBVIOUS
<1>1. \A i \in 1..n : suffixes[i][1] \in {"^", "~", "@"} /\ suffixes[i][2] \in Nat
  <2>1. \A i \in 1..n : suffixes[i] \in {"^", "~", "@"} \X Nat
    OBVIOUS
  <2> QED BY <2>1, Zenon
<1>2. \A i \in 1..n : \A x \in Value : ResolveSuffix(x, suffixes[i][1], suffixes[i][2]) \in Value
  BY <1>1, SuffixStays, Zenon
<1>3. \A i \in 1..n : next(i) \in [Value -> Value]
  BY <1>2, Zenon
<1>4. g \in [1..n -> [Value -> Value]]
  <2> HIDE DEF next, n
  <2> QED BY <1>3, Zenon
<1>5. \A i \in 1..n : \A x \in Value : g[i][x] = ResolveSuffix(x, suffixes[i][1], suffixes[i][2])
  OBVIOUS
<1>6. PICK f \in [0..n -> Value] : Iterates(f, n, base, g)
  <2> HIDE DEF g, n
  <2> QED BY <1>0, <1>4, IterationExists, Zenon
<1>7. \A i \in 0..n : f[i] = IF i = 0 THEN base ELSE ResolveSuffix(f[i - 1], suffixes[i][1], suffixes[i][2])
  <2> HIDE DEF g, n
  <2>1. \A i \in 1..n : i - 1 \in 0..n
    BY <1>0
  <2>2. \A i \in 1..n : g[i][f[i - 1]] = ResolveSuffix(f[i - 1], suffixes[i][1], suffixes[i][2])
    BY <1>5, <2>1, Zenon
  <2> QED BY <1>0, <1>6, <2>2 DEF Iterates
<1>8. Solves(f)
  <2> HIDE DEF n
  <2> QED BY <1>7, Zenon
<1>9. Solves(upTo)
  <2> HIDE DEF Solves
  <2> QED BY <1>8, Zenon
<1>10. \A i \in 0..n : upTo[i] \in Value
  <2> DEFINE T == {i \in 0..n : upTo[i] \in Value}
  <2> HIDE DEF upTo, n
  <2>1. 0 \in T
    BY <1>0, <1>9
  <2>2. \A i \in 1..n : i - 1 \in T => i \in T
    <3> SUFFICES ASSUME NEW i \in 1..n, upTo[i - 1] \in Value PROVE upTo[i] \in Value
      BY <1>0
    <3>1. upTo[i] = ResolveSuffix(upTo[i - 1], suffixes[i][1], suffixes[i][2])
      BY <1>0, <1>9
    <3> QED BY <1>2, <3>1, Zenon
  <2>3. 0..n \subseteq T
    <3> HIDE DEF T
    <3> QED BY <1>0, <2>1, <2>2, UpTo, Zenon
  <2> QED BY <2>3, Zenon
<1>11. ResolveRev(base, suffixes) = upTo[n]
  BY Zenon DEF ResolveRev
<1> HIDE DEF upTo, n
<1> QED BY <1>0, <1>10, <1>11

\* A revision that resolves is a commit, or the name of a branch that exists.
LEMMA RevisionsResolve ==
    ASSUME RefInv, NEW t \in Revisions
    PROVE  /\ t \in Known \cup Names
           /\ t \in Names => refs[t.ref] \in Known
           /\ ResolveRef(t) \in Commits
<1>1. parents \in Seq(Seq(Nat))
  BY Zenon DEF RefInv, TypeOK
<1>2. PICK base \in Bases, suffixes \in Suffixes : t = ResolveRev(base, suffixes)
  BY DEF Revisions
<1>3. \A r \in Ref : ResolveName(r) \in Value
  <2>1. \A b \in Branch : Symbolic(b) \in Value /\ Missing \in Value
    BY <1>1, ValueFacts, Zenon DEF Value
  <2>2. Missing \in Value /\ \A r \in Ref : refs[r] \in Value
    BY Resolves, Zenon DEF Value
  <2>3. ASSUME NEW r \in Ref, r = "HEAD" PROVE ResolveName(r) \in Value
    <3>1. ResolveName(r) \in {refs[r], Missing}
      BY <2>3, Zenon DEF ResolveName
    <3> QED BY <2>2, <2>3, <3>1, Zenon
  <2>4. ASSUME NEW r \in Ref, r # "HEAD" PROVE ResolveName(r) \in Value
    <3>1. ResolveName(r) \in {Missing, Symbolic(r)} /\ r \in Branch
      BY <2>4, Zenon DEF ResolveName, Ref
    <3> QED BY <2>1, <2>2, <3>1, Zenon
  <2> QED BY <2>3, <2>4, Zenon
<1>4. base \in Value
  <2>1. CASE base \in {Direct(c) : c \in Commits}
    BY <2>1, Zenon DEF Value, Known
  <2>2. CASE base \in {ResolveName(r) : r \in Ref}
    BY <2>2, <1>3, Zenon
  <2> QED BY <2>1, <2>2, Zenon DEF Bases
<1>5. suffixes \in Seq({"^", "~", "@"} \X Nat)
  BY RefDbAssumption, Zenon
<1>6. t \in Value
  BY <1>2, <1>4, <1>5, RevStays, Zenon
<1>7. ResolveRef(t) # 0
  BY DEF Revisions
<1>8. CASE t \in Known
  BY <1>1, <1>8, Resolves, ValueFacts, Zenon
<1>9. CASE t \in Names
  BY <1>7, <1>9, Resolves, Zenon
<1>10. CASE t = Missing
  BY <1>7, <1>10, Resolves, Zenon
<1> QED BY <1>6, <1>8, <1>9, <1>10, Zenon DEF Value

-----------------------------------------------------------------------------
(* A step that changes only the state of one process *)

Label == Flushing \cup {"idle", "dead", "parent", "tree", "write", "checkout", "current", "from", "unborn",
                       "theirs", "ff", "mergecommit", "set", "resolve", "head", "loghead", "log"}
Command == {"none", "commit", "checkout", "reset", "branch", "merge"}

\* Process p sets what it holds, and goes to label with it.
Sets(p, s, t, o) ==
    /\ sym' = [sym EXCEPT ![p] = s]
    /\ to' = [to EXCEPT ![p] = t]
    /\ oid' = [oid EXCEPT ![p] = o]

Moves(p, label, c, s, t, o) ==
    /\ pc' = [pc EXCEPT ![p] = label]
    /\ cmd' = [cmd EXCEPT ![p] = c]
    /\ Sets(p, s, t, o)

\* Values that it may have there.
MayHold(label, c, s, t, o) ==
    /\ label \in Label /\ c \in Command /\ s \in Ref
    /\ t \in Value
    /\ t \in Names => refs[t.ref] \in Known
    /\ o \in {0} \cup Commits
    /\ Fits(label, c, s, t, o)

\* A variable that does not change keeps what process p has.
LEMMA Keeps ==
    ASSUME TypeOK, NEW p \in Proc
    PROVE  /\ pc = [pc EXCEPT ![p] = pc[p]]
           /\ cmd = [cmd EXCEPT ![p] = cmd[p]]
           /\ sym = [sym EXCEPT ![p] = sym[p]]
           /\ to = [to EXCEPT ![p] = to[p]]
           /\ oid = [oid EXCEPT ![p] = oid[p]]
           /\ onHead = [onHead EXCEPT ![p] = onHead[p]]
BY Zenon DEF TypeOK

\* What the invariant says of one process.
LEMMA Holds ==
    ASSUME RefInv, NEW p \in Proc
    PROVE  MayHold(pc[p], cmd[p], sym[p], to[p], oid[p])
BY Zenon DEF RefInv, TypeOK, MayHold, Label, Command

\* The types of the state of the processes, from what each of them holds.
LEMMA ProcessTypes ==
    ASSUME TypeOK, NEW p \in Proc, NEW label \in Label, NEW c \in Command, NEW s \in Ref, NEW t \in Target,
           NEW o \in Nat, Moves(p, label, c, s, t, o)
    PROVE  /\ pc' \in [Proc -> Label]
           /\ cmd' \in [Proc -> Command]
           /\ sym' \in [Proc -> Ref]
           /\ to' \in [Proc -> Target]
           /\ oid' \in [Proc -> Nat]
           /\ pc'[p] = label /\ cmd'[p] = c /\ sym'[p] = s /\ to'[p] = t /\ oid'[p] = o
           /\ \A q \in Proc \ {p} : /\ pc'[q] = pc[q] /\ cmd'[q] = cmd[q] /\ sym'[q] = sym[q]
                                    /\ to'[q] = to[q] /\ oid'[q] = oid[q]
<1>1. pc \in [Proc -> Label] /\ cmd \in [Proc -> Command]
  BY Zenon DEF TypeOK, Label, Command
<1>2. sym \in [Proc -> Ref] /\ to \in [Proc -> Target] /\ oid \in [Proc -> Nat]
  BY Zenon DEF TypeOK
<1> QED BY <1>1, <1>2, Zenon DEF Moves, Sets

\* If the refs, the reflogs and the commits stay, what the process holds is all
\* there is to check.
LEMMA LocalStep ==
    ASSUME RefInv, NEW p \in Proc, NEW label, NEW c, NEW s, NEW t, NEW o,
           MayHold(label, c, s, t, o), Moves(p, label, c, s, t, o),
           UNCHANGED <<alone, parents, refs, logs>>,
           indexLock' \in Proc \cup {None}, onHead' \in [Proc -> BOOLEAN]
    PROVE  RefInv'
<1>1. Commits' = Commits /\ Known' = Known /\ Names' = Names /\ Value' = Value /\ Commits \subseteq Nat
  BY DEF Commits, Known, Names, Value, RefInv, TypeOK
<1>2. t \in Target /\ o \in Nat
  <2>1. parents \in Seq(Seq(Nat))
    BY Zenon DEF RefInv, TypeOK
  <2> QED BY <2>1, <1>1, ValueFacts DEF MayHold
<1>3. TypeOK
  BY Zenon DEF RefInv
<1>4. /\ pc' \in [Proc -> Label] /\ cmd' \in [Proc -> Command] /\ sym' \in [Proc -> Ref]
      /\ to' \in [Proc -> Target] /\ oid' \in [Proc -> Nat]
      /\ pc'[p] = label /\ cmd'[p] = c /\ sym'[p] = s /\ to'[p] = t /\ oid'[p] = o
      /\ \A q \in Proc \ {p} : /\ pc'[q] = pc[q] /\ cmd'[q] = cmd[q] /\ sym'[q] = sym[q]
                               /\ to'[q] = to[q] /\ oid'[q] = oid[q]
  BY <1>2, <1>3, ProcessTypes DEF MayHold
<1>5. TypeOK'
  BY <1>3, <1>4, Zenon DEF TypeOK, Label, Command
<1>6. ASSUME NEW q \in Proc PROVE MayHold(pc'[q], cmd'[q], sym'[q], to'[q], oid'[q])
  <2>1. CASE q = p
    BY <1>4, <2>1, Zenon
  <2>2. CASE q # p
    BY <1>4, <2>2, Holds, Zenon
  <2> QED BY <2>1, <2>2, Zenon
<1>7. ASSUME NEW q \in Proc PROVE /\ to'[q] \in Value'
                                  /\ to'[q] \in Names' => refs'[to'[q].ref] \in Known'
                                  /\ oid'[q] \in {0} \cup Commits'
                                  /\ Fits(pc[q], cmd[q], sym[q], to[q], oid[q])'
  <2>1. MayHold(pc'[q], cmd'[q], sym'[q], to'[q], oid'[q])
    BY <1>6, Zenon
  <2>2. Fits(pc'[q], cmd'[q], sym'[q], to'[q], oid'[q])
    BY <2>1, Zenon DEF MayHold
  <2>3. Fits(pc[q], cmd[q], sym[q], to[q], oid[q])'
    BY <2>2, <1>1, Zenon DEF Fits
  <2> QED BY <2>1, <2>3, <1>1, Zenon DEF MayHold
<1> QED BY <1>1, <1>5, <1>7, Zenon DEF RefInv

\* The ref that HEAD stands for, and what it resolves to.
LEMMA HeadFacts ==
    ASSUME RefInv
    PROVE  /\ "HEAD" \in Ref /\ CurrentRef \in Ref
           /\ CurrentRef = "HEAD" => refs["HEAD"] \in Known
           /\ CurrentRef # "HEAD" => CurrentRef \in Branch /\ refs["HEAD"] = Symbolic(CurrentRef)
           /\ refs[CurrentRef] \in Known \cup {Missing}
           /\ ResolveHead = refs[CurrentRef].oid
           /\ ResolveHead \in {0} \cup Commits
<1>1. parents \in Seq(Seq(Nat)) /\ refs["HEAD"] \in Known \cup Names /\ "HEAD" \in Ref
  BY Zenon DEF RefInv, TypeOK, Ref
<1>2. CASE refs["HEAD"] \in Known
  <2>1. CurrentRef = "HEAD" /\ ResolveHead = refs["HEAD"].oid /\ refs["HEAD"].oid \in Commits
    BY <1>1, <1>2, ValueFacts, Zenon DEF CurrentRef, ResolveHead, ResolveRef
  <2> QED BY <1>1, <1>2, <2>1, Zenon
<1>3. CASE refs["HEAD"] \in Names
  <2>1. /\ refs["HEAD"].kind = "symbolic" /\ refs["HEAD"].ref \in Branch
        /\ refs["HEAD"] = Symbolic(refs["HEAD"].ref)
    BY <1>1, <1>3, ValueFacts, Zenon
  <2>2. CurrentRef = refs["HEAD"].ref /\ CurrentRef # "HEAD" /\ CurrentRef \in Ref
    BY <2>1, RefDbAssumption, Zenon DEF CurrentRef, Ref
  <2>3. ResolveHead = refs[CurrentRef].oid /\ ResolveHead \in {0} \cup Commits
    BY <1>3, <2>2, Resolves, Zenon DEF ResolveHead
  <2>4. refs[CurrentRef] \in Known \cup {Missing}
    BY <1>3, <2>2, Resolves, Zenon
  <2> QED BY <1>1, <2>1, <2>2, <2>3, <2>4, Zenon
<1> QED BY <1>1, <1>2, <1>3, Zenon

\* A process that ends or is killed holds nothing.
LEMMA LeaveStep ==
    ASSUME RefInv, NEW p \in Proc, NEW label \in {"idle", "dead"}, Forget(p, label),
           onHead' = [onHead EXCEPT ![p] = FALSE],
           indexLock' \in Proc \cup {None}, UNCHANGED <<alone, parents, refs, logs>>
    PROVE  RefInv'
<1>1. Moves(p, label, "none", "HEAD", Missing, 0)
  BY Zenon DEF Forget, Goto, Moves, Sets
<1>2. MayHold(label, "none", "HEAD", Missing, 0)
  <2>1. parents \in Seq(Seq(Nat))
    BY Zenon DEF RefInv, TypeOK
  <2>2. Missing \in Value /\ Missing \notin Names
    BY <2>1, ValueFacts, Zenon DEF Value
  <2>3. Fits(label, "none", "HEAD", Missing, 0)
    BY Zenon DEF Fits
  <2> QED BY <2>2, <2>3, Zenon DEF MayHold, Label, Command, Ref
<1>3. onHead' \in [Proc -> BOOLEAN]
  BY Zenon DEF RefInv, TypeOK
<1> QED BY <1>1, <1>2, <1>3, LocalStep, Zenon

\* Every way a command ends.
LEMMA LeaveSteps ==
    ASSUME RefInv, NEW p \in Proc,
           \/ NothingToCommit(p) \/ CheckoutConflict(p) \/ MergeStops(p)
           \/ NoSignature(p) \/ Locked(p) \/ Killed(p) \/ FlushUnborn(p) \/ FlushLog(p)
    PROVE  RefInv'
<1>1. indexLock \in Proc \cup {None}
  BY Zenon DEF RefInv, TypeOK
<1>2. ASSUME Leave(p), UNCHANGED <<alone, parents, refs, logs>> PROVE RefInv'
  <2>1. Forget(p, "idle") /\ onHead' = [onHead EXCEPT ![p] = FALSE] /\ indexLock' \in Proc \cup {None}
    BY <1>1, <1>2, Zenon DEF Leave, End
  <2> QED BY <1>2, <2>1, LeaveStep, Zenon
<1>3. CASE Killed(p)
  <2>1. /\ Forget(p, "dead") /\ onHead' = [onHead EXCEPT ![p] = FALSE]
        /\ UNCHANGED <<alone, parents, refs, logs, indexLock>>
    BY <1>3, Zenon DEF Killed
  <2> QED BY <1>1, <2>1, LeaveStep, Zenon
<1>4. CASE NothingToCommit(p)
  BY <1>2, <1>4, Zenon DEF NothingToCommit
<1>5. CASE CheckoutConflict(p)
  BY <1>2, <1>5, Zenon DEF CheckoutConflict
<1>6. CASE MergeStops(p)
  BY <1>2, <1>6, Zenon DEF MergeStops
<1>7. CASE NoSignature(p)
  BY <1>2, <1>7, Zenon DEF NoSignature
<1>8. CASE Locked(p)
  BY <1>2, <1>8, Zenon DEF Locked
<1>9. CASE FlushUnborn(p) \/ FlushLog(p)
  BY <1>2, <1>9, Zenon DEF FlushUnborn, FlushLog
<1> QED BY <1>3, <1>4, <1>5, <1>6, <1>7, <1>8, <1>9, Zenon

\* The first step of every command.
LEMMA BeginSteps ==
    ASSUME RefInv, NEW p \in Proc,
           \/ CommitReadHead(p) \/ CheckoutResolve(p) \/ ResetResolve(p) \/ CreateBranch(p) \/ MergeResolve(p)
    PROVE  RefInv'
<1>1. TypeOK /\ parents \in Seq(Seq(Nat)) /\ indexLock \in Proc \cup {None} /\ onHead \in [Proc -> BOOLEAN]
  BY Zenon DEF RefInv, TypeOK
<1>2. MayHold(pc[p], cmd[p], sym[p], to[p], oid[p])
  BY Holds, Zenon
<1>3. ASSUME NEW label \in Label, NEW c \in Command, Begin(p, c, label), NEW s, NEW t, NEW o,
             Sets(p, s, t, o), MayHold(label, c, s, t, o)
      PROVE  RefInv'
  <2>1. Moves(p, label, c, s, t, o)
    BY <1>3, Zenon DEF Begin, Goto, Moves
  <2>2. UNCHANGED <<alone, parents, refs, logs, indexLock, onHead>>
    BY <1>3, Zenon DEF Begin, shared
  <2>3. indexLock' \in Proc \cup {None} /\ onHead' \in [Proc -> BOOLEAN]
    BY <1>1, <2>2, Zenon
  <2> QED BY <1>3, <2>1, <2>2, <2>3, LocalStep, Zenon
<1>4. CASE CommitReadHead(p)
  <2>1. MayHold("parent", "commit", CurrentRef, to[p], oid[p])
    BY <1>2, HeadFacts, Zenon DEF MayHold, Fits, Label, Command
  <2>9. Sets(p, CurrentRef, to[p], oid[p])
    BY <1>1, <1>4, <2>1, Keeps, Zenon DEF CommitReadHead, Sets
  <2> QED BY <1>3, <1>4, <2>1, <2>9, Zenon DEF CommitReadHead, Label, Command
<1>5. CASE CheckoutResolve(p)
  <2>1. PICK r \in Revisions : /\ to' = [to EXCEPT ![p] = r]
                               /\ oid' = [oid EXCEPT ![p] = ResolveRef(r)]
    BY <1>5, Zenon DEF CheckoutResolve
  <2>2. r \in Known \cup Names /\ (r \in Names => refs[r.ref] \in Known) /\ ResolveRef(r) \in Commits
    BY RevisionsResolve, Zenon
  <2>3. Missing \notin Known \cup Names
    BY <1>1, ValueFacts, Zenon
  <2>4. MayHold("checkout", "checkout", "HEAD", r, ResolveRef(r))
    BY <2>2, <2>3, HeadFacts, Zenon DEF MayHold, Fits, Label, Command, Value
  <2>9. Sets(p, "HEAD", r, ResolveRef(r))
    BY <1>1, <1>5, <2>1, <2>4, Keeps, Zenon DEF CheckoutResolve, Sets
  <2> QED BY <1>3, <1>5, <2>1, <2>4, <2>9, Zenon DEF CheckoutResolve, Label, Command
<1>6. CASE ResetResolve(p)
  <2>1. PICK label \in {"current", "checkout"} : Begin(p, "reset", label)
    BY <1>6, Zenon DEF ResetResolve
  <2>2. PICK r \in Revisions : /\ to' = [to EXCEPT ![p] = Direct(ResolveRef(r))]
                               /\ oid' = [oid EXCEPT ![p] = ResolveRef(r)]
    BY <1>6, Zenon DEF ResetResolve
  <2>3. ResolveRef(r) \in Commits
    BY RevisionsResolve, Zenon
  <2>4. Direct(ResolveRef(r)) \in Known /\ Direct(ResolveRef(r)) \notin Names /\ Direct(ResolveRef(r)) # Missing
    BY <1>1, <2>3, ValueFacts, Zenon
  <2>5. MayHold(label, "reset", sym[p], Direct(ResolveRef(r)), ResolveRef(r))
    <3> HIDE DEF Direct
    <3> QED BY <1>2, <2>3, <2>4, Zenon DEF MayHold, Fits, Label, Command, Value
  <2>6. label \in Label /\ "reset" \in Command
    BY Zenon DEF Label, Command
  <2>7. sym' = [sym EXCEPT ![p] = sym[p]]
    BY <1>1, <1>6, Keeps, Zenon DEF ResetResolve
  <2>8. Sets(p, sym[p], Direct(ResolveRef(r)), ResolveRef(r))
    BY <2>2, <2>7, Zenon DEF Sets
  <2> QED BY <1>3, <2>1, <2>5, <2>6, <2>8, Zenon
<1>7. CASE CreateBranch(p)
  <2>1. PICK b \in Branch : sym' = [sym EXCEPT ![p] = b]
    BY <1>7, Zenon DEF CreateBranch
  <2>2. MayHold("from", "branch", b, to[p], oid[p])
    BY <1>2, Zenon DEF MayHold, Fits, Label, Command, Ref
  <2>9. Sets(p, b, to[p], oid[p])
    BY <1>1, <1>7, <2>1, <2>2, Keeps, Zenon DEF CreateBranch, Sets
  <2> QED BY <1>3, <1>7, <2>1, <2>2, <2>9, Zenon DEF CreateBranch, Label, Command
<1>8. CASE MergeResolve(p)
  <2>1. PICK r \in Revisions : to' = [to EXCEPT ![p] = r]
    BY <1>8, Zenon DEF MergeResolve
  <2>2. r \in Known \cup Names /\ (r \in Names => refs[r.ref] \in Known)
    BY RevisionsResolve, Zenon
  <2>3. Missing \notin Known \cup Names
    BY <1>1, ValueFacts, Zenon
  <2>4. ResolveHead \in Commits
    BY <1>8, HeadFacts, Zenon DEF MergeResolve
  <2>5. MayHold("theirs", "merge", sym[p], r, ResolveHead)
    BY <1>2, <2>2, <2>3, <2>4, Zenon DEF MayHold, Fits, Label, Command, Value
  <2>9. Sets(p, sym[p], r, ResolveHead)
    BY <1>1, <1>8, <2>1, <2>5, Keeps, Zenon DEF MergeResolve, Sets
  <2> QED BY <1>3, <1>8, <2>1, <2>5, <2>9, Zenon DEF MergeResolve, Label, Command
<1> QED BY <1>4, <1>5, <1>6, <1>7, <1>8, Zenon

\* The steps of a command that change neither refs nor logs.
LEMMA InnerSteps ==
    ASSUME RefInv, NEW p \in Proc,
           \/ CommitParent(p) \/ CommitTree(p) \/ CheckoutTree(p) \/ UpdateCurrentRef(p) \/ CreateFrom(p)
           \/ MergeTheirs(p) \/ MergeTrees(p) \/ MergeFastForward(p) \/ UpdateResolve(p) \/ UpdateReadHead(p)
           \/ FlushRef(p) \/ FlushHeadLog(p)
    PROVE  RefInv'
<1>1. TypeOK /\ parents \in Seq(Seq(Nat)) /\ indexLock \in Proc \cup {None} /\ onHead \in [Proc -> BOOLEAN]
  BY Zenon DEF RefInv, TypeOK
<1>2. MayHold(pc[p], cmd[p], sym[p], to[p], oid[p])
  BY Holds, Zenon
<1>3. ASSUME NEW label, Goto(p, label), UNCHANGED <<alone, parents, refs, logs, cmd, onHead>>,
             NEW s, NEW t, NEW o, indexLock' \in {indexLock, p},
             Sets(p, s, t, o), MayHold(label, cmd[p], s, t, o)
      PROVE  RefInv'
  <2>1. Moves(p, label, cmd[p], s, t, o)
    BY <1>1, <1>3, Keeps, Zenon DEF Goto, Moves
  <2>2. indexLock' \in Proc \cup {None} /\ onHead' \in [Proc -> BOOLEAN]
    BY <1>1, <1>3, Zenon
  <2> QED BY <1>3, <2>1, <2>2, LocalStep, Zenon
<1>4. \A t \in Known \cup Names : t # Missing
  BY <1>1, ValueFacts, Zenon
<1>5. \A c \in Commits : Direct(c) \in Known /\ Direct(c) \in Value /\ Direct(c) \notin Names
  BY <1>1, ValueFacts, Zenon DEF Value
<1>6. to[p] # Missing => ResolveRef(to[p]) \in Commits
  BY <1>2, Resolves, Zenon DEF MayHold, Value
<1>7. CASE CommitParent(p)
  <2>1. ResolveRef(refs[sym[p]]) \in {0} \cup Commits
    BY <1>2, Resolves, Zenon DEF MayHold, Value
  <2>2. MayHold("tree", cmd[p], sym[p], to[p], ResolveRef(refs[sym[p]]))
    BY <1>2, <1>7, <2>1, Zenon DEF CommitParent, MayHold, Fits, Label
  <2>9. Sets(p, sym[p], to[p], ResolveRef(refs[sym[p]]))
    BY <1>1, <1>7, <2>2, Keeps, Zenon DEF CommitParent, Sets
  <2> QED BY <1>3, <1>7, <2>2, <2>9 DEF CommitParent, shared
<1>8. CASE CommitTree(p)
  <2>1. MayHold("write", cmd[p], sym[p], to[p], oid[p])
    BY <1>2, <1>8, Zenon DEF CommitTree, MayHold, Fits, Label
  <2>9. Sets(p, sym[p], to[p], oid[p])
    BY <1>1, <1>8, <2>1, Keeps, Zenon DEF CommitTree, Sets
  <2> QED BY <1>3, <1>8, <2>1, <2>9 DEF CommitTree
<1>9. CASE CheckoutTree(p)
  <2> DEFINE label == IF cmd[p] = "reset" THEN "current" ELSE "set"
  <2>1. MayHold(label, cmd[p], sym[p], to[p], oid[p])
    BY <1>2, <1>9, Zenon DEF CheckoutTree, MayHold, Fits, Label
  <2>9. Sets(p, sym[p], to[p], oid[p])
    BY <1>1, <1>9, <2>1, Keeps, Zenon DEF CheckoutTree, Sets
  <2> QED BY <1>3, <1>9, <2>1, <2>9 DEF CheckoutTree
<1>10. CASE UpdateCurrentRef(p)
  <2>0. to[p] \in Known /\ to[p] \notin Names /\ to[p] # Missing
    BY <1>1, <1>2, <1>10, ValueFacts, Zenon DEF UpdateCurrentRef, MayHold, Fits
  <2>1. MayHold("set", cmd[p], CurrentRef, to[p], oid[p])
    BY <1>2, <1>10, <2>0, HeadFacts, Zenon DEF UpdateCurrentRef, MayHold, Fits, Label
  <2>9. Sets(p, CurrentRef, to[p], oid[p])
    BY <1>1, <1>10, <2>1, Keeps, Zenon DEF UpdateCurrentRef, Sets
  <2> QED BY <1>3, <1>10, <2>1, <2>9 DEF UpdateCurrentRef, shared
<1>11. CASE CreateFrom(p)
  <2>1. ResolveHead \in {0} \cup Commits
    BY HeadFacts, Zenon
  <2>2. CASE ResolveHead # 0
    <3>1. /\ Direct(ResolveHead) \in Known /\ Direct(ResolveHead) \in Value
          /\ Direct(ResolveHead) \notin Names /\ Direct(ResolveHead) # Missing
      BY <1>4, <1>5, <2>1, <2>2, Zenon
    <3>2. MayHold("set", cmd[p], sym[p], Direct(ResolveHead), ResolveHead)
      BY <1>2, <1>11, <2>1, <3>1, Zenon DEF CreateFrom, MayHold, Fits, Label
    <3>9. Sets(p, sym[p], Direct(ResolveHead), ResolveHead)
      BY <1>1, <1>11, <2>2, <3>2, Keeps, Zenon DEF CreateFrom, Sets
    <3> QED BY <1>3, <1>11, <2>2, <3>2, <3>9 DEF CreateFrom, shared
  <2>3. CASE ResolveHead = 0
    <3>1. MayHold("unborn", cmd[p], sym[p], to[p], ResolveHead)
      BY <1>2, <1>11, <2>1, Zenon DEF CreateFrom, MayHold, Fits, Label
    <3>9. Sets(p, sym[p], to[p], ResolveHead)
      BY <1>1, <1>11, <2>3, <3>1, Keeps, Zenon DEF CreateFrom, Sets
    <3> QED BY <1>3, <1>11, <2>3, <3>1, <3>9 DEF CreateFrom, shared
  <2> QED BY <2>2, <2>3, Zenon
<1>12. CASE MergeTheirs(p)
  <2>1. MayHold("ff", cmd[p], sym[p], to[p], oid[p])
    BY <1>2, <1>12, Zenon DEF MergeTheirs, MayHold, Fits, Label
  <2>9. Sets(p, sym[p], to[p], oid[p])
    BY <1>1, <1>12, <2>1, Keeps, Zenon DEF MergeTheirs, Sets
  <2> QED BY <1>3, <1>12, <2>1, <2>9 DEF MergeTheirs
<1>13. CASE MergeTrees(p)
  <2> DEFINE t == Direct(ResolveRef(to[p]))
  <2>1. t \in Known /\ t \in Value /\ t \notin Names /\ t # Missing
    BY <1>2, <1>4, <1>5, <1>6, <1>13, Zenon DEF MergeTrees, MayHold, Fits
  <2>2. MayHold("mergecommit", cmd[p], sym[p], t, oid[p])
    <3> HIDE DEF t
    <3> QED BY <1>2, <1>13, <2>1, Zenon DEF MergeTrees, MayHold, Fits, Label
  <2>9. Sets(p, sym[p], t, oid[p])
    BY <1>1, <1>13, <2>2, Keeps, Zenon DEF MergeTrees, Sets
  <2> QED BY <1>3, <1>13, <2>2, <2>9 DEF MergeTrees
<1>14. CASE MergeFastForward(p)
  <2> DEFINE t == Direct(ResolveRef(to[p]))
  <2>1. t \in Known /\ t \in Value /\ t \notin Names /\ t # Missing
    BY <1>2, <1>4, <1>5, <1>6, <1>14, Zenon DEF MergeFastForward, MayHold, Fits
  <2>2. MayHold("current", cmd[p], sym[p], t, oid[p])
    <3> HIDE DEF t
    <3> QED BY <1>2, <1>14, <2>1, Zenon DEF MergeFastForward, MayHold, Fits, Label
  <2>9. Sets(p, sym[p], t, oid[p])
    BY <1>1, <1>14, <2>2, Keeps, Zenon DEF MergeFastForward, Sets
  <2> QED BY <1>3, <1>14, <2>2, <2>9 DEF MergeFastForward, shared
<1>15. CASE UpdateResolve(p)
  <2>1. ResolveRef(to[p]) \in Commits
    BY <1>2, <1>6, <1>15, Zenon DEF UpdateResolve, MayHold, Fits
  <2>2. MayHold("head", cmd[p], sym[p], to[p], ResolveRef(to[p]))
    BY <1>2, <1>15, <2>1, Zenon DEF UpdateResolve, MayHold, Fits, Label
  <2>9. Sets(p, sym[p], to[p], ResolveRef(to[p]))
    BY <1>1, <1>15, <2>2, Keeps, Zenon DEF UpdateResolve, Sets
  <2> QED BY <1>3, <1>15, <2>2, <2>9 DEF UpdateResolve, shared
<1>16. CASE UpdateReadHead(p)
  <2> DEFINE label == IF refs["HEAD"] = Symbolic(sym[p]) THEN "loghead" ELSE "log"
  <2>1. label \in {"loghead", "log"}
    OBVIOUS
  <2>2. MayHold(label, cmd[p], sym[p], to[p], oid[p])
    <3> HIDE DEF label
    <3> QED BY <1>2, <1>16, <2>1, Zenon DEF UpdateReadHead, MayHold, Fits, Label
  <2>9. Sets(p, sym[p], to[p], oid[p])
    BY <1>1, <1>16, <2>2, Keeps, Zenon DEF UpdateReadHead, Sets
  <2> QED BY <1>3, <1>16, <2>2, <2>9 DEF UpdateReadHead, shared
<1>17. CASE FlushRef(p) \/ FlushHeadLog(p)
  <2>1. PICK label \in {"resolve", "log"} : /\ label = "resolve" => pc[p] = "flushref"
                                            /\ label = "log" => pc[p] = "flushheadlog"
                                            /\ Goto(p, label)
    BY <1>17, Zenon DEF FlushRef, FlushHeadLog
  <2>2. MayHold(label, cmd[p], sym[p], to[p], oid[p])
    BY <1>2, <2>1, Zenon DEF MayHold, Fits, Label
  <2>3. Sets(p, sym[p], to[p], oid[p])
    BY <1>1, <1>17, Keeps, Zenon DEF FlushRef, FlushHeadLog, Sets
  <2>4. UNCHANGED <<alone, parents, refs, logs, indexLock, cmd, onHead>>
    BY <1>17, Zenon DEF FlushRef, FlushHeadLog
  <2> QED BY <1>3, <2>1, <2>2, <2>3, <2>4
<1> QED BY <1>7, <1>8, <1>9, <1>10, <1>11, <1>12, <1>13, <1>14, <1>15, <1>16, <1>17, Zenon

-----------------------------------------------------------------------------
(* The steps that write a commit, a ref or a reflog *)

\* Commits are only added, branches only set to commits, so that what the other
\* processes hold stays good; what process p holds, and what it wrote, is to be
\* checked.
LEMMA SharedStep ==
    ASSUME RefInv, NEW p \in Proc, NEW label \in Label, NEW c \in Command, NEW s \in Ref, NEW t \in Target,
           NEW o \in Nat, Moves(p, label, c, s, t, o),
           UNCHANGED alone, indexLock' \in Proc \cup {None}, onHead' \in [Proc -> BOOLEAN],
           parents' \in Seq(Seq(Nat)), Len(parents) <= Len(parents'),
           \A k \in Commits' : \A i \in 1..Len(parents'[k]) : parents'[k][i] \in 1..(k - 1),
           refs' \in [Ref -> Target], refs'["HEAD"] \in Known' \cup Names',
           \A b \in Branch : refs'[b] \in Known' \cup {Missing},
           \A b \in Branch : refs[b] \in Known => refs'[b] \in Known',
           logs' \in [Ref -> Seq(Nat)], \A r \in Ref : \A i \in 1..Len(logs'[r]) : logs'[r][i] \in Commits',
           MayHold(pc[p], cmd[p], sym[p], to[p], oid[p])'
    PROVE  RefInv'
<1>1. parents \in Seq(Seq(Nat)) /\ TypeOK
  BY Zenon DEF RefInv, TypeOK
<1>2. Commits \subseteq Commits'
  BY <1>1 DEF Commits
<1>3. Known \subseteq Known' /\ Names' = Names /\ Value \subseteq Value'
  BY <1>2, Zenon DEF Known, Names, Value
<1>4. /\ pc' \in [Proc -> Label] /\ cmd' \in [Proc -> Command] /\ sym' \in [Proc -> Ref]
      /\ to' \in [Proc -> Target] /\ oid' \in [Proc -> Nat]
      /\ \A q \in Proc \ {p} : /\ pc'[q] = pc[q] /\ cmd'[q] = cmd[q] /\ sym'[q] = sym[q]
                               /\ to'[q] = to[q] /\ oid'[q] = oid[q]
  BY <1>1, ProcessTypes, Zenon
<1>5. TypeOK'
  BY <1>1, <1>4, Zenon DEF TypeOK, Label, Command
<1>6. ASSUME NEW q \in Proc PROVE /\ to'[q] \in Value'
                                  /\ to'[q] \in Names' => refs'[to'[q].ref] \in Known'
                                  /\ oid'[q] \in {0} \cup Commits'
                                  /\ Fits(pc[q], cmd[q], sym[q], to[q], oid[q])'
  <2>1. CASE q = p
    BY <2>1, Zenon DEF MayHold
  <2>2. CASE q # p
    <3>1. MayHold(pc[q], cmd[q], sym[q], to[q], oid[q])
      BY Holds, Zenon
    <3>2. to'[q] = to[q] /\ oid'[q] = oid[q] /\ pc'[q] = pc[q] /\ cmd'[q] = cmd[q] /\ sym'[q] = sym[q]
      BY <1>4, <2>2, Zenon
    <3>3. to[q] \in Names => to[q].ref \in Branch /\ refs'[to[q].ref] \in Known'
      BY <1>1, <3>1, ValueFacts, Zenon DEF MayHold
    <3>4. Fits(pc[q], cmd[q], sym[q], to[q], oid[q])
      BY <3>1, Zenon DEF MayHold
    <3>5. Fits(pc[q], cmd[q], sym[q], to[q], oid[q])'
      <4>1. Missing' = Missing
        BY Zenon DEF Missing
      <4> QED BY <1>2, <1>3, <3>2, <3>4, <4>1, Zenon DEF Fits
    <3> QED BY <1>2, <1>3, <3>1, <3>2, <3>3, <3>5, Zenon DEF MayHold
  <2> QED BY <2>1, <2>2, Zenon
<1> QED BY <1>5, <1>6, Zenon DEF RefInv

\* A commit with parents that were written.
LEMMA WriteStep ==
    ASSUME RefInv, NEW p \in Proc, NEW ps \in Seq(Nat), \A i \in 1..Len(ps) : ps[i] \in Commits,
           parents' = Append(parents, ps),
           to' = [to EXCEPT ![p] = Direct(Len(parents) + 1)],
           NEW label \in {"set", "current"}, Goto(p, label),
           label = "set" => cmd[p] = "commit", label = "current" => cmd[p] = "merge",
           UNCHANGED <<alone, refs, logs, indexLock, cmd, sym, oid, onHead>>
    PROVE  RefInv'
<1>1. /\ TypeOK /\ parents \in Seq(Seq(Nat)) /\ indexLock \in Proc \cup {None} /\ onHead \in [Proc -> BOOLEAN]
      /\ refs \in [Ref -> Target] /\ logs \in [Ref -> Seq(Nat)] /\ to \in [Proc -> Target]
      /\ pc \in [Proc -> Label]
  BY Zenon DEF RefInv, TypeOK, Label
<1>2. MayHold(pc[p], cmd[p], sym[p], to[p], oid[p])
  BY Holds, Zenon
<1> DEFINE new == Len(parents) + 1
<1>3. Commits \subseteq Nat /\ new \in Nat /\ \A k \in Commits : k \in 1..(new - 1)
  BY <1>1 DEF Commits
<1>5. parents' \in Seq(Seq(Nat)) /\ Len(parents') = new
  BY <1>1
<1>6. Commits \subseteq Commits' /\ new \in Commits'
  BY <1>1, <1>5 DEF Commits
<1>7. Known \subseteq Known' /\ Names' = Names /\ Value \subseteq Value' /\ Direct(new) \in Known'
  BY <1>6, Zenon DEF Known, Names, Value
<1>8. Direct(new) \in Target /\ Direct(new) \notin Names /\ Direct(new) # Missing
  BY <1>3, Zenon DEF Target, Direct, Names, Symbolic, Missing
<1>9. ASSUME NEW k \in Commits', NEW i \in 1..Len(parents'[k]) PROVE parents'[k][i] \in 1..(k - 1)
  <2>1. CASE k = new
    <3>1. parents'[k] = ps
      BY <1>1, <2>1
    <3>2. ps[i] \in Commits
      BY <3>1, Zenon
    <3> QED BY <1>3, <2>1, <3>1, <3>2, Zenon
  <2>2. CASE k # new
    <3>1. k \in Commits
      BY <1>1, <1>5, <2>2 DEF Commits
    <3>2. parents'[k] = parents[k]
      BY <1>1, <3>1 DEF Commits
    <3> QED BY <3>1, <3>2, Zenon DEF RefInv
  <2> QED BY <2>1, <2>2, Zenon
<1>10. pc'[p] = label /\ to'[p] = Direct(new)
  BY <1>1, Zenon DEF Goto
<1>11. MayHold(pc[p], cmd[p], sym[p], to[p], oid[p])'
  <2>1. Missing' = Missing
    BY Zenon DEF Missing
  <2>2. Fits(pc[p], cmd[p], sym[p], to[p], oid[p])'
    <3> HIDE DEF new
    <3> QED BY <1>2, <1>7, <1>8, <1>10, <2>1, Zenon DEF MayHold, Fits
  <2> HIDE DEF new
  <2> QED BY <1>2, <1>6, <1>7, <1>8, <1>10, <2>2, Zenon DEF MayHold, Label, Value
<1>12. Sets(p, sym[p], Direct(new), oid[p])
  BY <1>1, Keeps, Zenon DEF Sets
<1>13. Moves(p, label, cmd[p], sym[p], Direct(new), oid[p])
  BY <1>1, <1>12, Keeps, Zenon DEF Moves, Goto
<1>14. label \in Label /\ cmd[p] \in Command /\ sym[p] \in Ref /\ oid[p] \in Nat
  BY <1>1, Zenon DEF Label, Command, TypeOK
<1>15. refs'["HEAD"] \in Known' \cup Names' /\ \A b \in Branch : refs'[b] \in Known' \cup {Missing}
  BY <1>7, Zenon DEF RefInv
<1>16. \A r \in Ref : \A i \in 1..Len(logs'[r]) : logs'[r][i] \in Commits'
  BY <1>6, Zenon DEF RefInv
<1>17. \A b \in Branch : refs[b] \in Known => refs'[b] \in Known'
  BY <1>7, Zenon
<1>18. Len(parents) <= Len(parents')
  BY <1>1, <1>5
<1> HIDE DEF new
<1> QED BY <1>1, <1>5, <1>8, <1>9, <1>11, <1>13, <1>14, <1>15, <1>16, <1>17, <1>18, SharedStep, Zenon

\* commit and merge write the commit before any ref names it.
LEMMA WriteSteps ==
    ASSUME RefInv, NEW p \in Proc, CommitWrite(p) \/ MergeCommit(p)
    PROVE  RefInv'
<1>1. MayHold(pc[p], cmd[p], sym[p], to[p], oid[p])
  BY Holds, Zenon
<1>2. parents \in Seq(Seq(Nat)) /\ Commits \subseteq Nat
  BY DEF RefInv, TypeOK, Commits
<1>3. CASE CommitWrite(p)
  <2> DEFINE ps == IF oid[p] = 0 THEN <<>> ELSE <<oid[p]>>
  <2>1. ps \in Seq(Nat) /\ \A i \in 1..Len(ps) : ps[i] \in Commits
    <3>1. CASE oid[p] = 0
      BY <3>1
    <3>2. CASE oid[p] # 0
      <4>1. oid[p] \in Commits /\ oid[p] \in Nat
        BY <1>1, <1>2, <3>2, Zenon DEF MayHold
      <4> QED BY <3>2, <4>1
    <3> QED BY <3>1, <3>2, Zenon
  <2>2. /\ parents' = Append(parents, ps) /\ to' = [to EXCEPT ![p] = Direct(Len(parents) + 1)]
        /\ Goto(p, "set") /\ cmd[p] = "commit"
        /\ UNCHANGED <<alone, refs, logs, indexLock, cmd, sym, oid, onHead>>
    BY <1>3, Zenon DEF CommitWrite
  <2> HIDE DEF ps
  <2> QED BY <2>1, <2>2, WriteStep, Zenon
<1>4. CASE MergeCommit(p)
  <2> DEFINE ps == <<oid[p], to[p].oid>>
  <2>1. ps \in Seq(Nat) /\ \A i \in 1..Len(ps) : ps[i] \in Commits
    <3>1. oid[p] \in Commits /\ to[p] \in Known /\ cmd[p] = "merge"
      BY <1>1, <1>4, Zenon DEF MergeCommit, MayHold, Fits
    <3>2. to[p].oid \in Commits
      BY <1>2, <3>1, ValueFacts, Zenon
    <3>3. oid[p] \in Nat /\ to[p].oid \in Nat
      BY <1>2, <3>1, <3>2, Zenon
    <3>4. ps \in Seq(Nat) /\ Len(ps) = 2 /\ ps[1] = oid[p] /\ ps[2] = to[p].oid
      BY <3>3
    <3> HIDE DEF ps
    <3> QED BY <3>1, <3>2, <3>4
  <2>2. /\ parents' = Append(parents, ps) /\ to' = [to EXCEPT ![p] = Direct(Len(parents) + 1)]
        /\ Goto(p, "current") /\ cmd[p] = "merge"
        /\ UNCHANGED <<alone, refs, logs, indexLock, cmd, sym, oid, onHead>>
    BY <1>1, <1>4, Zenon DEF MergeCommit, MayHold, Fits
  <2> HIDE DEF ps
  <2> QED BY <2>1, <2>2, WriteStep, Zenon
<1> QED BY <1>3, <1>4, Zenon

\* A branch is only set to a commit, HEAD to a commit or to a branch.
LEMMA RefSteps ==
    ASSUME RefInv, NEW p \in Proc, SetRef(p) \/ CreateUnborn(p)
    PROVE  RefInv'
<1>1. /\ TypeOK /\ parents \in Seq(Seq(Nat)) /\ indexLock \in Proc \cup {None}
      /\ refs \in [Ref -> Target] /\ logs \in [Ref -> Seq(Nat)]
      /\ pc \in [Proc -> Label] /\ cmd \in [Proc -> Command] /\ sym \in [Proc -> Ref]
      /\ to \in [Proc -> Target] /\ oid \in [Proc -> Nat] /\ onHead \in [Proc -> BOOLEAN]
  BY Zenon DEF RefInv, TypeOK, Label, Command
<1>2. MayHold(pc[p], cmd[p], sym[p], to[p], oid[p])
  BY Holds, Zenon
<1>3. UNCHANGED <<alone, parents, logs>>
  BY Zenon DEF SetRef, CreateUnborn
<1>4. Commits' = Commits /\ Known' = Known /\ Names' = Names /\ Value' = Value /\ Missing' = Missing
  BY <1>3, Zenon DEF Commits, Known, Names, Value, Missing
<1>5. ASSUME NEW q, KeepOnHead(q) PROVE onHead' \in [Proc -> BOOLEAN]
  BY <1>1, <1>5, Zenon DEF KeepOnHead
<1>6. ASSUME NEW r \in Ref, NEW v \in Known \cup Names, r \in Branch => v \in Known,
             refs' = [refs EXCEPT ![r] = v]
      PROVE  /\ refs' \in [Ref -> Target] /\ refs'["HEAD"] \in Known \cup Names
             /\ \A b \in Branch : refs'[b] \in Known \cup {Missing}
             /\ \A b \in Branch : refs[b] \in Known => refs'[b] \in Known
  <2>1. v \in Target
    BY <1>1, ValueFacts, Zenon DEF Value
  <2>2. refs' \in [Ref -> Target]
    BY <1>1, <1>6, <2>1, Zenon
  <2>3. \A x \in Ref : refs'[x] = IF x = r THEN v ELSE refs[x]
    BY <1>1, <1>6, Zenon
  <2>4. "HEAD" \in Ref /\ \A b \in Branch : b \in Ref
    BY Zenon DEF Ref
  <2> QED BY <1>6, <2>2, <2>3, <2>4, Zenon DEF RefInv
<1>7. \A r \in Ref : \A i \in 1..Len(logs'[r]) : logs'[r][i] \in Commits'
  BY <1>3, <1>4, Zenon DEF RefInv
<1>8. CASE SetRef(p)
  <2>1. to[p] # Missing /\ (to[p] \in Names => sym[p] = "HEAD") /\ to[p] \in Value /\ sym[p] \in Ref
    BY <1>2, <1>8, Zenon DEF SetRef, MayHold, Fits
  <2>2. to[p] \in Known \cup Names /\ (sym[p] \in Branch => to[p] \in Known)
    BY <2>1, RefDbAssumption, Zenon DEF Value
  <2>3. /\ refs' \in [Ref -> Target] /\ refs'["HEAD"] \in Known \cup Names
        /\ \A b \in Branch : refs'[b] \in Known \cup {Missing}
        /\ \A b \in Branch : refs[b] \in Known => refs'[b] \in Known
    BY <1>6, <1>8, <2>1, <2>2, Zenon DEF SetRef
  <2>4. Moves(p, "flushref", cmd[p], sym[p], to[p], oid[p])
    BY <1>1, <1>8, Keeps, Zenon DEF SetRef, Goto, Moves, Sets
  <2>5. pc'[p] = "flushref" /\ cmd'[p] = cmd[p] /\ sym'[p] = sym[p] /\ to'[p] = to[p] /\ oid'[p] = oid[p]
    BY <1>1, <1>8, Zenon DEF SetRef, Goto
  <2>6. to[p] \in Names => refs'[to[p].ref] \in Known
    <3>1. to[p] \in Names => to[p].ref \in Branch /\ refs[to[p].ref] \in Known
      BY <1>1, <1>2, ValueFacts, Zenon DEF MayHold
    <3> QED BY <2>3, <3>1, Zenon
  <2>7. MayHold(pc[p], cmd[p], sym[p], to[p], oid[p])'
    <3>1. Fits(pc[p], cmd[p], sym[p], to[p], oid[p])'
      BY <1>2, <1>4, <1>8, <2>5, Zenon DEF SetRef, MayHold, Fits
    <3> QED BY <1>2, <1>4, <2>5, <2>6, <3>1, Zenon DEF MayHold, Label, Flushing
  <2>8. "flushref" \in Label /\ cmd[p] \in Command /\ sym[p] \in Ref /\ to[p] \in Target /\ oid[p] \in Nat
    BY <1>1, Zenon DEF Label, Flushing
  <2>9. onHead' \in [Proc -> BOOLEAN] /\ indexLock' \in Proc \cup {None} /\ Len(parents) <= Len(parents')
    BY <1>1, <1>3, <1>5, <1>8 DEF SetRef
  <2>10. \A k \in Commits' : \A i \in 1..Len(parents'[k]) : parents'[k][i] \in 1..(k - 1)
    BY <1>3, <1>4, Zenon DEF RefInv
  <2> QED BY <1>1, <1>3, <1>4, <1>7, <2>3, <2>4, <2>7, <2>8, <2>9, <2>10, SharedStep, Zenon
<1>9. CASE CreateUnborn(p)
  <2>1. sym[p] \in Branch /\ Symbolic(sym[p]) \in Names /\ "HEAD" \in Ref /\ "HEAD" \notin Branch
    BY <1>2, <1>9, <1>1, ValueFacts, RefDbAssumption, Zenon DEF CreateUnborn, MayHold, Fits, Ref
  <2>2. /\ refs' \in [Ref -> Target] /\ refs'["HEAD"] \in Known \cup Names
        /\ \A b \in Branch : refs'[b] \in Known \cup {Missing}
        /\ \A b \in Branch : refs[b] \in Known => refs'[b] \in Known
    BY <1>6, <1>9, <2>1, Zenon DEF CreateUnborn
  <2>3. Moves(p, "flushhead", cmd[p], sym[p], to[p], oid[p])
    BY <1>1, <1>9, Keeps, Zenon DEF CreateUnborn, Goto, Moves, Sets
  <2>4. pc'[p] = "flushhead" /\ cmd'[p] = cmd[p] /\ sym'[p] = sym[p] /\ to'[p] = to[p] /\ oid'[p] = oid[p]
    BY <1>1, <1>9, Zenon DEF CreateUnborn, Goto
  <2>5. to[p] \in Names => refs'[to[p].ref] \in Known
    <3>1. to[p] \in Names => to[p].ref \in Branch /\ refs[to[p].ref] \in Known
      BY <1>1, <1>2, ValueFacts, Zenon DEF MayHold
    <3> QED BY <2>2, <3>1, Zenon
  <2>6. MayHold(pc[p], cmd[p], sym[p], to[p], oid[p])'
    <3>1. Fits(pc[p], cmd[p], sym[p], to[p], oid[p])'
      BY <2>4, Zenon DEF Fits
    <3> QED BY <1>2, <1>4, <2>4, <2>5, <3>1, Zenon DEF MayHold, Label, Flushing
  <2>7. "flushhead" \in Label /\ cmd[p] \in Command /\ sym[p] \in Ref /\ to[p] \in Target /\ oid[p] \in Nat
    BY <1>1, Zenon DEF Label, Flushing
  <2>8. onHead' \in [Proc -> BOOLEAN] /\ indexLock' \in Proc \cup {None} /\ Len(parents) <= Len(parents')
    BY <1>1, <1>3, <1>5, <1>9 DEF CreateUnborn
  <2>9. \A k \in Commits' : \A i \in 1..Len(parents'[k]) : parents'[k][i] \in 1..(k - 1)
    BY <1>3, <1>4, Zenon DEF RefInv
  <2> QED BY <1>1, <1>3, <1>4, <1>7, <2>2, <2>3, <2>6, <2>7, <2>8, <2>9, SharedStep, Zenon
<1> QED BY <1>8, <1>9, Zenon

\* Only a commit that was written is logged.
LEMMA LogSteps ==
    ASSUME RefInv, NEW p \in Proc, LogHead(p) \/ LogSym(p)
    PROVE  RefInv'
<1>1. /\ TypeOK /\ parents \in Seq(Seq(Nat)) /\ indexLock \in Proc \cup {None}
      /\ refs \in [Ref -> Target] /\ logs \in [Ref -> Seq(Nat)]
      /\ pc \in [Proc -> Label] /\ cmd \in [Proc -> Command] /\ sym \in [Proc -> Ref]
      /\ to \in [Proc -> Target] /\ oid \in [Proc -> Nat] /\ onHead \in [Proc -> BOOLEAN]
  BY Zenon DEF RefInv, TypeOK, Label, Command
<1>2. MayHold(pc[p], cmd[p], sym[p], to[p], oid[p])
  BY Holds, Zenon
<1>3. UNCHANGED <<alone, parents, refs>>
  BY Zenon DEF LogHead, LogSym
<1>4. Commits' = Commits /\ Known' = Known /\ Names' = Names /\ Value' = Value /\ Missing' = Missing
  BY <1>3, Zenon DEF Commits, Known, Names, Value, Missing
<1>5. oid[p] \in Commits /\ oid[p] \in Nat
  BY <1>1, <1>2, Zenon DEF LogHead, LogSym, MayHold, Fits
<1>6. ASSUME NEW r \in Ref, AppendLog(p, r, oid[p])
      PROVE  /\ logs' \in [Ref -> Seq(Nat)]
             /\ \A x \in Ref : \A i \in 1..Len(logs'[x]) : logs'[x][i] \in Commits
  <2> DEFINE old == LoadLog(r)
  <2>1. \A x \in Ref : logs'[x] = IF x = r THEN Append(old, oid[p]) ELSE logs[x]
    BY <1>1, <1>6, Zenon DEF AppendLog
  <2>2. old \in Seq(Nat) /\ \A i \in 1..Len(old) : old[i] \in Commits
    <3>1. logs[r] \in Seq(Nat) /\ \A i \in 1..Len(logs[r]) : logs[r][i] \in Commits
      BY Zenon DEF RefInv, TypeOK
    <3>2. <<>> \in Seq(Nat) /\ \A i \in 1..Len(<<>>) : <<>>[i] \in Commits
      OBVIOUS
    <3> QED BY <3>1, <3>2, Zenon DEF LoadLog
  <2> HIDE DEF old
  <2>3. Append(old, oid[p]) \in Seq(Nat) /\ Len(Append(old, oid[p])) = Len(old) + 1
    BY <1>5, <2>2
  <2>4. logs' \in [Ref -> Seq(Nat)]
    BY <1>1, <1>6, <2>3, Zenon DEF AppendLog, old
  <2>5. ASSUME NEW x \in Ref, NEW i \in 1..Len(logs'[x]) PROVE logs'[x][i] \in Commits
    <3>1. CASE x # r
      BY <2>1, <3>1, Zenon DEF RefInv
    <3>2. CASE x = r
      <4>1. logs'[r] = Append(old, oid[p])
        BY <2>1, Zenon
      <4>2. CASE i \in 1..Len(old)
        BY <2>2, <3>2, <4>1, <4>2
      <4>3. CASE i = Len(old) + 1
        BY <1>5, <2>2, <3>2, <4>1, <4>3
      <4> QED BY <2>2, <2>3, <3>2, <4>1, <4>2, <4>3
    <3> QED BY <3>1, <3>2, Zenon
  <2> QED BY <2>4, <2>5, Zenon
<1>7. /\ \A k \in Commits' : \A i \in 1..Len(parents'[k]) : parents'[k][i] \in 1..(k - 1)
      /\ refs'["HEAD"] \in Known' \cup Names' /\ \A b \in Branch : refs'[b] \in Known' \cup {Missing}
      /\ \A b \in Branch : refs[b] \in Known => refs'[b] \in Known'
      /\ refs' \in [Ref -> Target] /\ parents' \in Seq(Seq(Nat)) /\ Len(parents) <= Len(parents')
  BY <1>1, <1>3, <1>4 DEF RefInv
<1>8. PICK r \in Ref, label \in {"flushheadlog", "flushlog"} :
          /\ AppendLog(p, r, oid[p])
          /\ Goto(p, label)
          /\ pc[p] \in {"loghead", "log"}
          /\ UNCHANGED <<indexLock, cmd, sym, to, oid, onHead>>
  BY <1>1, Zenon DEF LogHead, LogSym, Ref
<1>9. logs' \in [Ref -> Seq(Nat)] /\ \A x \in Ref : \A i \in 1..Len(logs'[x]) : logs'[x][i] \in Commits
  BY <1>6, <1>8, Zenon
<1>10. Moves(p, label, cmd[p], sym[p], to[p], oid[p])
  BY <1>1, <1>8, Keeps, Zenon DEF Goto, Moves, Sets
<1>11. pc'[p] = label /\ cmd'[p] = cmd[p] /\ sym'[p] = sym[p] /\ to'[p] = to[p] /\ oid'[p] = oid[p]
  BY <1>1, <1>8, Zenon DEF Goto
<1>12. label \in Label /\ cmd[p] \in Command /\ sym[p] \in Ref /\ to[p] \in Target /\ oid[p] \in Nat
  BY <1>1, Zenon DEF Label, Flushing
<1>13. MayHold(pc[p], cmd[p], sym[p], to[p], oid[p])'
  <2>1. Fits(pc[p], cmd[p], sym[p], to[p], oid[p])'
    BY <1>2, <1>4, <1>8, <1>11, Zenon DEF MayHold, Fits
  <2> QED BY <1>2, <1>3, <1>4, <1>11, <1>12, <2>1, Zenon DEF MayHold
<1>14. onHead' \in [Proc -> BOOLEAN] /\ indexLock' \in Proc \cup {None}
  BY <1>1, <1>8, Zenon
<1> QED BY <1>3, <1>4, <1>7, <1>9, <1>10, <1>12, <1>13, <1>14, SharedStep, Zenon

-----------------------------------------------------------------------------
(* Refs always resolve *)

\* A new repository: HEAD names a branch that does not exist yet.
LEMMA InitRefInv == Init => RefInv
<1> SUFFICES ASSUME Init PROVE RefInv
  OBVIOUS
<1>1. parents \in Seq(Seq(Nat)) /\ Commits = {}
  BY DEF Init, Commits
<1>2. Master \in Branch /\ "HEAD" \notin Branch
  BY RefDbAssumption, Zenon
<1>3. Missing \in Value /\ Missing \notin Names /\ Missing \in Target /\ Symbolic(Master) \in Names /\ Symbolic(Master) \in Target
  BY <1>1, <1>2, ValueFacts, Zenon DEF Value
<1>4. refs \in [Ref -> Target]
  BY <1>3, Zenon DEF Init
<1>5. "HEAD" \in Ref /\ refs["HEAD"] = Symbolic(Master) /\ \A b \in Branch : b \in Ref /\ refs[b] = Missing
  BY <1>2, Zenon DEF Init, Ref
<1>6. TypeOK
  BY <1>1, <1>3, <1>4, <1>5 DEF Init, TypeOK
<1>7. \A r \in Ref : logs[r] = <<>>
  BY Zenon DEF Init
<1>8. ASSUME NEW p \in Proc PROVE MayHold(pc[p], cmd[p], sym[p], to[p], oid[p])
  BY <1>3, <1>5, Zenon DEF Init, MayHold, Fits, Label, Command
<1> QED BY <1>1, <1>3, <1>5, <1>6, <1>7, <1>8 DEF RefInv, MayHold

\* Every step of every process keeps the invariant.
LEMMA StepRefInv == RefInv /\ [Next]_vars => RefInv'
<1> SUFFICES ASSUME RefInv, [Next]_vars PROVE RefInv'
  OBVIOUS
<1>1. CASE UNCHANGED vars
  <2>1. /\ TypeOK' /\ Commits' = Commits /\ UNCHANGED <<parents, refs, logs, pc, cmd, sym, to, oid>>
    BY <1>1, Zenon DEF vars, RefInv, TypeOK, Commits
  <2>2. Known' = Known /\ Names' = Names /\ Value' = Value
    BY <2>1, Zenon DEF Known, Names, Value, Missing
  <2>3. ASSUME NEW p \in Proc
        PROVE  Fits(pc[p], cmd[p], sym[p], to[p], oid[p])' <=> Fits(pc[p], cmd[p], sym[p], to[p], oid[p])
    BY <2>1, <2>2 DEF Fits, Missing
  <2> QED BY <2>1, <2>2, <2>3, Zenon DEF RefInv
<1>2. ASSUME NEW p \in Proc, Step(p) PROVE RefInv'
  BY <1>2, BeginSteps, InnerSteps, LeaveSteps, WriteSteps, RefSteps, LogSteps, Zenon DEF Step
<1> QED BY <1>1, <1>2, Zenon DEF Next

\* The invariant holds in every behaviour.
THEOREM RefInvariant == Spec => []RefInv
<1>1. Init => RefInv
  BY InitRefInv, Zenon
<1>2. RefInv /\ [Next]_vars => RefInv'
  BY StepRefInv, Zenon
<1> QED BY <1>1, <1>2, PTL DEF Spec

-----------------------------------------------------------------------------
(* What is reported done can be found in the reflogs *)

Recording == {"flushref", "resolve", "head", "loghead", "flushheadlog", "log"}

\* While process p records an update: it was true all along that HEAD names the
\* ref if it is said to be, the commit it logs is the one it set the ref to, and
\* a log that it has written has the commit unless entries of that log were lost.
Found(p) ==
    /\ onHead[p] => pc[p] \in Recording \cup {"flushlog"} /\ refs["HEAD"] = Symbolic(sym[p])
    /\ pc[p] \in {"head", "loghead", "flushheadlog", "log", "flushlog"} /\ to[p].kind = "direct" => oid[p] = to[p].oid
    /\ pc[p] \in {"flushheadlog", "log", "flushlog"} /\ onHead[p] /\ "HEAD" \notin lost => Logged("HEAD", oid[p])
    /\ pc[p] = "flushlog" /\ sym[p] \notin lost => Logged(sym[p], oid[p])

FoundInv == \A p \in Proc : Found(p)

\* What a step of process p leaves alone: what the other processes hold, and
\* every entry of a log that was whole when it was appended to.
Spares(p) ==
    /\ alone' = alone
    /\ \A q \in Proc \ {p} : /\ pc'[q] = pc[q] /\ cmd'[q] = cmd[q] /\ sym'[q] = sym[q]
                             /\ to'[q] = to[q] /\ oid'[q] = oid[q]
    /\ lost \subseteq lost'
    /\ \A r \in Ref : r \in lost' \/ \A c : Logged(r, c) => Logged(r, c)'

\* An entry appended to a log leaves the others where they are, if the log was
\* whole.
LEMMA AppendKeeps ==
    ASSUME logs \in [Ref -> Seq(Nat)], NEW p \in Proc, NEW x \in Ref, NEW k \in Nat, AppendLog(p, x, k)
    PROVE  /\ lost \subseteq lost'
           /\ \A r \in Ref : r \in lost' \/ \A c : Logged(r, c) => Logged(r, c)'
           /\ logs'[x] # <<>> /\ logs'[x][Len(logs'[x])] = k
           /\ Logged(x, k)'
           /\ \A r \in Ref \ {x} : logs'[r] = logs[r]
<1> DEFINE old == LoadLog(x)
<1> DEFINE new == Append(old, k)
<1>1. logs'[x] = new /\ \A r \in Ref \ {x} : logs'[r] = logs[r]
  BY Zenon DEF AppendLog
<1>2. old \in Seq(Nat) /\ Len(old) \in Nat
  <2>1. old \in Seq(Nat)
    <3>1. <<>> \in Seq(Nat) /\ logs[x] \in Seq(Nat)
      OBVIOUS
    <3> QED BY <3>1, Zenon DEF LoadLog
  <2> HIDE DEF old
  <2> QED BY <2>1
<1>3. x \in lost' \/ logs[x] = old
  BY Zenon DEF AppendLog, LoadLog
<1>4. lost \subseteq lost'
  BY Zenon DEF AppendLog
<1> HIDE DEF old
<1>5. /\ Len(new) = Len(old) + 1 /\ new[Len(old) + 1] = k
      /\ \A i \in 1..Len(old) : new[i] = old[i]
  BY <1>2
<1> HIDE DEF new
<1>6. new # <<>>
  <2>1. Len(<<>>) = 0
    OBVIOUS
  <2> QED BY <1>2, <1>5, <2>1
<1>7. \A i \in 1..Len(old) : i \in 1..Len(new) /\ new[i] = old[i]
  BY <1>2, <1>5
<1>8. Len(new) \in 1..Len(new) /\ new[Len(new)] = k
  BY <1>2, <1>5
<1>9. Logged(x, k)'
  BY <1>1, <1>8, Zenon DEF Logged
<1>10. ASSUME NEW r \in Ref, NEW c, Logged(r, c), r \notin lost' PROVE Logged(r, c)'
  <2>1. CASE r = x
    BY <1>1, <1>3, <1>7, <1>10, <2>1, Zenon DEF Logged
  <2>2. CASE r # x
    BY <1>1, <1>10, <2>2, Zenon DEF Logged
  <2> QED BY <2>1, <2>2, Zenon
<1> QED BY <1>1, <1>4, <1>6, <1>8, <1>9, <1>10, Zenon

\* No step of a process changes anything of another one.
LEMMA StepSpares ==
    ASSUME TypeOK, NEW p \in Proc, Step(p)
    PROVE  Spares(p)
<1>1. /\ pc \in [Proc -> Label] /\ cmd \in [Proc -> Command] /\ sym \in [Proc -> Ref]
      /\ to \in [Proc -> Target] /\ oid \in [Proc -> Nat] /\ logs \in [Ref -> Seq(Nat)]
  BY Zenon DEF TypeOK, Label, Command
<1>2. CASE LogHead(p) \/ LogSym(p)
  <2>1. PICK r \in Ref : AppendLog(p, r, oid[p]) /\ oid[p] \in Nat
    BY <1>1, <1>2, Zenon DEF LogHead, LogSym, Ref
  <2>2. lost \subseteq lost' /\ \A x \in Ref : x \in lost' \/ \A c : Logged(x, c) => Logged(x, c)'
    BY <1>1, <2>1, AppendKeeps, Zenon
  <2>3. /\ alone' = alone
        /\ \A q \in Proc \ {p} : /\ pc'[q] = pc[q] /\ cmd'[q] = cmd[q] /\ sym'[q] = sym[q]
                                 /\ to'[q] = to[q] /\ oid'[q] = oid[q]
    BY <1>1, <1>2, Zenon DEF LogHead, LogSym, Goto
  <2> QED BY <2>2, <2>3, Zenon DEF Spares
<1>3. ASSUME UNCHANGED logs PROVE \A r \in Ref : \A c : Logged(r, c) => Logged(r, c)'
  BY <1>3, Zenon DEF Logged
<1>4. ASSUME NEW label \in {"idle", "dead"}, Forget(p, label), UNCHANGED <<alone, logs>>, lost \subseteq lost'
      PROVE  Spares(p)
  BY <1>1, <1>3, <1>4, Zenon DEF Forget, Goto, Spares
<1>5. CASE NothingToCommit(p) \/ CheckoutConflict(p) \/ MergeStops(p) \/ NoSignature(p) \/ Locked(p)
           \/ FlushUnborn(p) \/ FlushLog(p)
  BY <1>4, <1>5, Zenon DEF NothingToCommit, CheckoutConflict, MergeStops, NoSignature, Locked, FlushUnborn, FlushLog,
                    Leave, End, files
<1>6. CASE Killed(p)
  BY <1>4, <1>6, Zenon DEF Killed
<1>7. ASSUME UNCHANGED <<alone, logs, lost>>,
             \A q \in Proc \ {p} : /\ pc'[q] = pc[q] /\ cmd'[q] = cmd[q] /\ sym'[q] = sym[q]
                                   /\ to'[q] = to[q] /\ oid'[q] = oid[q]
      PROVE  Spares(p)
  BY <1>3, <1>7, Zenon DEF Spares
<1>8. CASE CommitReadHead(p) \/ CheckoutResolve(p) \/ ResetResolve(p) \/ CreateBranch(p) \/ MergeResolve(p)
  <2>1. CASE CommitReadHead(p) \/ CreateBranch(p) \/ MergeResolve(p)
    BY <1>1, <1>7, <2>1, Zenon DEF CommitReadHead, CreateBranch, MergeResolve, Begin, Goto, shared, files
  <2>2. CASE CheckoutResolve(p)
    BY <1>1, <1>7, <2>2, Zenon DEF CheckoutResolve, Begin, Goto, shared, files
  <2>3. CASE ResetResolve(p)
    BY <1>1, <1>7, <2>3, Zenon DEF ResetResolve, Begin, Goto, shared, files
  <2> QED BY <1>8, <2>1, <2>2, <2>3, Zenon
<1>9. CASE CommitParent(p) \/ CommitTree(p) \/ CheckoutTree(p) \/ UpdateCurrentRef(p) \/ CreateFrom(p)
  BY <1>1, <1>7, <1>9, Zenon DEF CommitParent, CommitTree, CheckoutTree, UpdateCurrentRef, CreateFrom, Goto, shared, files
<1>10. CASE MergeTheirs(p) \/ MergeTrees(p) \/ MergeFastForward(p) \/ UpdateResolve(p) \/ UpdateReadHead(p)
  BY <1>1, <1>7, <1>10, Zenon DEF MergeTheirs, MergeTrees, MergeFastForward, UpdateResolve, UpdateReadHead, Goto, shared, files
<1>11. CASE CommitWrite(p) \/ MergeCommit(p) \/ SetRef(p) \/ CreateUnborn(p) \/ FlushRef(p) \/ FlushHeadLog(p)
  BY <1>1, <1>7, <1>11, Zenon DEF CommitWrite, MergeCommit, SetRef, CreateUnborn, FlushRef, FlushHeadLog, Goto, files
<1> QED BY <1>2, <1>5, <1>6, <1>8, <1>9, <1>10, <1>11, Zenon DEF Step

\* A process that changes no file, or is killed, leaves no other one to flush.
LEMMA TornStays ==
    ASSUME TypeOK, EmptyInFlight, NEW p \in Proc, UNCHANGED torn, lost' \subseteq Ref,
           pc' = [pc EXCEPT ![p] = "dead"] \/ (pc[p] \notin Flushing /\ pc[p] # "dead"),
           \A q \in Proc \ {p} : pc'[q] = pc[q] /\ sym'[q] = sym[q]
    PROVE  EmptyInFlight'
<1>1. pc \in [Proc -> Label]
  BY Zenon DEF TypeOK, Label
<1>2. ASSUME NEW file \in File, torn[file] = p PROVE pc'[p] = "dead"
  BY <1>1, <1>2, Zenon DEF EmptyInFlight, MustFlush, Flushing
<1>3. ASSUME NEW file \in File, NEW q \in Proc, torn[file] = q
      PROVE  pc'[q] = "dead" \/ MustFlush(pc'[q], sym'[q], file)
  <2>1. CASE q = p
    BY <1>2, <1>3, <2>1, Zenon
  <2>2. CASE q # p
    BY <1>3, <2>2, Zenon DEF EmptyInFlight
  <2> QED BY <2>1, <2>2, Zenon
<1> QED BY <1>3, Zenon DEF EmptyInFlight, MustFlush

\* A process that replaces a file goes where it has to flush it.
LEMMA TornReplaced ==
    ASSUME TypeOK, EmptyInFlight, NEW p \in Proc, pc[p] \notin Flushing \cup {"dead"},
           NEW file \in File, Replace(p, file), MustFlush(pc'[p], sym'[p], file), lost' \subseteq Ref,
           \A q \in Proc \ {p} : pc'[q] = pc[q] /\ sym'[q] = sym[q]
    PROVE  EmptyInFlight'
<1>1. torn \in [File -> Proc \cup {None}]
  BY Zenon DEF EmptyInFlight
<1>2. torn' \in [File -> Proc \cup {None}] /\ \A x \in File : torn'[x] = IF x = file THEN p ELSE torn[x]
  BY <1>1, Zenon DEF Replace
<1>3. \A x \in File : torn[x] # p
  BY Zenon DEF EmptyInFlight, MustFlush, Flushing
<1>4. ASSUME NEW x \in File, NEW q \in Proc, torn'[x] = q
      PROVE  pc'[q] = "dead" \/ MustFlush(pc'[q], sym'[q], x)
  <2>1. CASE x = file
    BY <1>2, <1>4, <2>1, Zenon
  <2>2. CASE x # file
    <3>1. torn[x] = q /\ q # p
      BY <1>2, <1>3, <1>4, <2>2, Zenon
    <3> QED BY <3>1, Zenon DEF EmptyInFlight
  <2> QED BY <2>1, <2>2, Zenon
<1> QED BY <1>2, <1>4, Zenon DEF EmptyInFlight, MustFlush

\* A process that flushes the file it replaced leaves it whole, or another
\* process's to flush.
LEMMA TornFlushed ==
    ASSUME TypeOK, EmptyInFlight, NEW p \in Proc, NEW file \in File, Flush(p, file),
           pc[p] # "dead", \A x \in File : MustFlush(pc[p], sym[p], x) => x = file,
           UNCHANGED lost, \A q \in Proc \ {p} : pc'[q] = pc[q] /\ sym'[q] = sym[q]
    PROVE  EmptyInFlight' /\ \A x \in File : torn'[x] # p
<1>1. torn \in [File -> Proc \cup {None}] /\ lost \subseteq Ref /\ None \notin Proc
  BY RefDbAssumption, Zenon DEF EmptyInFlight
<1>2. /\ torn' \in [File -> Proc \cup {None}]
      /\ \A x \in File : torn'[x] = IF x = file /\ torn[file] = p THEN None ELSE torn[x]
  BY <1>1, Zenon DEF Flush
<1>3. \A x \in File \ {file} : torn[x] # p
  BY Zenon DEF EmptyInFlight
<1>4. \A x \in File : torn'[x] # p
  BY <1>1, <1>2, <1>3, Zenon
<1>5. ASSUME NEW x \in File, NEW q \in Proc, torn'[x] = q
      PROVE  pc'[q] = "dead" \/ MustFlush(pc'[q], sym'[q], x)
  <2>1. torn[x] = q /\ q # p
    BY <1>1, <1>2, <1>4, <1>5, Zenon
  <2> QED BY <2>1, Zenon DEF EmptyInFlight
<1> QED BY <1>1, <1>2, <1>4, <1>5, Zenon DEF EmptyInFlight, MustFlush

\* Every step of every process keeps files from being left empty.
LEMMA StepEmpty ==
    ASSUME TypeOK, EmptyInFlight, NEW p \in Proc, Step(p)
    PROVE  EmptyInFlight'
<1>1. pc \in [Proc -> Label] /\ sym \in [Proc -> Ref] /\ lost \subseteq Ref /\ "HEAD" \in Ref
  BY Zenon DEF TypeOK, EmptyInFlight, Label, Ref
<1>2. \A q \in Proc \ {p} : pc'[q] = pc[q] /\ sym'[q] = sym[q]
  BY StepSpares, Zenon DEF Spares
<1>3. \A r \in Ref : <<"ref", r>> \in File /\ <<"log", r>> \in File
  BY Zenon DEF File
<1>4. ASSUME pc[p] \notin Flushing \cup {"dead"}, UNCHANGED <<torn, lost>> PROVE EmptyInFlight'
  BY <1>1, <1>2, <1>4, TornStays, Zenon
<1>5. CASE CommitReadHead(p) \/ CheckoutResolve(p) \/ ResetResolve(p) \/ CreateBranch(p) \/ MergeResolve(p)
  BY <1>4, <1>5, Zenon DEF CommitReadHead, CheckoutResolve, ResetResolve, CreateBranch, MergeResolve, Begin, shared,
                    files, Flushing
<1>6. CASE CommitParent(p) \/ CommitTree(p) \/ CheckoutTree(p) \/ UpdateCurrentRef(p) \/ CreateFrom(p)
  BY <1>4, <1>6, Zenon DEF CommitParent, CommitTree, CheckoutTree, UpdateCurrentRef, CreateFrom, shared, files, Flushing
<1>7. CASE MergeTheirs(p) \/ MergeTrees(p) \/ MergeFastForward(p) \/ UpdateResolve(p) \/ UpdateReadHead(p)
  BY <1>4, <1>7, Zenon DEF MergeTheirs, MergeTrees, MergeFastForward, UpdateResolve, UpdateReadHead, shared, files, Flushing
<1>8. CASE CommitWrite(p) \/ MergeCommit(p) \/ NothingToCommit(p) \/ CheckoutConflict(p)
  BY <1>4, <1>8, Zenon DEF CommitWrite, MergeCommit, NothingToCommit, CheckoutConflict, files, Flushing
<1>9. CASE MergeStops(p) \/ NoSignature(p) \/ Locked(p)
  BY <1>4, <1>9, Zenon DEF MergeStops, NoSignature, Locked, Running, files, Flushing
<1>10. CASE Killed(p)
  <2>1. lost' \subseteq Ref /\ UNCHANGED torn /\ pc' = [pc EXCEPT ![p] = "dead"]
    BY <1>1, <1>10, Zenon DEF Killed, Forget, Goto
  <2> QED BY <1>2, <2>1, TornStays, Zenon
<1>11. CASE SetRef(p)
  <2>1. /\ pc[p] = "set" /\ pc'[p] = "flushref" /\ sym'[p] = sym[p] /\ Replace(p, <<"ref", sym[p]>>)
        /\ UNCHANGED lost
    BY <1>1, <1>11, Zenon DEF SetRef, Goto
  <2>2. MustFlush(pc'[p], sym'[p], <<"ref", sym[p]>>) /\ pc[p] \notin Flushing \cup {"dead"}
    BY <2>1, Zenon DEF MustFlush, Flushing
  <2> QED BY <1>1, <1>2, <1>3, <2>1, <2>2, TornReplaced, Zenon
<1>12. CASE CreateUnborn(p)
  <2>1. /\ pc[p] = "unborn" /\ pc'[p] = "flushhead" /\ Replace(p, <<"ref", "HEAD">>) /\ UNCHANGED lost
    BY <1>1, <1>12, Zenon DEF CreateUnborn, Goto
  <2>2. MustFlush(pc'[p], sym'[p], <<"ref", "HEAD">>) /\ pc[p] \notin Flushing \cup {"dead"}
    BY <2>1, Zenon DEF MustFlush, Flushing
  <2> QED BY <1>1, <1>2, <1>3, <2>1, <2>2, TornReplaced, Zenon
<1>13. CASE LogHead(p)
  <2>1. /\ pc[p] = "loghead" /\ pc'[p] = "flushheadlog" /\ Replace(p, <<"log", "HEAD">>)
        /\ lost' \in {lost, lost \cup {"HEAD"}}
    BY <1>1, <1>13, Zenon DEF LogHead, AppendLog, Goto
  <2>2. MustFlush(pc'[p], sym'[p], <<"log", "HEAD">>) /\ pc[p] \notin Flushing \cup {"dead"}
    BY <2>1, Zenon DEF MustFlush, Flushing
  <2>3. lost' \subseteq Ref
    BY <1>1, <2>1, Zenon
  <2> QED BY <1>1, <1>2, <1>3, <2>1, <2>2, <2>3, TornReplaced, Zenon
<1>14. CASE LogSym(p)
  <2>1. /\ pc[p] = "log" /\ pc'[p] = "flushlog" /\ sym'[p] = sym[p] /\ Replace(p, <<"log", sym[p]>>)
        /\ lost' \in {lost, lost \cup {sym[p]}}
    BY <1>1, <1>14, Zenon DEF LogSym, AppendLog, Goto
  <2>2. MustFlush(pc'[p], sym'[p], <<"log", sym[p]>>) /\ pc[p] \notin Flushing \cup {"dead"}
    BY <2>1, Zenon DEF MustFlush, Flushing
  <2>3. lost' \subseteq Ref
    BY <1>1, <2>1, Zenon
  <2> QED BY <1>1, <1>2, <1>3, <2>1, <2>2, <2>3, TornReplaced, Zenon
<1>15. CASE FlushRef(p)
  <2>1. pc[p] = "flushref" /\ Flush(p, <<"ref", sym[p]>>) /\ UNCHANGED lost
    BY <1>15, Zenon DEF FlushRef
  <2>2. \A x \in File : MustFlush(pc[p], sym[p], x) => x = <<"ref", sym[p]>>
    BY <2>1, Zenon DEF MustFlush
  <2> QED BY <1>1, <1>2, <1>3, <2>1, <2>2, TornFlushed, Zenon
<1>16. CASE FlushUnborn(p)
  <2>1. pc[p] = "flushhead" /\ Flush(p, <<"ref", "HEAD">>) /\ UNCHANGED lost
    BY <1>16, Zenon DEF FlushUnborn
  <2>2. \A x \in File : MustFlush(pc[p], sym[p], x) => x = <<"ref", "HEAD">>
    BY <2>1, Zenon DEF MustFlush
  <2> QED BY <1>1, <1>2, <1>3, <2>1, <2>2, TornFlushed, Zenon
<1>17. CASE FlushHeadLog(p)
  <2>1. pc[p] = "flushheadlog" /\ Flush(p, <<"log", "HEAD">>) /\ UNCHANGED lost
    BY <1>17, Zenon DEF FlushHeadLog
  <2>2. \A x \in File : MustFlush(pc[p], sym[p], x) => x = <<"log", "HEAD">>
    BY <2>1, Zenon DEF MustFlush
  <2> QED BY <1>1, <1>2, <1>3, <2>1, <2>2, TornFlushed, Zenon
<1>18. CASE FlushLog(p)
  <2>1. pc[p] = "flushlog" /\ Flush(p, <<"log", sym[p]>>) /\ UNCHANGED lost
    BY <1>18, Zenon DEF FlushLog
  <2>2. \A x \in File : MustFlush(pc[p], sym[p], x) => x = <<"log", sym[p]>>
    BY <2>1, Zenon DEF MustFlush
  <2> QED BY <1>1, <1>2, <1>3, <2>1, <2>2, TornFlushed, Zenon
<1> QED BY <1>5, <1>6, <1>7, <1>8, <1>9, <1>10, <1>11, <1>12, <1>13, <1>14, <1>15, <1>16, <1>17, <1>18, Zenon DEF Step

\* A ref or a reflog is empty only between the rename that replaced it and its
\* writer's flush, or because the writer was killed there.
THEOREM EmptyInvariant == Spec => []EmptyInFlight
<1>1. Init => EmptyInFlight
  <2> SUFFICES ASSUME Init PROVE EmptyInFlight
    OBVIOUS
  <2>1. torn = [file \in File |-> None] /\ lost = {} /\ None \notin Proc
    BY RefDbAssumption, Zenon DEF Init
  <2>2. torn \in [File -> Proc \cup {None}] /\ \A file \in File : torn[file] = None
    BY <2>1, Zenon
  <2> QED BY <2>1, <2>2, Zenon DEF EmptyInFlight
<1>2. RefInv /\ EmptyInFlight /\ [Next]_vars => EmptyInFlight'
  <2> SUFFICES ASSUME RefInv, EmptyInFlight, [Next]_vars PROVE EmptyInFlight'
    OBVIOUS
  <2>1. CASE UNCHANGED vars
    BY <2>1, Zenon DEF vars, EmptyInFlight, MustFlush
  <2>2. ASSUME NEW p \in Proc, Step(p) PROVE EmptyInFlight'
    BY <2>2, StepEmpty, Zenon DEF RefInv
  <2> QED BY <2>1, <2>2, Zenon DEF Next
<1> QED BY <1>1, <1>2, RefInvariant, PTL DEF Spec

\* Whatever the processes are doing and wherever one of them was killed: a ref
\* or a reflog is empty only between the rename that replaced it and its writer's
\* flush, or because the writer was killed there; otherwise HEAD names a commit
\* or a branch, a branch that exists names a commit, and refs, reflogs and
\* parents name only commits that were written (set_ref, commit, append,
\* Lockfile::commit): for every number of processes and branches and every
\* revision.
THEOREM RefsAlwaysResolve == Spec => []RefsResolve
<1>1. RefInv /\ EmptyInFlight => RefsResolve
  <2> SUFFICES ASSUME RefInv, EmptyInFlight PROVE RefsResolve
    OBVIOUS
  <2>1. parents \in Seq(Seq(Nat)) /\ TypeOK
    BY Zenon DEF RefInv, TypeOK
  <2>2. refs["HEAD"].kind # "missing"
    BY <2>1, ValueFacts, Zenon DEF RefInv
  <2>3. \A b \in Branch : refs[b].kind # "symbolic"
    BY <2>1, ValueFacts, Zenon DEF RefInv
  <2>4. ASSUME NEW r \in Ref, refs[r].kind = "direct" PROVE refs[r].oid \in Commits
    <3>1. refs[r] \in Value
      BY Resolves, Zenon
    <3> QED BY <2>1, <2>4, <3>1, ValueFacts, Zenon DEF Value
  <2> QED BY <2>1, <2>2, <2>3, <2>4, Zenon DEF RefsResolve, RefInv
<1> QED BY <1>1, RefInvariant, EmptyInvariant, PTL

\* Of the other processes, HEAD may only stop naming the ref.
LEMMA StepKeepsOnHead ==
    ASSUME RefInv, FoundInv, NEW p \in Proc, Step(p), NEW q \in Proc \ {p}
    PROVE  onHead'[q] => onHead[q] /\ refs'["HEAD"] = Symbolic(sym[q])
<1>1. onHead \in [Proc -> BOOLEAN] /\ refs \in [Ref -> Target]
  BY Zenon DEF RefInv, TypeOK
<1>2. onHead[q] => refs["HEAD"] = Symbolic(sym[q])
  BY Zenon DEF FoundInv, Found
<1>3. CASE SetRef(p) \/ CreateUnborn(p)
  <2>1. None # q /\ p # q
    BY RefDbAssumption, Zenon
  <2> QED BY <1>3, <2>1, Zenon DEF SetRef, CreateUnborn, KeepOnHead
<1>4. ASSUME UNCHANGED refs, onHead' = onHead \/ onHead' = [onHead EXCEPT ![p] = FALSE]
      PROVE  onHead'[q] => onHead[q] /\ refs'["HEAD"] = Symbolic(sym[q])
  BY <1>1, <1>2, <1>4, Zenon
<1>5. CASE FlushUnborn(p) \/ FlushLog(p) \/ NothingToCommit(p) \/ CheckoutConflict(p) \/ MergeStops(p) \/ NoSignature(p)
           \/ Locked(p) \/ Killed(p)
  BY <1>4, <1>5, Zenon DEF FlushUnborn, FlushLog, NothingToCommit, CheckoutConflict, MergeStops, NoSignature, Locked, Killed,
                    Leave
<1>6. CASE CommitReadHead(p) \/ CheckoutResolve(p) \/ ResetResolve(p) \/ CreateBranch(p) \/ MergeResolve(p)
  BY <1>4, <1>6, Zenon DEF CommitReadHead, CheckoutResolve, ResetResolve, CreateBranch, MergeResolve, Begin, shared
<1>7. CASE CommitParent(p) \/ CommitTree(p) \/ CheckoutTree(p) \/ UpdateCurrentRef(p) \/ CreateFrom(p)
  BY <1>4, <1>7, Zenon DEF CommitParent, CommitTree, CheckoutTree, UpdateCurrentRef, CreateFrom, shared
<1>8. CASE MergeTheirs(p) \/ MergeTrees(p) \/ MergeFastForward(p) \/ UpdateResolve(p) \/ UpdateReadHead(p)
  BY <1>4, <1>8, Zenon DEF MergeTheirs, MergeTrees, MergeFastForward, UpdateResolve, UpdateReadHead, shared
<1>9. CASE CommitWrite(p) \/ MergeCommit(p) \/ LogHead(p) \/ LogSym(p) \/ FlushRef(p) \/ FlushHeadLog(p)
  BY <1>4, <1>9, Zenon DEF CommitWrite, MergeCommit, LogHead, LogSym, FlushRef, FlushHeadLog
<1> QED BY <1>3, <1>5, <1>6, <1>7, <1>8, <1>9, Zenon DEF Step

\* What the process itself finds after its step.
LEMMA StepFinds ==
    ASSUME RefInv, FoundInv, NEW p \in Proc, Step(p)
    PROVE  Found(p)'
<1>1. /\ pc \in [Proc -> Label] /\ to \in [Proc -> Target] /\ oid \in [Proc -> Nat] /\ sym \in [Proc -> Ref]
      /\ onHead \in [Proc -> BOOLEAN] /\ logs \in [Ref -> Seq(Nat)]
  BY Zenon DEF RefInv, TypeOK, Label
<1>2. Found(p)
  BY Zenon DEF FoundInv
<1>3. ASSUME pc'[p] \notin Recording \cup {"flushlog"}, onHead'[p] = FALSE PROVE Found(p)'
  BY <1>3, Zenon DEF Found, Recording
<1>4. pc[p] \notin Recording \cup {"flushlog"} => onHead[p] = FALSE
  BY <1>1, <1>2, Zenon DEF Found
<1>5. CASE FlushUnborn(p) \/ FlushLog(p) \/ NothingToCommit(p) \/ CheckoutConflict(p) \/ MergeStops(p) \/ NoSignature(p)
           \/ Locked(p) \/ Killed(p)
  BY <1>1, <1>3, <1>5, Zenon DEF FlushUnborn, FlushLog, NothingToCommit, CheckoutConflict, MergeStops, NoSignature, Locked, Killed,
                          Leave, End, Forget, Goto, Recording
<1>6. CASE CommitReadHead(p) \/ CheckoutResolve(p) \/ ResetResolve(p) \/ CreateBranch(p) \/ MergeResolve(p)
  <2>1. CASE CommitReadHead(p) \/ CreateBranch(p) \/ MergeResolve(p)
    BY <1>1, <1>3, <1>4, <2>1, Zenon DEF CommitReadHead, CreateBranch, MergeResolve, Begin, Goto, shared, Recording
  <2>2. CASE CheckoutResolve(p) \/ ResetResolve(p)
    BY <1>1, <1>3, <1>4, <2>2, Zenon DEF CheckoutResolve, ResetResolve, Begin, Goto, shared, Recording
  <2> QED BY <1>6, <2>1, <2>2, Zenon
<1>7. CASE CommitParent(p) \/ CommitTree(p) \/ CheckoutTree(p) \/ UpdateCurrentRef(p) \/ CreateFrom(p)
  BY <1>1, <1>3, <1>4, <1>7, Zenon DEF CommitParent, CommitTree, CheckoutTree, UpdateCurrentRef, CreateFrom,
                                Goto, Recording
<1>8. CASE MergeTheirs(p) \/ MergeTrees(p) \/ MergeFastForward(p) \/ CommitWrite(p) \/ MergeCommit(p)
  BY <1>1, <1>3, <1>4, <1>8, Zenon DEF MergeTheirs, MergeTrees, MergeFastForward, CommitWrite, MergeCommit,
                                Goto, Recording
<1>9. CASE CreateUnborn(p)
  <2>1. None # p
    BY RefDbAssumption, Zenon
  <2> QED BY <1>1, <1>3, <1>4, <1>9, <2>1, Zenon DEF CreateUnborn, KeepOnHead, Goto, Recording
<1>10. CASE SetRef(p)
  BY <1>1, <1>10, Zenon DEF SetRef, KeepOnHead, Goto, Found, Recording
<1>11. CASE UpdateResolve(p)
  BY <1>1, <1>2, <1>11, Zenon DEF UpdateResolve, ResolveRef, Goto, shared, Found, Recording
<1>12. CASE UpdateReadHead(p)
  <2>1. pc[p] = "head" /\ UNCHANGED <<refs, logs, lost, onHead, to, sym, oid>> /\ pc'[p] \in {"loghead", "log"}
    BY <1>1, <1>12, Zenon DEF UpdateReadHead, Goto, shared, files
  <2>2. pc'[p] = "log" => ~onHead[p]
    BY <1>1, <1>2, <1>12, <2>1, Zenon DEF UpdateReadHead, Goto, Found
  <2>3. Symbolic(sym[p])' = Symbolic(sym[p])
    BY <2>1, Zenon DEF Symbolic
  <2> QED BY <1>2, <2>1, <2>2, <2>3, Zenon DEF Found, Recording
<1>13. CASE LogHead(p)
  <2>1. "HEAD" \in Ref /\ oid[p] \in Nat
    BY <1>1, Zenon DEF Ref
  <2>2. Logged("HEAD", oid[p])'
    BY <1>1, <1>13, <2>1, AppendKeeps, Zenon DEF LogHead, Logged
  <2>3. pc'[p] = "flushheadlog" /\ UNCHANGED <<refs, onHead, to, sym, oid>> /\ pc[p] = "loghead"
    BY <1>1, <1>13, Zenon DEF LogHead, Goto
  <2>4. Symbolic(sym[p])' = Symbolic(sym[p])
    BY <2>3, Zenon DEF Symbolic
  <2> QED BY <1>2, <2>2, <2>3, <2>4, Zenon DEF Found, Recording
<1>14. CASE LogSym(p)
  <2>1. "HEAD" \in Ref /\ oid[p] \in Nat /\ sym[p] \in Ref
    BY <1>1, Zenon DEF Ref
  <2>2. pc'[p] = "flushlog" /\ UNCHANGED <<refs, onHead, to, sym, oid>> /\ pc[p] = "log" /\ AppendLog(p, sym[p], oid[p])
    BY <1>1, <1>14, Zenon DEF LogSym, Goto
  <2>3. /\ lost \subseteq lost' /\ \A r \in Ref : r \in lost' \/ \A c : Logged(r, c) => Logged(r, c)'
        /\ Logged(sym[p], oid[p])'
    BY <1>1, <2>1, <2>2, AppendKeeps, Zenon DEF Logged
  <2>4. Symbolic(sym[p])' = Symbolic(sym[p])
    BY <2>2, Zenon DEF Symbolic
  <2>5. onHead[p] /\ "HEAD" \notin lost' => Logged("HEAD", oid[p])'
    <3> SUFFICES ASSUME onHead[p], "HEAD" \notin lost' PROVE Logged("HEAD", oid[p])'
      OBVIOUS
    <3>1. Logged("HEAD", oid[p])
      BY <1>2, <2>2, <2>3, Zenon DEF Found
    <3>2. \A c : Logged("HEAD", c) => Logged("HEAD", c)'
      BY <2>1, <2>3, Zenon
    <3> QED BY <2>2, <3>1, <3>2, Zenon DEF Logged
  <2> QED BY <1>2, <2>2, <2>3, <2>4, <2>5, Zenon DEF Found
<1>15. CASE FlushRef(p) \/ FlushHeadLog(p)
  <2>1. /\ UNCHANGED <<refs, logs, lost, onHead, to, sym, oid>>
        /\ (pc[p] = "flushref" /\ pc'[p] = "resolve") \/ (pc[p] = "flushheadlog" /\ pc'[p] = "log")
    BY <1>1, <1>15, Zenon DEF FlushRef, FlushHeadLog, Goto
  <2>2. Symbolic(sym[p])' = Symbolic(sym[p]) /\ (Logged("HEAD", oid[p])' <=> Logged("HEAD", oid[p]))
    BY <2>1, Zenon DEF Symbolic, Logged
  <2> QED BY <1>2, <2>1, <2>2, Zenon DEF Found, Recording
<1> QED BY <1>5, <1>6, <1>7, <1>8, <1>9, <1>10, <1>11, <1>12, <1>13, <1>14, <1>15, Zenon DEF Step

\* Every step of every process keeps FoundInv.
LEMMA StepFoundInv == RefInv /\ FoundInv /\ [Next]_vars => FoundInv'
<1> SUFFICES ASSUME RefInv, FoundInv, [Next]_vars PROVE FoundInv'
  OBVIOUS
<1>1. CASE UNCHANGED vars
  BY <1>1, Zenon DEF vars, FoundInv, Found, Logged
<1>2. ASSUME NEW p \in Proc, Step(p), NEW q \in Proc PROVE Found(q)'
  <2>1. CASE q = p
    BY <1>2, <2>1, StepFinds, Zenon
  <2>2. CASE q # p
    <3>1. Spares(p)
      BY <1>2, StepSpares, Zenon DEF RefInv
    <3>2. Found(q) /\ "HEAD" \in Ref /\ sym[q] \in Ref
      BY Zenon DEF FoundInv, RefInv, TypeOK, Ref
    <3>3. onHead'[q] => onHead[q] /\ refs'["HEAD"] = Symbolic(sym[q])
      BY <1>2, <2>2, StepKeepsOnHead, Zenon
    <3>4. /\ pc'[q] = pc[q] /\ sym'[q] = sym[q] /\ to'[q] = to[q] /\ oid'[q] = oid[q]
          /\ lost \subseteq lost'
      BY <2>2, <3>1, Zenon DEF Spares
    <3>5. ASSUME NEW r \in Ref, r \notin lost', Logged(r, oid[q]) PROVE Logged(r, oid[q])'
      <4>1. \A c : Logged(r, c) => Logged(r, c)'
        BY <3>1, <3>5, Zenon DEF Spares
      <4> QED BY <3>4, <3>5, <4>1, Zenon DEF Logged
    <3>6. onHead'[q] => pc'[q] \in Recording \cup {"flushlog"} /\ refs'["HEAD"] = Symbolic(sym'[q])
      BY <3>2, <3>3, <3>4, Zenon DEF Found
    <3>7. pc'[q] \in {"head", "loghead", "flushheadlog", "log", "flushlog"} /\ to'[q].kind = "direct"
              => oid'[q] = to'[q].oid
      BY <3>2, <3>4, Zenon DEF Found
    <3>8. pc'[q] \in {"flushheadlog", "log", "flushlog"} /\ onHead'[q] /\ "HEAD" \notin lost' => Logged("HEAD", oid[q])'
      BY <3>2, <3>3, <3>4, <3>5, Zenon DEF Found
    <3>9. pc'[q] = "flushlog" /\ sym'[q] \notin lost' => Logged(sym[q], oid[q])'
      <4> SUFFICES ASSUME pc'[q] = "flushlog", sym'[q] \notin lost' PROVE Logged(sym[q], oid[q])'
        OBVIOUS
      <4>1. Logged(sym[q], oid[q])
        BY <3>2, <3>4, Zenon DEF Found
      <4>2. \A c : Logged(sym[q], c) => \E i \in 1..Len(logs'[sym[q]]) : logs'[sym[q]][i] = c
        BY <3>1, <3>2, <3>4, Zenon DEF Spares, Logged
      <4> QED BY <3>4, <4>1, <4>2, Zenon DEF Logged
    <3> QED BY <3>6, <3>7, <3>8, <3>9, Zenon DEF Found
  <2> QED BY <2>1, <2>2, Zenon
<1> QED BY <1>1, <1>2, Zenon DEF Next, FoundInv

\* Both invariants hold in every behaviour.
THEOREM FoundInvariant == Spec => [](RefInv /\ FoundInv)
<1>1. Init => FoundInv
  BY Zenon DEF Init, FoundInv, Found
<1>2. RefInv /\ FoundInv /\ [Next]_vars => FoundInv'
  BY StepFoundInv, Zenon
<1> QED BY <1>1, <1>2, RefInvariant, PTL DEF Spec

\* A commit or a merge that is reported done is in the log of the ref it moved,
\* and in HEAD's log if HEAD named that ref all along, whatever the other
\* processes did to the ref and its log meanwhile, unless the log was empty when
\* one of them read it to append to it (update, append, Lockfile::commit).
THEOREM DoneIsFound == Spec => DoneIsLogged
<1> DEFINE Done == \A p \in Proc : (FlushLog(p) /\ cmd[p] \in {"commit", "merge"}) =>
                       /\ sym[p] \notin lost => Logged(sym[p], to[p].oid)
                       /\ onHead[p] /\ "HEAD" \notin lost => Logged("HEAD", to[p].oid)
<1>1. ASSUME RefInv, FoundInv PROVE Done
  <2> SUFFICES ASSUME NEW p \in Proc, FlushLog(p), cmd[p] \in {"commit", "merge"}
               PROVE  /\ sym[p] \notin lost => Logged(sym[p], to[p].oid)
                      /\ onHead[p] /\ "HEAD" \notin lost => Logged("HEAD", to[p].oid)
    OBVIOUS
  <2>1. parents \in Seq(Seq(Nat))
    BY <1>1, Zenon DEF RefInv, TypeOK
  <2>2. MayHold(pc[p], cmd[p], sym[p], to[p], oid[p]) /\ Found(p) /\ pc[p] = "flushlog"
    BY <1>1, Holds, Zenon DEF FoundInv, FlushLog
  <2>3. to[p] \in Known
    BY <2>2, Zenon DEF MayHold, Fits
  <2>4. to[p].kind = "direct" /\ oid[p] = to[p].oid
    BY <2>1, <2>2, <2>3, ValueFacts, Zenon DEF Found
  <2> QED BY <2>2, <2>4, Zenon DEF Found
<1>2. RefInv /\ FoundInv => [Done]_vars
  BY <1>1, Zenon
<1> QED BY <1>2, FoundInvariant, PTL DEF DoneIsLogged

-----------------------------------------------------------------------------
(* Commands that run one at a time *)

\* Nobody else is running.
SoleInv ==
    alone => \A p \in Proc : pc[p] # "dead" /\ (pc[p] # "idle" => \A q \in Proc \ {p} : pc[q] = "idle")

\* While process p makes a step, the others are idle, so that no lock is taken.
LEMMA SoleStep ==
    ASSUME TypeOK, alone, SoleInv, NEW p \in Proc, Step(p)
    PROVE  /\ \A q \in Proc \ {p} : pc[q] = "idle" /\ pc'[q] = "idle"
           /\ pc'[p] # "dead"
           /\ ~Locked(p) /\ ~Killed(p) /\ ~NoSignature(p)
<1>1. pc \in [Proc -> Label]
  BY Zenon DEF TypeOK, Label
<1>2. ~Killed(p) /\ ~NoSignature(p)
  BY Zenon DEF Killed, NoSignature
<1>3. \A q \in Proc \ {p} : pc[q] = "idle"
  <2>1. CASE pc[p] # "idle"
    BY <2>1, Zenon DEF SoleInv
  <2>2. CASE pc[p] = "idle"
    <3>1. CommitReadHead(p) \/ CheckoutResolve(p) \/ ResetResolve(p) \/ CreateBranch(p) \/ MergeResolve(p)
      BY <2>2, Zenon DEF Step, CommitParent, CommitTree, NothingToCommit, CommitWrite, CheckoutTree, CheckoutConflict,
                  UpdateCurrentRef, CreateFrom, CreateUnborn, MergeTheirs, MergeTrees, MergeStops,
                  MergeFastForward, MergeCommit, SetRef, UpdateResolve, UpdateReadHead, LogHead, LogSym,
                  FlushRef, FlushUnborn, FlushHeadLog, FlushLog, NoSignature, Locked, Killed, Running
    <3> QED BY <3>1, Zenon DEF CommitReadHead, CheckoutResolve, ResetResolve, CreateBranch, MergeResolve, Begin
  <2> QED BY <2>1, <2>2, Zenon
<1>4. ~Locked(p)
  BY <1>3, Zenon DEF Locked, MayBeLocked
<1>5. \A q \in Proc \ {p} : pc'[q] = "idle"
  BY <1>3, StepSpares, Zenon DEF Spares
<1>6. pc'[p] # "dead"
  <2>1. CASE CommitReadHead(p) \/ CheckoutResolve(p) \/ ResetResolve(p) \/ CreateBranch(p) \/ MergeResolve(p)
    BY <1>1, <2>1, Zenon DEF CommitReadHead, CheckoutResolve, ResetResolve, CreateBranch, MergeResolve, Begin, Goto
  <2>2. CASE CommitParent(p) \/ CommitTree(p) \/ CheckoutTree(p) \/ UpdateCurrentRef(p) \/ CreateFrom(p)
             \/ MergeTheirs(p) \/ MergeTrees(p) \/ MergeFastForward(p) \/ UpdateResolve(p) \/ UpdateReadHead(p)
    BY <1>1, <2>2, Zenon DEF CommitParent, CommitTree, CheckoutTree, UpdateCurrentRef, CreateFrom, MergeTheirs,
                      MergeTrees, MergeFastForward, UpdateResolve, UpdateReadHead, Goto
  <2>3. CASE CommitWrite(p) \/ MergeCommit(p) \/ SetRef(p) \/ LogHead(p) \/ CreateUnborn(p) \/ LogSym(p)
             \/ FlushRef(p) \/ FlushHeadLog(p)
    BY <1>1, <2>3, Zenon DEF CommitWrite, MergeCommit, SetRef, LogHead, CreateUnborn, LogSym, FlushRef, FlushHeadLog, Goto
  <2>4. CASE FlushUnborn(p) \/ FlushLog(p) \/ NothingToCommit(p) \/ CheckoutConflict(p) \/ MergeStops(p)
    BY <1>1, <2>4, Zenon DEF FlushUnborn, FlushLog, NothingToCommit, CheckoutConflict, MergeStops, Leave, End, Forget, Goto
  <2> QED BY <1>2, <1>4, <2>1, <2>2, <2>3, <2>4, Zenon DEF Step
<1> QED BY <1>2, <1>3, <1>4, <1>5, <1>6, Zenon

\* It stays that way.
LEMMA StepSoleInv == TypeOK /\ SoleInv /\ [Next]_vars => SoleInv'
<1> SUFFICES ASSUME TypeOK, SoleInv, [Next]_vars PROVE SoleInv'
  OBVIOUS
<1>1. CASE UNCHANGED vars
  BY <1>1, Zenon DEF vars, SoleInv
<1>2. ASSUME NEW p \in Proc, Step(p) PROVE SoleInv'
  <2>1. alone' = alone
    BY <1>2, StepSpares, Zenon DEF Spares
  <2>2. CASE alone
    BY <1>2, <2>2, SoleStep, Zenon DEF SoleInv
  <2>3. CASE ~alone
    BY <2>1, <2>3, Zenon DEF SoleInv
  <2> QED BY <2>2, <2>3, Zenon
<1> QED BY <1>1, <1>2, Zenon DEF Next

-----------------------------------------------------------------------------
(* Histories *)

Older(h) == \A c \in 1..Len(h) : \A i \in 1..Len(h[c]) : h[c][i] \in 1..(c - 1)

\* The recursive definition has a solution, built commit by commit.
LEMMA AncestorsExist ==
    ASSUME NEW h \in Seq(Seq(Nat)), Older(h)
    PROVE  \E f : f = [c \in 1..Len(h) |-> {c} \cup UNION {f[h[c][i]] : i \in 1..Len(h[c])}]
<1> DEFINE N == Len(h)
<1> DEFINE Good(n) == \E f : f = [c \in 1..n |-> {c} \cup UNION {f[h[c][i]] : i \in 1..Len(h[c])}]
<1> DEFINE T == {n \in 0..N : Good(n)}
<1>0. N \in Nat
  OBVIOUS
<1>1. 0 \in T
  <2> DEFINE e == [c \in 1..0 |-> {}]
  <2>1. \A x : x \notin 1..0
    OBVIOUS
  <2>2. e = [c \in 1..0 |-> {c} \cup UNION {e[h[c][i]] : i \in 1..Len(h[c])}]
    BY <2>1, Zenon
  <2>3. Good(0)
    BY <2>2, Zenon
  <2> HIDE DEF Good
  <2> QED BY <1>0, <2>3
<1>2. ASSUME NEW m \in 1..N, Good(m - 1) PROVE Good(m)
  <2>1. PICK f : f = [c \in 1..(m - 1) |-> {c} \cup UNION {f[h[c][i]] : i \in 1..Len(h[c])}]
    BY <1>2, Zenon
  <2> DEFINE g == [c \in 1..m |-> {c} \cup UNION {f[h[c][i]] : i \in 1..Len(h[c])}]
  <2>2. \A c \in 1..m : \A i \in 1..Len(h[c]) : h[c][i] \in 1..(m - 1)
    <3> SUFFICES ASSUME NEW c \in 1..m, NEW i \in 1..Len(h[c]) PROVE h[c][i] \in 1..(m - 1)
      OBVIOUS
    <3>1. c \in 1..N /\ c <= m /\ m \in Nat /\ c \in Nat
      BY <1>0
    <3>2. h[c][i] \in 1..(c - 1)
      BY <3>1, Zenon DEF Older
    <3>3. ASSUME NEW y \in 1..(c - 1) PROVE y \in 1..(m - 1)
      BY <3>1
    <3> QED BY <3>2, <3>3, Zenon
  <2>3. \A c \in 1..(m - 1) : c \in 1..m
    BY <1>0
  <2>7. \A c \in 1..(m - 1) : f[c] = {c} \cup UNION {f[h[c][i]] : i \in 1..Len(h[c])}
    BY <2>1, Zenon
  <2>4. \A c \in 1..(m - 1) : g[c] = f[c]
    BY <2>3, <2>7, Zenon
  <2>5. \A c \in 1..m : {f[h[c][i]] : i \in 1..Len(h[c])} = {g[h[c][i]] : i \in 1..Len(h[c])}
    <3> HIDE DEF g
    <3> SUFFICES ASSUME NEW c \in 1..m
                 PROVE  {f[h[c][i]] : i \in 1..Len(h[c])} = {g[h[c][i]] : i \in 1..Len(h[c])}
      BY Zenon
    <3>1. \A i \in 1..Len(h[c]) : f[h[c][i]] = g[h[c][i]]
      BY <2>2, <2>4, Zenon
    <3> QED BY <3>1, Zenon
  <2>6. g = [c \in 1..m |-> {c} \cup UNION {g[h[c][i]] : i \in 1..Len(h[c])}]
    BY <2>5, Zenon
  <2> HIDE DEF g
  <2> QED BY <2>6, Zenon
<1>3. \A m \in 1..N : m - 1 \in T => m \in T
  <2> HIDE DEF Good
  <2> QED BY <1>2
<1>4. N \in T
  <2> HIDE DEF T
  <2>1. N \in 0..N
    BY <1>0
  <2> QED BY <1>0, <1>1, <1>3, <2>1, UpTo, Zenon
<1> QED BY <1>4, Zenon

\* The history that Ancestors is about, as a parameter.
AncestorsIn(h) == CHOOSE f : f = [c \in 1..Len(h) |-> {c} \cup UNION {f[h[c][i]] : i \in 1..Len(h[c])}]

\* It is what its definition says.
LEMMA AncestorsUnfold ==
    ASSUME NEW h \in Seq(Seq(Nat)), Older(h), NEW c \in 1..Len(h)
    PROVE  AncestorsIn(h)[c] = {c} \cup UNION {AncestorsIn(h)[h[c][i]] : i \in 1..Len(h[c])}
<1> DEFINE Solves(f) == f = [x \in 1..Len(h) |-> {x} \cup UNION {f[h[x][i]] : i \in 1..Len(h[x])}]
<1>1. AncestorsIn(h) = CHOOSE f : Solves(f)
  BY Zenon DEF AncestorsIn
<1>2. \E f : Solves(f)
  BY AncestorsExist, Zenon
<1>3. Solves(AncestorsIn(h))
  <2> HIDE DEF Solves
  <2> QED BY <1>1, <1>2, Zenon
<1> QED BY <1>3, Zenon

\* Ancestors depends on nothing else.
LEMMA AncestorsSame == Ancestors = AncestorsIn(parents) /\ Ancestors' = AncestorsIn(parents')
<1>1. Ancestors = AncestorsIn(parents)
  BY Zenon DEF Ancestors, AncestorsIn, Commits
<1>2. Ancestors' = AncestorsIn(parents')
  BY Zenon DEF Ancestors, AncestorsIn, Commits
<1> QED BY <1>1, <1>2, Zenon

-----------------------------------------------------------------------------
(* What a command knows when it runs alone *)

LastIs(r, c) == logs[r] # <<>> /\ logs[r][Len(logs[r])] = c

\* A commit still has the current branch, and its parent is what it names.
CommitExact(p) ==
    cmd[p] = "commit" =>
        /\ pc[p] \in {"parent", "tree", "write", "set"} => sym[p] = CurrentRef
        /\ pc[p] \in {"tree", "write", "set"} => oid[p] = refs[sym[p]].oid
        /\ pc[p] = "set" => parents[to[p].oid] = IF oid[p] = 0 THEN <<>> ELSE <<oid[p]>>

\* A branch still does not exist.
BranchExact(p) ==
    cmd[p] = "branch" /\ pc[p] \in {"from", "unborn"} => refs[sym[p]] = Missing

\* A merge still has HEAD's commit, and what it moves HEAD to descends from it.
MergeExact(p) ==
    cmd[p] = "merge" =>
        /\ pc[p] \in {"theirs", "ff", "mergecommit", "current", "set"} => oid[p] = ResolveHead
        /\ pc[p] \in {"ff", "current", "set"} => oid[p] \in Ancestors[ResolveRef(to[p])]
        /\ pc[p] = "set" => sym[p] = CurrentRef

\* An update logs what the ref still resolves to, in HEAD's log too if and only
\* if HEAD names the ref.
RecordExact(p) ==
    /\ pc[p] \in Recording => refs[sym[p]] = to[p]
    /\ pc[p] \in {"head", "loghead", "flushheadlog", "log"} => oid[p] = ResolveRef(to[p])
    /\ pc[p] = "loghead" => refs["HEAD"] = Symbolic(sym[p])
    /\ pc[p] \in {"flushheadlog", "log"} /\ refs["HEAD"] = Symbolic(sym[p]) => LastIs("HEAD", oid[p])

Exact(p) == CommitExact(p) /\ BranchExact(p) /\ MergeExact(p) /\ RecordExact(p)

ExactInv == alone => \A p \in Proc : Exact(p)

\* Nothing but pc and cmd matters where no conjunct speaks of the label.
LEMMA ExactElsewhere ==
    ASSUME NEW p \in Proc,
           \/ pc'[p] \in {"idle", "checkout", "flushhead", "flushlog"}
           \/ cmd'[p] \in {"reset", "checkout", "branch"} /\ pc'[p] \in {"current", "set"}
    PROVE  Exact(p)'
BY Zenon DEF Exact, CommitExact, BranchExact, MergeExact, RecordExact, Recording

\* What a process knows after its step, if it began or went on without touching
\* refs, logs or commits.
LEMMA ExactLocal ==
    ASSUME RefInv, NEW p \in Proc, Exact(p),
           \/ CommitReadHead(p) \/ CheckoutResolve(p) \/ ResetResolve(p) \/ CreateBranch(p) \/ MergeResolve(p)
           \/ CommitParent(p) \/ CommitTree(p) \/ CheckoutTree(p) \/ UpdateCurrentRef(p) \/ CreateFrom(p)
           \/ MergeTheirs(p) \/ MergeTrees(p) \/ MergeFastForward(p) \/ UpdateResolve(p) \/ UpdateReadHead(p)
           \/ FlushRef(p) \/ FlushHeadLog(p)
    PROVE  Exact(p)'
<1>1. /\ pc \in [Proc -> Label] /\ cmd \in [Proc -> Command] /\ sym \in [Proc -> Ref]
      /\ to \in [Proc -> Target] /\ oid \in [Proc -> Nat]
  BY Zenon DEF RefInv, TypeOK, Label, Command
<1>2. MayHold(pc[p], cmd[p], sym[p], to[p], oid[p])
  BY Holds, Zenon
<1>3. UNCHANGED <<parents, refs, logs>>
  BY Zenon DEF CommitReadHead, CheckoutResolve, ResetResolve, CreateBranch, MergeResolve, Begin, CommitParent,
         CommitTree, CheckoutTree, UpdateCurrentRef, CreateFrom, MergeTheirs, MergeTrees, MergeFastForward,
         UpdateResolve, UpdateReadHead, FlushRef, FlushHeadLog, shared
<1>4. CurrentRef' = CurrentRef /\ ResolveHead' = ResolveHead /\ Ancestors' = Ancestors /\ Missing' = Missing
  BY <1>3, AncestorsSame, Zenon DEF CurrentRef, ResolveHead, ResolveRef, Missing
<1>5. CASE CommitReadHead(p)
  <2>1. pc'[p] = "parent" /\ cmd'[p] = "commit" /\ sym'[p] = CurrentRef
    BY <1>1, <1>5, Zenon DEF CommitReadHead, Begin, Goto
  <2> QED BY <1>4, <2>1, Zenon DEF Exact, CommitExact, BranchExact, MergeExact, RecordExact, Recording
<1>6. CASE CheckoutResolve(p) \/ ResetResolve(p)
  <2>1. cmd'[p] \in {"checkout", "reset"} /\ pc'[p] \in {"checkout", "current"}
    BY <1>1, <1>6, Zenon DEF CheckoutResolve, ResetResolve, Begin, Goto
  <2> QED BY <2>1, ExactElsewhere, Zenon
<1>7. CASE CreateBranch(p)
  <2>1. pc'[p] = "from" /\ cmd'[p] = "branch" /\ refs[sym'[p]] = Missing
    BY <1>1, <1>7, Zenon DEF CreateBranch, Begin, Goto
  <2> QED BY <1>3, <1>4, <2>1, Zenon DEF Exact, CommitExact, BranchExact, MergeExact, RecordExact, Recording
<1>8. CASE MergeResolve(p)
  <2>1. pc'[p] = "theirs" /\ cmd'[p] = "merge" /\ oid'[p] = ResolveHead
    BY <1>1, <1>8, Zenon DEF MergeResolve, Begin, Goto
  <2> QED BY <1>4, <2>1, Zenon DEF Exact, CommitExact, BranchExact, MergeExact, RecordExact, Recording
<1>9. CASE CommitParent(p)
  <2>1. pc[p] = "parent" /\ cmd[p] = "commit" /\ sym[p] = CurrentRef
    BY <1>2, <1>9, Zenon DEF CommitParent, MayHold, Fits, Exact, CommitExact
  <2>2. pc'[p] = "tree" /\ cmd'[p] = "commit" /\ sym'[p] = sym[p] /\ oid'[p] = ResolveRef(refs[sym[p]])
    BY <1>1, <1>9, <2>1, Zenon DEF CommitParent, Goto
  <2>3. ResolveRef(refs[sym[p]]) = refs[sym[p]].oid
    <3>1. refs[CurrentRef] \in Known \cup {Missing} /\ parents \in Seq(Seq(Nat))
      BY HeadFacts, Zenon DEF RefInv, TypeOK
    <3> QED BY <2>1, <3>1, ValueFacts, Zenon DEF ResolveRef
  <2> QED BY <1>3, <1>4, <2>1, <2>2, <2>3, Zenon DEF Exact, CommitExact, BranchExact, MergeExact, RecordExact, Recording
<1>10. CASE CommitTree(p)
  <2>1. /\ pc[p] = "tree" /\ cmd[p] = "commit" /\ pc'[p] = "write" /\ cmd'[p] = "commit"
        /\ UNCHANGED <<sym, oid>>
    BY <1>1, <1>2, <1>10, Zenon DEF CommitTree, Goto, MayHold, Fits
  <2> QED BY <1>3, <1>4, <2>1, Zenon DEF Exact, CommitExact, BranchExact, MergeExact, RecordExact, Recording
<1>11. CASE CheckoutTree(p)
  <2>1. cmd'[p] \in {"checkout", "reset"} /\ pc'[p] \in {"current", "set"}
    BY <1>1, <1>2, <1>11, Zenon DEF CheckoutTree, Goto, MayHold, Fits
  <2> QED BY <2>1, ExactElsewhere, Zenon
<1>12. CASE UpdateCurrentRef(p)
  <2>1. /\ pc[p] = "current" /\ cmd[p] \in {"reset", "merge"} /\ pc'[p] = "set" /\ sym'[p] = CurrentRef
        /\ UNCHANGED <<cmd, to, oid>>
    BY <1>1, <1>2, <1>12, Zenon DEF UpdateCurrentRef, Goto, MayHold, Fits
  <2>2. ResolveRef(to[p])' = ResolveRef(to[p])
    BY <1>3, <2>1, Zenon DEF ResolveRef
  <2> QED BY <1>4, <2>1, <2>2, Zenon DEF Exact, CommitExact, BranchExact, MergeExact, RecordExact, Recording
<1>13. CASE CreateFrom(p)
  <2>1. /\ pc[p] = "from" /\ cmd[p] = "branch" /\ pc'[p] \in {"set", "unborn"} /\ UNCHANGED <<cmd, sym>>
    BY <1>1, <1>2, <1>13, Zenon DEF CreateFrom, Goto, MayHold, Fits
  <2> QED BY <1>3, <1>4, <2>1, Zenon DEF Exact, CommitExact, BranchExact, MergeExact, RecordExact, Recording
<1>14. CASE MergeTheirs(p)
  <2>1. /\ pc[p] = "theirs" /\ cmd[p] = "merge" /\ pc'[p] = "ff" /\ UNCHANGED <<cmd, to, oid>>
        /\ oid[p] \in Ancestors[ResolveRef(to[p])]
    BY <1>1, <1>2, <1>14, Zenon DEF MergeTheirs, Goto, MayHold, Fits
  <2>2. ResolveRef(to[p])' = ResolveRef(to[p])
    BY <1>3, <2>1, Zenon DEF ResolveRef
  <2> QED BY <1>4, <2>1, <2>2, Zenon DEF Exact, CommitExact, BranchExact, MergeExact, RecordExact, Recording
<1>15. CASE MergeTrees(p)
  <2>1. /\ pc[p] = "theirs" /\ cmd[p] = "merge" /\ pc'[p] = "mergecommit" /\ UNCHANGED <<cmd, oid>>
    BY <1>1, <1>2, <1>15, Zenon DEF MergeTrees, Goto, MayHold, Fits
  <2> QED BY <1>4, <2>1, Zenon DEF Exact, CommitExact, BranchExact, MergeExact, RecordExact, Recording
<1>16. CASE MergeFastForward(p)
  <2>1. /\ pc[p] = "ff" /\ cmd[p] = "merge" /\ pc'[p] = "current" /\ UNCHANGED <<cmd, oid>>
        /\ to'[p] = Direct(ResolveRef(to[p]))
    BY <1>1, <1>2, <1>16, Zenon DEF MergeFastForward, Goto, MayHold, Fits
  <2>2. ResolveRef(to[p])' = ResolveRef(to[p])
    BY <2>1 DEF ResolveRef, Direct
  <2> QED BY <1>4, <2>1, <2>2, Zenon DEF Exact, CommitExact, BranchExact, MergeExact, RecordExact, Recording
<1>17. CASE UpdateResolve(p)
  <2>1. /\ pc[p] = "resolve" /\ pc'[p] = "head" /\ UNCHANGED <<cmd, to, sym>>
        /\ oid'[p] = ResolveRef(to[p])
    BY <1>1, <1>17, Zenon DEF UpdateResolve, Goto
  <2>2. ResolveRef(to[p])' = ResolveRef(to[p])
    BY <1>3, <2>1, Zenon DEF ResolveRef
  <2> QED BY <1>3, <2>1, <2>2, Zenon DEF Exact, CommitExact, BranchExact, MergeExact, RecordExact, Recording
<1>18. CASE UpdateReadHead(p)
  <2>1. /\ pc[p] = "head" /\ pc'[p] = (IF refs["HEAD"] = Symbolic(sym[p]) THEN "loghead" ELSE "log")
        /\ UNCHANGED <<cmd, to, sym, oid>>
    BY <1>1, <1>18, Zenon DEF UpdateReadHead, Goto
  <2>2. ResolveRef(to[p])' = ResolveRef(to[p]) /\ Symbolic(sym[p])' = Symbolic(sym[p])
    BY <1>3, <2>1, Zenon DEF ResolveRef, Symbolic
  <2> QED BY <1>3, <2>1, <2>2, Zenon DEF Exact, CommitExact, BranchExact, MergeExact, RecordExact, Recording
<1>19. CASE FlushRef(p) \/ FlushHeadLog(p)
  <2>1. /\ UNCHANGED <<cmd, to, sym, oid>>
        /\ (pc[p] = "flushref" /\ pc'[p] = "resolve") \/ (pc[p] = "flushheadlog" /\ pc'[p] = "log")
    BY <1>1, <1>19, Zenon DEF FlushRef, FlushHeadLog, Goto
  <2>2. ResolveRef(to[p])' = ResolveRef(to[p]) /\ Symbolic(sym[p])' = Symbolic(sym[p])
    BY <1>3, <2>1, Zenon DEF ResolveRef, Symbolic
  <2>3. LastIs("HEAD", oid[p])' <=> LastIs("HEAD", oid[p])
    BY <1>3, <2>1, Zenon DEF LastIs
  <2> QED BY <1>3, <2>1, <2>2, <2>3, Zenon DEF Exact, CommitExact, BranchExact, MergeExact, RecordExact, Recording
<1> QED BY <1>5, <1>6, <1>7, <1>8, <1>9, <1>10, <1>11, <1>12, <1>13, <1>14, <1>15, <1>16, <1>17, <1>18,
          <1>19, Zenon

\* What it knows after writing a commit, a ref or HEAD's log.
LEMMA ExactShared ==
    ASSUME RefInv, RefInv', NEW p \in Proc, Exact(p),
           CommitWrite(p) \/ MergeCommit(p) \/ SetRef(p) \/ LogHead(p)
    PROVE  Exact(p)'
<1>1. /\ pc \in [Proc -> Label] /\ cmd \in [Proc -> Command] /\ sym \in [Proc -> Ref]
      /\ to \in [Proc -> Target] /\ oid \in [Proc -> Nat] /\ parents \in Seq(Seq(Nat))
      /\ refs \in [Ref -> Target] /\ logs \in [Ref -> Seq(Nat)]
  BY Zenon DEF RefInv, TypeOK, Label, Command
<1>2. MayHold(pc[p], cmd[p], sym[p], to[p], oid[p])
  BY Holds, Zenon
<1> DEFINE new == Len(parents) + 1
<1>3. new \in Nat
  BY <1>1
<1>4. CASE CommitWrite(p)
  <2> DEFINE ps == IF oid[p] = 0 THEN <<>> ELSE <<oid[p]>>
  <2>1. /\ pc[p] = "write" /\ cmd[p] = "commit" /\ pc'[p] = "set" /\ to'[p] = Direct(new)
        /\ parents' = Append(parents, ps) /\ UNCHANGED <<refs, cmd, sym, oid>>
    BY <1>1, <1>4, Zenon DEF CommitWrite, Goto
  <2>2. to'[p].oid = new
    BY <2>1 DEF Direct
  <2>3. ps \in Seq(Nat)
    BY <1>1
  <2>4. parents'[new] = ps
    <3> HIDE DEF ps
    <3> QED BY <1>1, <2>1, <2>3
  <2>5. CurrentRef' = CurrentRef
    BY <2>1, Zenon DEF CurrentRef
  <2> HIDE DEF new
  <2> QED BY <2>1, <2>2, <2>4, <2>5, Zenon DEF Exact, CommitExact, BranchExact, MergeExact, RecordExact, Recording
<1>5. CASE MergeCommit(p)
  <2> DEFINE ps == <<oid[p], to[p].oid>>
  <2>1. /\ pc[p] = "mergecommit" /\ pc'[p] = "current" /\ to'[p] = Direct(new)
        /\ parents' = Append(parents, ps) /\ UNCHANGED <<refs, cmd, sym, oid>>
    BY <1>1, <1>5, Zenon DEF MergeCommit, Goto
  <2>2. cmd[p] = "merge" /\ oid[p] \in Commits /\ to[p].oid \in Nat
    BY <1>1, <1>2, <2>1, Zenon DEF MayHold, Fits, Target
  <2>3. ResolveRef(to[p])' = new /\ ResolveHead' = ResolveHead
    BY <2>1 DEF ResolveRef, ResolveHead, Direct
  <2>4. ps \in Seq(Nat) /\ Len(ps) = 2 /\ ps[1] = oid[p]
    BY <1>1, <2>2
  <2>5. parents'[new] = ps /\ Len(parents') = new
    <3> HIDE DEF ps
    <3> QED BY <1>1, <2>1, <2>4
  <2>6. new \in Commits' /\ oid[p] \in Commits'
    BY <1>1, <2>2, <2>5 DEF Commits
  <2>7. /\ Ancestors'[new] = {new} \cup UNION {Ancestors'[parents'[new][i]] : i \in 1..Len(parents'[new])}
        /\ oid[p] \in Ancestors'[oid[p]]
    <3>1. parents' \in Seq(Seq(Nat)) /\ Older(parents') /\ new \in 1..Len(parents') /\ oid[p] \in 1..Len(parents')
      BY <2>6, Zenon DEF RefInv, TypeOK, Older, Commits
    <3> HIDE DEF new
    <3> DEFINE A == AncestorsIn(parents')
    <3>2. A[new] = {new} \cup UNION {A[parents'[new][i]] : i \in 1..Len(parents'[new])}
      BY <3>1, AncestorsUnfold, Zenon
    <3>3. A[oid[p]] = {oid[p]} \cup UNION {A[parents'[oid[p]][i]] : i \in 1..Len(parents'[oid[p]])}
      BY <3>1, AncestorsUnfold, Zenon
    <3>4. Ancestors' = A
      BY AncestorsSame, Zenon
    <3> HIDE DEF A
    <3> QED BY <3>2, <3>3, <3>4, Zenon
  <2>8. oid[p] \in Ancestors'[new]
    <3> HIDE DEF ps, new
    <3>1. 1 \in 1..Len(parents'[new]) /\ parents'[new][1] = oid[p]
      BY <2>4, <2>5
    <3> QED BY <2>7, <3>1, Zenon
  <2>9. Exact(p) /\ oid[p] = ResolveHead
    BY <2>1, <2>2, Zenon DEF Exact, MergeExact
  <2> HIDE DEF new
  <2> QED BY <2>1, <2>2, <2>3, <2>8, <2>9, Zenon DEF Exact, CommitExact, BranchExact, MergeExact, RecordExact, Recording
<1>6. CASE SetRef(p)
  <2>1. pc'[p] = "flushref" /\ refs'[sym[p]] = to[p] /\ UNCHANGED <<cmd, sym, to>>
    BY <1>1, <1>6, Zenon DEF SetRef, Goto
  <2> QED BY <2>1, Zenon DEF Exact, CommitExact, BranchExact, MergeExact, RecordExact, Recording
<1>7. CASE LogHead(p)
  <2>1. pc[p] = "loghead" /\ pc'[p] = "flushheadlog" /\ UNCHANGED <<refs, cmd, sym, to, oid>>
    BY <1>1, <1>7, Zenon DEF LogHead, Goto
  <2>2. LastIs("HEAD", oid[p])'
    <3>1. "HEAD" \in Ref /\ oid[p] \in Nat
      BY <1>1, Zenon DEF Ref
    <3> QED BY <1>1, <1>7, <2>1, <3>1, AppendKeeps, Zenon DEF LogHead, LastIs
  <2>3. ResolveRef(to[p])' = ResolveRef(to[p])
    BY <2>1, Zenon DEF ResolveRef
  <2> QED BY <2>1, <2>2, <2>3, Zenon DEF Exact, CommitExact, BranchExact, MergeExact, RecordExact, Recording
<1> QED BY <1>4, <1>5, <1>6, <1>7, Zenon

\* A command that runs alone still knows what it knew.
LEMMA StepExactInv == RefInv /\ RefInv' /\ SoleInv /\ ExactInv /\ [Next]_vars => ExactInv'
<1> SUFFICES ASSUME RefInv, RefInv', SoleInv, ExactInv, [Next]_vars PROVE ExactInv'
  OBVIOUS
<1>1. CASE UNCHANGED vars
  <2>1. ASSUME NEW p \in Proc PROVE Exact(p)' <=> Exact(p)
    <3>1. CurrentRef' = CurrentRef /\ ResolveHead' = ResolveHead /\ Ancestors' = Ancestors /\ Missing' = Missing
      BY <1>1, AncestorsSame, Zenon DEF vars, CurrentRef, ResolveHead, ResolveRef, Missing
    <3>2. ResolveRef(to[p])' = ResolveRef(to[p]) /\ Symbolic(sym[p])' = Symbolic(sym[p])
      BY <1>1, Zenon DEF vars, ResolveRef, Symbolic
    <3>3. UNCHANGED <<parents, refs, logs, pc, cmd, sym, to, oid>>
      BY <1>1, Zenon DEF vars
    <3>4. CommitExact(p)' <=> CommitExact(p)
      BY <3>1, <3>2, <3>3, Zenon DEF CommitExact
    <3>5. BranchExact(p)' <=> BranchExact(p)
      BY <3>1, <3>2, <3>3, Zenon DEF BranchExact
    <3>6. MergeExact(p)' <=> MergeExact(p)
      BY <3>1, <3>2, <3>3, Zenon DEF MergeExact
    <3>7. RecordExact(p)' <=> RecordExact(p)
      BY <3>1, <3>2, <3>3, Zenon DEF RecordExact, LastIs
    <3> QED BY <3>4, <3>5, <3>6, <3>7, Zenon DEF Exact
  <2> QED BY <1>1, <2>1, Zenon DEF vars, ExactInv
<1>2. ASSUME NEW p \in Proc, Step(p) PROVE ExactInv'
  <2>1. alone' = alone
    BY <1>2, StepSpares, Zenon DEF RefInv, Spares
  <2> SUFFICES ASSUME alone, NEW q \in Proc PROVE Exact(q)'
    BY <2>1, Zenon DEF ExactInv
  <2>2. Exact(p) /\ pc \in [Proc -> Label]
    BY Zenon DEF ExactInv, RefInv, TypeOK, Label
  <2>3. /\ \A x \in Proc \ {p} : pc'[x] = "idle"
        /\ ~Locked(p) /\ ~Killed(p) /\ ~NoSignature(p)
    BY <1>2, SoleStep, Zenon DEF RefInv
  <2>4. CASE q # p
    BY <2>3, <2>4, ExactElsewhere, Zenon
  <2>5. CASE q = p
    <3>1. CASE LogSym(p) \/ CreateUnborn(p) \/ FlushUnborn(p) \/ FlushLog(p)
               \/ NothingToCommit(p) \/ CheckoutConflict(p) \/ MergeStops(p)
      <4>1. pc'[p] \in {"idle", "flushhead", "flushlog"}
        BY <2>2, <3>1, Zenon DEF LogSym, CreateUnborn, FlushUnborn, FlushLog, NothingToCommit, CheckoutConflict, MergeStops, Leave, End,
                          Forget, Goto
      <4> QED BY <2>5, <4>1, ExactElsewhere, Zenon
    <3>2. CASE CommitWrite(p) \/ MergeCommit(p) \/ SetRef(p) \/ LogHead(p)
      BY <2>2, <2>5, <3>2, ExactShared, Zenon
    <3> QED BY <1>2, <2>2, <2>3, <2>5, <3>1, <3>2, ExactLocal, Zenon DEF Step
  <2> QED BY <2>4, <2>5, Zenon
<1> QED BY <1>1, <1>2, Zenon DEF Next

-----------------------------------------------------------------------------
(* The logs of commands that run one at a time *)

\* Process p has set r, or the branch that r names, and not logged it yet.
Open(p, r) == pc[p] \in Recording /\ (sym[p] = r \/ (r = "HEAD" /\ refs["HEAD"] = Symbolic(sym[p])))

\* The newest entry of r's log is what r resolves to.
UpToDate(r) == ResolveRef(refs[r]) = 0 \/ LastIs(r, ResolveRef(refs[r]))

RecordedInv == alone => \A r \in Ref : (\E p \in Proc : Open(p, r)) \/ UpToDate(r)

\* A ref whose log and whose value stay is as up to date as it was.
LEMMA UpToDateStays ==
    ASSUME RefInv, NEW r \in Ref, UpToDate(r), refs'[r] = refs[r], logs'[r] = logs[r],
           refs[r] \in Names => refs'[refs[r].ref] = refs[refs[r].ref]
    PROVE  UpToDate(r)'
<1>1. refs[r] \in Value /\ parents \in Seq(Seq(Nat))
  BY Resolves, Zenon DEF RefInv, TypeOK
<1>2. ResolveRef(refs[r])' = ResolveRef(refs[r])
  BY <1>1, ValueFacts, Zenon DEF ResolveRef, Value
<1> QED BY <1>2, Zenon DEF UpToDate, LastIs

\* Before a process sets a ref, nothing is open.
LEMMA NothingOpen ==
    ASSUME RefInv, alone, SoleInv, RecordedInv, NEW p \in Proc, Step(p), pc[p] \notin Recording
    PROVE  \A r \in Ref : UpToDate(r)
<1>1. \A q \in Proc \ {p} : pc[q] = "idle"
  BY SoleStep, Zenon DEF RefInv
<1>2. \A q \in Proc, r \in Ref : ~Open(q, r)
  BY <1>1, Zenon DEF Open, Recording
<1> QED BY <1>2, Zenon DEF RecordedInv

\* The three steps that write a ref or end an update.
LEMMA RecordedWrites ==
    ASSUME RefInv, alone, SoleInv, ExactInv, RecordedInv, NEW p \in Proc, Step(p),
           SetRef(p) \/ CreateUnborn(p) \/ LogSym(p), NEW r \in Ref
    PROVE  Open(p, r)' \/ UpToDate(r)'
<1>1. /\ pc \in [Proc -> Label] /\ sym \in [Proc -> Ref] /\ refs \in [Ref -> Target]
      /\ parents \in Seq(Seq(Nat)) /\ logs \in [Ref -> Seq(Nat)] /\ oid \in [Proc -> Nat] /\ "HEAD" \in Ref
  BY Zenon DEF RefInv, TypeOK, Label, Ref
<1>2. Exact(p) /\ MayHold(pc[p], cmd[p], sym[p], to[p], oid[p])
  BY Holds, Zenon DEF ExactInv
<1>3. CASE SetRef(p)
  <2>1. pc[p] = "set" /\ pc'[p] = "flushref" /\ refs' = [refs EXCEPT ![sym[p]] = to[p]] /\ UNCHANGED <<logs, sym>>
    BY <1>1, <1>3, Zenon DEF SetRef, Goto
  <2>2. UpToDate(r)
    BY <2>1, NothingOpen, Zenon DEF Recording
  <2>3. CASE r = sym[p]
    BY <2>1, <2>3, Zenon DEF Open, Recording
  <2>4. CASE r # sym[p] /\ r = "HEAD" /\ refs["HEAD"] = Symbolic(sym[p])
    <3>1. refs'["HEAD"] = Symbolic(sym[p]) /\ Symbolic(sym[p])' = Symbolic(sym[p])
      BY <1>1, <2>1, <2>4, Zenon DEF Symbolic
    <3> QED BY <2>1, <2>4, <3>1, Zenon DEF Open, Recording
  <2>5. CASE r # sym[p] /\ ~(r = "HEAD" /\ refs["HEAD"] = Symbolic(sym[p]))
    <3>1. refs'[r] = refs[r]
      BY <1>1, <2>1, <2>5, Zenon
    <3>2. refs[r] \in Names => r = "HEAD"
      <4>1. r \in Branch => refs[r] \in Known \cup {Missing}
        BY Zenon DEF RefInv
      <4> QED BY <1>1, <4>1, ValueFacts, Zenon DEF Ref
    <3>3. refs[r] \in Names => refs[r].ref \in Ref /\ refs[r].ref # sym[p]
      <4>1. refs[r] \in Names => refs[r] = Symbolic(refs[r].ref) /\ refs[r].ref \in Branch
        BY <1>1, ValueFacts, Zenon
      <4> QED BY <2>5, <3>2, <4>1, Zenon DEF Ref
    <3>4. refs[r] \in Names => refs'[refs[r].ref] = refs[refs[r].ref]
      BY <1>1, <2>1, <3>3, Zenon
    <3> QED BY <2>1, <2>2, <3>1, <3>4, UpToDateStays, Zenon
  <2> QED BY <2>3, <2>4, <2>5, Zenon
<1>4. CASE CreateUnborn(p)
  <2>1. pc[p] = "unborn" /\ refs' = [refs EXCEPT !["HEAD"] = Symbolic(sym[p])] /\ UNCHANGED logs
    BY <1>4, Zenon DEF CreateUnborn
  <2>2. UpToDate(r)
    BY <2>1, NothingOpen, Zenon DEF Recording
  <2>3. sym[p] \in Branch /\ refs[sym[p]] = Missing
    BY <1>2, <2>1, Zenon DEF MayHold, Fits, Exact, BranchExact
  <2>4. sym[p] # "HEAD" /\ sym[p] \in Ref
    BY <2>3, RefDbAssumption, Zenon DEF Ref
  <2>5. CASE r = "HEAD"
    <3>1. refs'["HEAD"] = Symbolic(sym[p]) /\ refs'[sym[p]] = Missing
      BY <1>1, <2>1, <2>3, <2>4, Zenon
    <3>2. ResolveRef(refs["HEAD"])' = 0
      BY <3>1 DEF ResolveRef, Symbolic, Missing
    <3> QED BY <2>5, <3>2, Zenon DEF UpToDate
  <2>6. CASE r # "HEAD"
    <3>1. r \in Branch /\ refs'[r] = refs[r]
      BY <1>1, <2>1, <2>6, Zenon DEF Ref
    <3>2. refs[r] \notin Names
      BY <1>1, <3>1, ValueFacts, Zenon DEF RefInv
    <3> QED BY <2>1, <2>2, <3>1, <3>2, UpToDateStays, Zenon
  <2> QED BY <2>5, <2>6, Zenon
<1>5. CASE LogSym(p)
  <2>1. pc[p] = "log" /\ AppendLog(p, sym[p], oid[p]) /\ UNCHANGED refs
    BY <1>5, Zenon DEF LogSym
  <2>2. refs[sym[p]] = to[p] /\ oid[p] = ResolveRef(to[p]) /\ RecordExact(p)
    BY <1>2, <2>1, Zenon DEF Exact, RecordExact, Recording
  <2>3. /\ logs'[sym[p]] # <<>> /\ logs'[sym[p]][Len(logs'[sym[p]])] = oid[p]
        /\ \A x \in Ref \ {sym[p]} : logs'[x] = logs[x]
    <3>1. sym[p] \in Ref /\ oid[p] \in Nat /\ logs \in [Ref -> Seq(Nat)]
      BY <1>1, Zenon DEF RefInv, TypeOK
    <3> DEFINE x == sym[p]
               k == oid[p]
    <3>2. x \in Ref /\ k \in Nat /\ AppendLog(p, x, k)
      BY <2>1, <3>1, Zenon
    <3> HIDE DEF x, k
    <3>3. /\ logs'[x] # <<>> /\ logs'[x][Len(logs'[x])] = k
          /\ \A y \in Ref \ {x} : logs'[y] = logs[y]
      BY <3>1, <3>2, AppendKeeps, Zenon
    <3> QED BY <3>3, Zenon DEF x, k
  <2>4. ResolveRef(refs[r])' = ResolveRef(refs[r])
    BY <2>1, Zenon DEF ResolveRef
  <2>5. CASE r = sym[p]
    BY <2>2, <2>3, <2>4, <2>5, Zenon DEF UpToDate, LastIs
  <2>6. CASE r # sym[p] /\ r = "HEAD" /\ refs["HEAD"] = Symbolic(sym[p])
    <3>1. LastIs("HEAD", oid[p])
      BY <2>1, <2>2, <2>6, Zenon DEF RecordExact
    <3>2. sym[p] \in Branch
      BY <1>1, <2>6, Zenon DEF Ref
    <3>3. refs[sym[p]] \in Known \cup {Missing}
      BY <3>2, Zenon DEF RefInv
    <3>4. ResolveRef(refs["HEAD"]) = to[p].oid /\ ResolveRef(to[p]) = to[p].oid
      BY <1>1, <2>2, <2>6, <3>3, ValueFacts DEF ResolveRef, Symbolic
    <3> QED BY <1>1, <2>2, <2>3, <2>4, <2>6, <3>1, <3>4, Zenon DEF UpToDate, LastIs
  <2>7. CASE r # sym[p] /\ ~(r = "HEAD" /\ refs["HEAD"] = Symbolic(sym[p]))
    <3>1. \A q \in Proc \ {p} : pc[q] = "idle"
      BY SoleStep, Zenon DEF RefInv
    <3>2. \A q \in Proc : ~Open(q, r)
      BY <2>7, <3>1, Zenon DEF Open, Recording
    <3>3. UpToDate(r)
      BY <3>2, Zenon DEF RecordedInv
    <3> QED BY <2>1, <2>3, <2>7, <3>3, UpToDateStays, Zenon
  <2> QED BY <2>5, <2>6, <2>7, Zenon
<1> QED BY <1>3, <1>4, <1>5, Zenon

\* Nothing else makes a log out of date.
LEMMA StepRecordedInv == RefInv /\ SoleInv /\ ExactInv /\ RecordedInv /\ [Next]_vars => RecordedInv'
<1> SUFFICES ASSUME RefInv, SoleInv, ExactInv, RecordedInv, [Next]_vars PROVE RecordedInv'
  OBVIOUS
<1>1. CASE UNCHANGED vars
  BY <1>1, Zenon DEF vars, RecordedInv, Open, UpToDate, LastIs, ResolveRef, Symbolic
<1>2. ASSUME NEW p \in Proc, Step(p) PROVE RecordedInv'
  <2>1. alone' = alone
    BY <1>2, StepSpares, Zenon DEF RefInv, Spares
  <2> SUFFICES ASSUME alone, NEW r \in Ref PROVE Open(p, r)' \/ UpToDate(r)'
    BY <2>1, Zenon DEF RecordedInv
  <2>2. /\ \A q \in Proc \ {p} : pc[q] = "idle"
        /\ ~Locked(p) /\ ~Killed(p) /\ ~NoSignature(p)
    BY <1>2, SoleStep, Zenon DEF RefInv
  <2>3. pc \in [Proc -> Label] /\ logs \in [Ref -> Seq(Nat)] /\ oid \in [Proc -> Nat] /\ "HEAD" \in Ref
    BY Zenon DEF RefInv, TypeOK, Label, Ref
  <2>4. CASE SetRef(p) \/ CreateUnborn(p) \/ LogSym(p)
    BY <1>2, <2>4, RecordedWrites, Zenon
  <2>5. Open(p, r) \/ UpToDate(r)
    BY <2>2, Zenon DEF RecordedInv, Open, Recording
  <2>6. CASE LogHead(p)
    <3>1. pc[p] = "loghead" /\ pc'[p] = "flushheadlog" /\ AppendLog(p, "HEAD", oid[p]) /\ UNCHANGED <<refs, sym>>
      BY <2>3, <2>6, Zenon DEF LogHead, Goto
    <3>2. refs["HEAD"] = Symbolic(sym[p]) /\ Symbolic(sym[p])' = Symbolic(sym[p])
      BY <3>1, Zenon DEF ExactInv, Exact, RecordExact, Symbolic
    <3>3. CASE r = "HEAD" \/ Open(p, r)
      BY <3>1, <3>2, <3>3, Zenon DEF Open, Recording
    <3>4. CASE r # "HEAD" /\ ~Open(p, r)
      <4>1. logs'[r] = logs[r]
        BY <2>3, <3>1, <3>4, AppendKeeps, Zenon
      <4> QED BY <2>5, <3>1, <3>4, <4>1, UpToDateStays, Zenon
    <3> QED BY <3>3, <3>4, Zenon
  <2>7. CASE UpdateResolve(p) \/ UpdateReadHead(p) \/ FlushRef(p) \/ FlushHeadLog(p)
    <3>1. pc[p] \in Recording /\ pc'[p] \in Recording /\ UNCHANGED <<refs, sym, logs>>
      BY <2>3, <2>7, Zenon DEF UpdateResolve, UpdateReadHead, FlushRef, FlushHeadLog, Goto, Recording, shared
    <3>2. Symbolic(sym[p])' = Symbolic(sym[p])
      BY <3>1, Zenon DEF Symbolic
    <3>3. CASE Open(p, r)
      BY <3>1, <3>2, <3>3, Zenon DEF Open
    <3>4. CASE UpToDate(r)
      BY <3>1, <3>4, UpToDateStays, Zenon
    <3> QED BY <2>5, <3>3, <3>4, Zenon
  <2>8. ASSUME pc[p] \notin Recording, UNCHANGED <<refs, logs>> PROVE UpToDate(r)'
    BY <1>2, <2>8, NothingOpen, UpToDateStays, Zenon
  <2>9. CASE CommitReadHead(p) \/ CheckoutResolve(p) \/ ResetResolve(p) \/ CreateBranch(p) \/ MergeResolve(p)
    BY <2>8, <2>9, Zenon DEF CommitReadHead, CheckoutResolve, ResetResolve, CreateBranch, MergeResolve, Begin, shared,
                      Recording
  <2>10. CASE CommitParent(p) \/ CommitTree(p) \/ CheckoutTree(p) \/ UpdateCurrentRef(p) \/ CreateFrom(p)
    BY <2>8, <2>10, Zenon DEF CommitParent, CommitTree, CheckoutTree, UpdateCurrentRef, CreateFrom, shared, Recording
  <2>11. CASE MergeTheirs(p) \/ MergeTrees(p) \/ MergeFastForward(p) \/ CommitWrite(p) \/ MergeCommit(p)
    BY <2>8, <2>11, Zenon DEF MergeTheirs, MergeTrees, MergeFastForward, CommitWrite, MergeCommit, shared, Recording
  <2>12. CASE NothingToCommit(p) \/ CheckoutConflict(p) \/ MergeStops(p) \/ FlushUnborn(p) \/ FlushLog(p)
    BY <2>8, <2>12, Zenon DEF NothingToCommit, CheckoutConflict, MergeStops, FlushUnborn, FlushLog, Recording
  <2> QED BY <1>2, <2>2, <2>4, <2>6, <2>7, <2>9, <2>10, <2>11, <2>12, Zenon DEF Step
<1> QED BY <1>1, <1>2, Zenon DEF Next

AloneInv == RefInv /\ EmptyInFlight /\ SoleInv /\ ExactInv /\ RecordedInv

\* The invariant of commands that run one at a time holds in every behaviour.
THEOREM AloneInvariant == Spec => []AloneInv
<1>1. Init => SoleInv /\ ExactInv /\ RecordedInv
  <2> SUFFICES ASSUME Init PROVE SoleInv /\ ExactInv /\ RecordedInv
    OBVIOUS
  <2>1. \A p \in Proc : pc[p] = "idle"
    BY Zenon DEF Init
  <2>2. SoleInv
    BY <2>1, Zenon DEF SoleInv
  <2>3. ExactInv
    BY <2>1, Zenon DEF ExactInv, Exact, CommitExact, BranchExact, MergeExact, RecordExact, Recording
  <2>4. \A r \in Ref : ResolveRef(refs[r]) = 0
    <3>1. Master \in Ref /\ Master # "HEAD"
      BY RefDbAssumption, Zenon DEF Ref
    <3>2. refs[Master] = Missing /\ \A r \in Ref : refs[r] \in {Missing, Symbolic(Master)}
      BY <3>1, Zenon DEF Init
    <3> QED BY <3>2 DEF ResolveRef, Missing, Symbolic
  <2>5. RecordedInv
    BY <2>4, Zenon DEF RecordedInv, UpToDate
  <2> QED BY <2>2, <2>3, <2>5, Zenon
<1>2. RefInv => TypeOK
  BY Zenon DEF RefInv
<1>3. RefInv /\ SoleInv /\ [Next]_vars => SoleInv'
  BY <1>2, StepSoleInv, Zenon
<1>4. RefInv /\ RefInv' /\ SoleInv /\ ExactInv /\ [Next]_vars => ExactInv'
  BY StepExactInv, Zenon
<1>5. RefInv /\ SoleInv /\ ExactInv /\ RecordedInv /\ [Next]_vars => RecordedInv'
  BY StepRecordedInv, Zenon
<1> QED BY <1>1, <1>3, <1>4, <1>5, RefInvariant, EmptyInvariant, PTL DEF Spec, AloneInv

\* r@{0} is the last entry of r's log.
LEMMA NewestIsLast ==
    ASSUME NEW t
    PROVE  ResolveRev(t, Newest) = ReflogGet(t, 0)
<1> DEFINE Solves(f) == f = [i \in 0..Len(Newest) |->
                                 IF i = 0 THEN t ELSE ResolveSuffix(f[i - 1], Newest[i][1], Newest[i][2])]
<1> DEFINE upTo == CHOOSE f : Solves(f)
<1> DEFINE last == [i \in 0..1 |-> IF i = 0 THEN t ELSE ResolveSuffix(t, "@", 0)]
<1>1. Len(Newest) = 1 /\ Newest[1][1] = "@" /\ Newest[1][2] = 0
  BY Zenon DEF Newest
<1>2. \A i \in 0..1 : i # 0 => i = 1 /\ i - 1 = 0
  OBVIOUS
<1>3. last[0] = t
  OBVIOUS
<1>4. \A i \in 0..1 : last[i] = IF i = 0 THEN t ELSE ResolveSuffix(last[i - 1], Newest[i][1], Newest[i][2])
  BY <1>1, <1>2, <1>3, Zenon
<1>5. Solves(last)
  BY <1>1, <1>4, Zenon
<1>6. Solves(upTo)
  <2> HIDE DEF Solves
  <2> QED BY <1>5, Zenon
<1>7. upTo[0] = t /\ upTo[1] = ResolveSuffix(t, "@", 0)
  <2> HIDE DEF upTo
  <2>1. upTo[0] = t
    BY <1>1, <1>6
  <2>2. upTo[1] = ResolveSuffix(upTo[0], "@", 0)
    BY <1>1, <1>6
  <2> QED BY <2>1, <2>2, Zenon
<1>8. ResolveRev(t, Newest) = upTo[1]
  BY <1>1, Zenon DEF ResolveRev
<1>9. ResolveSuffix(t, "@", 0) = ReflogGet(t, 0)
  BY Zenon DEF ResolveSuffix
<1> HIDE DEF upTo
<1> QED BY <1>7, <1>8, <1>9, Zenon

\* What a ref's newest entry resolves to, if its log is up to date.
LEMMA NewestIsCurrent ==
    ASSUME RefInv, NEW b \in Branch, refs[b] # Missing, UpToDate(b), torn[<<"log", b>>] = None
    PROVE  ReflogGet(Symbolic(b), 0) = refs[b]
<1>1. refs[b] \in Known /\ b \in Ref /\ parents \in Seq(Seq(Nat))
  BY Zenon DEF RefInv, TypeOK, Ref
<1>2. ResolveRef(refs[b]) = refs[b].oid /\ refs[b].oid # 0 /\ refs[b] = Direct(refs[b].oid)
  BY <1>1, Resolves, ValueFacts, Zenon
<1>3. LastIs(b, refs[b].oid)
  BY <1>2, Zenon DEF UpToDate
<1>4. logs[b] \in Seq(Nat) /\ logs[b] # <<>>
  BY <1>1, <1>3, Zenon DEF RefInv, TypeOK, LastIs
<1>5. Len(logs[b]) \in Nat /\ Len(logs[b]) # 0
  BY <1>4
<1>6. ~(0 >= Len(logs[b])) /\ Len(logs[b]) - 0 = Len(logs[b])
  BY <1>5
<1>7. ReflogGet(Symbolic(b), 0) = Direct(logs[b][Len(logs[b])])
  BY <1>6, Zenon DEF ReflogGet, Symbolic, LoadLog
<1> QED BY <1>2, <1>3, <1>7, Zenon DEF LastIs

\* Commands that run one at a time leave logs whose newest entries are what HEAD
\* and the branches resolve to, and r@{0} resolves to what r does (update,
\* append, resolve_rev_internal).
THEOREM LogsAreCurrent == Spec => []LogIsCurrent
<1>1. AloneInv => LogIsCurrent
  <2> SUFFICES ASSUME AloneInv, alone, Quiet
               PROVE  /\ ResolveHead # 0 =>
                            /\ logs["HEAD"] # <<>> /\ logs["HEAD"][Len(logs["HEAD"])] = ResolveHead
                            /\ CurrentRef # "HEAD" => ResolveRev(ResolveName("HEAD"), Newest) = Direct(ResolveHead)
                      /\ \A b \in Branch : refs[b] # Missing => ResolveRev(ResolveName(b), Newest) = refs[b]
    BY Zenon DEF LogIsCurrent
  <2>1. RefInv /\ RecordedInv /\ parents \in Seq(Seq(Nat))
    BY Zenon DEF AloneInv, RefInv, TypeOK
  <2>2. \A p \in Proc, r \in Ref : ~Open(p, r)
    BY Zenon DEF Quiet, Open, Recording
  <2>3. \A r \in Ref : UpToDate(r)
    BY <2>1, <2>2, Zenon DEF RecordedInv
  <2>4. ASSUME ResolveHead # 0 PROVE LastIs("HEAD", ResolveHead)
    BY <2>3, <2>4, Zenon DEF UpToDate, ResolveHead, Ref
  <2>7. \A file \in File : torn[file] = None
    BY Zenon DEF AloneInv, EmptyInFlight, Quiet, MustFlush
  <2>8. Whole("HEAD") /\ \A b \in Branch : torn[<<"log", b>>] = None
    BY <2>7, Zenon DEF Whole, File, Ref
  <2>5. ASSUME ResolveHead # 0, CurrentRef # "HEAD"
        PROVE  ResolveRev(ResolveName("HEAD"), Newest) = Direct(ResolveHead)
    <3>1. /\ CurrentRef \in Branch /\ refs["HEAD"] = Symbolic(CurrentRef) /\ ResolveHead = refs[CurrentRef].oid
          /\ refs[CurrentRef] \in Known \cup {Missing}
      BY <2>1, <2>5, HeadFacts, Zenon
    <3>2. refs[CurrentRef] \in Known /\ refs[CurrentRef] # Missing /\ refs[CurrentRef] = Direct(ResolveHead)
      BY <2>1, <2>5, <3>1, ValueFacts, Zenon
    <3>3. ReflogGet(Symbolic(CurrentRef), 0) = refs[CurrentRef]
      BY <2>1, <2>3, <2>8, <3>1, <3>2, NewestIsCurrent, Zenon DEF Ref
    <3>4. ResolveName("HEAD") = Symbolic(CurrentRef)
      BY <2>8, <3>1, Zenon DEF ResolveName
    <3> QED BY <3>2, <3>3, <3>4, NewestIsLast, Zenon
  <2>6. ASSUME NEW b \in Branch, refs[b] # Missing PROVE ResolveRev(ResolveName(b), Newest) = refs[b]
    <3>1. ResolveName(b) = Symbolic(b)
      BY <2>6, RefDbAssumption, Zenon DEF ResolveName
    <3>2. ReflogGet(Symbolic(b), 0) = refs[b]
      BY <2>1, <2>3, <2>6, <2>8, NewestIsCurrent, Zenon DEF Ref
    <3> QED BY <3>1, <3>2, NewestIsLast, Zenon
  <2> QED BY <2>4, <2>5, <2>6, Zenon DEF LastIs
<1> QED BY <1>1, AloneInvariant, PTL

\* When commands run one at a time, a commit moves its branch, or the detached
\* HEAD, from the commit's parent to the commit, and a merge moves it to a
\* descendant: what was on a branch stays on it (commit, merge, update).
THEOREM CommitsExtend == Spec => CommitExtends
<1> DEFINE Extends ==
        \A p \in Proc : \A r \in Ref :
            (alone /\ pc[p] = "set" /\ refs'[r] # refs[r]) =>
                /\ cmd[p] = "commit" =>
                      parents[refs'[r].oid] = IF refs[r] = Missing THEN <<>> ELSE <<refs[r].oid>>
                /\ cmd[p] = "merge" => refs[r].oid \in Ancestors[refs'[r].oid]
<1>1. ASSUME AloneInv, [Next]_vars PROVE Extends
  <2> SUFFICES ASSUME NEW p \in Proc, NEW r \in Ref, alone, pc[p] = "set", refs'[r] # refs[r]
               PROVE  /\ cmd[p] = "commit" =>
                            parents[refs'[r].oid] = IF refs[r] = Missing THEN <<>> ELSE <<refs[r].oid>>
                      /\ cmd[p] = "merge" => refs[r].oid \in Ancestors[refs'[r].oid]
    OBVIOUS
  <2>1. RefInv /\ SoleInv /\ ExactInv /\ TypeOK /\ parents \in Seq(Seq(Nat)) /\ refs \in [Ref -> Target]
    BY <1>1, Zenon DEF AloneInv, RefInv, TypeOK
  <2>2. PICK q \in Proc : Step(q)
    BY <1>1, Zenon DEF Next, vars
  <2>3. q = p /\ ~Locked(q) /\ ~Killed(q) /\ ~NoSignature(q)
    BY <2>1, <2>2, SoleStep, Zenon
  <2>4. SetRef(p)
    BY <2>2, <2>3, Zenon DEF Step, CommitReadHead, CommitParent, CommitTree, NothingToCommit, CommitWrite,
                      CheckoutResolve, CheckoutTree, CheckoutConflict, ResetResolve, UpdateCurrentRef,
                      CreateBranch, CreateFrom, CreateUnborn, MergeResolve, MergeTheirs, MergeTrees, MergeStops,
                      MergeFastForward, MergeCommit, UpdateResolve, UpdateReadHead, LogHead, LogSym, FlushRef,
                      FlushUnborn, FlushHeadLog, FlushLog, Begin
  <2>5. r = sym[p] /\ refs'[r] = to[p]
    BY <2>1, <2>4, Zenon DEF SetRef
  <2>6. Exact(p) /\ MayHold(pc[p], cmd[p], sym[p], to[p], oid[p])
    BY <2>1, Holds, Zenon DEF ExactInv
  <2>7. /\ refs[CurrentRef] \in Known \cup {Missing} /\ ResolveHead = refs[CurrentRef].oid
        /\ \A k \in Known : k.oid # 0 /\ k # Missing
        /\ Missing.oid = 0
    BY <2>1, HeadFacts, ValueFacts, Zenon
  <2>8. ASSUME cmd[p] = "commit" PROVE parents[refs'[r].oid] = IF refs[r] = Missing THEN <<>> ELSE <<refs[r].oid>>
    <3>1. /\ sym[p] = CurrentRef /\ oid[p] = refs[r].oid
          /\ parents[to[p].oid] = IF oid[p] = 0 THEN <<>> ELSE <<oid[p]>>
      BY <2>5, <2>6, <2>8, Zenon DEF Exact, CommitExact
    <3>2. refs[r] = Missing <=> oid[p] = 0
      BY <2>5, <2>7, <3>1, Zenon
    <3> QED BY <2>5, <3>1, <3>2, Zenon
  <2>9. ASSUME cmd[p] = "merge" PROVE refs[r].oid \in Ancestors[refs'[r].oid]
    <3>1. sym[p] = CurrentRef /\ oid[p] = ResolveHead /\ oid[p] \in Ancestors[ResolveRef(to[p])]
      BY <2>6, <2>9, Zenon DEF Exact, MergeExact
    <3>2. to[p] \in Known
      BY <2>6, <2>9, Zenon DEF MayHold, Fits
    <3>3. ResolveRef(to[p]) = to[p].oid
      BY <2>1, <3>2, Resolves, Zenon
    <3> QED BY <2>5, <2>7, <3>1, <3>3, Zenon
  <2> QED BY <2>8, <2>9, Zenon
<1>2. AloneInv /\ [Next]_vars => [Extends]_vars
  BY <1>1, Zenon
<1> QED BY <1>2, AloneInvariant, PTL DEF CommitExtends, Spec

=============================================================================
