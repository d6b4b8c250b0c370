----------------------------- MODULE FetchProofs -----------------------------
(****************************************************************************)
(* For every history, any number of branches, any batch and pipe sizes and  *)
(* every set of faults: the refs of a fetch or a clone only name commits    *)
(* whose whole history is in the object database, the client and the server *)
(* stay in step, and a fetch that reports success is current.               *)
(****************************************************************************)
EXTENDS Fetch, GraphProofs

-----------------------------------------------------------------------------
(* Packets and pipes *)

Bare == {"flush", "done", "ack", "nak", "progress", "error"}

\* What a packet carries.
LEMMA PacketFields ==
    ASSUME NEW p \in Packet
    PROVE  /\ p.type = "ref" => p.ref \in Branch /\ p.oid \in Commit
           /\ p.type \in {"want", "have"} => p.oid \in Commit
           /\ p.type = "data" => p.oids \subseteq Commit
BY Zenon DEF Packet

\* The packets that the two programs make.
LEMMA PacketsMade ==
    /\ \A t \in Bare : Plain(t) \in Packet /\ Plain(t).type = t
    /\ \A t \in {"want", "have"} : \A c \in Commit :
          With(t, c) \in Packet /\ With(t, c).type = t /\ With(t, c).oid = c
    /\ \A b \in Branch : \A c \in Commit : [type |-> "ref", ref |-> b, oid |-> c] \in Packet
    /\ \A S \in SUBSET Commit : [type |-> "data", oids |-> S] \in Packet
BY Zenon DEF Packet, Plain, With, Bare

\* A packet is added to a pipe.
LEMMA Appended ==
    ASSUME NEW S, NEW s \in Seq(S), NEW x \in S
    PROVE  /\ Append(s, x) \in Seq(S)
           /\ Range(Append(s, x)) = Range(s) \cup {x}
<1>1. /\ Append(s, x) \in Seq(S) /\ Len(Append(s, x)) = Len(s) + 1
      /\ DOMAIN Append(s, x) = 1..(Len(s) + 1) /\ DOMAIN s = 1..Len(s) /\ Len(s) \in Nat
      /\ \A i \in 1..Len(s) : Append(s, x)[i] = s[i]
      /\ Append(s, x)[Len(s) + 1] = x
  OBVIOUS
<1> QED BY <1>1 DEF Range

\* A packet is taken from a pipe.
LEMMA Taken ==
    ASSUME NEW S, NEW s \in Seq(S), s # <<>>
    PROVE  /\ Head(s) \in S /\ Tail(s) \in Seq(S)
           /\ Head(s) \in Range(s)
           /\ Range(Tail(s)) \subseteq Range(s)
<1>1. /\ Head(s) \in S /\ Tail(s) \in Seq(S) /\ Len(s) \in Nat /\ Len(s) # 0
      /\ DOMAIN s = 1..Len(s) /\ Head(s) = s[1]
      /\ DOMAIN Tail(s) = 1..(Len(s) - 1)
      /\ \A i \in 1..(Len(s) - 1) : Tail(s)[i] = s[i + 1]
  OBVIOUS
<1> QED BY <1>1 DEF Range

\* What is in a pipe is a packet.
LEMMA Elements ==
    ASSUME NEW S, NEW s \in Seq(S)
    PROVE  Range(s) \subseteq S
BY DEF Range

\* Nothing is in an empty pipe.
LEMMA EmptyPipe ==
    ASSUME NEW S
    PROVE  <<>> \in Seq(S) /\ Range(<<>>) = {}
BY DEF Range

\* What the server writes at once: up to two replies.
LEMMA Replies ==
    /\ \A x \in Packet : <<x>> \in Seq(Packet) /\ Range(<<x>>) = {x}
    /\ \A x, y \in Packet : <<x, y>> \in Seq(Packet) /\ Range(<<x, y>>) = {x, y}
<1>1. ASSUME NEW x \in Packet PROVE <<x>> \in Seq(Packet) /\ Range(<<x>>) = {x}
  BY DEF Range
<1>2. ASSUME NEW x \in Packet, NEW y \in Packet
      PROVE  <<x, y>> \in Seq(Packet) /\ Range(<<x, y>>) = {x, y}
  BY DEF Range
<1> QED BY <1>1, <1>2, Zenon

-----------------------------------------------------------------------------
(* What the server sends *)

\* The refs, and a flush.
LEMMA RefLinesAre ==
    ASSUME NEW list \in BranchLists, NEW oids \in [DOMAIN list -> Commit]
    PROVE  LET lines == RefLines(list, oids)
           IN  /\ lines \in Seq(Packet)
               /\ \A i \in DOMAIN lines :
                     lines[i].type = IF i = Len(lines) THEN "flush" ELSE "ref"
<1> DEFINE refs == [i \in DOMAIN list |-> [type |-> "ref", ref |-> list[i], oid |-> oids[i]]]
<1>1. PICK n \in 0..Branches : list \in [1..n -> Branch]
  BY Zenon DEF BranchLists
<1>2. n \in Nat
  BY FetchAssumption
<1>3. \A i \in 1..n : list[i] \in Branch /\ oids[i] \in Commit
  BY <1>1, Zenon
<1>4. refs = [i \in 1..n |-> refs[i]] /\ \A i \in 1..n : refs[i] \in Packet /\ refs[i].type = "ref"
  BY <1>1, <1>3, PacketsMade, Zenon
<1> HIDE DEF refs
<1>5. refs \in Seq(Packet) /\ Len(refs) = n
  BY <1>2, <1>4
<1>6. Plain("flush") \in Packet /\ Plain("flush").type = "flush"
  BY PacketsMade, Zenon DEF Bare
<1>7. RefLines(list, oids) = Append(refs, Plain("flush"))
  BY Zenon DEF RefLines, refs
<1> QED BY <1>2, <1>4, <1>5, <1>6, <1>7

\* What is reached from commits is reached from each, and is closed.
LEMMA ReachableFromFacts ==
    ASSUME parents \in History, NEW tips \in SUBSET Commit
    PROVE  /\ ReachableFrom(tips) \subseteq Commit
           /\ tips \subseteq ReachableFrom(tips)
           /\ Closed(parents, ReachableFrom(tips))
<1>1. \A c \in tips : /\ c \in Reachable(parents)[c]
                      /\ Reachable(parents)[c] \subseteq Commit
                      /\ Closed(parents, Reachable(parents)[c])
  BY ReachableClosed, Zenon
<1>2. ASSUME NEW d \in ReachableFrom(tips)
      PROVE  Range(parents[d]) \subseteq ReachableFrom(tips)
  <2>1. PICK c \in tips : d \in Reachable(parents)[c]
    BY Zenon DEF ReachableFrom
  <2>2. Range(parents[d]) \subseteq Reachable(parents)[c]
    BY <1>1, <2>1, Zenon DEF Closed
  <2> QED BY <2>2, Zenon DEF ReachableFrom
<1>3. Closed(parents, ReachableFrom(tips))
  BY <1>2, Zenon DEF Closed
<1> QED BY <1>1, <1>3, Zenon DEF ReachableFrom

\* Nothing outside of a closed set is reached from it.
LEMMA ReachableFromLeast ==
    ASSUME parents \in History, NEW tips \in SUBSET Commit, NEW S, Closed(parents, S),
           tips \subseteq S
    PROVE  ReachableFrom(tips) \subseteq S
<1>1. \A c \in tips : Reachable(parents)[c] \subseteq S
  BY ReachableLeast, Zenon
<1> QED BY <1>1, Zenon DEF ReachableFrom

\* A pack of what is wanted without what is reached from common commits is
\* complete for a client that has those.
LEMMA PackCompletes ==
    ASSUME parents \in History, NEW want \in SUBSET Commit, NEW have \in SUBSET Commit,
           NEW S, Closed(parents, S), have \subseteq S
    PROVE  Closed(parents, S \cup PackOf(want, have))
<1>1. Closed(parents, ReachableFrom(want))
  BY ReachableFromFacts, Zenon
<1>2. ReachableFrom(have) \subseteq S
  BY ReachableFromLeast, Zenon
<1> QED BY <1>1, <1>2, Zenon DEF Closed, PackOf

\* Two packs that are complete for a client are so together.
LEMMA ClosedTogether ==
    ASSUME NEW h, NEW S, NEW A, NEW B, Closed(h, S \cup A), Closed(h, S \cup B)
    PROVE  /\ Closed(h, (S \cup A) \cup B)
           /\ Closed(h, S \cup (A \cup B))
BY Zenon DEF Closed

\* The reply to "done", and the pack.
LEMMA PackPacketsAre ==
    ASSUME NEW reply \in {"ack", "nak"}, NEW pack \in SUBSET Commit
    PROVE  LET all == PackPackets(reply, pack)
           IN  /\ all \in Seq(Packet) /\ Len(all) = 4
               /\ all[1].type = reply /\ all[2].type = "progress"
               /\ all[3].type = "data" /\ all[3].oids = pack
               /\ all[4].type = "flush"
<1>1. /\ Plain(reply) \in Packet /\ Plain(reply).type = reply
      /\ Plain("progress") \in Packet /\ Plain("progress").type = "progress"
      /\ Plain("flush") \in Packet /\ Plain("flush").type = "flush"
  BY PacketsMade, Zenon DEF Bare
<1>2. [type |-> "data", oids |-> pack] \in Packet
  BY PacketsMade, Zenon
<1> DEFINE data == [type |-> "data", oids |-> pack]
<1>3. data \in Packet /\ data.type = "data" /\ data.oids = pack
  BY <1>2, Zenon
<1>4. PackPackets(reply, pack) = <<Plain(reply), Plain("progress"), data, Plain("flush")>>
  BY Zenon DEF PackPackets
<1> HIDE DEF data
<1> QED BY <1>1, <1>3, <1>4

\* The latest of some commits is one of them.
LEMMA LatestIn ==
    ASSUME NEW commits \in SUBSET Commit, commits # {}
    PROVE  Latest(commits) \in commits
<1> DEFINE ages == {N - c : c \in commits}
<1>1. N \in Nat /\ Commit = 1..N
  BY GraphAssumption, Zenon DEF Commit
<1>2. ages \in SUBSET Nat /\ ages # {}
  <2>1. \A c \in commits : N - c \in Nat
    BY <1>1
  <2>2. PICK c : c \in commits
    OBVIOUS
  <2>3. N - c \in ages
    BY <2>2, Zenon
  <2> QED BY <2>1, <2>3, Zenon
<1>3. PICK a \in ages : \A x \in ages : a <= x
  <2> HIDE DEF ages
  <2> QED BY <1>2, NatMin, Zenon
<1>4. PICK c \in commits : a = N - c
  BY <1>3, Zenon
<1>5. \A d \in commits : N - c <= N - d
  BY <1>3, <1>4, Zenon
<1>6. \A d \in commits : d <= c
  BY <1>1, <1>5
<1> QED BY <1>6, Zenon DEF Latest

-----------------------------------------------------------------------------
(* The object database holds whole histories *)

Place == {"idle", "discover", "want", "have", "reply", "last", "done", "acks", "pack",
          "index", "renamed", "update", "reset"}

Types ==
    /\ TypeOK
    /\ parents \in History /\ pc \in Place
    /\ wanted \subseteq Commit /\ pending \in Seq(Packet)

\* The object database is closed, and holds what the refs name.  A repository that
\* is being cloned has no HEAD.
Stored ==
    /\ Closed(parents, odb)
    /\ \A b \in Branch : tracking[b] \in odb \cup {None}
    /\ head \in odb \cup {None}
    /\ repo # "repo" => head = None

\* What is left to do is what the client's place says.
Listed ==
    /\ pc = "want" => todo \subseteq Commit
    /\ pc \in {"have", "reply"} => todo \subseteq odb
    /\ pc \in {"update", "reset"} => todo \subseteq Branch

\* A have is of a commit in the object database, and a pack completes it.
Honest(S, p) == p.type = "have" => p.oid \in S
Completes(h, S, p) == p.type = "data" => Closed(h, S \cup p.oids)

Told ==
    /\ common \subseteq odb
    /\ \A p \in Range(toServer) : Honest(odb, p)
    /\ Closed(parents, odb \cup got)
    /\ \A p \in Range(toClient) : Completes(parents, odb, p)
    /\ \A p \in Range(pending) : Completes(parents, odb, p)

StoreInv == Types /\ Stored /\ Listed /\ Told

\* Nothing is stored at first.
LEMMA InitStoreInv == Init => StoreInv
<1> SUFFICES ASSUME Init PROVE StoreInv
  OBVIOUS
<1>1. Range(toServer) = {} /\ Range(toClient) = {} /\ Range(pending) = {}
  BY EmptyPipe, Zenon DEF Init
<1>2. toServer \in Seq(Packet) /\ toClient \in Seq(Packet) /\ pending \in Seq(Packet)
  BY EmptyPipe, Zenon DEF Init
<1>3. 0 \in 0..BatchSize
  BY FetchAssumption
<1>4. Types
  BY <1>2, <1>3, Zenon DEF Init, Types, TypeOK, Place
<1>5. Stored /\ Listed
  BY Zenon DEF Init, Stored, Listed, Closed
<1>6. Told
  BY <1>1, Zenon DEF Init, Told, Closed
<1> QED BY <1>4, <1>5, <1>6, Zenon DEF StoreInv

\* Leaving closes the pipes and forgets the pack.
LEMMA LeaveStores ==
    ASSUME StoreInv, NEW success \in BOOLEAN, Leave(success), parents' = parents,
           odb' \subseteq Commit, orphans' \subseteq SUBSET Commit,
           tracking' \in [Branch -> Commit \cup {None}], head' \in Commit \cup {None},
           repo' \in {"none", "empty", "repo", "new", "into"}, Stored'
    PROVE  StoreInv'
<1>1. Range(toServer') = {} /\ Range(toClient') = {} /\ Range(pending') = {}
  BY EmptyPipe, Zenon DEF Leave
<1>2. toServer' \in Seq(Packet) /\ toClient' \in Seq(Packet) /\ pending' \in Seq(Packet)
  BY EmptyPipe, Zenon DEF Leave
<1>3. mapping' \in [Branch -> Commit \cup {None}]
  BY Zenon DEF Leave, StoreInv, Types, TypeOK
<1>4. 0 \in 0..BatchSize
  BY FetchAssumption
<1>5. TypeOK'
  BY <1>2, <1>3, <1>4, Zenon DEF Leave, TypeOK
<1>6. Types'
  BY <1>2, <1>5, Zenon DEF Leave, StoreInv, Types, Place
<1>7. Listed'
  BY Zenon DEF Leave, Listed
<1>8. Told'
  BY <1>1, Zenon DEF Leave, Told, Stored, Closed
<1> QED BY <1>6, <1>7, <1>8, Zenon DEF StoreInv

\* A clone that removes its directory removes the refs too.
LEMMA FailStores ==
    ASSUME StoreInv, Fail
    PROVE  StoreInv'
<1>1. Leave(FALSE) /\ parents' = parents /\ head' = head
  BY Zenon DEF Fail, history
<1>2. CASE repo = "new"
  <2>1. odb' = {} /\ orphans' = {} /\ tracking' = [b \in Branch |-> None] /\ repo' = "none"
    BY <1>2, Zenon DEF Fail
  <2>2. head = None
    BY <1>2, Zenon DEF StoreInv, Stored
  <2>3. Stored'
    BY <1>1, <2>1, <2>2, Zenon DEF Stored, Closed
  <2> QED BY <1>1, <2>1, <2>2, <2>3, LeaveStores, Zenon
<1>3. CASE repo # "new"
  <2>1. odb' = odb /\ orphans' = orphans /\ tracking' = tracking /\ repo' = "repo"
    BY <1>3, Zenon DEF Fail
  <2>2. Stored'
    BY <1>1, <2>1, Zenon DEF StoreInv, Stored
  <2> QED BY <1>1, <2>1, <2>2, LeaveStores, Zenon DEF StoreInv, Types, TypeOK
<1> QED BY <1>2, <1>3, Zenon

\* A process that dies removes nothing.
LEMMA DieStores ==
    ASSUME StoreInv, Die
    PROVE  StoreInv'
<1>1. /\ Leave(FALSE) /\ repo' = "repo"
      /\ UNCHANGED <<parents, odb, orphans, tracking, head>>
  BY Zenon DEF Die, history
<1>2. Stored'
  BY <1>1, Zenon DEF StoreInv, Stored
<1> QED BY <1>1, <1>2, LeaveStores, Zenon DEF StoreInv, Types, TypeOK

\* Reading takes the first packet.
LEMMA ReadFacts ==
    ASSUME StoreInv, NEW types, Read(types)
    PROVE  /\ toClient' \in Seq(Packet) /\ Range(toClient') \subseteq Range(toClient)
           /\ Head(toClient) \in Packet /\ Head(toClient) \in Range(toClient)
           /\ Head(toClient).type \in types
           /\ toServer' = toServer
<1>1. toClient \in Seq(Packet)
  BY Zenon DEF StoreInv, Types, TypeOK
<1> QED BY <1>1, Taken, Zenon DEF Read

\* Writing adds a packet, and a have is of a commit that is there.
LEMMA WriteFacts ==
    ASSUME StoreInv, NEW packet \in Packet, Honest(odb, packet), Write(packet)
    PROVE  /\ toServer' \in Seq(Packet)
           /\ \A p \in Range(toServer') : Honest(odb, p)
           /\ toClient' = toClient
<1>1. toServer \in Seq(Packet)
  BY Zenon DEF StoreInv, Types, TypeOK
<1>2. Range(toServer') = Range(toServer) \cup {packet} /\ toServer' \in Seq(Packet)
  BY <1>1, Appended DEF Write
<1> QED BY <1>2, Zenon DEF Write, StoreInv, Told

\* A step of the client that leaves the disk and the server as they are.
LEMMA ClientStores ==
    ASSUME StoreInv, UNCHANGED <<history, disk, serverState>>,
           toServer' \in Seq(Packet), \A p \in Range(toServer') : Honest(odb, p),
           toClient' \in Seq(Packet), Range(toClient') \subseteq Range(toClient),
           pc' \in Place, ok' \in BOOLEAN, mapping' \in [Branch -> Commit \cup {None}],
           todo' \subseteq Commit \cup Branch, batch' \in 0..BatchSize,
           got' \subseteq Commit, Closed(parents, odb \cup got'), Listed'
    PROVE  StoreInv'
<1>1. UNCHANGED <<parents, odb, orphans, tracking, head, repo, wanted, common, pending>>
  BY Zenon DEF history, disk, serverState
<1>2. Types'
  BY <1>1, Zenon DEF StoreInv, Types, TypeOK
<1>3. Stored'
  BY <1>1, Zenon DEF StoreInv, Stored
<1>4. Told'
  BY <1>1, Zenon DEF StoreInv, Told
<1> QED BY <1>2, <1>3, <1>4, Zenon DEF StoreInv

\* What the refs on disk name is there, with everything it reaches.
LEMMA TipsStored ==
    ASSUME StoreInv
    PROVE  /\ Advertised \subseteq Branch
           /\ Wanted \subseteq Commit
           /\ LocalTips \subseteq Commit
           /\ ReachableFrom(LocalTips) \subseteq odb
<1>1. Advertised \subseteq Branch /\ Wanted \subseteq Commit
  BY DEF StoreInv, Types, TypeOK, Advertised, Wanted
<1>2. LocalTips \subseteq Commit /\ LocalTips \subseteq odb
  BY DEF StoreInv, Types, TypeOK, Stored, Advertised, LocalTips
<1> QED BY <1>1, <1>2, ReachableFromLeast, Zenon DEF StoreInv, Types, Stored

\* The refs are read, and the wants written.
LEMMA DiscoverStores ==
    ASSUME StoreInv, RecvRef \/ RecvRefsEnd \/ SendWant
    PROVE  StoreInv'
<1> USE DEF Place
<1>0. TypeOK /\ Closed(parents, odb \cup got) /\ pc \in Place
  BY Zenon DEF StoreInv, Types, Told
<1>1. CASE RecvRef
  <2>1. Read({"ref"}) /\ UNCHANGED <<history, disk, pc, ok, todo, batch, got, serverState>>
    BY <1>1, Zenon DEF RecvRef
  <2>2. mapping' = [mapping EXCEPT ![Head(toClient).ref] = Head(toClient).oid]
    BY <1>1, Zenon DEF RecvRef
  <2>3. Head(toClient).ref \in Branch /\ Head(toClient).oid \in Commit
    BY <2>1, ReadFacts, PacketFields, Zenon
  <2>4. mapping' \in [Branch -> Commit \cup {None}]
    BY <1>0, <2>2, <2>3, Zenon DEF TypeOK
  <2>5. Listed'
    BY <1>1, Zenon DEF RecvRef, Listed
  <2> QED BY <1>0, <2>1, <2>4, <2>5, ReadFacts, ClientStores, Zenon DEF TypeOK, StoreInv, Told
<1>2. CASE RecvRefsEnd
  <2>1. CASE Fail
    BY <2>1, FailStores, Zenon
  <2>2. CASE /\ Read({"flush"})
             /\ IF Wanted = {}
                THEN pc' = "update" /\ todo' = Advertised
                ELSE pc' = "want" /\ todo' = Wanted
             /\ UNCHANGED <<history, disk, ok, mapping, batch, got, serverState>>
    <3>1. Listed' /\ todo' \subseteq Commit \cup Branch /\ pc' \in Place
      BY <2>2, TipsStored, Zenon DEF Listed
    <3> QED BY <1>0, <2>2, <3>1, ReadFacts, ClientStores, Zenon DEF TypeOK, StoreInv, Told
  <2> QED BY <1>2, <2>1, <2>2, Zenon DEF RecvRefsEnd
<1>3. CASE SendWant
  <2>0. UNCHANGED <<history, disk, ok, mapping, batch, got, serverState>> /\ pc = "want"
    BY <1>3, Zenon DEF SendWant
  <2>1. CASE todo = {}
    <3>1. /\ Write(Plain("flush")) /\ pc' = "have" /\ todo' = ReachableFrom(LocalTips)
      BY <1>3, <2>1, Zenon DEF SendWant
    <3>2. Plain("flush") \in Packet /\ Honest(odb, Plain("flush"))
      BY PacketsMade, Zenon DEF Bare, Honest
    <3>3. Listed' /\ todo' \subseteq Commit
      BY <1>0, <2>0, <3>1, TipsStored, Zenon DEF Listed, disk, TypeOK
    <3> QED BY <1>0, <2>0, <3>1, <3>2, <3>3, WriteFacts, ClientStores, Zenon DEF TypeOK
  <2>2. CASE todo # {}
    <3>0. todo \subseteq Commit
      BY <2>0, Zenon DEF StoreInv, Listed
    <3>1. /\ Write(With("want", Latest(todo))) /\ pc' = "want" /\ todo' = todo \ {Latest(todo)}
      BY <1>3, <2>0, <2>2, Zenon DEF SendWant
    <3>2. With("want", Latest(todo)) \in Packet /\ Honest(odb, With("want", Latest(todo)))
      BY <2>2, <3>0, LatestIn, PacketsMade, Zenon DEF Honest
    <3>3. Listed' /\ todo' \subseteq Commit
      BY <3>0, <3>1, Zenon DEF Listed
    <3> QED BY <1>0, <2>0, <3>1, <3>2, <3>3, WriteFacts, ClientStores, Zenon DEF TypeOK
  <2> QED BY <2>1, <2>2, Zenon
<1> QED BY <1>1, <1>2, <1>3, Zenon

\* The haves are written and the replies read.
LEMMA NegotiateStores ==
    ASSUME StoreInv, SendHave \/ FlushHaves \/ RecvReply \/ SendDone \/ SkipAck
    PROVE  StoreInv'
<1> USE DEF Place
<1>0. /\ TypeOK /\ Closed(parents, odb \cup got) /\ pc \in Place
      /\ \A p \in Range(toServer) : Honest(odb, p)
  BY Zenon DEF StoreInv, Types, Told
<1>1. CASE SendHave
  <2>1. /\ UNCHANGED <<history, disk, pc, ok, mapping, got, serverState>>
        /\ pc = "have" /\ batch < BatchSize /\ todo # {} /\ batch' = batch + 1
        /\ Write(With("have", Latest(todo))) /\ todo' = todo \ {Latest(todo)}
    BY <1>1, Zenon DEF SendHave
  <2>2. todo \subseteq odb /\ odb \subseteq Commit
    BY <1>0, <2>1, Zenon DEF StoreInv, Listed, TypeOK
  <2>3. With("have", Latest(todo)) \in Packet /\ Honest(odb, With("have", Latest(todo)))
    BY <2>1, <2>2, LatestIn, PacketsMade DEF Honest
  <2>4. Listed' /\ todo' \subseteq Commit
    BY <2>1, <2>2, Zenon DEF Listed, disk
  <2>5. batch' \in 0..BatchSize
    BY <1>0, <2>1, FetchAssumption DEF TypeOK
  <2> QED BY <1>0, <2>1, <2>3, <2>4, <2>5, WriteFacts, ClientStores, Zenon DEF TypeOK
<1>2. CASE FlushHaves
  <2>1. /\ UNCHANGED <<history, disk, ok, mapping, todo, got, serverState>>
        /\ pc = "have" /\ pc' \in {"reply", "last"} /\ batch' = 0
        /\ Write(Plain("flush"))
    BY <1>2, Zenon DEF FlushHaves
  <2>2. Plain("flush") \in Packet /\ Honest(odb, Plain("flush"))
    BY PacketsMade, Zenon DEF Bare, Honest
  <2>3. Listed'
    BY <2>1, Zenon DEF StoreInv, Listed, disk
  <2>4. batch' \in 0..BatchSize
    BY <2>1, FetchAssumption
  <2> QED BY <1>0, <2>1, <2>2, <2>3, <2>4, WriteFacts, ClientStores, Zenon DEF TypeOK
<1>3. CASE RecvReply
  <2>1. /\ UNCHANGED <<history, disk, ok, mapping, todo, batch, got, serverState>>
        /\ pc' = IF pc = "reply" THEN "have" ELSE "done"
        /\ Read({p.type : p \in Packet})
    BY <1>3, Zenon DEF RecvReply
  <2>2. Listed'
    BY <2>1, Zenon DEF StoreInv, Listed, disk
  <2> QED BY <1>0, <2>1, <2>2, ReadFacts, ClientStores, Zenon DEF TypeOK
<1>4. CASE SendDone
  <2>1. /\ UNCHANGED <<history, disk, ok, mapping, todo, batch, got, serverState>>
        /\ pc' = "acks" /\ Write(Plain("done"))
    BY <1>4, Zenon DEF SendDone
  <2>2. Plain("done") \in Packet /\ Honest(odb, Plain("done"))
    BY PacketsMade, Zenon DEF Bare, Honest
  <2>3. Listed'
    BY <2>1, Zenon DEF Listed
  <2> QED BY <1>0, <2>1, <2>2, <2>3, WriteFacts, ClientStores, Zenon DEF TypeOK
<1>5. CASE SkipAck
  <2>1. /\ UNCHANGED <<history, disk, pc, ok, mapping, todo, batch, got, serverState>>
        /\ pc = "acks" /\ Read({"ack", "nak"})
    BY <1>5, Zenon DEF SkipAck
  <2>2. Listed'
    BY <2>1, Zenon DEF Listed
  <2> QED BY <1>0, <2>1, <2>2, ReadFacts, ClientStores, Zenon DEF TypeOK
<1> QED BY <1>1, <1>2, <1>3, <1>4, <1>5, Zenon

\* The pack is read and put into place.
LEMMA PackStores ==
    ASSUME StoreInv, RecvPack \/ InvalidSideband \/ RenamePack \/ RenameIndex
    PROVE  StoreInv'
<1> USE DEF Place
<1>0. /\ TypeOK /\ Closed(parents, odb \cup got) /\ pc \in Place
      /\ \A p \in Range(toServer) : Honest(odb, p)
  BY Zenon DEF StoreInv, Types, Told
<1>1. CASE RecvPack
  <2>1. /\ UNCHANGED <<history, disk, ok, mapping, todo, batch, serverState>>
        /\ pc' \in {"index", "pack"} /\ Read({"data", "progress", "flush"})
        /\ got' = got \cup (IF Head(toClient).type = "data" THEN Head(toClient).oids ELSE {})
    BY <1>1, Zenon DEF RecvPack
  <2>2. Listed'
    BY <2>1, Zenon DEF Listed
  <2>3. got' \subseteq Commit /\ Closed(parents, odb \cup got')
    <3>1. CASE Head(toClient).type = "data"
      <4>1. Closed(parents, odb \cup Head(toClient).oids)
        BY <2>1, <3>1, ReadFacts, Zenon DEF StoreInv, Told, Completes
      <4>2. Closed(parents, odb \cup got')
        BY <1>0, <2>1, <3>1, <4>1, ClosedTogether, Zenon
      <4> QED BY <1>0, <2>1, <3>1, <4>2, ReadFacts, PacketFields, Zenon DEF TypeOK
    <3>2. CASE Head(toClient).type # "data"
      <4>1. got' = got
        BY <2>1, <3>2, Zenon
      <4> QED BY <1>0, <4>1, Zenon DEF TypeOK
    <3> QED BY <3>1, <3>2, Zenon
  <2> QED BY <1>0, <2>1, <2>2, <2>3, ReadFacts, ClientStores, Zenon DEF TypeOK
<1>2. CASE InvalidSideband
  BY <1>2, DieStores, FailStores, Zenon DEF InvalidSideband
<1>3. CASE RenamePack
  <2>1. /\ UNCHANGED <<parents, odb, tracking, head, repo, ok, mapping, todo, batch, got,
                       toServer, toClient, server, held, wanted, common, pending>>
        /\ orphans' \subseteq orphans \cup {got} /\ pc' = "renamed"
    BY <1>3, Zenon DEF RenamePack, history, serverState
  <2>2. Types'
    BY <2>1, Zenon DEF StoreInv, Types, TypeOK
  <2>3. Stored'
    BY <2>1, Zenon DEF StoreInv, Stored
  <2>4. Listed'
    BY <2>1, Zenon DEF Listed
  <2>5. Told'
    BY <2>1, Zenon DEF StoreInv, Told
  <2> QED BY <2>2, <2>3, <2>4, <2>5, Zenon DEF StoreInv
<1>4. CASE RenameIndex
  <2>1. /\ UNCHANGED <<parents, tracking, head, repo>>
        /\ odb' = odb \cup got /\ orphans' = orphans \ {got}
    BY <1>4, Zenon DEF RenameIndex, history
  <2>2. Stored'
    BY <1>0, <2>1, Zenon DEF StoreInv, Stored
  <2>3. CASE Leave(FALSE)
    BY <1>0, <2>1, <2>2, <2>3, LeaveStores, Zenon DEF TypeOK
  <2>4. CASE /\ pc' = "update" /\ todo' = Advertised /\ got' = {}
             /\ UNCHANGED <<ok, mapping, batch, toServer, toClient, serverState>>
    <3>1. Types'
      BY <2>1, <2>4, TipsStored, Zenon DEF StoreInv, Types, TypeOK, serverState
    <3>2. Listed'
      BY <2>4, TipsStored, Zenon DEF Listed
    <3>3. \A p \in Range(toServer) : Honest(odb', p)
      BY <1>0, <2>1, Zenon DEF Honest
    <3>4. \A p : Completes(parents, odb, p) => Completes(parents, odb', p)
      BY <1>0, <2>1, ClosedTogether, Zenon DEF Completes
    <3>5. Closed(parents, odb' \cup {})
      BY <1>0, <2>1, Zenon
    <3>6. Told'
      BY <2>1, <2>4, <3>3, <3>4, <3>5, Zenon DEF StoreInv, Told, serverState
    <3> QED BY <2>2, <3>1, <3>2, <3>6, Zenon DEF StoreInv
  <2> QED BY <1>4, <2>3, <2>4, Zenon DEF RenameIndex
<1> QED BY <1>1, <1>2, <1>3, <1>4, Zenon

\* The refs are moved, and a clone's branch is checked out.
LEMMA RefsStore ==
    ASSUME StoreInv, UpdateRefForFetch \/ Finish \/ Reset \/ Disconnected
    PROVE  StoreInv'
<1> USE DEF Place
<1>0. /\ TypeOK /\ Closed(parents, odb \cup got) /\ pc \in Place
      /\ \A p \in Range(toServer) : Honest(odb, p)
  BY Zenon DEF StoreInv, Types, Told
<1>1. CASE UpdateRefForFetch
  <2>1. PICK b \in todo :
            IF mapping[b] \in odb
            THEN /\ UpdateRef(b) /\ todo' = todo \ {b}
                 /\ UNCHANGED <<history, odb, orphans, head, repo, pc, ok, mapping, batch, got,
                                toServer, toClient, serverState>>
            ELSE Fail
    BY <1>1, Zenon DEF UpdateRefForFetch
  <2>2. b \in Branch /\ todo \subseteq Branch /\ pc = "update"
    BY <1>1, Zenon DEF UpdateRefForFetch, StoreInv, Listed
  <2>3. CASE mapping[b] \in odb
    <3>1. /\ tracking' = [tracking EXCEPT ![b] = mapping[b]] /\ todo' = todo \ {b}
          /\ UNCHANGED <<parents, odb, orphans, head, repo, pc, ok, mapping, batch, got,
                         toServer, toClient, server, held, wanted, common, pending>>
      BY <2>1, <2>3, Zenon DEF UpdateRef, history, serverState
    <3>2. Types'
      BY <2>2, <3>1, Zenon DEF StoreInv, Types, TypeOK
    <3>3. Stored'
      BY <1>0, <2>2, <2>3, <3>1, Zenon DEF StoreInv, Stored, TypeOK
    <3>4. Listed'
      BY <2>2, <3>1, Zenon DEF Listed
    <3>5. Told'
      BY <3>1, Zenon DEF StoreInv, Told
    <3> QED BY <3>2, <3>3, <3>4, <3>5, Zenon DEF StoreInv
  <2>4. CASE mapping[b] \notin odb
    BY <2>1, <2>4, FailStores, Zenon
  <2> QED BY <2>3, <2>4, Zenon
<1>2. CASE Finish
  <2>1. CASE Leave(TRUE) /\ UNCHANGED <<history, disk>>
    <3>1. UNCHANGED <<parents, odb, orphans, tracking, head, repo>>
      BY <2>1, Zenon DEF history, disk
    <3>2. Stored'
      BY <3>1, Zenon DEF StoreInv, Stored
    <3> QED BY <1>0, <2>1, <3>1, <3>2, LeaveStores, Zenon DEF TypeOK
  <2>2. CASE /\ pc' = "reset"
             /\ \E b \in Advertised \cup {1} : todo' = {b}
             /\ UNCHANGED <<history, disk, ok, mapping, batch, got, toServer, toClient, serverState>>
    <3>1. 1 \in Branch
      BY FetchAssumption DEF Branch
    <3>2. todo' \subseteq Branch
      BY <2>2, <3>1, TipsStored, Zenon
    <3>3. Listed'
      BY <2>2, <3>2, Zenon DEF Listed
    <3> QED BY <1>0, <2>2, <3>2, <3>3, ClientStores, Zenon DEF TypeOK
  <2> QED BY <1>2, <2>1, <2>2, Zenon DEF Finish
<1>3. CASE Reset
  <2>1. CASE Fail
    BY <2>1, FailStores, Zenon
  <2>2. CASE /\ Leave(TRUE)
             /\ repo' = "repo"
             /\ \E b \in todo : head' = tracking[b]
             /\ UNCHANGED <<history, odb, orphans, tracking>>
    <3>1. PICK b \in todo : head' = tracking[b]
      BY <2>2, Zenon
    <3>2. b \in Branch
      BY <1>3, <3>1, Zenon DEF Reset, StoreInv, Listed
    <3>3. UNCHANGED <<parents, odb, orphans, tracking>>
      BY <2>2, Zenon DEF history
    <3>4. Stored'
      BY <2>2, <3>1, <3>2, <3>3, Zenon DEF StoreInv, Stored
    <3> QED BY <1>0, <2>2, <3>1, <3>2, <3>3, <3>4, LeaveStores, Zenon DEF TypeOK
  <2> QED BY <1>3, <2>1, <2>2, Zenon DEF Reset
<1>4. CASE Disconnected
  BY <1>4, FailStores, Zenon DEF Disconnected
<1> QED BY <1>1, <1>2, <1>3, <1>4, Zenon

\* A server is started.
LEMMA SpawnStores ==
    ASSUME StoreInv, Spawn
    PROVE  StoreInv'
<1>1. /\ UNCHANGED <<parents, odb, orphans, tracking, head, todo, batch, got, toServer, toClient,
                     wanted, common>>
      /\ pc' = "discover" /\ ok' = FALSE /\ mapping' = [b \in Branch |-> None]
      /\ Clone
  BY Zenon DEF Spawn, history
<1>2. PICK list \in BranchLists :
          \E oids \in [DOMAIN list -> Commit] : pending' = RefLines(list, oids)
  BY Zenon DEF Spawn
<1>3. pending' \in Seq(Packet) /\ \A i \in DOMAIN pending' : pending'[i].type \in {"flush", "ref"}
  BY <1>2, RefLinesAre
<1>4. repo' \in {"repo", "new", "into"} /\ (repo = "repo" => repo' = "repo")
  BY <1>1, Zenon DEF Clone
<1>5. Types'
  BY <1>1, <1>3, <1>4, Zenon DEF StoreInv, Types, TypeOK, Place
<1>6. Stored'
  BY <1>1, <1>4, Zenon DEF StoreInv, Stored
<1>7. Listed'
  BY <1>1, Zenon DEF Listed
<1>8. \A p \in Range(pending') : Completes(parents, odb, p)
  BY <1>3, Zenon DEF Range, Completes
<1>9. Told'
  BY <1>1, <1>8, Zenon DEF StoreInv, Told
<1> QED BY <1>5, <1>6, <1>7, <1>9, Zenon DEF StoreInv

\* A step of the server that leaves the client and the disk as they are.
LEMMA ServerStores ==
    ASSUME StoreInv, UNCHANGED <<history, disk, pc, ok, mapping, todo, batch, got>>,
           toServer' \in Seq(Packet), Range(toServer') \subseteq Range(toServer),
           toClient' \in Seq(Packet), Range(toClient') \subseteq Range(toClient) \cup Range(pending),
           pending' \in Seq(Packet), \A p \in Range(pending') : Completes(parents, odb, p),
           wanted' \subseteq Commit, common' \subseteq odb
    PROVE  StoreInv'
<1>1. UNCHANGED <<parents, odb, orphans, tracking, head, repo, pc, ok, mapping, todo, batch, got>>
  BY Zenon DEF history, disk
<1>2. Types'
  BY <1>1, Zenon DEF StoreInv, Types, TypeOK
<1>3. Stored'
  BY <1>1, Zenon DEF StoreInv, Stored
<1>4. Listed'
  BY <1>1, Zenon DEF StoreInv, Listed
<1>5. Told'
  BY <1>1, Zenon DEF StoreInv, Told
<1> QED BY <1>2, <1>3, <1>4, <1>5, Zenon DEF StoreInv

\* git-upload-pack writes, reads, exits or fails.
LEMMA ServerStepStores ==
    ASSUME StoreInv, ServerWrite \/ ServerRead \/ ServerExit \/ ServerError
    PROVE  StoreInv'
<1>0. /\ toServer \in Seq(Packet) /\ toClient \in Seq(Packet) /\ pending \in Seq(Packet)
      /\ parents \in History /\ odb \subseteq Commit
      /\ wanted \subseteq Commit /\ common \subseteq odb /\ Closed(parents, odb)
      /\ \A p \in Range(toServer) : Honest(odb, p)
      /\ \A p \in Range(pending) : Completes(parents, odb, p)
  BY Zenon DEF StoreInv, Types, TypeOK, Told, Stored
<1>1. CASE ServerWrite
  <2>1. /\ toClient' = Append(toClient, Head(pending)) /\ pending' = Tail(pending)
        /\ pending # <<>>
        /\ UNCHANGED <<history, disk, pc, ok, mapping, todo, batch, got, toServer, server,
                       held, wanted, common>>
    BY <1>1, Zenon DEF ServerWrite
  <2>2. /\ Head(pending) \in Packet /\ Head(pending) \in Range(pending)
        /\ pending' \in Seq(Packet) /\ Range(pending') \subseteq Range(pending)
    BY <1>0, <2>1, Taken, Zenon
  <2>3. toClient' \in Seq(Packet) /\ Range(toClient') = Range(toClient) \cup {Head(pending)}
    BY <1>0, <2>1, <2>2, Appended
  <2> QED BY <1>0, <2>1, <2>2, <2>3, ServerStores, Zenon
<1>2. CASE ServerRead
  <2> DEFINE packet == Head(toServer)
  <2>1. /\ toServer # <<>> /\ toServer' = Tail(toServer) /\ pending = <<>>
        /\ UNCHANGED <<history, disk, pc, ok, mapping, todo, batch, got, toClient, held>>
    BY <1>2, Zenon DEF ServerRead
  <2>2. /\ packet \in Packet /\ Honest(odb, packet)
        /\ toServer' \in Seq(Packet) /\ Range(toServer') \subseteq Range(toServer)
    BY <1>0, <2>1, Taken, Zenon
  <2>3. wanted' \subseteq Commit
    <3>1. wanted' = wanted \/ (packet.type = "want" /\ wanted' = wanted \cup {packet.oid})
      BY <1>2, Zenon DEF ServerRead
    <3> HIDE DEF packet
    <3>2. packet.type = "want" => packet.oid \in Commit
      BY <2>2, PacketFields, Zenon
    <3> QED BY <1>0, <3>1, <3>2, Zenon
  <2>4. common' \subseteq odb
    BY <1>0, <1>2, <2>2, Zenon DEF ServerRead, Honest
  <2>5. pending' \in Seq(Packet) /\ \A p \in Range(pending') : Completes(parents, odb, p)
    <3>1. /\ Plain("ack") \in Packet /\ Plain("nak") \in Packet
          /\ Plain("ack").type = "ack" /\ Plain("nak").type = "nak"
      BY PacketsMade, Zenon DEF Bare
    <3>2. CASE pending' = <<>>
      BY <3>2, EmptyPipe, Zenon
    <3>3. CASE pending' = <<Plain("ack")>> \/ pending' = <<Plain("nak")>>
      BY <3>1, <3>3, Replies, Zenon DEF Completes
    <3>4. CASE pending' = <<Plain("ack"), Plain("nak")>>
      BY <3>1, <3>4, Replies DEF Completes
    <3>5. CASE packet.type = "done"
      <4> DEFINE reply == IF common = {} THEN "nak" ELSE "ack"
      <4> DEFINE pack == PackOf(wanted, common)
      <4>1. pending' = PackPackets(reply, pack)
        BY <1>2, <3>5, Zenon DEF ServerRead
      <4>2. pack \in SUBSET Commit /\ reply \in {"ack", "nak"}
        BY <1>0, ReachableFromFacts, Zenon DEF PackOf
      <4>3. Closed(parents, odb \cup pack)
        BY <1>0, PackCompletes, Zenon
      <4> HIDE DEF reply, pack
      <4>4. pending' \in Seq(Packet) /\ DOMAIN pending' = 1..4
        BY <4>1, <4>2, PackPacketsAre
      <4>5. \A i \in 1..4 : Completes(parents, odb, pending'[i])
        <5>1. /\ pending'[1].type # "data" /\ pending'[2].type # "data" /\ pending'[4].type # "data"
              /\ pending'[3].oids = pack
          BY <4>1, <4>2, PackPacketsAre
        <5>2. \A i \in 1..4 : i = 1 \/ i = 2 \/ i = 3 \/ i = 4
          OBVIOUS
        <5> QED BY <4>3, <5>1, <5>2, Zenon DEF Completes
      <4> QED BY <4>4, <4>5, Zenon DEF Range
    <3> QED BY <1>2, <2>1, <3>2, <3>3, <3>4, <3>5, Zenon DEF ServerRead
  <2> QED BY <1>0, <2>1, <2>2, <2>3, <2>4, <2>5, ServerStores, Zenon
<1>3. CASE ServerExit
  <2>1. /\ pending' = <<>>
        /\ UNCHANGED <<history, disk, pc, ok, mapping, todo, batch, got, toServer, toClient,
                       held, wanted, common>>
    BY <1>3, Zenon DEF ServerExit
  <2> QED BY <1>0, <2>1, EmptyPipe, ServerStores, Zenon
<1>4. CASE ServerError
  <2>1. /\ pending' = <<Plain("error")>>
        /\ UNCHANGED <<history, disk, pc, ok, mapping, todo, batch, got, toServer, toClient,
                       server, held, wanted, common>>
    BY <1>4, Zenon DEF ServerError
  <2>2. Plain("error") \in Packet /\ Plain("error").type = "error"
    BY PacketsMade, Zenon DEF Bare
  <2>3. pending' \in Seq(Packet) /\ \A p \in Range(pending') : Completes(parents, odb, p)
    BY <2>1, <2>2, Replies, Zenon DEF Completes
  <2> QED BY <1>0, <2>1, <2>3, ServerStores, Zenon
<1> QED BY <1>1, <1>2, <1>3, <1>4, Zenon

\* Every step keeps the invariant.
LEMMA StepStoreInv == StoreInv /\ [Next]_vars => StoreInv'
<1> SUFFICES ASSUME StoreInv, [Next]_vars PROVE StoreInv'
  OBVIOUS
<1>1. CASE Spawn
  BY <1>1, SpawnStores, Zenon
<1>2. CASE Client
  BY <1>2, DiscoverStores, NegotiateStores, PackStores, RefsStore, Zenon DEF Client
<1>3. CASE Server \/ ServerExit \/ ServerError
  BY <1>3, ServerStepStores, Zenon DEF Server
<1>4. CASE RenameFails \/ UpdateFails
  BY <1>4, FailStores, Zenon DEF RenameFails, UpdateFails
<1>5. CASE Killed
  BY <1>5, DieStores, Zenon DEF Killed
<1>6. CASE UNCHANGED vars
  <2>1. UNCHANGED <<history, disk, pc, ok, mapping, todo, batch, got, toServer, toClient,
                    serverState>>
    BY <1>6, Zenon DEF vars, history, disk, serverState
  <2>2. Listed'
    BY <2>1, Zenon DEF StoreInv, Listed, disk
  <2> QED BY <2>1, <2>2, ClientStores, Zenon DEF StoreInv, Types, TypeOK, Told
<1> QED BY <1>1, <1>2, <1>3, <1>4, <1>5, <1>6, Zenon DEF Next

\* The object database is closed under parents, every have is of a commit in it
\* and every pack completes it, at every step of fetches and clones that may fail
\* or be killed anywhere (fetch, negotiate_packs, recv_pack).
THEOREM StoreInvariant == Spec => []StoreInv
<1> QED BY InitStoreInv, StepStoreInv, PTL DEF Spec

\* The remote refs and the branch that was checked out only name commits whose
\* whole history is in the object database: the pack is complete and in place
\* before a ref moves (recv_pack, update_ref_for_fetch, clone_blocking).
THEOREM RefsAreComplete == Spec => []RefsComplete
<1>1. ASSUME StoreInv PROVE RefsComplete
  <2> DEFINE tips == (Range(tracking) \cup {head}) \ {None}
  <2>1. tips \in SUBSET Commit /\ tips \subseteq odb
    BY <1>1 DEF StoreInv, Types, TypeOK, Stored, Range
  <2>2. ReachableFrom(tips) \subseteq odb
    <3> HIDE DEF tips
    <3> QED BY <1>1, <2>1, ReachableFromLeast, Zenon DEF StoreInv, Types, Stored
  <2> QED BY <1>1, <2>2, Zenon DEF RefsComplete, StoreInv, Types
<1> QED BY <1>1, StoreInvariant, PTL

-----------------------------------------------------------------------------
(* A fetch that succeeds is current *)

\* Before a clone there is nothing; while it runs there are no other packs, the
\* refs are the remote's, and none is there before the pack is.
CloneInv ==
    /\ pc # "idle" => repo \in {"repo", "new", "into"}
    /\ repo \in {"none", "empty"} => orphans = {} /\ \A b \in Branch : tracking[b] = None
    /\ Cloning =>
          /\ pc # "idle"
          /\ orphans \subseteq IF pc = "renamed" THEN {got} ELSE {}
          /\ pc \notin {"update", "reset"} => \A b \in Branch : tracking[b] = None
          /\ \A b \in Branch : tracking[b] \in {None, mapping[b]}

\* The refs that are not left to update are what the remote said.
CurrentInv ==
    /\ pc = "update" => \A b \in Advertised \ todo : tracking[b] = mapping[b]
    /\ pc = "reset" =>
          /\ Cloning
          /\ \A b \in Advertised : tracking[b] = mapping[b]
          /\ \E b \in Branch : todo = {b}

\* No fetch is running.
LEMMA InitCurrent == Init => CloneInv /\ CurrentInv
BY Zenon DEF Init, CloneInv, CurrentInv, Cloning

\* After an error there is no clone, and nothing is left of one that made its
\* directory.
LEMMA FailCurrent ==
    ASSUME StoreInv, CloneInv, pc # "idle", Fail
    PROVE  CloneInv' /\ CurrentInv'
<1>1. pc' = "idle"
  BY Zenon DEF Fail, Leave
<1>2. CASE repo = "new"
  <2>1. repo' = "none" /\ orphans' = {} /\ tracking' = [b \in Branch |-> None]
    BY <1>2, Zenon DEF Fail
  <2> QED BY <1>1, <2>1, Zenon DEF CloneInv, CurrentInv, Cloning
<1>3. CASE repo # "new"
  <2>1. repo' = "repo"
    BY <1>3, Zenon DEF Fail
  <2> QED BY <1>1, <2>1, Zenon DEF CloneInv, CurrentInv, Cloning
<1> QED BY <1>2, <1>3, Zenon

\* A fetch that ends in a repository.
LEMMA LeaveCurrent ==
    ASSUME pc' = "idle", repo' = "repo"
    PROVE  CloneInv' /\ CurrentInv'
BY Zenon DEF CloneInv, CurrentInv, Cloning

\* A step before the refs are updated that leaves disk and directory alone.
LEMMA QuietCurrent ==
    ASSUME CloneInv, UNCHANGED disk, pc \notin {"idle", "renamed", "update", "reset"},
           pc' \notin {"idle", "renamed", "update", "reset"}
    PROVE  CloneInv' /\ CurrentInv'
<1>1. UNCHANGED <<orphans, tracking, repo>>
  BY Zenon DEF disk
<1> QED BY <1>1, Zenon DEF CloneInv, CurrentInv, Cloning

\* The client's steps up to the pack.
LEMMA TalkCurrent ==
    ASSUME StoreInv, CloneInv, CurrentInv,
           RecvRef \/ SendWant \/ SendHave \/ FlushHaves \/ RecvReply \/ SendDone \/ SkipAck \/ RecvPack
    PROVE  CloneInv' /\ CurrentInv'
<1>1. CASE RecvRef \/ SendWant \/ SendHave \/ FlushHaves
  BY <1>1, QuietCurrent, Zenon DEF RecvRef, SendWant, SendHave, FlushHaves
<1>2. CASE RecvReply \/ SendDone \/ SkipAck \/ RecvPack
  BY <1>2, QuietCurrent, Zenon DEF RecvReply, SendDone, SkipAck, RecvPack
<1> QED BY <1>1, <1>2, Zenon

\* The client's other steps.
LEMMA MoveCurrent ==
    ASSUME StoreInv, CloneInv, CurrentInv,
           \/ RecvRefsEnd \/ InvalidSideband \/ RenamePack \/ RenameIndex
           \/ UpdateRefForFetch \/ Finish \/ Reset \/ Disconnected
    PROVE  CloneInv' /\ CurrentInv'
<1>0. /\ tracking \in [Branch -> Commit \cup {None}]
      /\ pc \in {"update", "reset"} => todo \subseteq Branch
  BY Zenon DEF StoreInv, Types, TypeOK, Listed
<1>1. CASE RecvRefsEnd
  <2>1. pc = "discover"
    BY <1>1, Zenon DEF RecvRefsEnd
  <2>2. CASE Fail
    BY <2>1, <2>2, FailCurrent, Zenon
  <2>3. CASE /\ IF Wanted = {}
                THEN pc' = "update" /\ todo' = Advertised
                ELSE pc' = "want" /\ todo' = Wanted
             /\ UNCHANGED <<history, disk, ok, mapping, batch, got, serverState>>
    <3>1. UNCHANGED <<orphans, tracking, repo, mapping>> /\ Advertised' = Advertised
      BY <2>3, Zenon DEF disk, Advertised
    <3> QED BY <2>1, <2>3, <3>1, Zenon DEF CloneInv, CurrentInv, Cloning
  <2> QED BY <1>1, <2>2, <2>3, Zenon DEF RecvRefsEnd
<1>2. CASE InvalidSideband
  <2>1. pc # "idle" /\ (Fail \/ Die)
    BY <1>2, Zenon DEF InvalidSideband
  <2> QED BY <2>1, FailCurrent, LeaveCurrent, Zenon DEF Die, Leave
<1>3. CASE RenamePack
  <2>1. /\ UNCHANGED <<tracking, repo, mapping, got>> /\ pc = "index" /\ pc' = "renamed"
        /\ orphans' \subseteq orphans \cup {got}
    BY <1>3, Zenon DEF RenamePack
  <2> QED BY <2>1, Zenon DEF CloneInv, CurrentInv, Cloning
<1>4. CASE RenameIndex
  <2>1. /\ UNCHANGED <<tracking, repo>> /\ pc = "renamed" /\ orphans' = orphans \ {got}
    BY <1>4, Zenon DEF RenameIndex
  <2>2. CASE orphans' # {}
    <3>1. pc' = "idle"
      BY <1>4, <2>2, Zenon DEF RenameIndex, Leave
    <3>2. ~Cloning
      BY <2>1, <2>2, Zenon DEF CloneInv
    <3>3. repo' = "repo"
      BY <2>1, <3>2, Zenon DEF CloneInv, Cloning
    <3> QED BY <3>1, <3>3, LeaveCurrent, Zenon
  <2>3. CASE orphans' = {}
    <3>1. pc' = "update" /\ todo' = Advertised /\ mapping' = mapping
      BY <1>4, <2>3, Zenon DEF RenameIndex
    <3>2. Advertised' = Advertised
      BY <3>1, Zenon DEF Advertised
    <3> QED BY <2>1, <2>3, <3>1, <3>2, Zenon DEF CloneInv, CurrentInv, Cloning
  <2> QED BY <2>2, <2>3, Zenon
<1>5. CASE UpdateRefForFetch
  <2>1. PICK b \in todo :
            \/ /\ UpdateRef(b) /\ todo' = todo \ {b}
               /\ UNCHANGED <<orphans, repo, pc, mapping>>
            \/ Fail
    BY <1>5, Zenon DEF UpdateRefForFetch
  <2>2. pc = "update" /\ b \in Branch
    BY <1>0, <1>5, Zenon DEF UpdateRefForFetch
  <2>3. CASE Fail
    BY <2>2, <2>3, FailCurrent, Zenon
  <2>4. CASE /\ UpdateRef(b) /\ todo' = todo \ {b}
             /\ UNCHANGED <<orphans, repo, pc, mapping>>
    <3>1. /\ tracking'[b] = mapping[b]
          /\ \A x \in Branch \ {b} : tracking'[x] = tracking[x]
      BY <1>0, <2>2, <2>4, Zenon DEF UpdateRef
    <3>2. Advertised' = Advertised /\ Advertised \subseteq Branch
      BY <2>4, Zenon DEF Advertised
    <3>3. \A x \in Advertised \ todo' : tracking'[x] = mapping[x]
      BY <2>2, <2>4, <3>1, <3>2, Zenon DEF CurrentInv
    <3>4. CurrentInv'
      BY <2>2, <2>4, <3>2, <3>3, Zenon DEF CurrentInv
    <3>5. Cloning => \A x \in Branch : tracking'[x] \in {None, mapping[x]}
      BY <3>1, Zenon DEF CloneInv
    <3>6. CloneInv'
      BY <2>2, <2>4, <3>5, Zenon DEF CloneInv, Cloning
    <3> QED BY <3>4, <3>6, Zenon
  <2> QED BY <2>1, <2>3, <2>4, Zenon
<1>6. CASE Finish
  <2>1. pc = "update" /\ todo = {} /\ UNCHANGED disk
    BY <1>6, Zenon DEF Finish
  <2>2. UNCHANGED <<orphans, tracking, repo>>
    BY <2>1, Zenon DEF disk
  <2>3. CASE ~Cloning
    <3>1. pc' = "idle" /\ repo' = "repo"
      BY <1>6, <2>1, <2>2, <2>3, Zenon DEF Finish, Leave, CloneInv, Cloning
    <3> QED BY <3>1, LeaveCurrent, Zenon
  <2>4. CASE Cloning
    <3>1. pc' = "reset" /\ mapping' = mapping /\ \E b \in Advertised \cup {1} : todo' = {b}
      BY <1>6, <2>4, Zenon DEF Finish
    <3>2. 1 \in Branch
      BY FetchAssumption DEF Branch
    <3>3. Advertised' = Advertised /\ Advertised \subseteq Branch
      BY <3>1, Zenon DEF Advertised
    <3> QED BY <2>1, <2>2, <2>4, <3>1, <3>2, <3>3, Zenon DEF CloneInv, CurrentInv, Cloning
  <2> QED BY <2>3, <2>4, Zenon
<1>7. CASE Reset
  <2>1. pc = "reset" /\ (Fail \/ (Leave(TRUE) /\ repo' = "repo"))
    BY <1>7, Zenon DEF Reset
  <2> QED BY <2>1, FailCurrent, LeaveCurrent, Zenon DEF Leave
<1>8. CASE Disconnected
  BY <1>8, FailCurrent, Zenon DEF Disconnected
<1> QED BY <1>1, <1>2, <1>3, <1>4, <1>5, <1>6, <1>7, <1>8, Zenon

\* Every step keeps the two invariants.
LEMMA StepCurrent == StoreInv /\ CloneInv /\ CurrentInv /\ [Next]_vars => CloneInv' /\ CurrentInv'
<1> SUFFICES ASSUME StoreInv, CloneInv, CurrentInv, [Next]_vars PROVE CloneInv' /\ CurrentInv'
  OBVIOUS
<1>1. CASE Spawn
  <2>1. /\ UNCHANGED <<orphans, tracking>> /\ pc = "idle" /\ pc' = "discover" /\ Clone
    BY <1>1, Zenon DEF Spawn
  <2>2. ~Cloning
    BY <2>1, Zenon DEF CloneInv
  <2>3. repo' \in {"repo", "new", "into"} /\ (repo \notin {"none", "empty"} => repo' = "repo")
    BY <2>1, Zenon DEF Clone
  <2> QED BY <2>1, <2>2, <2>3, Zenon DEF CloneInv, CurrentInv, Cloning
<1>2. CASE Client
  BY <1>2, TalkCurrent, MoveCurrent, Zenon DEF Client
<1>3. CASE Server \/ ServerExit \/ ServerError \/ UNCHANGED vars
  <2>1. UNCHANGED <<disk, pc, mapping, todo, got>>
    BY <1>3, Zenon DEF Server, ServerWrite, ServerRead, ServerExit, ServerError, vars, disk
  <2>2. UNCHANGED <<orphans, tracking, repo, pc, mapping, todo, got>>
    BY <2>1, Zenon DEF disk
  <2> QED BY <2>2, Zenon DEF CloneInv, CurrentInv, Cloning, Advertised
<1>4. CASE RenameFails \/ UpdateFails
  BY <1>4, FailCurrent, Zenon DEF RenameFails, UpdateFails
<1>5. CASE Killed
  BY <1>5, LeaveCurrent, Zenon DEF Killed, Die, Leave
<1> QED BY <1>1, <1>2, <1>3, <1>4, <1>5, Zenon DEF Next

\* The only steps that end a fetch with success.
LEMMA SuccessSteps ==
    ASSUME [Next]_vars, pc # "idle", pc' = "idle", ok'
    PROVE  Finish \/ Reset
<1>1. ~Fail /\ ~Die /\ ~Leave(FALSE)
  BY Zenon DEF Fail, Die, Leave
<1>2. ~Spawn /\ ~RenameFails /\ ~UpdateFails /\ ~Killed
  BY <1>1, Zenon DEF Spawn, RenameFails, UpdateFails, Killed
<1>3. ~Server /\ ~ServerExit /\ ~ServerError /\ ~UNCHANGED vars
  BY Zenon DEF Server, ServerWrite, ServerRead, ServerExit, ServerError, vars
<1>4. ~RecvRef /\ ~RecvRefsEnd /\ ~SendWant /\ ~SendHave /\ ~FlushHaves
  BY <1>1, Zenon DEF RecvRef, RecvRefsEnd, SendWant, SendHave, FlushHaves
<1>5. ~RecvReply /\ ~SendDone /\ ~SkipAck /\ ~RecvPack
  BY Zenon DEF RecvReply, SendDone, SkipAck, RecvPack
<1>6. ~InvalidSideband /\ ~RenamePack /\ ~RenameIndex /\ ~UpdateRefForFetch /\ ~Disconnected
  BY <1>1, Zenon DEF InvalidSideband, RenamePack, RenameIndex, UpdateRefForFetch, Disconnected
<1> QED BY <1>2, <1>3, <1>4, <1>5, <1>6, Zenon DEF Next, Client

\* What a step that ends a fetch with success leaves behind.
LEMMA SuccessIsCurrent ==
    ASSUME StoreInv, CloneInv, CurrentInv, [Next]_vars, pc # "idle", pc' = "idle", ok'
    PROVE  /\ \A b \in Advertised : tracking'[b] = mapping[b]
           /\ Cloning => IF Advertised = {} THEN head' = None
                         ELSE head' \in Range(mapping) \ {None}
<1>1. CASE Finish
  <2>1. ~Cloning /\ tracking' = tracking /\ pc = "update" /\ todo = {}
    BY <1>1, Zenon DEF Finish, disk
  <2> QED BY <2>1, Zenon DEF CurrentInv
<1>2. CASE Reset
  <2>1. ~Fail
    BY Zenon DEF Fail, Leave
  <2>2. /\ pc = "reset" /\ tracking' = tracking
        /\ ~(\A b \in todo : Advertised # {} /\ tracking[b] = None)
        /\ \E b \in todo : head' = tracking[b]
    BY <1>2, <2>1, Zenon DEF Reset
  <2>3. /\ Cloning
        /\ \A b \in Advertised : tracking[b] = mapping[b]
        /\ \E b \in Branch : todo = {b}
    BY <2>2, Zenon DEF CurrentInv
  <2>4. PICK b \in Branch : todo = {b}
    BY <2>3, Zenon
  <2>5. head' = tracking[b] /\ (Advertised = {} \/ tracking[b] # None)
    BY <2>2, <2>4, Zenon
  <2>6. tracking[b] \in {None, mapping[b]}
    BY <2>3, Zenon DEF CloneInv
  <2>7. Advertised = {} => mapping[b] = None
    BY Zenon DEF Advertised
  <2>8. mapping[b] \in Range(mapping)
    BY Zenon DEF Range, StoreInv, Types, TypeOK
  <2> QED BY <2>2, <2>3, <2>5, <2>6, <2>7, <2>8, Zenon
<1> QED BY <1>1, <1>2, SuccessSteps, Zenon

\* During a clone there are no other packs and no other refs, and the refs that
\* are not left to update are the remote's (clone_blocking, fetch).
THEOREM CurrentInvariant == Spec => [](CloneInv /\ CurrentInv)
<1> QED BY StoreInvariant, InitCurrent, StepCurrent, PTL DEF Spec

\* A fetch that reports success has set every ref to what the remote said, and a
\* clone that does has checked out one of them, unless the remote is empty
\* (fetch, clone_origin).
THEOREM SuccessMeansCurrent == Spec => OkIsCurrent
<1> DEFINE Ends == pc # "idle" /\ pc' = "idle" /\ ok'
<1> DEFINE Current == /\ \A b \in Advertised : tracking'[b] = mapping[b]
                      /\ Cloning => IF Advertised = {} THEN head' = None
                                    ELSE head' \in Range(mapping) \ {None}
<1>1. StoreInv /\ CloneInv /\ CurrentInv /\ [Next]_vars => [Ends => Current]_vars
  BY SuccessIsCurrent, Zenon
<1>2. OkIsCurrent <=> [][Ends => Current]_vars
  BY PTL DEF OkIsCurrent
<1> HIDE DEF Ends, Current
<1> QED BY <1>1, <1>2, StoreInvariant, CurrentInvariant, PTL DEF Spec

-----------------------------------------------------------------------------
(* Client and server stay in step *)

Reply == {"ack", "nak"}
PackPart == {"data", "progress", "error", "flush"}

Only(s, types) == \A i \in DOMAIN s : s[i].type \in types

\* Once the pack begins, nothing else follows.
PackLast(s) == \A i, j \in DOMAIN s : i < j /\ s[i].type \in PackPart => s[j].type \in PackPart

\* Nothing follows a packet of this type.
IsLast(s, type) == \A i \in DOMAIN s : s[i].type = type => i = Len(s)

Talking == {"want", "have", "reply", "last", "done"}

Discovering ==
    pc = "discover" =>
        /\ toServer = <<>> /\ server \in {"gone", "wants"}
        /\ Only(toClient, {"ref", "flush"}) /\ Only(pending, {"ref", "flush"})
        /\ IsLast(toClient, "flush") /\ IsLast(pending, "flush")
        /\ pending = <<>> \/ Only(toClient, {"ref"})

Negotiating ==
    pc \in Talking =>
        /\ server # "pack"
        /\ Only(toServer, {"want", "have", "flush"})
        /\ Only(toClient, Reply) /\ Only(pending, Reply)

\* "done" has been written.
Answering ==
    pc = "acks" =>
        /\ IsLast(toServer, "done")
        /\ server = "pack" => toServer = <<>>
        /\ server \in {"wants", "haves"} => Only(toClient, Reply) /\ Only(pending, Reply)
        /\ PackLast(toClient) /\ PackLast(pending)
        /\ Only(pending, Reply \cup PackPart)
        /\ Only(toClient, Reply) \/ Only(pending, PackPart)

Receiving ==
    pc = "pack" =>
        /\ server \in {"pack", "gone"}
        /\ server = "pack" => toServer = <<>>
        /\ Only(toClient, PackPart) /\ Only(pending, PackPart)

StepInv ==
    /\ server \in {"gone", "wants", "haves", "pack"}
    /\ pc = "idle" => toServer = <<>> /\ toClient = <<>> /\ pending = <<>>
    /\ Discovering /\ Negotiating /\ Answering /\ Receiving

\* An empty pipe.
LEMMA EmptyOrder ==
    /\ \A types : Only(<<>>, types)
    /\ \A type : IsLast(<<>>, type)
    /\ PackLast(<<>>)
<1>1. DOMAIN <<>> = {}
  OBVIOUS
<1> QED BY <1>1, Zenon DEF Only, IsLast, PackLast

\* What is left when a packet is taken.
LEMMA TakenOrder ==
    ASSUME NEW s \in Seq(Packet), s # <<>>
    PROVE  /\ \A types : Only(s, types) => Head(s).type \in types /\ Only(Tail(s), types)
           /\ \A type : IsLast(s, type) => IsLast(Tail(s), type)
           /\ \A type : IsLast(s, type) /\ Head(s).type = type => Tail(s) = <<>>
           /\ PackLast(s) => PackLast(Tail(s))
           /\ PackLast(s) /\ Head(s).type \in PackPart => Only(Tail(s), PackPart)
<1>1. /\ Len(s) \in Nat /\ Len(s) # 0 /\ DOMAIN s = 1..Len(s) /\ Head(s) = s[1]
      /\ Len(Tail(s)) = Len(s) - 1 /\ DOMAIN Tail(s) = 1..(Len(s) - 1)
      /\ \A i \in 1..(Len(s) - 1) : Tail(s)[i] = s[i + 1]
      /\ Len(s) = 1 => Tail(s) = <<>>
  OBVIOUS
<1>2. 1 \in DOMAIN s /\ \A i \in DOMAIN Tail(s) : i \in Int /\ i + 1 \in DOMAIN s /\ 1 < i + 1
  BY <1>1
<1>3. ASSUME NEW types, Only(s, types)
      PROVE  Head(s).type \in types /\ Only(Tail(s), types)
  BY <1>1, <1>2, <1>3, Zenon DEF Only
<1>4. ASSUME NEW type, IsLast(s, type)
      PROVE  IsLast(Tail(s), type) /\ (Head(s).type = type => Tail(s) = <<>>)
  <2>1. Head(s).type = type => Tail(s) = <<>>
    BY <1>1, <1>2, <1>4, Zenon DEF IsLast
  <2>2. ASSUME NEW i \in DOMAIN Tail(s), Tail(s)[i].type = type PROVE i = Len(Tail(s))
    <3>1. s[i + 1].type = type /\ i + 1 \in DOMAIN s
      BY <1>1, <1>2, <2>2, Zenon
    <3>2. i + 1 = Len(s)
      BY <1>4, <3>1, Zenon DEF IsLast
    <3> QED BY <1>1, <1>2, <3>2
  <2> QED BY <2>1, <2>2, Zenon DEF IsLast
<1>5. ASSUME PackLast(s) PROVE PackLast(Tail(s))
  <2>1. ASSUME NEW i \in DOMAIN Tail(s), NEW j \in DOMAIN Tail(s), i < j,
               Tail(s)[i].type \in PackPart
        PROVE  Tail(s)[j].type \in PackPart
    <3>1. /\ i + 1 \in DOMAIN s /\ j + 1 \in DOMAIN s /\ i + 1 < j + 1
          /\ Tail(s)[i] = s[i + 1] /\ Tail(s)[j] = s[j + 1]
      BY <1>1, <1>2, <2>1
    <3> QED BY <1>5, <2>1, <3>1, Zenon DEF PackLast
  <2> QED BY <2>1, Zenon DEF PackLast
<1>6. ASSUME PackLast(s), Head(s).type \in PackPart PROVE Only(Tail(s), PackPart)
  BY <1>1, <1>2, <1>6, Zenon DEF PackLast, Only
<1> QED BY <1>3, <1>4, <1>5, <1>6, Zenon

\* What is there when a packet is added.
LEMMA AppendedOrder ==
    ASSUME NEW s \in Seq(Packet), NEW x \in Packet
    PROVE  /\ \A types : Only(s, types) /\ x.type \in types => Only(Append(s, x), types)
           /\ \A type, types : Only(s, types) /\ type \notin types => IsLast(Append(s, x), type)
           /\ PackLast(s) /\ x.type \in PackPart => PackLast(Append(s, x))
<1>1. /\ Len(s) \in Nat /\ DOMAIN s = 1..Len(s)
      /\ Len(Append(s, x)) = Len(s) + 1 /\ DOMAIN Append(s, x) = 1..(Len(s) + 1)
      /\ \A i \in 1..Len(s) : Append(s, x)[i] = s[i]
      /\ Append(s, x)[Len(s) + 1] = x
  OBVIOUS
<1>2. \A i \in DOMAIN Append(s, x) : i \in DOMAIN s \/ i = Len(s) + 1
  BY <1>1
<1>3. ASSUME NEW types, Only(s, types), x.type \in types PROVE Only(Append(s, x), types)
  BY <1>1, <1>2, <1>3, Zenon DEF Only
<1>4. ASSUME NEW type, NEW types, Only(s, types), type \notin types
      PROVE  IsLast(Append(s, x), type)
  BY <1>1, <1>2, <1>4, Zenon DEF Only, IsLast
<1>5. ASSUME PackLast(s), x.type \in PackPart PROVE PackLast(Append(s, x))
  <2>1. ASSUME NEW i \in DOMAIN Append(s, x), NEW j \in DOMAIN Append(s, x), i < j,
               Append(s, x)[i].type \in PackPart
        PROVE  Append(s, x)[j].type \in PackPart
    <3>1. CASE j = Len(s) + 1
      BY <1>1, <1>5, <3>1, Zenon
    <3>2. CASE j \in DOMAIN s
      <4>1. i \in DOMAIN s /\ Append(s, x)[i] = s[i] /\ Append(s, x)[j] = s[j]
        BY <1>1, <2>1, <3>2
      <4> QED BY <1>5, <2>1, <3>2, <4>1, Zenon DEF PackLast
    <3> QED BY <1>2, <3>1, <3>2, Zenon
  <2> QED BY <2>1, Zenon DEF PackLast
<1> QED BY <1>3, <1>4, <1>5, Zenon

\* Where there are only replies, or only parts of the pack, the order is right.
LEMMA OnlyIsOrdered ==
    ASSUME NEW s, Only(s, Reply) \/ Only(s, PackPart)
    PROVE  PackLast(s)
BY Zenon DEF Only, PackLast, Reply, PackPart

\* More types.
LEMMA OnlyMore ==
    ASSUME NEW s, NEW few, NEW more, Only(s, few), few \subseteq more
    PROVE  Only(s, more)
BY Zenon DEF Only

\* The pipes hold packets.
LEMMA PipesHold ==
    ASSUME StoreInv
    PROVE  toServer \in Seq(Packet) /\ toClient \in Seq(Packet) /\ pending \in Seq(Packet)
BY Zenon DEF StoreInv, Types, TypeOK

\* Both pipes are empty at first.
LEMMA InitStepInv == Init => StepInv
BY Zenon DEF Init, StepInv, Discovering, Negotiating, Answering, Receiving, Talking

\* A fetch that ends closes the pipes.
LEMMA LeaveInStep ==
    ASSUME NEW success, Leave(success)
    PROVE  StepInv'
BY Zenon DEF Leave, StepInv, Discovering, Negotiating, Answering, Receiving, Talking

\* The places after the pack.
LEMMA LaterInStep ==
    ASSUME StepInv, server' = server, pc' \in {"index", "renamed", "update", "reset"}
    PROVE  StepInv'
BY Zenon DEF StepInv, Discovering, Negotiating, Answering, Receiving, Talking

\* The server starts with its refs.
LEMMA SpawnInStep ==
    ASSUME StepInv, Spawn
    PROVE  StepInv'
<1>1. /\ pc' = "discover" /\ server' = "wants" /\ toServer' = <<>> /\ toClient' = <<>>
  BY Zenon DEF Spawn, StepInv
<1>2. PICK list \in BranchLists :
          \E oids \in [DOMAIN list -> Commit] : pending' = RefLines(list, oids)
  BY Zenon DEF Spawn
<1>3. \A i \in DOMAIN pending' : pending'[i].type = IF i = Len(pending') THEN "flush" ELSE "ref"
  BY <1>2, RefLinesAre
<1>4. Only(pending', {"ref", "flush"}) /\ IsLast(pending', "flush")
  BY <1>3, Zenon DEF Only, IsLast
<1>5. Only(toClient', {"ref", "flush"}) /\ IsLast(toClient', "flush") /\ Only(toClient', {"ref"})
  BY <1>1, EmptyOrder, Zenon
<1>6. Discovering'
  BY <1>1, <1>4, <1>5, Zenon DEF Discovering
<1> QED BY <1>1, <1>6, Zenon DEF StepInv, Negotiating, Answering, Receiving, Talking

\* The refs are read up to the flush.
LEMMA DiscoverInStep ==
    ASSUME StoreInv, StepInv, RecvRef \/ RecvRefsEnd
    PROVE  StepInv'
<1>0. /\ pc = "discover" /\ toClient # <<>>
      /\ toClient \in Seq(Packet)
  BY PipesHold, Zenon DEF RecvRef, RecvRefsEnd, Read
<1>1. /\ toServer = <<>> /\ server \in {"gone", "wants"}
      /\ Only(toClient, {"ref", "flush"}) /\ Only(pending, {"ref", "flush"})
      /\ IsLast(toClient, "flush") /\ IsLast(pending, "flush")
      /\ pending = <<>> \/ Only(toClient, {"ref"})
  BY <1>0, Zenon DEF StepInv, Discovering
<1>2. CASE RecvRef
  <2>1. /\ pc' = "discover" /\ toClient' = Tail(toClient)
        /\ UNCHANGED <<toServer, server, pending>>
    BY <1>2, Zenon DEF RecvRef, Read, serverState
  <2>2. /\ Only(toClient', {"ref", "flush"}) /\ IsLast(toClient', "flush")
        /\ Only(toClient, {"ref"}) => Only(toClient', {"ref"})
    BY <1>0, <1>1, <2>1, TakenOrder, Zenon
  <2>3. Discovering'
    BY <1>1, <2>1, <2>2, Zenon DEF Discovering
  <2> QED BY <2>1, <2>3, Zenon DEF StepInv, Negotiating, Answering, Receiving, Talking
<1>3. CASE RecvRefsEnd
  <2>1. CASE Fail
    BY <2>1, LeaveInStep, Zenon DEF Fail
  <2>2. CASE /\ Read({"flush"}) /\ pc' \in {"update", "want"} /\ UNCHANGED serverState
    <3>1. /\ Head(toClient).type = "flush" /\ toClient' = Tail(toClient)
          /\ UNCHANGED <<toServer, server, pending>>
      BY <2>2, Zenon DEF Read, serverState
    <3>2. ~Only(toClient, {"ref"})
      BY <1>0, <3>1, TakenOrder, Zenon
    <3>3. toClient' = <<>> /\ pending' = <<>> /\ toServer' = <<>>
      BY <1>0, <1>1, <3>1, <3>2, TakenOrder, Zenon
    <3>4. Negotiating'
      BY <1>1, <3>1, <3>3, EmptyOrder, Zenon DEF Negotiating
    <3> QED BY <2>2, <3>1, <3>4, Zenon DEF StepInv, Discovering, Answering, Receiving
  <2> QED BY <1>3, <2>1, <2>2, Zenon DEF RecvRefsEnd
<1> QED BY <1>2, <1>3, Zenon

\* The client writes, and "done" last.
LEMMA SendInStep ==
    ASSUME StoreInv, StepInv, SendWant \/ SendHave \/ FlushHaves \/ SendDone
    PROVE  StepInv'
<1>0. /\ pc \in Talking /\ UNCHANGED serverState
      /\ toServer \in Seq(Packet) /\ toClient \in Seq(Packet) /\ pending \in Seq(Packet)
  BY PipesHold, Zenon DEF SendWant, SendHave, FlushHaves, SendDone, Talking
<1>1. /\ server # "pack"
      /\ Only(toServer, {"want", "have", "flush"})
      /\ Only(toClient, Reply) /\ Only(pending, Reply)
  BY <1>0, Zenon DEF StepInv, Negotiating
<1>2. UNCHANGED <<server, pending>>
  BY <1>0, Zenon DEF serverState
<1>3. ASSUME NEW packet \in Packet, packet.type \in {"want", "have", "flush"}, Write(packet),
             pc' \in Talking
      PROVE  StepInv'
  <2>1. toServer' = Append(toServer, packet) /\ toClient' = toClient
    BY <1>3, Zenon DEF Write
  <2>2. Only(toServer', {"want", "have", "flush"})
    BY <1>0, <1>1, <1>3, <2>1, AppendedOrder, Zenon
  <2>3. Negotiating'
    BY <1>1, <1>2, <2>1, <2>2, Zenon DEF Negotiating
  <2> QED BY <1>2, <1>3, <2>3, Zenon DEF StepInv, Discovering, Answering, Receiving, Talking
<1>4. Plain("flush") \in Packet /\ Plain("flush").type = "flush"
  BY PacketsMade, Zenon DEF Bare
<1>5. CASE SendWant
  <2>1. CASE todo = {}
    <3>1. Write(Plain("flush")) /\ pc' = "have"
      BY <1>5, <2>1, Zenon DEF SendWant
    <3> QED BY <1>3, <1>4, <3>1, Zenon DEF Talking
  <2>2. CASE todo # {}
    <3>1. Latest(todo) \in Commit
      BY <1>5, <2>2, LatestIn, Zenon DEF SendWant, StoreInv, Listed
    <3>2. With("want", Latest(todo)) \in Packet /\ With("want", Latest(todo)).type = "want"
      BY <3>1, PacketsMade, Zenon
    <3>3. Write(With("want", Latest(todo))) /\ pc' = "want"
      BY <1>5, <2>2, Zenon DEF SendWant
    <3> QED BY <1>3, <3>2, <3>3, Zenon DEF Talking
  <2> QED BY <2>1, <2>2, Zenon
<1>6. CASE SendHave
  <2>1. Latest(todo) \in Commit
    <3>1. todo \subseteq odb /\ odb \subseteq Commit /\ todo # {}
      BY <1>6, Zenon DEF SendHave, StoreInv, Listed, Types, TypeOK
    <3> QED BY <3>1, LatestIn, Zenon
  <2>2. With("have", Latest(todo)) \in Packet /\ With("have", Latest(todo)).type = "have"
    BY <2>1, PacketsMade, Zenon
  <2>3. Write(With("have", Latest(todo))) /\ pc' = "have"
    BY <1>6, Zenon DEF SendHave
  <2> QED BY <1>3, <2>2, <2>3, Zenon DEF Talking
<1>7. CASE FlushHaves
  <2>1. Write(Plain("flush")) /\ pc' \in {"reply", "last"}
    BY <1>7, Zenon DEF FlushHaves
  <2> QED BY <1>3, <1>4, <2>1, Zenon DEF Talking
<1>8. CASE SendDone
  <2>1. /\ toServer' = Append(toServer, Plain("done")) /\ toClient' = toClient /\ pc' = "acks"
    BY <1>8, Zenon DEF SendDone, Write
  <2>2. Plain("done") \in Packet
    BY PacketsMade, Zenon DEF Bare
  <2>3. IsLast(toServer', "done")
    <3>1. \A type, types : Only(toServer, types) /\ type \notin types => IsLast(toServer', type)
      BY <1>0, <2>1, <2>2, AppendedOrder, Zenon
    <3>2. "done" \notin {"want", "have", "flush"}
      OBVIOUS
    <3> QED BY <1>1, <3>1, <3>2, Zenon
  <2>4. PackLast(toClient') /\ PackLast(pending')
    BY <1>1, <1>2, <2>1, OnlyIsOrdered, Zenon
  <2>5. Only(pending', Reply \cup PackPart)
    BY <1>1, <1>2, OnlyMore, Zenon
  <2>6. Answering'
    BY <1>1, <1>2, <2>1, <2>3, <2>4, <2>5, Zenon DEF Answering
  <2> QED BY <1>2, <2>1, <2>6, Zenon DEF StepInv, Discovering, Negotiating, Receiving, Talking
<1> QED BY <1>5, <1>6, <1>7, <1>8, Zenon

\* The client reads a reply, or a part of the pack.
LEMMA RecvInStep ==
    ASSUME StoreInv, StepInv, RecvReply \/ SkipAck \/ RecvPack
    PROVE  StepInv'
<1>0. /\ toClient \in Seq(Packet) /\ toClient # <<>> /\ toClient' = Tail(toClient)
      /\ UNCHANGED <<toServer, server, pending>>
  BY PipesHold, Zenon DEF RecvReply, SkipAck, RecvPack, Read, serverState
<1>1. CASE RecvReply
  <2>1. pc \in Talking /\ pc' \in Talking
    BY <1>1, Zenon DEF RecvReply, Talking
  <2>2. /\ server # "pack" /\ Only(toServer, {"want", "have", "flush"})
        /\ Only(toClient, Reply) /\ Only(pending, Reply)
    BY <2>1, Zenon DEF StepInv, Negotiating
  <2>3. Only(toClient', Reply)
    BY <1>0, <2>2, TakenOrder, Zenon
  <2>4. Negotiating'
    BY <1>0, <2>2, <2>3, Zenon DEF Negotiating
  <2> QED BY <1>0, <2>1, <2>4, Zenon DEF StepInv, Discovering, Answering, Receiving, Talking
<1>2. CASE SkipAck
  <2>1. pc = "acks" /\ pc' = "acks"
    BY <1>2, Zenon DEF SkipAck
  <2>2. /\ PackLast(toClient) => PackLast(toClient')
        /\ Only(toClient, Reply) => Only(toClient', Reply)
    BY <1>0, TakenOrder, Zenon
  <2>3. Answering'
    BY <1>0, <2>1, <2>2, Zenon DEF StepInv, Answering
  <2> QED BY <1>0, <2>1, <2>3, Zenon DEF StepInv, Discovering, Negotiating, Receiving, Talking
<1>3. CASE RecvPack
  <2>1. /\ pc \in {"acks", "pack"} /\ pc' \in {"index", "pack"}
        /\ Head(toClient).type \in {"data", "progress", "flush"}
    BY <1>3, Zenon DEF RecvPack, Read
  <2>2. Head(toClient).type \in PackPart /\ Head(toClient).type \notin Reply
    BY <2>1, Zenon DEF PackPart, Reply
  <2>3. CASE pc = "acks"
    <3>1. ~Only(toClient, Reply)
      BY <1>0, <2>2, TakenOrder, Zenon
    <3>2. Only(pending, PackPart) /\ server \in {"pack", "gone"} /\ (server = "pack" => toServer = <<>>)
      BY <2>3, <3>1, Zenon DEF StepInv, Answering
    <3>3. Only(toClient', PackPart)
      BY <1>0, <2>2, <2>3, TakenOrder, Zenon DEF StepInv, Answering
    <3>4. Receiving'
      BY <1>0, <3>2, <3>3, Zenon DEF Receiving
    <3> QED BY <1>0, <2>1, <3>4, Zenon DEF StepInv, Discovering, Negotiating, Answering, Talking
  <2>4. CASE pc = "pack"
    <3>1. Only(toClient, PackPart) => Only(toClient', PackPart)
      BY <1>0, TakenOrder, Zenon
    <3>2. Receiving'
      BY <1>0, <2>4, <3>1, Zenon DEF StepInv, Receiving
    <3> QED BY <1>0, <2>1, <3>2, Zenon DEF StepInv, Discovering, Negotiating, Answering, Talking
  <2> QED BY <2>1, <2>3, <2>4, Zenon
<1> QED BY <1>1, <1>2, <1>3, Zenon

\* The server writes a packet.
LEMMA ServerWriteInStep ==
    ASSUME StoreInv, StepInv, ServerWrite
    PROVE  StepInv'
<1> DEFINE x == Head(pending)
<1>0. /\ toClient \in Seq(Packet) /\ pending \in Seq(Packet) /\ pending # <<>>
      /\ toClient' = Append(toClient, x) /\ pending' = Tail(pending)
      /\ UNCHANGED <<pc, toServer, server>>
  BY PipesHold, Zenon DEF ServerWrite
<1>1. x \in Packet
  BY <1>0, Taken, Zenon
<1> HIDE DEF x
<1>2. \A types : Only(pending, types) => x.type \in types /\ Only(pending', types)
  BY <1>0, TakenOrder, Zenon DEF x
<1>3. \A types : Only(toClient, types) /\ x.type \in types => Only(toClient', types)
  BY <1>0, <1>1, AppendedOrder, Zenon
<1>4. pc # "idle"
  BY <1>0, Zenon DEF StepInv
<1>5. Discovering'
  <2> SUFFICES ASSUME pc = "discover" PROVE Discovering'
    BY <1>0, Zenon DEF Discovering
  <2>1. /\ toServer = <<>> /\ server \in {"gone", "wants"}
        /\ Only(toClient, {"ref", "flush"}) /\ Only(pending, {"ref", "flush"})
        /\ IsLast(pending, "flush") /\ Only(toClient, {"ref"})
    BY <1>0, Zenon DEF StepInv, Discovering
  <2>2. Only(toClient', {"ref", "flush"}) /\ Only(pending', {"ref", "flush"})
    BY <1>2, <1>3, <2>1, Zenon
  <2>3. IsLast(pending', "flush")
    BY <1>0, <2>1, TakenOrder, Zenon
  <2>4. IsLast(toClient', "flush")
    <3>1. \A type, types : Only(toClient, types) /\ type \notin types => IsLast(toClient', type)
      BY <1>0, <1>1, AppendedOrder, Zenon
    <3>2. "flush" \notin {"ref"}
      OBVIOUS
    <3> QED BY <2>1, <3>1, <3>2, Zenon
  <2>5. pending' = <<>> \/ Only(toClient', {"ref"})
    <3>1. CASE x.type = "flush"
      BY <1>0, <2>1, <3>1, TakenOrder, Zenon DEF x
    <3>2. CASE x.type = "ref"
      BY <1>3, <2>1, <3>2, Zenon
    <3> QED BY <1>2, <2>1, <3>1, <3>2, Zenon
  <2> QED BY <1>0, <2>1, <2>2, <2>3, <2>4, <2>5, Zenon DEF Discovering
<1>6. Negotiating'
  BY <1>0, <1>2, <1>3, Zenon DEF StepInv, Negotiating
<1>7. Receiving'
  BY <1>0, <1>2, <1>3, Zenon DEF StepInv, Receiving
<1>8. Answering'
  <2> SUFFICES ASSUME pc = "acks" PROVE Answering'
    BY <1>0, Zenon DEF Answering
  <2>1. /\ IsLast(toServer, "done")
        /\ server = "pack" => toServer = <<>>
        /\ server \in {"wants", "haves"} => Only(toClient, Reply) /\ Only(pending, Reply)
        /\ PackLast(toClient) /\ PackLast(pending)
        /\ Only(pending, Reply \cup PackPart)
        /\ Only(toClient, Reply) \/ Only(pending, PackPart)
    BY Zenon DEF StepInv, Answering
  <2>2. server \in {"wants", "haves"} => Only(toClient', Reply) /\ Only(pending', Reply)
    BY <1>2, <1>3, <2>1, Zenon
  <2>3. PackLast(pending') /\ Only(pending', Reply \cup PackPart) /\ x.type \in Reply \cup PackPart
    BY <1>0, <1>2, <2>1, TakenOrder, Zenon
  <2>4. CASE x.type \in PackPart
    <3>1. Only(pending', PackPart)
      BY <1>0, <2>1, <2>4, TakenOrder, Zenon DEF x
    <3>2. PackLast(toClient')
      BY <1>0, <1>1, <2>1, <2>4, AppendedOrder, Zenon
    <3> QED BY <1>0, <2>1, <2>2, <2>3, <3>1, <3>2, Zenon DEF Answering
  <2>5. CASE x.type \in Reply /\ x.type \notin PackPart
    <3>1. Only(toClient, Reply)
      BY <1>2, <2>1, <2>5, Zenon
    <3>2. Only(toClient', Reply)
      BY <1>3, <2>5, <3>1, Zenon
    <3>3. PackLast(toClient')
      BY <3>2, OnlyIsOrdered, Zenon
    <3> QED BY <1>0, <2>1, <2>2, <2>3, <3>2, <3>3, Zenon DEF Answering
  <2> QED BY <2>3, <2>4, <2>5, Zenon
<1> QED BY <1>0, <1>4, <1>5, <1>6, <1>7, <1>8, Zenon DEF StepInv

\* The server reads a packet and answers it.
LEMMA ServerReadInStep ==
    ASSUME StoreInv, StepInv, ServerRead
    PROVE  StepInv'
<1> DEFINE packet == Head(toServer)
<1>0. /\ toServer \in Seq(Packet) /\ toServer # <<>> /\ toServer' = Tail(toServer)
      /\ server # "gone" /\ UNCHANGED <<pc, toClient>>
  BY PipesHold, Zenon DEF ServerRead
<1>1. pc \notin {"idle", "discover", "pack"}
  BY <1>0, Zenon DEF StepInv, Discovering, Receiving
<1>2. server' \in {"gone", "wants", "haves", "pack"}
  BY Zenon DEF ServerRead, StepInv
<1>3. /\ Plain("ack") \in Packet /\ Plain("ack").type \in Reply
      /\ Plain("nak") \in Packet /\ Plain("nak").type \in Reply
  BY PacketsMade, Zenon DEF Bare, Reply
<1>4. ASSUME packet.type # "done", server \in {"wants", "haves"}
      PROVE  Only(pending', Reply) /\ server' \in {"wants", "haves"}
  <2>1. server' \in {"wants", "haves"}
    BY <1>4, Zenon DEF ServerRead
  <2>2. \/ pending' = <<>> \/ pending' = <<Plain("ack")>> \/ pending' = <<Plain("nak")>>
        \/ pending' = <<Plain("ack"), Plain("nak")>>
    BY <1>4, Zenon DEF ServerRead
  <2>3. /\ Only(<<Plain("ack")>>, Reply) /\ Only(<<Plain("nak")>>, Reply)
        /\ Only(<<Plain("ack"), Plain("nak")>>, Reply)
    BY <1>3 DEF Only
  <2> QED BY <2>1, <2>2, <2>3, EmptyOrder, Zenon
<1>5. CASE pc \in Talking
  <2>1. /\ server \in {"wants", "haves"}
        /\ Only(toServer, {"want", "have", "flush"}) /\ Only(toClient, Reply)
    BY <1>0, <1>5, Zenon DEF StepInv, Negotiating
  <2>2. packet.type \in {"want", "have", "flush"} /\ Only(toServer', {"want", "have", "flush"})
    BY <1>0, <2>1, TakenOrder, Zenon
  <2>3. Only(pending', Reply) /\ server' \in {"wants", "haves"}
    BY <1>4, <2>1, <2>2, Zenon
  <2>4. Negotiating'
    BY <1>0, <2>1, <2>2, <2>3, Zenon DEF Negotiating
  <2> QED BY <1>0, <1>2, <1>5, <2>4, Zenon DEF StepInv, Discovering, Answering, Receiving, Talking
<1>6. CASE pc = "acks"
  <2>1. /\ server \in {"wants", "haves"} /\ IsLast(toServer, "done")
        /\ Only(toClient, Reply) /\ PackLast(toClient)
    BY <1>0, <1>6, Zenon DEF StepInv, Answering
  <2>2. IsLast(toServer', "done") /\ (packet.type = "done" => toServer' = <<>>)
    BY <1>0, <2>1, TakenOrder, Zenon
  <2>3. CASE packet.type # "done"
    <3>1. Only(pending', Reply) /\ server' \in {"wants", "haves"}
      BY <1>4, <2>1, <2>3, Zenon
    <3>2. PackLast(pending') /\ Only(pending', Reply \cup PackPart)
      BY <3>1, OnlyIsOrdered, OnlyMore
    <3>3. Answering'
      BY <1>0, <2>1, <2>2, <3>1, <3>2, Zenon DEF Answering
    <3> QED BY <1>0, <1>2, <1>6, <3>3, Zenon DEF StepInv, Discovering, Negotiating, Receiving, Talking
  <2>4. CASE packet.type = "done"
    <3> DEFINE reply == IF common = {} THEN "nak" ELSE "ack"
    <3> DEFINE pack == PackOf(wanted, common)
    <3>1. pending' = PackPackets(reply, pack) /\ server' = "pack"
      BY <2>4, Zenon DEF ServerRead
    <3>2. reply \in Reply /\ pack \in SUBSET Commit
      BY ReachableFromFacts, Zenon DEF StoreInv, Types, Reply, PackOf
    <3> HIDE DEF reply, pack
    <3>3. /\ DOMAIN pending' = 1..4 /\ pending'[1].type \in Reply
          /\ pending'[2].type \in PackPart /\ pending'[3].type \in PackPart
          /\ pending'[4].type \in PackPart
      BY <3>1, <3>2, PackPacketsAre DEF Reply, PackPart
    <3>4. \A i \in 1..4 : i = 1 \/ i = 2 \/ i = 3 \/ i = 4
      OBVIOUS
    <3>5. PackLast(pending') /\ Only(pending', Reply \cup PackPart)
      <4>1. \A i \in 1..4 : i # 1 => pending'[i].type \in PackPart
        BY <3>3, <3>4, Zenon
      <4>2. \A i, j \in 1..4 : i < j => j # 1
        OBVIOUS
      <4> QED BY <3>3, <4>1, <4>2, Zenon DEF PackLast, Only
    <3>6. Answering'
      BY <1>0, <2>1, <2>2, <2>4, <3>1, <3>5, Zenon DEF Answering
    <3> QED BY <1>0, <1>6, <3>1, <3>6, Zenon DEF StepInv, Discovering, Negotiating, Receiving, Talking
  <2> QED BY <2>3, <2>4, Zenon
<1>7. CASE pc \notin Talking /\ pc # "acks"
  BY <1>0, <1>1, <1>2, <1>7, Zenon DEF StepInv, Discovering, Negotiating, Answering, Receiving
<1> QED BY <1>5, <1>6, <1>7, Zenon

\* The server exits, or fails to make the pack.
LEMMA ServerStopInStep ==
    ASSUME StoreInv, StepInv, ServerExit \/ ServerError
    PROVE  StepInv'
<1>1. CASE ServerExit
  <2>1. server' = "gone" /\ pending' = <<>> /\ UNCHANGED <<pc, toServer, toClient>>
    BY <1>1, Zenon DEF ServerExit
  <2>2. /\ \A types : Only(pending', types)
        /\ IsLast(pending', "flush") /\ PackLast(pending')
    BY <2>1, EmptyOrder, Zenon
  <2> QED BY <2>1, <2>2, Zenon DEF StepInv, Discovering, Negotiating, Answering, Receiving
<1>2. CASE ServerError
  <2>1. /\ server = "pack" /\ pending # <<>> /\ pending' = <<Plain("error")>>
        /\ UNCHANGED <<pc, toServer, toClient, server>>
    BY <1>2, Zenon DEF ServerError
  <2>2. Plain("error") \in Packet /\ Plain("error").type = "error"
    BY PacketsMade, Zenon DEF Bare
  <2>3. Only(pending', PackPart)
    BY <2>1, <2>2 DEF Only, PackPart
  <2>4. PackLast(pending') /\ Only(pending', Reply \cup PackPart)
    BY <2>3, OnlyIsOrdered, OnlyMore
  <2>5. pc \notin {"idle", "discover"} /\ pc \notin Talking
    BY <2>1, Zenon DEF StepInv, Discovering, Negotiating
  <2> QED BY <2>1, <2>3, <2>4, <2>5, Zenon DEF StepInv, Discovering, Negotiating, Answering, Receiving
<1> QED BY <1>1, <1>2, Zenon

\* Every step keeps the invariant.
LEMMA StepStepInv == StoreInv /\ StepInv /\ [Next]_vars => StepInv'
<1> SUFFICES ASSUME StoreInv, StepInv, [Next]_vars PROVE StepInv'
  OBVIOUS
<1>0. Fail \/ Die \/ Leave(TRUE) \/ Leave(FALSE) => StepInv'
  BY LeaveInStep, Zenon DEF Fail, Die
<1>1. CASE Spawn
  BY <1>1, SpawnInStep, Zenon
<1>2. CASE Client
  <2>1. CASE RecvRef \/ RecvRefsEnd
    BY <2>1, DiscoverInStep, Zenon
  <2>2. CASE SendWant \/ SendHave \/ FlushHaves \/ SendDone
    BY <2>2, SendInStep, Zenon
  <2>3. CASE RecvReply \/ SkipAck \/ RecvPack
    BY <2>3, RecvInStep, Zenon
  <2>4. CASE RenamePack \/ RenameIndex
    BY <1>0, <2>4, LaterInStep, Zenon DEF RenamePack, RenameIndex, serverState
  <2>5. CASE UpdateRefForFetch \/ Finish
    BY <1>0, <2>5, LaterInStep, Zenon DEF UpdateRefForFetch, Finish, serverState
  <2>6. CASE InvalidSideband \/ Reset \/ Disconnected
    BY <1>0, <2>6, Zenon DEF InvalidSideband, Reset, Disconnected
  <2> QED BY <1>2, <2>1, <2>2, <2>3, <2>4, <2>5, <2>6, Zenon DEF Client
<1>3. CASE Server
  BY <1>3, ServerWriteInStep, ServerReadInStep, Zenon DEF Server
<1>4. CASE ServerExit \/ ServerError
  BY <1>4, ServerStopInStep, Zenon
<1>5. CASE RenameFails \/ UpdateFails \/ Killed
  BY <1>0, <1>5, Zenon DEF RenameFails, UpdateFails, Killed
<1>6. CASE UNCHANGED vars
  BY <1>6, Zenon DEF vars, StepInv, Discovering, Negotiating, Answering, Receiving
<1> QED BY <1>1, <1>2, <1>3, <1>4, <1>5, <1>6, Zenon DEF Next

\* What is in the pipes, and in which order, is what the place of the client
\* allows (negotiate_packs, recv_pack).
THEOREM StepInvariant == Spec => []StepInv
<1> QED BY StoreInvariant, InitStepInv, StepStepInv, PTL DEF Spec

\* What is read after a flush of haves is a reply, and once the pack has begun
\* there are no replies left: for any batch size and any pipe, however many
\* replies negotiation left unread (negotiate_packs, recv_pack).
THEOREM AlwaysInStep == Spec => []InStep
<1>1. ASSUME StoreInv, StepInv PROVE InStep
  <2> SUFFICES ASSUME toClient # <<>>
               PROVE  /\ pc \in {"reply", "last"} => Head(toClient).type \in Reply
                      /\ pc = "pack" => Head(toClient).type \in PackPart
    BY Zenon DEF InStep, Reply, PackPart
  <2>1. toClient \in Seq(Packet)
    BY <1>1, PipesHold, Zenon
  <2>2. pc \in {"reply", "last"} => Only(toClient, Reply)
    BY <1>1, Zenon DEF StepInv, Negotiating, Talking
  <2>3. pc = "pack" => Only(toClient, PackPart)
    BY <1>1, Zenon DEF StepInv, Receiving
  <2> QED BY <2>1, <2>2, <2>3, TakenOrder, Zenon
<1> QED BY <1>1, StoreInvariant, StepInvariant, PTL

=============================================================================
