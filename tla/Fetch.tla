-------------------------------- MODULE Fetch --------------------------------
(****************************************************************************)
(* clone, and fetch, over a pipe to git-upload-pack (remote.rs,             *)
(* transport.rs, protocol.rs): the remote's refs, the negotiation of what   *)
(* is missing, the pack, the update of refs/remotes/<name>/*, and, of a     *)
(* clone, the branch that is checked out.                                   *)
(*                                                                          *)
(* The server is a program that is run, modelled by its side of the         *)
(* protocol (multi_ack_detailed, side-band-64k).  Its refs are anything at  *)
(* each fetch: others push to it.  A pack holds commits; a packet is read   *)
(* and written whole.                                                       *)
(****************************************************************************)
EXTENDS CommitGraph, FiniteSets

CONSTANTS
    Branches,    \* the remote's branches are 1..Branches
    BatchSize,   \* MULTI_ACK_BATCH_SIZE
    PipeSize,    \* packets that fit into a pipe
    MaxOrphans,  \* bound on the packs left without an index
    Fault,       \* what may go wrong: a subset of {"kill", "server", "rename", "lock"}
    None

ASSUME FetchAssumption ==
    /\ Branches \in Nat \ {0} /\ BatchSize \in Nat \ {0} /\ PipeSize \in Nat \ {0}
    /\ MaxOrphans \in Nat
    /\ Fault \subseteq {"kill", "server", "rename", "lock"}
    /\ None \notin Commit

VARIABLES
    parents,             \* the history
    odb,                 \* the commits in packs that have an index
    orphans,             \* the packs (sets of commits) that have none
    tracking,            \* refs/remotes/<name>/<branch>
    head,                \* the commit of the branch that was checked out
    repo,                \* the directory: "none", "empty", or a "repo"; while it is cloned,
                         \* "new" if clone made it and "into" if it was there
    pc, ok,              \* where the client is, and whether its last fetch succeeded
    mapping,             \* remote_mapping
    todo,                \* what is left to write, or to update
    batch,               \* haves in this batch
    got,                 \* the commits in the pack received so far
    toServer, toClient,  \* the two pipes
    server,              \* where the server is
    held,                \* the commits that the server has
    wanted, common,      \* what the server was told
    pending              \* what the server is about to write

history == parents
disk == <<odb, orphans, tracking, head, repo>>
serverState == <<server, held, wanted, common, pending>>
vars == <<parents, odb, orphans, tracking, head, repo, pc, ok, mapping, todo, batch, got,
          toServer, toClient, server, held, wanted, common, pending>>

Branch == 1..Branches
ReachableFrom(tips) == UNION {Reachable(parents)[c] : c \in tips}

Packet == [type : {"ref"}, ref : Branch, oid : Commit] \cup
          [type : {"want", "have"}, oid : Commit] \cup
          [type : {"data"}, oids : SUBSET Commit] \cup
          [type : {"flush", "done", "ack", "nak", "progress", "error"}]

Plain(type) == [type |-> type]
With(type, oid) == [type |-> type, oid |-> oid]

Init ==
    /\ parents \in History
    /\ odb = {} /\ orphans = {}
    /\ tracking = [b \in Branch |-> None]
    /\ head = None /\ repo \in {"none", "empty", "repo"}
    /\ pc = "idle" /\ ok = FALSE
    /\ mapping = [b \in Branch |-> None]
    /\ todo = {} /\ batch = 0 /\ got = {}
    /\ toServer = <<>> /\ toClient = <<>>
    /\ server = "gone" /\ held = {} /\ wanted = {} /\ common = {} /\ pending = <<>>

-----------------------------------------------------------------------------
(* The client *)

\* Sending one packet, once there is room, to a server that is there.
Write(packet) ==
    /\ server # "gone" /\ Len(toServer) < PipeSize
    /\ toServer' = Append(toServer, packet)
    /\ UNCHANGED toClient

\* recv_packet.
Read(types) ==
    /\ toClient # <<>> /\ Head(toClient).type \in types
    /\ toClient' = Tail(toClient)
    /\ UNCHANGED toServer

\* The fetch is over: the pipes are closed and the server exits.
Leave(success) ==
    /\ pc' = "idle" /\ ok' = success
    /\ mapping' = IF success THEN mapping ELSE [b \in Branch |-> None]
    /\ todo' = {} /\ batch' = 0 /\ got' = {}
    /\ toServer' = <<>> /\ toClient' = <<>>
    /\ server' = "gone" /\ held' = {} /\ wanted' = {} /\ common' = {} /\ pending' = <<>>

\* An error ends a clone, or a fetch; a clone removes the directory it has made.
Fail ==
    /\ Leave(FALSE)
    /\ IF repo = "new"
       THEN /\ odb' = {} /\ orphans' = {} /\ tracking' = [b \in Branch |-> None]
            /\ repo' = "none"
       ELSE repo' = "repo" /\ UNCHANGED <<odb, orphans, tracking>>
    /\ UNCHANGED <<history, head>>

\* The process is gone and removes nothing.
Die ==
    /\ Leave(FALSE)
    /\ repo' = "repo"
    /\ UNCHANGED <<history, odb, orphans, tracking, head>>

\* clone_blocking needs a directory that is empty, or makes one, and
\* initializes the repository; fetch needs a repository.
Clone == repo' = IF repo = "none" THEN "new" ELSE IF repo = "empty" THEN "into" ELSE "repo"

Cloning == repo \in {"new", "into"}

\* The branches that a server may have, by name.
BranchLists ==
    {list \in UNION {[1..n -> Branch] : n \in 0..Branches} :
        \A i, j \in DOMAIN list : i < j => list[i] < list[j]}

RefLines(list, oids) ==
    Append([i \in DOMAIN list |-> [type |-> "ref", ref |-> list[i], oid |-> oids[i]]],
           Plain("flush"))

\* FileTransport::new: the server starts by writing its refs, in the order of
\* their names.  It has every commit that they reach, and may have more.
Spawn ==
    /\ pc = "idle"
    /\ \E list \in BranchLists, more \in {{}, Commit} : \E oids \in [DOMAIN list -> Commit] :
          /\ held' = ReachableFrom(Range(oids) \cup more)
          /\ pending' = RefLines(list, oids)
    /\ pc' = "discover" /\ ok' = FALSE
    /\ mapping' = [b \in Branch |-> None]
    /\ server' = "wants"
    /\ Clone
    /\ UNCHANGED <<history, odb, orphans, tracking, head, todo, batch, got, toServer, toClient,
                   wanted, common>>

\* parse_ref_discovery_and_capabilities, and the refspec's match_ref.
RecvRef ==
    /\ pc = "discover"
    /\ Read({"ref"})
    /\ mapping' = [mapping EXCEPT ![Head(toClient).ref] = Head(toClient).oid]
    /\ UNCHANGED <<history, disk, pc, ok, todo, batch, got, serverState>>

Advertised == {b \in Branch : mapping[b] # None}

Wanted == {mapping[b] : b \in {x \in Advertised : tracking[x] # mapping[x]}}

LocalTips == {tracking[b] : b \in {x \in Advertised : tracking[x] # None}}

\* All refs are known: an empty remote, up to date, or the negotiation starts.
\* Resolving a ref that exists opens the object database, which fails if a pack
\* has no index.
RecvRefsEnd ==
    /\ pc = "discover"
    /\ toClient # <<>> /\ Head(toClient).type = "flush"
    /\ IF LocalTips # {} /\ orphans # {} THEN Fail
       ELSE /\ Read({"flush"})
            /\ IF Wanted = {}
               THEN pc' = "update" /\ todo' = Advertised
               ELSE pc' = "want" /\ todo' = Wanted
            /\ UNCHANGED <<history, disk, ok, mapping, batch, got, serverState>>

\* The wants and the haves of a batch are sets to the server.
Latest(commits) == CHOOSE c \in commits : \A d \in commits : d <= c

\* The want lines, a flush, and then the walk from the local tips.
SendWant ==
    /\ pc = "want"
    /\ IF todo = {}
       THEN /\ Write(Plain("flush"))
            /\ pc' = "have" /\ todo' = ReachableFrom(LocalTips)
       ELSE LET oid == Latest(todo)
            IN  Write(With("want", oid)) /\ todo' = todo \ {oid} /\ UNCHANGED pc
    /\ UNCHANGED <<history, disk, ok, mapping, batch, got, serverState>>

\* The next commit of the walk: children come before parents.
SendHave ==
    /\ pc = "have" /\ batch < BatchSize
    /\ todo # {}
    /\ LET oid == Latest(todo)
       IN  Write(With("have", oid)) /\ todo' = todo \ {oid}
    /\ batch' = batch + 1
    /\ UNCHANGED <<history, disk, pc, ok, mapping, got, serverState>>

\* The walk is over: no flush for what is already flushed.
FlushHavesOnce ==
    /\ pc = "have" /\ (batch = BatchSize \/ todo = {})
    /\ IF batch = 0
       THEN UNCHANGED <<toServer, toClient>>
       ELSE Write(Plain("flush"))
    /\ pc' = IF batch = BatchSize THEN "reply" ELSE "last"
    /\ batch' = 0
    /\ UNCHANGED <<history, disk, ok, mapping, todo, got, serverState>>

\* A flush after each full batch, and one when the walk ends.
FlushHaves ==
    /\ pc = "have" /\ (batch = BatchSize \/ todo = {})
    /\ Write(Plain("flush"))
    /\ pc' = IF batch = BatchSize THEN "reply" ELSE "last"
    /\ batch' = 0
    /\ UNCHANGED <<history, disk, ok, mapping, todo, got, serverState>>

\* One packet is read after each flush, however many there are.
RecvReply ==
    /\ pc \in {"reply", "last"}
    /\ Read({p.type : p \in Packet})
    /\ pc' = IF pc = "reply" THEN "have" ELSE "done"
    /\ UNCHANGED <<history, disk, ok, mapping, todo, batch, got, serverState>>

SendDone ==
    /\ pc = "done"
    /\ Write(Plain("done"))
    /\ pc' = "acks"
    /\ UNCHANGED <<history, disk, ok, mapping, todo, batch, got, serverState>>

\* Skipping a single reply.
SkipAckOnce ==
    /\ pc = "acks"
    /\ Read({"ack", "nak"})
    /\ pc' = "pack"
    /\ UNCHANGED <<history, disk, ok, mapping, todo, batch, got, serverState>>

\* recv_pack's first loop.
SkipAck ==
    /\ pc = "acks"
    /\ Read({"ack", "nak"})
    /\ UNCHANGED <<history, disk, pc, ok, mapping, todo, batch, got, serverState>>

\* Its second loop, up to the flush.
RecvPack ==
    /\ pc \in {"acks", "pack"}
    /\ Read({"data", "progress", "flush"})
    /\ got' = got \cup (IF Head(toClient).type = "data" THEN Head(toClient).oids ELSE {})
    /\ pc' = IF Head(toClient).type = "flush" THEN "index" ELSE "pack"
    /\ UNCHANGED <<history, disk, ok, mapping, todo, batch, serverState>>

\* An error of the server, which panics, or a packet of no sideband.
InvalidSideband ==
    /\ pc \in {"acks", "pack"} /\ toClient # <<>>
    /\ Head(toClient).type \in {"error"} \cup (IF pc = "pack" THEN {"ack", "nak"} ELSE {})
    /\ IF Head(toClient).type = "error" THEN Die ELSE Fail

\* Moving the refs as soon as the pack is there, before its index.
RenamePackRefsFirst ==
    /\ pc = "index"
    /\ orphans' = orphans \cup {got}
    /\ tracking' = [b \in Branch |-> IF b \in Advertised THEN mapping[b] ELSE tracking[b]]
    /\ pc' = "renamed"
    /\ UNCHANGED <<history, odb, head, repo, ok, mapping, todo, batch, got, toServer, toClient,
                   serverState>>

\* write_pack_index next to the temporary file, and the first rename.  A pack
\* that was received before has the same name, and its index is there.
RenamePack ==
    /\ pc = "index"
    /\ \/ got \notin orphans /\ orphans' = orphans \cup {got}
       \/ (got \subseteq odb \/ got \in orphans) /\ UNCHANGED orphans
    /\ pc' = "renamed"
    /\ UNCHANGED <<history, odb, tracking, head, repo, ok, mapping, todo, batch, got, toServer,
                   toClient, serverState>>

\* The second rename, and refresh_odb, which fails if any pack has no index.
RenameIndex ==
    /\ pc = "renamed"
    /\ odb' = odb \cup got /\ orphans' = orphans \ {got}
    /\ IF orphans' # {}
       THEN Leave(FALSE)
       ELSE /\ pc' = "update" /\ todo' = Advertised /\ got' = {}
            /\ UNCHANGED <<ok, mapping, batch, toServer, toClient, serverState>>
    /\ UNCHANGED <<history, tracking, head, repo>>

RenameFails ==
    /\ "rename" \in Fault
    /\ pc \in {"index", "renamed"} /\ Cardinality(orphans) <= MaxOrphans
    /\ Fail

\* Leaving a ref that exists as it is.
UpdateRefIfNew(b) ==
    tracking' = IF tracking[b] = None THEN [tracking EXCEPT ![b] = mapping[b]] ELSE tracking

\* BitRefDb::update of one ref.
UpdateRef(b) == tracking' = [tracking EXCEPT ![b] = mapping[b]]

\* update_ref_for_fetch: the commit must be in the object database.
UpdateRefForFetch ==
    /\ pc = "update"
    /\ \E b \in todo :
          IF mapping[b] \in odb
          THEN /\ UpdateRef(b) /\ todo' = todo \ {b}
               /\ UNCHANGED <<history, odb, orphans, head, repo, pc, ok, mapping, batch, got,
                              toServer, toClient, serverState>>
          ELSE Fail

\* The ref or its log is locked by someone else, or a file cannot be written.
UpdateFails ==
    /\ "lock" \in Fault
    /\ pc = "reset" \/ (pc = "update" /\ todo # {})
    /\ Fail

\* The fetch is over.  A clone goes on with create_branch, which makes HEAD name
\* the branch the remote's HEAD names, if the remote says so, or else master,
\* the first.
Finish ==
    /\ pc = "update" /\ todo = {}
    /\ IF ~Cloning
       THEN Leave(TRUE) /\ UNCHANGED <<history, disk>>
       ELSE /\ pc' = "reset"
            /\ \E b \in Advertised \cup {1} : todo' = {b}
            /\ UNCHANGED <<history, disk, ok, mapping, batch, got, toServer, toClient, serverState>>

\* The rest of clone_origin: a hard reset to the branch's remote ref, which must
\* exist, unless the remote is empty.
Reset ==
    /\ pc = "reset"
    /\ IF \A b \in todo : Advertised # {} /\ tracking[b] = None
       THEN Fail
       ELSE /\ Leave(TRUE)
            /\ repo' = "repo"
            /\ \E b \in todo : head' = tracking[b]
            /\ UNCHANGED <<history, odb, orphans, tracking>>

\* The server has exited: nothing to read, or no one to write to.
Disconnected ==
    /\ server = "gone"
    /\ \/ pc \in {"discover", "reply", "last", "acks", "pack"} /\ toClient = <<>>
       \/ pc \in {"want", "have", "done"}
    /\ Fail

Killed ==
    /\ "kill" \in Fault
    /\ pc # "idle" /\ Cardinality(orphans) <= MaxOrphans
    /\ Die

Client ==
    \/ RecvRef \/ RecvRefsEnd \/ SendWant \/ SendHave \/ FlushHaves \/ RecvReply \/ SendDone
    \/ SkipAck \/ RecvPack \/ InvalidSideband \/ RenamePack \/ RenameIndex
    \/ UpdateRefForFetch \/ Finish \/ Reset \/ Disconnected

-----------------------------------------------------------------------------
(* The server: git-upload-pack *)

ServerWrite ==
    /\ server # "gone" /\ pending # <<>> /\ Len(toClient) < PipeSize
    /\ toClient' = Append(toClient, Head(pending))
    /\ pending' = Tail(pending)
    /\ UNCHANGED <<history, disk, pc, ok, mapping, todo, batch, got, toServer, server,
                   held, wanted, common>>

\* The commits of the pack: what the client wants and does not have.
PackOf(want, have) == ReachableFrom(want) \ ReachableFrom(have)

\* The reply to "done", and the pack.
PackPackets(reply, pack) ==
    <<Plain(reply), Plain("progress"), [type |-> "data", oids |-> pack], Plain("flush")>>

\* An ACK for each have that the server has; it may also say that it is ready.
\* A NAK for each flush.
ServerRead ==
    /\ server # "gone" /\ pending = <<>> /\ toServer # <<>>
    /\ toServer' = Tail(toServer)
    /\ LET packet == Head(toServer)
       IN  \/ /\ packet.type = "want"
              /\ wanted' = wanted \cup {packet.oid}
              /\ UNCHANGED <<server, common, pending>>
           \/ /\ packet.type = "flush" /\ server = "wants"
              /\ server' = "haves"
              /\ UNCHANGED <<wanted, common, pending>>
           \/ /\ packet.type = "have" /\ packet.oid \in held
              /\ common' = common \cup {packet.oid}
              /\ pending' = <<Plain("ack")>>
              /\ UNCHANGED <<server, wanted>>
           \/ /\ packet.type = "have" /\ packet.oid \notin held
              /\ pending' \in {<<>>, <<Plain("ack")>>}
              /\ UNCHANGED <<server, wanted, common>>
           \/ /\ packet.type = "flush" /\ server = "haves"
              /\ pending' \in {<<Plain("nak")>>, <<Plain("ack"), Plain("nak")>>}
              /\ UNCHANGED <<server, wanted, common>>
           \/ /\ packet.type = "done"
              /\ pending' = PackPackets(IF common = {} THEN "nak" ELSE "ack",
                                         PackOf(wanted, common))
              /\ server' = "pack"
              /\ UNCHANGED <<wanted, common>>
    /\ UNCHANGED <<history, disk, pc, ok, mapping, todo, batch, got, toClient, held>>

\* Done, or killed: what is in the pipe can still be read.
ServerExit ==
    /\ \/ server = "pack" /\ pending = <<>>
       \/ "server" \in Fault /\ server # "gone"
    /\ server' = "gone" /\ pending' = <<>>
    /\ UNCHANGED <<history, disk, pc, ok, mapping, todo, batch, got, toServer, toClient,
                   held, wanted, common>>

\* The pack cannot be made: the error takes the place of what is left of it.
ServerError ==
    /\ "server" \in Fault /\ server = "pack"
    /\ pending # <<>> /\ Head(pending).type \in {"progress", "data"}
    /\ pending' = <<Plain("error")>>
    /\ UNCHANGED <<history, disk, pc, ok, mapping, todo, batch, got, toServer, toClient,
                   server, held, wanted, common>>

Server == ServerWrite \/ ServerRead

Next == Spawn \/ Client \/ Server \/ ServerExit \/ ServerError \/ RenameFails \/ UpdateFails \/ Killed

Spec == Init /\ [][Next]_vars

\* Both programs go on as long as they can.
FairSpec == Spec /\ WF_vars(Client) /\ WF_vars(Server)

-----------------------------------------------------------------------------
(* Properties *)

\* The variables have their types.
TypeOK ==
    /\ odb \subseteq Commit /\ orphans \subseteq SUBSET Commit
    /\ tracking \in [Branch -> Commit \cup {None}]
    /\ head \in Commit \cup {None} /\ repo \in {"none", "empty", "repo", "new", "into"}
    /\ mapping \in [Branch -> Commit \cup {None}]
    /\ todo \subseteq Commit \cup Branch
    /\ batch \in 0..BatchSize /\ ok \in BOOLEAN
    /\ got \subseteq Commit
    /\ toServer \in Seq(Packet) /\ toClient \in Seq(Packet)

\* The state is well formed, and every commit that can be reached from
\* refs/remotes/<name>/* and from the branch that was checked out is in the
\* object database: the pack is complete and in place before a ref moves,
\* whatever was negotiated, and wherever an earlier fetch or a clone was killed
\* or failed; and what a clone removes no one goes on using (recv_pack,
\* update_ref_for_fetch, clone_blocking).
RefsComplete ==
    /\ TypeOK
    /\ ReachableFrom((Range(tracking) \cup {head}) \ {None}) \subseteq odb

\* Client and server never get out of step: what is read after a flush of haves
\* is a reply and not a part of the pack, and once the pack has begun there are
\* no replies left (an "ACK" would be an invalid sideband).
InStep ==
    toClient # <<>> =>
        /\ pc \in {"reply", "last"} => Head(toClient).type \in {"ack", "nak"}
        /\ pc = "pack" => Head(toClient).type \in {"data", "progress", "error", "flush"}

\* A fetch that reports success has set every ref to what the remote said, the
\* ones that were moved back included; and a clone that does has also checked
\* out one of them, unless the remote is empty (fetch, clone_origin).
OkIsCurrent ==
    [][pc # "idle" /\ pc' = "idle" /\ ok' =>
          /\ \A b \in Advertised : tracking'[b] = mapping[b]
          /\ Cloning => IF Advertised = {} THEN head' = None ELSE head' \in Range(mapping) \ {None}]_vars

\* No more haves than fit into the pipe.
HavesFit == Cardinality(ReachableFrom(LocalTips)) <= PipeSize

\* A fetch ends, if its haves fit into the pipe.  The client reads one packet
\* after each batch, and the server writes one for nearly every have: with more
\* haves than that, each may come to wait for the other to read.
FetchEnds == pc # "idle" ~> (pc = "idle" \/ ~HavesFit)

=============================================================================
