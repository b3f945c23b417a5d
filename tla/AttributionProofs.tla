-------------------------- MODULE AttributionProofs -------------------------
(***************************************************************************)
(* Proofs about Attribution, for any number of threads, processes, sockets *)
(* and flows, on the three platforms, and for every CACHE_TTL: no answer   *)
(* is too old, a flow whose socket stays is attributed, and an exact bind  *)
(* is preferred to a wildcard one.                                         *)
(*                                                                         *)
(* That an answer is fresh depends on what the caches and the lookups in   *)
(* progress know: an inode that a thread has been told leads only to       *)
(* processes that held the socket after the call began, whoever fills the  *)
(* map in between. Until something is recycled an inode has one owner for  *)
(* ever, which is what the map without expiry relies on.                   *)
(***************************************************************************)
EXTENDS Attribution, WellFoundedInduction, TLAPS

Socket ==
  [udp : BOOLEAN, ip : Ip, port : Nat, peer : Endpoint, inode : Inodes \cup {0},
   owner : Pids \cup {0}, holders : SUBSET Pids, place : Int]

(* The record of a call has its fields; these are the types of some.       *)
CallTypes(c) ==
  LET a == call[c] IN
  /\ DOMAIN a = DOMAIN Idle
  /\ a.pc \in {"idle", "check", "query", "inode", "scan", "insert", "size", "fetch", "name", "done"}
  /\ a.now \in Nat /\ a.query \in 0..3 /\ a.udp \in BOOLEAN
  /\ a.unscanned \subseteq Pids /\ a.found \in [Inodes -> Pids \cup {None}]
  /\ a.pid \in Pids \cup {None, 0} /\ a.name \in Pids \cup {None}

Types ==
  /\ world \in Worlds
  /\ table \subseteq Socket
  /\ alive \subseteq Pids /\ used \subseteq Inodes /\ recycled \in BOOLEAN
  /\ clock \in Nat /\ changes \in Nat
  /\ last \in [Keys -> [Pids -> Int]]
  /\ endpoints \in [Keys -> [pid : Pids \cup {None}, at : Nat]]
  /\ inodes \in [Inodes -> Pids \cup {None}]
  /\ lock \in Callers \cup {None}
  /\ DOMAIN call = Callers /\ \A c \in Callers : CallTypes(c)

(* The kernel's table.  A socket without an inode is one in TIME_WAIT, and *)
(* until something is recycled every other has one holder, its owner.      *)
TableInv ==
  /\ \A s \in table :
       /\ s.inode = 0 => s.owner = 0 /\ s.holders = {} /\ ~ s.udp
       /\ s.inode # 0 => s.owner # 0 /\ s.inode \in used
       /\ ~ recycled /\ s.inode # 0 => s.holders = {s.owner}
       /\ -changes <= s.place /\ s.place <= changes
  /\ \A s, r \in table :
       /\ s.inode = r.inode /\ s.inode # 0 => s = r
       /\ s.udp = r.udp /\ s.ip = r.ip /\ s.port = r.port /\ s.peer = r.peer => s = r

(* The ghost: whoever holds a socket now held it last now. *)
LastInv ==
  \A k \in Keys, p \in Pids :
    /\ -1 <= last[k][p] /\ last[k][p] <= clock
    /\ \A s \in table : Serves(s, k) /\ p \in s.holders => last[k][p] = clock

(* Where the lookups are. *)
Shape(c) ==
  LET a == call[c] IN
  /\ a.now <= clock
  /\ a.stayed \subseteq used
  /\ a.pc # "idle" => a.flow \in world.flows
  /\ a.pc = "check" => platform # "windows"
  /\ a.pc = "query" => platform = "linux" /\ a.query # 0
  /\ a.pc \in {"inode", "scan"} => platform = "linux" /\ a.inode \in used
  /\ a.pc = "insert" => platform # "windows" /\ a.pid \in Pids
  /\ a.pc \in {"size", "fetch"} => platform # "linux"
  /\ a.pc \in {"check", "size", "fetch"} /\ a.udp # a.flow.udp =>
       platform = "windows" /\ a.flow.udp
  /\ a.pc = "name" => a.pid # None
  /\ platform # "windows" => a.pid # 0

(* The map, or a walk in progress, names p for inode i. *)
Names(i, p) == inodes[i] = p \/ \E c \in Callers : call[c].found[i] = p

(* The caches: an entry dates from when its process held a socket at the   *)
(* endpoint, and an inode is mapped to the owner of its socket.            *)
CacheInv ==
  /\ \A k \in Keys : endpoints[k] # Empty =>
       /\ endpoints[k].pid \in Pids
       /\ ~ recycled => last[k][endpoints[k].pid] >= endpoints[k].at
  /\ ~ recycled => \A i \in Inodes, p \in Pids : Names(i, p) =>
       i \in used /\ \A s \in table : s.inode = i => s.owner = p

(* What a lookup in progress may answer is no older than the call, and     *)
(* what it has answered is not too old.                                    *)
Fresh(c) ==
  LET a == call[c]
      k == Key(a.flow)
  IN /\ a.pc \in {"inode", "scan"} =>
          /\ \A s \in table : s.inode = a.inode => Serves(s, k)
          /\ \A p \in Pids : Names(a.inode, p) => last[k][p] >= a.now
     /\ a.pc = "insert" => last[k][a.pid] >= a.now
     /\ a.pc \in {"name", "done"} /\ a.pid \in Pids =>
          last[k][a.pid] >= 0 /\ last[k][a.pid] > a.now - Ttl

(* Sockets are bound to the addresses the world lists, so none to the      *)
(* address a flow goes to.                                                 *)
Local == \A s \in table : \E shape \in world.shapes : s.ip = shape.ip

(* A lookup whose socket stays does not lose it. *)
Follows(c) ==
  LET a == call[c] IN
  ~ a.disturbed =>
    \A s \in table : s.inode \in a.stayed /\ Origin(s, a.flow) =>
      /\ a.pc = "query" => a.query = 1
      /\ a.pc \in {"inode", "scan"} => a.inode = s.inode
      /\ a.pc = "scan" => s.owner \in a.unscanned \/ a.found[s.inode] = s.owner
      /\ a.pc = "insert" => a.pid = s.owner
      /\ a.pc \in {"size", "fetch"} => a.udp = a.flow.udp
      /\ a.pc \in {"name", "done"} =>
           a.pid \in Pids /\ (~ a.hit /\ platform # "windows" => a.pid = s.owner)

CallInv(c) == Shape(c) /\ (~ recycled => Fresh(c) /\ Follows(c))

Inv == Types /\ TableInv /\ Local /\ LastInv /\ CacheInv /\ \A c \in Callers : CallInv(c)
-----------------------------------------------------------------------------
(* The minimum that a well-founded relation promises. *)
LEMMA MinIn ==
  ASSUME NEW R, NEW S, IsWellFoundedOn(R, S), NEW T \in SUBSET S, T # {}
  PROVE  \E x \in T : \A y \in T : ~ (<<y, x>> \in R)
<1>1. T \subseteq S
  OBVIOUS
<1>. QED
  BY <1>1, WFMin, Zenon

(* A set of naturals that is not empty has a least element. *)
LEMMA Least ==
  ASSUME NEW S \in SUBSET Nat, S # {}
  PROVE  \E x \in S : \A y \in S : x <= y
<1>1. \A x, y \in Nat : x < y => <<x, y>> \in OpToRel(<, Nat)
  BY Zenon DEF OpToRel
<1>2. \E R : IsWellFoundedOn(R, Nat) /\ \A x, y \in Nat : x < y => <<x, y>> \in R
  BY <1>1, NatLessThanWellFounded, Zenon
<1>3. PICK R : IsWellFoundedOn(R, Nat) /\ \A x, y \in Nat : x < y => <<x, y>> \in R
  BY <1>2, Zenon
<1>4. S \subseteq Nat
  OBVIOUS
<1>5. PICK x \in S : \A y \in S : ~ (<<y, x>> \in R)
  BY <1>3, MinIn, Zenon
<1>6. ASSUME NEW y \in S PROVE ~ (y < x)
  BY <1>3, <1>4, <1>5, Zenon
<1>7. \A y \in S : x <= y
  BY <1>4, <1>6
<1>. QED
  BY <1>7

(* FirstOwner is the owner of one of the rows, if there are any. *)
LEMMA FirstOwnerIs ==
  ASSUME NEW rows, NEW n \in Nat, rows # {},
         \A s \in rows : s.place \in Int /\ -n <= s.place
  PROVE  \E s \in rows : FirstOwner(rows) = s.owner
<1>. DEFINE S == {s.place + n : s \in rows}
<1>1. S \in SUBSET Nat /\ S # {}
  OBVIOUS
<1>2. PICK x \in S : \A y \in S : x <= y
  BY <1>1, Least, Zenon
<1>3. PICK s \in rows : x = s.place + n
  BY <1>2
<1>4. ASSUME NEW r \in rows PROVE s.place <= r.place
  <2>1. s.place + n <= r.place + n
    BY <1>2, <1>3
  <2>. QED
    BY <2>1
<1>5. (CHOOSE q \in rows : \A r \in rows : q.place <= r.place) \in rows
  BY <1>4, Zenon
<1>. QED
  BY <1>5, Zenon DEF FirstOwner

(* Identifiers of processes are positive. *)
LEMMA PidsPositive == \A p \in Pids : p \in Int /\ p > 0 /\ p # None
  BY AttributionAssumption DEF None

(* What a table lookup answers is the owner of a row at the endpoint; on   *)
(* macOS it is a process. *)
LEMMA ResolveIs ==
  ASSUME Types, TableInv, NEW f \in Flow, NEW udp \in BOOLEAN,
         NEW rows \in SUBSET Rows(f, udp), Resolve(rows, f, udp) # None
  PROVE  \E s \in rows : /\ Resolve(rows, f, udp) = s.owner
                         /\ s.port = f.port /\ s.ip \in {f.ip, Wildcard(f.ip)}
                         /\ platform = "macos" => s.owner # 0
<1>1. ASSUME NEW hits \in SUBSET rows, FirstOwner(hits) # None
      PROVE  \E s \in hits : FirstOwner(hits) = s.owner
  <2>1. hits # {}
    BY <1>1 DEF FirstOwner
  <2>2. changes \in Nat /\ \A s \in hits : s.place \in Int /\ -changes <= s.place
    BY DEF Rows, Types, TableInv, Socket
  <2>. QED
    BY <2>1, <2>2, FirstOwnerIs
<1>2. \A s \in rows : /\ s.ip \in Ip /\ s.owner \in Pids \cup {0}
                      /\ platform # "macos" => s.ip.v6 = f.ip.v6
  BY DEF Rows, Types, Socket
<1>3. ASSUME NEW s \in rows, s.ip.v6 = f.ip.v6, Unspecified(s.ip)
      PROVE  s.ip = Wildcard(f.ip)
  BY <1>2, <1>3 DEF Unspecified, Wildcard, Flow, Ip
<1>4. CASE platform = "macos"
  <2>1. Resolve(rows, f, udp) = ScanPcblist(rows, f)
    BY <1>4 DEF Resolve
  <2>. DEFINE hits == {s \in rows : /\ Specificity(s, f) > 0
                                    /\ \A r \in rows : ~ Better(r, s, f)}
  <2>2. PICK s \in rows : ScanPcblist(rows, f) = s.owner /\ Specificity(s, f) > 0
    <3>1. hits \in SUBSET rows /\ FirstOwner(hits) # None
      BY <2>1, Zenon DEF ScanPcblist
    <3>2. PICK s \in hits : FirstOwner(hits) = s.owner
      BY <1>1, <3>1, Zenon
    <3>. QED
      BY <3>2 DEF ScanPcblist
  <2>3. /\ s.ip.v6 = f.ip.v6 /\ s.port = f.port /\ ~ (s.owner <= 0)
        /\ s.ip = f.ip \/ Unspecified(s.ip)
    BY <2>2 DEF Specificity
  <2>. QED
    BY <1>3, <2>1, <2>2, <2>3
<1>5. CASE platform # "macos"
  <2>1. \/ Resolve(rows, f, udp) = FirstOwner(OnAddress(rows, f))
        \/ Resolve(rows, f, udp) = FirstOwner(OnAny(rows, f))
        \/ Resolve(rows, f, udp) = FirstOwner(OnAddress(rows, f) \cup OnAny(rows, f))
    BY <1>5 DEF Resolve, ResolvePidUdpV6, ResolvePidUdpV4, ResolvePidTcpV6, ResolvePidTcpV4,
                Flow, Ip
  <2>2. OnAddress(rows, f) \subseteq rows /\ OnAny(rows, f) \subseteq rows
    BY DEF OnAddress, OnAny
  <2>3. PICK s \in OnAddress(rows, f) \cup OnAny(rows, f) : Resolve(rows, f, udp) = s.owner
    BY <1>1, <2>1, <2>2
  <2>. QED
    BY <1>2, <1>3, <1>5, <2>2, <2>3 DEF OnAddress, OnAny
<1>. QED
  BY <1>4, <1>5

(* A connected socket that is listed is found; on macOS no other is.       *)
LEMMA ResolveFinds ==
  ASSUME Types, TableInv, NEW f \in Flow, NEW s \in table, Connected(s, f), s.inode # 0
  PROVE  LET pid == Resolve(Rows(f, f.udp), f, f.udp)
         IN /\ pid # None /\ (platform = "macos" => pid = s.owner)
            /\ platform = "windows" /\ ~ Ownerless(Rows(f, f.udp), f) => pid \in Pids
<1>. DEFINE rows == Rows(f, f.udp)
<1>0. \A r \in table : /\ r \in Socket /\ -changes <= r.place
                       /\ r.udp = s.udp /\ r.ip = s.ip /\ r.port = s.port /\ r.peer = s.peer
                            => r = s
  BY DEF Types, TableInv
<1>1. s \in rows /\ s.ip = f.ip /\ s.port = f.port /\ s.owner > 0
  <2>1. s.owner \in Pids \cup {0} /\ s.owner # 0
    BY <1>0 DEF Socket, TableInv
  <2>2. s.owner > 0
    BY <2>1, PidsPositive
  <2>. QED
    BY <2>2 DEF Rows, Connected
<1>2. ASSUME NEW hits \in SUBSET rows, hits # {}
      PROVE  \E r \in hits : FirstOwner(hits) = r.owner /\ FirstOwner(hits) # None
  <2>1. \A r \in hits : r.place \in Int /\ -changes <= r.place /\ r.owner # None
    BY <1>0, AttributionAssumption DEF Rows, Socket, None
  <2>. QED
    BY <1>2, <2>1, FirstOwnerIs DEF Types
<1>3. CASE platform = "macos"
  <2>1. Specificity(s, f) = 3 /\ \A r \in rows : Specificity(r, f) \in 0..3
    <3>1. s.ip.v6 = f.ip.v6 /\ ~ (s.owner <= 0)
      BY <1>0, <1>1, PidsPositive DEF Socket
    <3>2. Specificity(s, f) = 3
      BY <1>1, <3>1 DEF Specificity, Connected
    <3>. QED
      BY <3>2 DEF Specificity
  <2>2. ASSUME NEW r \in rows, Specificity(r, f) > 0, ~ Better(s, r, f)
        PROVE  r = s
    <3>1. Specificity(r, f) = 3
      BY <2>1, <2>2 DEF Better
    <3>2. r.ip = f.ip /\ r.port = f.port /\ r.peer = f.peer
      BY <3>1 DEF Specificity
    <3>. QED
      BY <1>0, <1>1, <3>2 DEF Rows, Connected
  <2>3. s \in {r \in rows : Specificity(r, f) > 0 /\ \A q \in rows : ~ Better(q, r, f)}
    BY <1>1, <2>1 DEF Better
  <2>. QED
    BY <1>2, <1>3, <2>2, <2>3, <1>1 DEF Resolve, ScanPcblist
<1>4. CASE platform # "macos"
  <2>1. s \in OnAddress(rows, f)
    BY <1>1 DEF OnAddress
  <2>2. /\ OnAddress(rows, f) \in SUBSET rows
        /\ OnAddress(rows, f) \cup OnAny(rows, f) \in SUBSET rows
    BY DEF OnAddress, OnAny
  <2>3. PICK hits \in SUBSET rows :
          /\ hits # {} /\ Resolve(rows, f, f.udp) = FirstOwner(hits)
          /\ hits \subseteq OnAddress(rows, f) \/ f.udp
    BY <1>2, <1>4, <2>1, <2>2
    DEF Resolve, ResolvePidUdpV6, ResolvePidUdpV4, ResolvePidTcpV6, ResolvePidTcpV4, Flow, Ip
  <2>4. PICK r \in hits : Resolve(rows, f, f.udp) = r.owner /\ r.owner # None
    BY <1>2, <2>3
  <2>5. ASSUME ~ Ownerless(rows, f), platform = "windows" PROVE r.owner \in Pids
    <3>1. r \in table /\ r.udp = f.udp /\ r.owner \in Pids \cup {0}
      BY <1>0 DEF Rows, Socket
    <3>2. CASE f.udp
      BY <3>1, <3>2 DEF TableInv
    <3>3. CASE ~ f.udp
      BY <2>3, <2>5, <3>1, <3>3 DEF Ownerless
    <3>. QED
      BY <3>2, <3>3
  <2>. QED
    BY <1>4, <2>4, <2>5
<1>. QED
  BY <1>3, <1>4

(* What query_socket_inode is told of is a socket at the flow's endpoint:  *)
(* nothing here is bound to the address the first query for UDP names.     *)
LEMMA LookupIs ==
  ASSUME NEW udp, NEW local, NEW remote, NEW r \in Lookup(udp, local, remote)
  PROVE  r \in table /\ r.udp = udp /\ r.port = local.port /\ r.ip \in {local.ip, Wildcard(local.ip)}
BY Zenon DEF Lookup

(* The queries are about the sockets of the table. *)
LEMMA QueryInTable == \A k, f : QuerySocketInode(k, f) \subseteq table
<1>. SUFFICES ASSUME NEW k, NEW f, NEW r \in QuerySocketInode(k, f) PROVE r \in table
  OBVIOUS
<1>1. \E udp, local, remote : r \in Lookup(udp, local, remote)
  BY DEF QuerySocketInode, SockDiag
<1>. QED
  BY <1>1, LookupIs

(* A flow does not go to an address of this machine. *)
LEMMA FlowLeaves ==
  ASSUME Types, Local, NEW f \in world.flows
  PROVE  /\ f \in Flow /\ Wildcard(f.peer.ip) = Wildcard(f.ip)
         /\ Wildcard(Wildcard(f.ip)) = Wildcard(f.ip)
         /\ \A s \in table : s.ip # f.peer.ip
<1>1. f \in Flow /\ OtherEnd(world, f)
  BY AttributionAssumption, Zenon DEF Types
<1>2. f.ip \in Ip /\ f.peer.ip \in Ip /\ f.peer.ip.v6 = f.ip.v6
  BY <1>1 DEF Flow, Endpoint, OtherEnd
<1>3. Wildcard(f.peer.ip) = Wildcard(f.ip) /\ Wildcard(Wildcard(f.ip)) = Wildcard(f.ip)
  BY <1>2 DEF Wildcard, Ip
<1>4. \A s \in table : s.ip # f.peer.ip
  BY <1>1, Zenon DEF OtherEnd, Local
<1>. QED
  BY <1>1, <1>3, <1>4

(* The local end of the kth query, as the kernel reads the socket id. *)
LEMMA QueryIs ==
  ASSUME NEW k \in 1..3, NEW f
  PROVE  \E local, remote :
           /\ QuerySocketInode(k, f) = Lookup(f.udp, local, remote)
           /\ local.port = f.port
           /\ local.ip = IF k = 3 THEN Wildcard(f.ip) ELSE IF k = 1 /\ f.udp THEN f.peer.ip ELSE f.ip
           /\ k = 1 /\ ~ f.udp => remote = [ip |-> f.peer.ip, port |-> f.peer.port]
<1>. DEFINE id == SocketId(k, f)
            source == [ip |-> id.src, port |-> id.sport]
            destination == [ip |-> id.dst, port |-> id.dport]
<1>1. CASE f.udp
  <2>1. QuerySocketInode(k, f) = Lookup(f.udp, destination, source)
    BY <1>1 DEF QuerySocketInode, SockDiag
  <2>2. /\ destination.port = f.port
        /\ destination.ip = IF k = 3 THEN Wildcard(f.ip) ELSE IF k = 1 THEN f.peer.ip ELSE f.ip
    BY <1>1 DEF SocketId
  <2>. HIDE DEF source, destination
  <2>. QED
    BY <1>1, <2>1, <2>2
<1>2. CASE ~ f.udp
  <2>1. QuerySocketInode(k, f) = Lookup(f.udp, source, destination)
    BY <1>2 DEF QuerySocketInode, SockDiag
  <2>2. /\ source.port = f.port /\ source.ip = IF k = 3 THEN Wildcard(f.ip) ELSE f.ip
        /\ k = 1 => destination = [ip |-> f.peer.ip, port |-> f.peer.port]
    BY <1>2 DEF SocketId
  <2>. HIDE DEF source, destination
  <2>. QED
    BY <1>2, <2>1, <2>2
<1>. QED
  BY <1>1, <1>2

(* Whatever a query finds serves the flow's local endpoint. *)
LEMMA QueryServes ==
  ASSUME Types, Local, NEW k \in 1..3, NEW f \in world.flows, NEW r \in QuerySocketInode(k, f)
  PROVE  r \in table /\ Serves(r, Key(f))
<1>1. PICK local, remote :
        /\ QuerySocketInode(k, f) = Lookup(f.udp, local, remote)
        /\ local.port = f.port
        /\ local.ip = IF k = 3 THEN Wildcard(f.ip) ELSE IF k = 1 /\ f.udp THEN f.peer.ip ELSE f.ip
        /\ k = 1 /\ ~ f.udp => remote = [ip |-> f.peer.ip, port |-> f.peer.port]
  BY QueryIs, Zenon
<1>2. /\ r \in table /\ r.udp = f.udp /\ r.port = f.port
      /\ r.ip = local.ip \/ r.ip = Wildcard(local.ip)
  BY <1>1, LookupIs
<1>3. r.ip \in {f.ip, Wildcard(f.ip)}
  BY <1>1, <1>2, FlowLeaves
<1>. QED
  BY <1>2, <1>3 DEF Serves, Key

(* The first query finds the socket of the flow, and no other. *)
LEMMA QueryFinds ==
  ASSUME Types, TableInv, Local, platform = "linux", NEW f \in world.flows, NEW s \in table,
         Origin(s, f)
  PROVE  QuerySocketInode(1, f) = {s}
<1>1. PICK local, remote :
        /\ QuerySocketInode(1, f) = Lookup(f.udp, local, remote)
        /\ local.port = f.port
        /\ local.ip = IF 1 = 3 THEN Wildcard(f.ip) ELSE IF 1 = 1 /\ f.udp THEN f.peer.ip ELSE f.ip
        /\ 1 = 1 /\ ~ f.udp => remote = [ip |-> f.peer.ip, port |-> f.peer.port]
  <2>1. 1 \in 1..3
    OBVIOUS
  <2>. QED
    BY <2>1, QueryIs, Zenon
<1>. DEFINE Bound(ip) == {q \in table : q.udp = f.udp /\ q.ip = ip /\ q.port = local.port}
            Free(ip)  == {q \in Bound(ip) : q.peer = NoPeer}
            connected == {q \in Bound(local.ip) : q.peer # NoPeer /\ q.peer = remote}
<1>2. Lookup(f.udp, local, remote) =
        IF connected # {} THEN connected
        ELSE IF Free(local.ip) # {} THEN Free(local.ip) ELSE Free(Wildcard(local.ip))
  BY Zenon DEF Lookup
<1>3. CASE f.udp
  <2>0. /\ \A q \in table : q.ip # f.peer.ip
        /\ Wildcard(f.peer.ip) = Wildcard(f.ip)
    BY FlowLeaves, Zenon
  <2>1. connected = {} /\ Free(local.ip) = {} /\ Wildcard(local.ip) = Wildcard(f.ip)
    <3>1. local.ip = f.peer.ip
      BY <1>1, <1>3
    <3>. QED
      BY <2>0, <3>1
  <2>2. s.udp = f.udp /\ s.port = f.port /\ s.peer = NoPeer /\ s.ip = Wildcard(f.ip)
    BY <1>3, FlowLeaves DEF Origin, Flow
  <2>3. Free(Wildcard(f.ip)) = {s}
    BY <1>1, <2>2 DEF TableInv
  <2>. QED
    BY <1>1, <1>2, <2>1, <2>3, Zenon
<1>4. CASE ~ f.udp
  <2>1. s.udp = f.udp /\ s.port = f.port /\ s.peer = f.peer /\ s.ip = f.ip /\ s.peer # NoPeer
    BY <1>4 DEF Origin, Connected
  <2>2. remote = f.peer
    BY <1>1, <1>4, FlowLeaves DEF Flow, Endpoint
  <2>3. connected = {s}
    BY <1>1, <1>4, <2>1, <2>2 DEF TableInv
  <2>. QED
    BY <1>1, <1>2, <2>3, Zenon
<1>. QED
  BY <1>3, <1>4
-----------------------------------------------------------------------------
(* The steps of a thread. *)
Thread(c) == (\E f \in world.flows : Call(c, f)) \/ Acquire(c) \/ Ask(c)

Others(c) == \A d \in Callers : d # c => call'[d] = call[d]

CallsTyped(c) == DOMAIN call = Callers /\ CallTypes(c)

(* The record that Answer leaves. *)
Answered(c, pid, hit, disturbed) ==
  LET b == call'[c] IN
  /\ b.pc = IF pid = None THEN "done" ELSE "name"
  /\ b.flow = call[c].flow /\ b.now = call[c].now /\ b.stayed = call[c].stayed
  /\ b.pid = pid /\ b.hit = hit /\ b.disturbed = disturbed /\ b.found = NoMap

(* Answer ends the lookup with what it was given, and touches no more.     *)
LEMMA AnswerIs ==
  ASSUME NEW c \in Callers, CallsTyped(c), NEW pid \in Pids \cup {None, 0}, NEW hit,
         NEW disturbed, Answer(c, pid, hit, disturbed)
  PROVE  CallsTyped(c)' /\ Others(c) /\ Answered(c, pid, hit, disturbed)
<1>. DEFINE b == [Idle EXCEPT !.pc = IF pid = None THEN "done" ELSE "name",
                   !.flow = call[c].flow, !.now = call[c].now, !.pid = pid,
                   !.hit = hit, !.disturbed = disturbed, !.stayed = call[c].stayed]
<1>1. call' = [call EXCEPT ![c] = b]
  BY DEF Answer
<1>2. DOMAIN b = DOMAIN Idle
  OBVIOUS
<1>3. /\ b.pc = IF pid = None THEN "done" ELSE "name"
      /\ b.flow = call[c].flow /\ b.now = call[c].now /\ b.stayed = call[c].stayed
      /\ b.pid = pid /\ b.hit = hit /\ b.disturbed = disturbed /\ b.found = NoMap
      /\ b.query = 0 /\ b.unscanned = {} /\ b.name = None
  BY DEF Idle
<1>4. b.udp \in BOOLEAN
  BY DEF Idle
<1>5. NoMap \in [Inodes -> Pids \cup {None}]
  BY DEF NoMap
<1>. HIDE DEF b
<1>6. call'[c] = b /\ DOMAIN call' = Callers /\ Others(c)
  BY <1>1 DEF CallsTyped, Others
<1>7. Answered(c, pid, hit, disturbed)
  BY <1>3, <1>6 DEF Answered
<1>. QED
  BY <1>2, <1>3, <1>4, <1>5, <1>6, <1>7 DEF CallsTyped, CallTypes

(* A table lookup answers with a process, with 0 on Windows, or not at all. *)
LEMMA ResolveType ==
  ASSUME Types, TableInv, NEW f \in Flow, NEW udp \in BOOLEAN, NEW rows \in SUBSET Rows(f, udp),
         platform # "linux"
  PROVE  /\ Resolve(rows, f, udp) \in Pids \cup {None, 0}
         /\ platform # "windows" => Resolve(rows, f, udp) # 0
<1>1. \A s \in rows : s.owner \in Pids \cup {0}
  BY DEF Types, Rows, Socket
<1>2. platform \in {"linux", "macos", "windows"} /\ None # 0
  BY AttributionAssumption DEF Types, platform, None
<1>. QED
  BY <1>1, <1>2, ResolveIs

(* A step of a thread keeps its record in shape and leaves the others.     *)
LEMMA ThreadShape ==
  ASSUME Types, TableInv, NEW c \in Callers, Shape(c), Thread(c)
  PROVE  CallsTyped(c)' /\ Others(c) /\ Shape(c)'
<1>. DEFINE a == call[c]
            Goal == CallsTyped(c)' /\ Others(c) /\ Shape(c)'
<1>0. CallsTyped(c) /\ world \in Worlds /\ UNCHANGED <<world, env>>
  BY Zenon DEF Types, CallsTyped, Thread, Call, Acquire, Ask, CheckCache, InodeToPid,
         Insert, QueryOne,
         ScanSocketInodes, ScanDone, SizeTable, FetchTable, ProcessName, At
<1>1. ASSUME NEW pid \in Pids \cup {None, 0}, NEW hit, NEW disturbed,
             Answer(c, pid, hit, disturbed), a.pc # "idle", platform # "windows" => pid # 0
      PROVE  Goal
  <2>1. CallsTyped(c)' /\ Others(c) /\ Answered(c, pid, hit, disturbed)
    BY <1>0, <1>1, AnswerIs
  <2>. QED
    BY <1>0, <1>1, <2>1 DEF Answered, Shape, env, platform
<1>2. \A p \in Pids \cup {None} : p # 0
  BY PidsPositive DEF None
<1>3. ASSUME NEW f \in world.flows, Call(c, f) PROVE Goal
  <2>1. {s.inode : s \in table} \ {0} \subseteq used
    BY DEF TableInv
  <2>2. f.udp \in BOOLEAN /\ clock \in Nat
    BY <1>0, AttributionAssumption DEF Flow, Types
  <2>3. NoMap \in [Inodes -> Pids \cup {None}]
    BY DEF NoMap
  <2>. QED
    BY <1>0, <1>2, <1>3, <2>1, <2>2, <2>3
    DEF Call, CallsTyped, CallTypes, Others, Shape, Idle, env, platform
<1>4. CASE CheckCache(c)
  <2>1. CASE Answer(c, endpoints[Key(a.flow)].pid, TRUE, a.disturbed)
    <3>1. a.pc = "check" /\ endpoints[Key(a.flow)].pid \in Pids \cup {None}
      BY <1>4 DEF CheckCache, At, Shape, Types, Keys
    <3>. QED
      BY <1>1, <1>2, <2>1, <3>1, Zenon
  <2>2. CASE call' = [call EXCEPT ![c].pc = IF platform = "linux" THEN "query" ELSE "size",
                                  ![c].query = IF platform = "linux" THEN 1 ELSE 0]
    BY <1>0, <1>4, <2>2 DEF CheckCache, At, CallsTyped, CallTypes, Others, Shape, Idle,
           env, platform
  <2>. QED
    BY <1>4, <2>1, <2>2, Zenon DEF CheckCache
<1>5. CASE InodeToPid(c)
  <2>1. a.pc = "inode" /\ inodes[a.inode] \in Pids \cup {None}
    BY <1>5 DEF InodeToPid, At, Shape, Types
  <2>. QED
    BY <1>0, <1>2, <1>5, <2>1
    DEF InodeToPid, CallsTyped, CallTypes, Others, Shape, Idle, env, platform
<1>6. CASE Insert(c)
  BY <1>1, <1>2, <1>6, Zenon DEF Insert, At, Shape
<1>7. CASE QueryOne(c)
  <2>1. ASSUME NEW disturbed, NextQuery(c, disturbed) PROVE Goal
    <3>1. CASE a.query = 3
      BY <1>1, <1>2, <1>7, <2>1, <3>1, Zenon DEF NextQuery, QueryOne, At
    <3>2. CASE a.query # 3
      BY <1>0, <1>7, <2>1, <3>2
      DEF NextQuery, QueryOne, At, CallsTyped, CallTypes, Others, Shape, Idle, env, platform
    <3>. QED
      BY <3>1, <3>2
  <2>2. ASSUME NEW s \in table, InodeOf(s) # None,
               call' = [call EXCEPT ![c].pc = "inode", ![c].query = 0, ![c].inode = InodeOf(s)]
        PROVE  Goal
    <3>1. InodeOf(s) \in used
      BY <2>2 DEF InodeOf, TableInv
    <3>2. a.pc = "query" /\ platform = "linux"
      BY <1>7 DEF QueryOne, At, Shape
    <3>. QED
      BY <1>0, <2>2, <3>1, <3>2
      DEF CallsTyped, CallTypes, Others, Shape, Idle, env, platform
  <2>3. QuerySocketInode(a.query, a.flow) \subseteq table
    BY QueryInTable
  <2>. QED
    BY <1>7, <2>1, <2>2, <2>3, Zenon DEF QueryOne
<1>8. CASE ScanSocketInodes(c)
  <2>1. PICK p \in a.unscanned :
          \/ call' = [call EXCEPT ![c].unscanned = @ \ {p},
               ![c].found = [i \in Inodes |-> IF @[i] = None /\ i \in HeldBy(p) THEN p ELSE @[i]]]
          \/ call' = [call EXCEPT ![c].unscanned = @ \ {p}, ![c].disturbed = TRUE]
    BY <1>8, Zenon DEF ScanSocketInodes
  <2>2. p \in Pids /\ a.pc = "scan"
    BY <1>0, <1>8 DEF ScanSocketInodes, At, CallsTyped, CallTypes
  <2>. QED
    BY <1>0, <2>1, <2>2 DEF CallsTyped, CallTypes, Others, Shape, Idle, env, platform
<1>9. CASE ScanDone(c)
  <2>1. a.pc = "scan" /\ a.found[a.inode] \in Pids \cup {None}
    BY <1>0, <1>9 DEF ScanDone, At, Shape, Types, CallsTyped, CallTypes
  <2>2. CASE a.found[a.inode] = None
    BY <1>1, <1>2, <1>9, <2>1, <2>2, Zenon DEF ScanDone
  <2>3. CASE a.found[a.inode] # None
    BY <1>0, <1>2, <1>9, <2>1, <2>3
    DEF ScanDone, CallsTyped, CallTypes, Others, Shape, Idle, NoMap, env, platform
  <2>. QED
    BY <2>2, <2>3
<1>10. ASSUME NEW pid \in Pids \cup {None, 0}, NEW disturbed, Resolved(c, pid, disturbed),
              a.pc \in {"size", "fetch"}, platform # "windows" => pid # 0
       PROVE  Goal
  <2>1. CASE platform = "windows" /\ pid = None /\ a.udp
    BY <1>0, <1>10, <2>1
    DEF Resolved, CallsTyped, CallTypes, Others, Shape, Idle, env, platform
  <2>2. CASE pid # None /\ platform # "windows"
    <3>1. /\ pid \in Pids
          /\ call' = [call EXCEPT ![c].pc = "insert", ![c].pid = pid, ![c].size = 0,
                                  ![c].disturbed = disturbed]
      BY <1>10, <2>2, Zenon DEF Resolved
    <3>. QED
      BY <1>0, <1>10, <2>2, <3>1
      DEF CallsTyped, CallTypes, Others, Shape, Idle, env, platform
  <2>. QED
    BY <1>1, <1>10, <2>1, <2>2, Zenon DEF Resolved
<1>11. None \in Pids \cup {None, 0} /\ None # 0
  BY DEF None
<1>12. CASE SizeTable(c)
  <2>1. CASE call' = [call EXCEPT ![c].pc = "fetch", ![c].size = Cardinality(Rows(a.flow, a.udp))]
    BY <1>0, <1>12, <2>1
    DEF SizeTable, At, CallsTyped, CallTypes, Others, Shape, Idle, env, platform
  <2>. QED
    BY <1>10, <1>11, <1>12, <2>1, Zenon DEF SizeTable, At
<1>13. CASE FetchTable(c)
  <2>1. /\ a.pc = "fetch" /\ platform # "linux" /\ a.flow \in Flow /\ a.udp \in BOOLEAN
        /\ \A n : WholePairs(Rows(a.flow, a.udp), n) \in SUBSET Rows(a.flow, a.udp)
    BY <1>0, <1>13, AttributionAssumption
    DEF FetchTable, At, Shape, CallsTyped, CallTypes, WholePairs
  <2>. QED
    BY <1>10, <1>11, <1>13, <2>1, ResolveType, Zenon DEF FetchTable
<1>14. CASE ProcessName(c)
  <2>1. a.pc = "name" /\ a.pid \in Pids \cup {0} /\ (platform # "windows" => a.pid # 0)
    BY <1>0, <1>14 DEF ProcessName, At, Shape, CallsTyped, CallTypes
  <2>2. PICK exe \in BOOLEAN, name \in Pids \cup {None} :
          call' = [call EXCEPT ![c].pc = "done", ![c].exe = exe, ![c].name = name]
    BY <1>0, <1>14, <2>1, AttributionAssumption, Zenon
    DEF ProcessName, LinuxName, MacosName, WindowsName, platform
  <2>. QED
    BY <1>0, <2>1, <2>2 DEF CallsTyped, CallTypes, Others, Shape, Idle, env, platform
<1>. QED
  BY <1>3, <1>4, <1>5, <1>6, <1>7, <1>8, <1>9, <1>12, <1>13, <1>14 DEF Thread, Acquire, Ask

-----------------------------------------------------------------------------
(* What the machine leaves of the lookups and the caches: a socket of an   *)
(* inode that was given out before is as it was.                           *)
MachineMoves ==
  /\ UNCHANGED <<world, endpoints, inodes, lock>>
  /\ clock <= clock' /\ used \subseteq used' /\ (recycled => recycled')
  /\ \A k \in Keys, p \in Pids : last[k][p] <= last'[k][p]
  /\ ~ recycled' => \A s \in table' : s \in table \/ s.inode \notin used
  /\ DOMAIN call' = Callers
  /\ \A c \in Callers :
       /\ DOMAIN call'[c] = DOMAIN Idle /\ call'[c].stayed \subseteq call[c].stayed
       /\ \A x \in DOMAIN Idle \ {"stayed"} : call'[c][x] = call[c][x]

(* The ghost and the calls follow the table. *)
LEMMA LastHeldIs ==
  ASSUME Types, LastInv, NEW now \in Nat, clock <= now, clock' = now, world' = world,
         last' = LastHeld(table', now)
  PROVE  /\ last' \in [Keys -> [Pids -> Int]] /\ LastInv'
         /\ \A k \in Keys, p \in Pids : last[k][p] <= last'[k][p]
<1>1. \A k \in Keys, p \in Pids :
        last'[k][p] = IF \E s \in table' : Serves(s, k) /\ p \in s.holders
                      THEN now ELSE last[k][p]
  BY DEF LastHeld
<1>2. /\ Keys' = Keys
      /\ \A s, k : Serves(s, k)' <=> Serves(s, k)
  BY DEF Keys, Serves, platform
<1>3. \A k \in Keys, p \in Pids : last[k][p] \in Int
  BY DEF Types
<1>4. last' \in [Keys -> [Pids -> Int]]
  BY <1>3 DEF LastHeld
<1>5. \A k \in Keys, p \in Pids : -1 <= last[k][p] /\ last[k][p] <= clock
  BY DEF LastInv
<1>6. clock \in Nat
  BY DEF Types
<1>. QED
  BY <1>1, <1>2, <1>3, <1>4, <1>5, <1>6 DEF LastInv

(* SetTable: the types and the ghost follow the new table.                 *)
LEMMA SetTableIs ==
  ASSUME Types, LastInv, NEW t, SetTable(t), UNCHANGED <<world, clock>>
  PROVE  /\ table' = t /\ last' \in [Keys -> [Pids -> Int]] /\ LastInv'
         /\ \A k \in Keys, p \in Pids : last[k][p] <= last'[k][p]
         /\ DOMAIN call' = Callers
         /\ \A c \in Callers :
              /\ DOMAIN call'[c] = DOMAIN Idle /\ call'[c].stayed \subseteq call[c].stayed
              /\ \A x \in DOMAIN Idle \ {"stayed"} : call'[c][x] = call[c][x]
<1>1. table' = t /\ last' = LastHeld(table', clock)
  BY DEF SetTable
<1>2. clock \in Nat
  BY DEF Types
<1>3. ASSUME NEW c \in Callers
      PROVE  /\ DOMAIN call'[c] = DOMAIN Idle /\ call'[c].stayed \subseteq call[c].stayed
             /\ \A x \in DOMAIN Idle \ {"stayed"} : call'[c][x] = call[c][x]
  <2>1. DOMAIN call[c] = DOMAIN Idle /\ "stayed" \in DOMAIN Idle
    BY DEF Types, CallTypes, Idle
  <2>. QED
    BY <2>1 DEF SetTable
<1>4. DOMAIN call' = Callers
  BY DEF SetTable
<1>. QED
  BY <1>1, <1>2, <1>3, <1>4, LastHeldIs

(* The kernel's table keeps its shape, and a socket in it that was not is   *)
(* new, or in TIME_WAIT, until something is recycled.                      *)
TableKept ==
  /\ table' \subseteq Socket /\ TableInv'
  /\ ~ recycled' => \A s \in table' : s \in table \/ s.inode \notin used

(* A process opens a socket. *)
LEMMA OpenTable ==
  ASSUME Types, TableInv, NEW shape \in world.shapes, NEW p \in Pids, NEW i \in Inodes,
         Open(shape, p, i)
  PROVE  TableKept
<1>0. changes \in Nat /\ table \subseteq Socket /\ used \subseteq Inodes /\ 0 \notin Inodes
  BY AttributionAssumption DEF Types
<1>1. PICK n \in NewPlaces : table' = table \cup
        {[udp |-> shape.udp, ip |-> shape.ip, port |-> shape.port, peer |-> shape.peer,
          inode |-> i, owner |-> p, holders |-> {p}, place |-> n]}
  BY DEF Open, SetTable
<1>2. n \in Int /\ -changes' <= n /\ n <= changes' /\ changes' = changes + 1
  BY <1>0 DEF NewPlaces, Open, Changed, TableInv, Socket
<1>3. PICK new \in Socket :
        /\ new.udp = shape.udp /\ new.ip = shape.ip /\ new.port = shape.port
        /\ new.peer = shape.peer /\ new.inode = i /\ new.owner = p /\ new.holders = {p}
        /\ new.place = n /\ table' = table \cup {new}
  <2>1. shape \in Flow
    BY AttributionAssumption DEF Types
  <2>. QED
    BY <1>1, <1>2, <2>1, Zenon DEF Socket, Flow
<1>4. \A s \in table : s.inode # i /\ ~ (/\ s.udp = new.udp /\ s.ip = new.ip
                                         /\ s.port = new.port /\ s.peer = new.peer)
  BY <1>3 DEF Open
<1>5. used' = used \cup {i} /\ recycled' = (recycled \/ i \in used) /\ recycled \in BOOLEAN
  BY DEF Open, Types
<1>6. \A s \in table' :
       /\ s.inode = 0 => s.owner = 0 /\ s.holders = {} /\ ~ s.udp
       /\ s.inode # 0 => s.owner # 0 /\ s.inode \in used'
       /\ ~ recycled' /\ s.inode # 0 => s.holders = {s.owner}
  BY <1>0, <1>3, <1>5, PidsPositive DEF TableInv
<1>7. \A s \in table' : -changes' <= s.place /\ s.place <= changes'
  BY <1>0, <1>2, <1>3 DEF TableInv, Socket
<1>8. \A s, r \in table' :
       /\ s.inode = r.inode /\ s.inode # 0 => s = r
       /\ s.udp = r.udp /\ s.ip = r.ip /\ s.port = r.port /\ s.peer = r.peer => s = r
  BY <1>3, <1>4 DEF TableInv
<1>9. ~ recycled' => \A s \in table' : s \in table \/ s.inode \notin used
  BY <1>3, <1>5, Zenon
<1>. QED
  BY <1>0, <1>3, <1>6, <1>7, <1>8, <1>9 DEF TableKept, TableInv

(* A socket that is replaced by one with the same endpoints, and the same  *)
(* inode or none. *)
LEMMA ReplaceTable ==
  ASSUME Types, TableInv, NEW s \in table, NEW r \in Socket, Changed,
         table' = (table \ {s}) \cup {r}, used' = used, recycled' \in BOOLEAN,
         recycled => recycled',
         r.udp = s.udp, r.ip = s.ip, r.port = s.port, r.peer = s.peer, r.place = s.place,
         \/ /\ r.inode = s.inode /\ s.inode # 0 /\ r.owner # 0
            /\ recycled'
         \/ r.inode = 0 /\ r.owner = 0 /\ r.holders = {} /\ ~ r.udp
  PROVE  TableKept
<1>0. /\ changes \in Nat /\ table \subseteq Socket /\ used \subseteq Inodes /\ 0 \notin Inodes
      /\ changes' = changes + 1
  BY AttributionAssumption DEF Types, Changed
<1>1. \A q \in table' :
       /\ q.inode = 0 => q.owner = 0 /\ q.holders = {} /\ ~ q.udp
       /\ q.inode # 0 => q.owner # 0 /\ q.inode \in used'
       /\ ~ recycled' /\ q.inode # 0 => q.holders = {q.owner}
  BY <1>0 DEF TableInv
<1>2. \A q \in table' : -changes' <= q.place /\ q.place <= changes'
  BY <1>0 DEF TableInv, Socket
<1>3. \A q, t \in table' :
       /\ q.inode = t.inode /\ q.inode # 0 => q = t
       /\ q.udp = t.udp /\ q.ip = t.ip /\ q.port = t.port /\ q.peer = t.peer => q = t
  BY DEF TableInv
<1>4. ~ recycled' => \A q \in table' : q \in table \/ q.inode \notin used
  BY <1>0
<1>. QED
  BY <1>0, <1>1, <1>2, <1>3, <1>4 DEF TableKept, TableInv

(* Sockets that go. *)
LEMMA ShrinkTable ==
  ASSUME Types, TableInv, table' \subseteq table, used' = used, changes' \in Nat, changes <= changes',
         recycled => recycled'
  PROVE  TableKept
<1>0. changes \in Nat /\ table \subseteq Socket
  BY DEF Types
<1>1. \A q \in table' : -changes' <= q.place /\ q.place <= changes'
  BY <1>0 DEF TableInv, Socket
<1>. QED
  BY <1>0, <1>1 DEF TableKept, TableInv

(* A process closes a socket: it goes, stays listed without an owner, or   *)
(* is left to its other holders.                                           *)
LEMMA CloseTable ==
  ASSUME Types, TableInv, NEW s \in table, NEW p \in Pids, Close(s, p)
  PROVE  TableKept
<1>0. s \in Socket /\ changes \in Nat
  BY DEF Types
<1>1. Changed /\ p \in s.holders /\ used' = used /\ recycled' = recycled /\ recycled \in BOOLEAN
  BY DEF Close, Types
<1>2. s.inode # 0 /\ s.owner # 0 /\ (~ recycled => s.holders = {s.owner})
  BY <1>1 DEF TableInv
<1>3. CASE s.holders # {p} /\ table' = (table \ {s}) \cup {[s EXCEPT !.holders = @ \ {p}]}
  <2>. DEFINE r == [s EXCEPT !.holders = @ \ {p}]
  <2>1. /\ r \in Socket /\ r.udp = s.udp /\ r.ip = s.ip /\ r.port = s.port /\ r.peer = s.peer
        /\ r.place = s.place /\ r.inode = s.inode /\ r.owner = s.owner
    BY <1>0 DEF Socket
  <2>2. recycled'
    BY <1>1, <1>2, <1>3
  <2>. HIDE DEF r
  <2>3. table' = (table \ {s}) \cup {r}
    BY <1>3 DEF r
  <2>. QED
    BY <1>1, <1>2, <2>1, <2>2, <2>3, ReplaceTable
<1>4. CASE table' = (table \ {s}) \cup {}
  BY <1>0, <1>1, <1>4, ShrinkTable DEF Changed
<1>5. CASE ~s.udp /\ table' = (table \ {s}) \cup {[s EXCEPT !.inode = 0, !.owner = 0, !.holders = {}]}
  <2>. DEFINE r == [s EXCEPT !.inode = 0, !.owner = 0, !.holders = {}]
  <2>1. /\ r \in Socket /\ r.udp = s.udp /\ r.ip = s.ip /\ r.port = s.port /\ r.peer = s.peer
        /\ r.place = s.place /\ r.inode = 0 /\ r.owner = 0 /\ r.holders = {}
    BY <1>0, Zenon DEF Socket
  <2>. HIDE DEF r
  <2>3. table' = (table \ {s}) \cup {r}
    BY <1>5 DEF r
  <2>. QED
    BY <1>1, <1>2, <1>5, <2>1, <2>3, ReplaceTable
<1>. QED
  BY <1>3, <1>4, <1>5 DEF Close, SetTable

(* A process hands a socket to another one. *)
LEMMA PassTable ==
  ASSUME Types, TableInv, NEW s \in table, NEW p \in Pids, Pass(s, p)
  PROVE  TableKept
<1>0. s \in Socket
  BY DEF Types
<1>1. Changed /\ s.holders # {} /\ used' = used /\ recycled' = TRUE
  BY DEF Pass
<1>2. s.inode # 0 /\ s.owner # 0 /\ p # 0
  BY <1>1, PidsPositive DEF TableInv
<1>. DEFINE r == [s EXCEPT !.holders = @ \cup {p}, !.owner = IF platform = "macos" THEN p ELSE @]
<1>3. /\ r \in Socket /\ r.udp = s.udp /\ r.ip = s.ip /\ r.port = s.port /\ r.peer = s.peer
      /\ r.place = s.place /\ r.inode = s.inode /\ r.owner # 0
  BY <1>0, <1>2, Zenon DEF Socket
<1>4. table' = (table \ {s}) \cup {r}
  BY DEF Pass, SetTable
<1>. HIDE DEF r
<1>. QED
  BY <1>1, <1>2, <1>3, <1>4, ReplaceTable

(* A process exits: its sockets go, or are left to their other holders.    *)
LEMMA ExitTable ==
  ASSUME Types, TableInv, NEW p \in Pids, Exit(p)
  PROVE  TableKept
<1>0. /\ changes \in Nat /\ table \subseteq Socket /\ used \subseteq Inodes /\ 0 \notin Inodes
      /\ changes' = changes + 1 /\ used' = used /\ recycled' = recycled
  BY AttributionAssumption DEF Types, Exit, Changed
<1>1. ASSUME NEW r \in table'
      PROVE  \E s \in table : /\ r \in Socket /\ r.udp = s.udp /\ r.ip = s.ip /\ r.port = s.port
                              /\ r.peer = s.peer /\ r.place = s.place /\ r.inode = s.inode
                              /\ r.owner = s.owner /\ r.holders = s.holders \ {p}
                              /\ r = [s EXCEPT !.holders = @ \ {p}]
                              /\ r.holders # {} \/ r.inode = 0
  <2>1. PICK s \in table : /\ r = [s EXCEPT !.holders = @ \ {p}]
                           /\ r.holders # {} \/ r.inode = 0
    BY DEF Exit, SetTable
  <2>2. s \in Socket
    BY <1>0
  <2>. QED
    BY <2>1, <2>2, Zenon DEF Socket
<1>2. \A q \in table' :
       /\ q.inode = 0 => q.owner = 0 /\ q.holders = {} /\ ~ q.udp
       /\ q.inode # 0 => q.owner # 0 /\ q.inode \in used'
       /\ ~ recycled' /\ q.inode # 0 => q.holders = {q.owner}
  BY <1>0, <1>1 DEF TableInv
<1>3. \A q \in table' : -changes' <= q.place /\ q.place <= changes'
  BY <1>0, <1>1 DEF TableInv, Socket
<1>4. ASSUME NEW q \in table', NEW t \in table'
      PROVE  /\ q.inode = t.inode /\ q.inode # 0 => q = t
             /\ q.udp = t.udp /\ q.ip = t.ip /\ q.port = t.port /\ q.peer = t.peer => q = t
  BY <1>1 DEF TableInv
<1>5. ASSUME NEW q \in table', ~ recycled' PROVE q \in table \/ q.inode \notin used
  <2>1. PICK s \in table : /\ q.inode = s.inode /\ q = [s EXCEPT !.holders = @ \ {p}]
                           /\ q.holders = s.holders \ {p}
                           /\ q.holders # {} \/ q.inode = 0
    BY <1>1
  <2>2. s \in Socket /\ (s.inode # 0 => s.holders = {s.owner})
    BY <1>0, <1>5 DEF TableInv
  <2>3. CASE s.inode # 0
    <3>1. s.holders \ {p} = s.holders
      BY <2>1, <2>2, <2>3
    <3>. QED
      BY <2>1, <2>2, <3>1 DEF Socket
  <2>. QED
    BY <1>0, <2>1, <2>3
<1>. QED
  BY <1>0, <1>1, <1>2, <1>3, <1>4, <1>5 DEF TableKept, TableInv

(* A step of the machine. *)
LEMMA MachineIs ==
  ASSUME Types, TableInv, LastInv, Machine
  PROVE  Types' /\ TableInv' /\ LastInv' /\ MachineMoves
<1>. DEFINE Moved == /\ TableKept /\ LastInv' /\ last' \in [Keys -> [Pids -> Int]] /\ MachineMoves
                     /\ clock' \in Nat /\ changes' \in Nat
                     /\ alive' \subseteq Pids /\ used' \subseteq Inodes /\ recycled' \in BOOLEAN
<1>0. /\ changes \in Nat /\ clock \in Nat /\ alive \subseteq Pids /\ used \subseteq Inodes
      /\ recycled \in BOOLEAN /\ DOMAIN call = Callers
      /\ \A c \in Callers : DOMAIN call[c] = DOMAIN Idle
      /\ last \in [Keys -> [Pids -> Int]]
  BY DEF Types, CallTypes
<1>1. ASSUME NEW t, SetTable(t), Changed, TableKept, alive' \subseteq Pids, used \subseteq used',
             used' \subseteq Inodes, recycled' \in BOOLEAN, recycled => recycled'
      PROVE  Moved
  <2>1. UNCHANGED <<world, clock, endpoints, inodes, lock>> /\ changes' = changes + 1
    BY <1>1 DEF Changed, cache
  <2>2. /\ last' \in [Keys -> [Pids -> Int]] /\ LastInv'
        /\ \A k \in Keys, p \in Pids : last[k][p] <= last'[k][p]
        /\ DOMAIN call' = Callers
        /\ \A c \in Callers :
              /\ DOMAIN call'[c] = DOMAIN Idle /\ call'[c].stayed \subseteq call[c].stayed
              /\ \A x \in DOMAIN Idle \ {"stayed"} : call'[c][x] = call[c][x]
    BY <1>1, <2>1, SetTableIs
  <2>. QED
    BY <1>0, <1>1, <2>1, <2>2 DEF MachineMoves, TableKept
<1>2. ASSUME NEW shape \in world.shapes, NEW p \in Pids, NEW i \in Inodes, Open(shape, p, i)
      PROVE  Moved
  <2>1. TableKept
    BY <1>2, OpenTable
  <2>2. /\ \E t : SetTable(t)
        /\ Changed /\ alive' = alive /\ used' = used \cup {i} /\ recycled' = (recycled \/ i \in used)
    BY <1>2 DEF Open
  <2>. QED
    BY <1>0, <1>1, <2>1, <2>2
<1>3. ASSUME NEW s \in table, NEW p \in Pids, Close(s, p) PROVE Moved
  <2>1. TableKept
    BY <1>3, CloseTable
  <2>2. (\E t : SetTable(t)) /\ Changed /\ alive' = alive /\ used' = used /\ recycled' = recycled
    BY <1>3 DEF Close
  <2>. QED
    BY <1>0, <1>1, <2>1, <2>2
<1>4. ASSUME NEW s \in table, NEW p \in Pids, Pass(s, p) PROVE Moved
  <2>1. TableKept
    BY <1>4, PassTable
  <2>2. (\E t : SetTable(t)) /\ Changed /\ alive' = alive /\ used' = used /\ recycled' = TRUE
    BY <1>4 DEF Pass
  <2>. QED
    BY <1>0, <1>1, <2>1, <2>2
<1>5. ASSUME NEW p \in Pids, Exit(p) PROVE Moved
  <2>1. TableKept
    BY <1>5, ExitTable
  <2>2. (\E t : SetTable(t)) /\ Changed /\ alive' = alive \ {p} /\ used' = used /\ recycled' = recycled
    BY <1>5 DEF Exit
  <2>. QED
    BY <1>0, <1>1, <2>1, <2>2
<1>6. ASSUME NEW p \in Pids, Respawn(p) PROVE Moved
  <2>1. /\ UNCHANGED <<world, clock, endpoints, inodes, lock, table, last, used, call>>
        /\ changes' = changes + 1 /\ alive' = alive \cup {p} /\ recycled' = TRUE
    BY <1>6 DEF Respawn, Changed, cache
  <2>2. TableKept
    BY <1>0, <2>1, ShrinkTable
  <2>3. LastInv'
    BY <2>1 DEF LastInv, Keys, Serves, platform
  <2>4. \A k \in Keys, q \in Pids : last[k][q] <= last[k][q]
    BY <1>0
  <2>. QED
    BY <1>0, <2>1, <2>2, <2>3, <2>4 DEF MachineMoves
<1>7. ASSUME Tick PROVE Moved
  <2>1. /\ UNCHANGED <<world, endpoints, inodes, lock, table, alive, changes, used, recycled, call>>
        /\ clock' = clock + 1 /\ last' = LastHeld(table', clock')
    BY <1>7 DEF Tick, cache
  <2>2. TableKept
    BY <1>0, <2>1, ShrinkTable
  <2>3. /\ last' \in [Keys -> [Pids -> Int]] /\ LastInv'
        /\ \A k \in Keys, q \in Pids : last[k][q] <= last'[k][q]
    <3>1. clock + 1 \in Nat /\ clock <= clock + 1
      BY <1>0
    <3>. QED
      BY <2>1, <3>1, LastHeldIs
  <2>4. clock \in Nat /\ clock' \in Nat /\ clock <= clock'
    BY <1>0, <2>1
  <2>5. \A c \in Callers :
          /\ DOMAIN call'[c] = DOMAIN Idle /\ call'[c].stayed \subseteq call[c].stayed
          /\ \A x \in DOMAIN Idle \ {"stayed"} : call'[c][x] = call[c][x]
    BY <1>0, <2>1
  <2>6. MachineMoves
    BY <1>0, <2>1, <2>3, <2>4, <2>5, Zenon DEF MachineMoves
  <2>. QED
    BY <1>0, <2>1, <2>2, <2>3, <2>4, <2>6
<1>8. ASSUME NEW s \in table, Forget(s) PROVE Moved
  <2>1. /\ (\E t : SetTable(t)) /\ Changed /\ alive' = alive /\ used' = used /\ recycled' = recycled
        /\ table' = table \ {s}
    BY <1>8 DEF Forget, SetTable
  <2>2. TableKept
    BY <1>0, <2>1, ShrinkTable DEF Changed
  <2>. QED
    BY <1>0, <1>1, <2>1, <2>2
<1>9. Moved
  <2>. HIDE DEF Moved
  <2>. QED
    BY <1>2, <1>3, <1>4, <1>5, <1>6, <1>7, <1>8, Zenon DEF Machine
<1>10. world' = world /\ Keys' = Keys /\ endpoints' = endpoints /\ inodes' = inodes /\ lock' = lock
  BY <1>9 DEF MachineMoves, Keys
<1>11. ASSUME NEW c \in Callers PROVE CallTypes(c)'
  <2>1. CallTypes(c)
    BY DEF Types
  <2>2. /\ DOMAIN call'[c] = DOMAIN Idle
        /\ \A x \in {"pc", "now", "query", "udp", "unscanned", "found", "pid", "name"} :
             call'[c][x] = call[c][x]
    BY <1>9 DEF MachineMoves, Idle
  <2>. QED
    BY <2>1, <2>2 DEF CallTypes
<1>. QED
  BY <1>0, <1>9, <1>10, <1>11 DEF Types, TableKept, MachineMoves

(* New sockets have the shapes of the world, and the others keep theirs. *)
LEMMA MachineLocal ==
  ASSUME Types, Local, Machine, world' = world
  PROVE  Local'
<1>. DEFINE As(t) == \A s \in t : \E r \in table : s.ip = r.ip
<1>1. As(table') => Local'
  BY Zenon DEF Local
<1>2. table \subseteq Socket
  BY DEF Types
<1>3. ASSUME NEW shape \in world.shapes, NEW p \in Pids, NEW i \in Inodes, Open(shape, p, i)
      PROVE  Local'
  <2>1. \A s \in table' : s \in table \/ s.ip = shape.ip
    BY <1>3 DEF Open, SetTable
  <2>. QED
    BY <2>1, Zenon DEF Local
<1>4. ASSUME NEW s \in table, NEW p \in Pids, Close(s, p) PROVE As(table')
  <2>1. s \in Socket
    BY <1>2
  <2>2. /\ [s EXCEPT !.holders = @ \ {p}].ip = s.ip
        /\ [s EXCEPT !.inode = 0, !.owner = 0, !.holders = {}].ip = s.ip
    BY <2>1 DEF Socket
  <2>3. \A q \in table' : q \in table \/ q.ip = s.ip
    BY <1>4, <2>2, Zenon DEF Close, SetTable
  <2>. QED
    BY <2>3
<1>5. ASSUME NEW s \in table, NEW p \in Pids, Pass(s, p) PROVE As(table')
  <2>1. s \in Socket
    BY <1>2
  <2>2. \A q \in table' : q \in table \/ q.ip = s.ip
    BY <1>5, <2>1 DEF Pass, SetTable, Socket
  <2>. QED
    BY <2>2
<1>6. ASSUME NEW p \in Pids, Exit(p) PROVE As(table')
  <2>1. ASSUME NEW q \in table' PROVE \E r \in table : q.ip = r.ip
    <3>1. PICK r \in table : q = [r EXCEPT !.holders = @ \ {p}]
      BY <1>6 DEF Exit, SetTable
    <3>2. r \in Socket
      BY <1>2
    <3>. QED
      BY <3>1, <3>2 DEF Socket
  <2>. QED
    BY <2>1
<1>7. ASSUME table' \subseteq table PROVE As(table')
  BY <1>7
<1>8. \A s \in table : Forget(s) => table' \subseteq table
  BY DEF Forget, SetTable
<1>9. (\E p \in Pids : Respawn(p)) \/ Tick => table' \subseteq table
  BY DEF Respawn, Tick
<1>. HIDE DEF As
<1>. QED
  BY <1>1, <1>3, <1>4, <1>5, <1>6, <1>7, <1>8, <1>9, Zenon DEF Machine

(* Machine steps leave the caches and the lookups right. *)
LEMMA MachineCache ==
  ASSUME Types, Types', CacheInv, MachineMoves
  PROVE  CacheInv'
<1>0. /\ Keys' = Keys /\ endpoints' = endpoints /\ inodes' = inodes
      /\ \A c \in Callers : call'[c].found = call[c].found
  BY DEF MachineMoves, Keys, Idle
<1>1. ASSUME NEW k \in Keys, endpoints[k] # Empty
      PROVE  /\ endpoints[k].pid \in Pids
             /\ ~ recycled' => last'[k][endpoints[k].pid] >= endpoints[k].at
  <2>1. endpoints[k].pid \in Pids /\ (~ recycled => last[k][endpoints[k].pid] >= endpoints[k].at)
    BY <1>1 DEF CacheInv
  <2>2. /\ last[k][endpoints[k].pid] <= last'[k][endpoints[k].pid] /\ (recycled => recycled')
        /\ last[k][endpoints[k].pid] \in Int /\ last'[k][endpoints[k].pid] \in Int
    BY <1>0, <2>1 DEF MachineMoves, Types
  <2>3. endpoints[k].at \in Nat
    BY DEF Types
  <2>. QED
    BY <2>1, <2>2, <2>3
<1>2. \A i, p : Names(i, p)' <=> Names(i, p)
  BY <1>0 DEF Names
<1>3. ASSUME ~ recycled', NEW i \in Inodes, NEW p \in Pids, Names(i, p)
      PROVE  i \in used' /\ \A s \in table' : s.inode = i => s.owner = p
  BY <1>3 DEF CacheInv, MachineMoves
<1>. QED
  BY <1>0, <1>1, <1>2, <1>3 DEF CacheInv

(* A lookup in progress stays in shape, fresh and on its socket.           *)
LEMMA MachineCalls ==
  ASSUME Types, Types', TableInv, MachineMoves, NEW c \in Callers, CallInv(c)
  PROVE  CallInv(c)'
<1>. DEFINE a == call[c]
            b == call'[c]
            k == Key(a.flow)
<1>0. /\ Keys' = Keys /\ world' = world /\ platform' = platform
      /\ b.pc = a.pc /\ b.flow = a.flow /\ b.now = a.now /\ b.query = a.query /\ b.inode = a.inode
      /\ b.udp = a.udp /\ b.unscanned = a.unscanned /\ b.found = a.found /\ b.pid = a.pid
      /\ b.hit = a.hit /\ b.disturbed = a.disturbed /\ b.stayed \subseteq a.stayed
  BY DEF MachineMoves, Keys, Idle, platform
<1>1. /\ clock <= clock' /\ clock \in Nat /\ clock' \in Nat /\ used \subseteq used'
      /\ (recycled => recycled') /\ a.now \in Nat /\ a.pid \in Pids \cup {None, 0}
  BY DEF MachineMoves, Types, CallTypes
<1>2. Shape(c)
  BY DEF CallInv
<1>3. Shape(c)'
  BY <1>0, <1>1, <1>2 DEF Shape
<1>4. a.pc # "idle" => k \in Keys
  BY <1>2 DEF Shape, Keys
<1>5. \A q, x : Names(q, x)' <=> Names(q, x)
  <2>1. inodes' = inodes /\ \A d \in Callers : call'[d].found = call[d].found
    BY Zenon DEF MachineMoves, Idle
  <2>. QED
    BY <2>1 DEF Names
<1>6. \A s, x : (Serves(s, x)' <=> Serves(s, x)) /\ (Origin(s, x)' <=> Origin(s, x))
  BY <1>0 DEF Serves, Origin, Connected
<1>7. ASSUME ~ recycled' PROVE Fresh(c)' /\ Follows(c)'
  <2>1. Fresh(c) /\ Follows(c)
    BY <1>1, <1>7 DEF CallInv
  <2>2. \A s \in table' : s \in table \/ s.inode \notin used
    BY <1>7, Zenon DEF MachineMoves
  <2>3. ASSUME a.pc # "idle", NEW p \in Pids
        PROVE  /\ last[k][p] <= last'[k][p] /\ last[k][p] \in Int /\ last'[k][p] \in Int
    BY <1>0, <1>4, <2>3 DEF MachineMoves, Types
  <2>4. Fresh(c)'
    <3>1. ASSUME a.pc \in {"inode", "scan"}
          PROVE  /\ \A s \in table' : s.inode = a.inode => Serves(s, k)
                 /\ \A p \in Pids : Names(a.inode, p) => last'[k][p] >= a.now
      <4>1. a.inode \in used
        BY <1>2, <3>1 DEF Shape
      <4>2. /\ \A s \in table : s.inode = a.inode => Serves(s, k)
            /\ \A p \in Pids : Names(a.inode, p) => last[k][p] >= a.now
        BY <2>1, <3>1 DEF Fresh
      <4>3. a.pc # "idle"
        BY <3>1
      <4>4. \A s \in table' : s.inode = a.inode => Serves(s, k)
        BY <2>2, <4>1, <4>2
      <4>5. \A p \in Pids : Names(a.inode, p) => last'[k][p] >= a.now
        BY <1>1, <2>3, <4>2, <4>3
      <4>. QED
        BY <4>4, <4>5
    <3>2. ASSUME a.pc = "insert" PROVE last'[k][a.pid] >= a.now
      <4>1. a.pid \in Pids
        BY <1>2, <3>2 DEF Shape
      <4>2. last[k][a.pid] >= a.now
        BY <2>1, <3>2 DEF Fresh
      <4>. QED
        BY <1>1, <2>3, <3>2, <4>1, <4>2
    <3>3. ASSUME a.pc \in {"name", "done"}, a.pid \in Pids
          PROVE  last'[k][a.pid] >= 0 /\ last'[k][a.pid] > a.now - Ttl
      <4>1. last[k][a.pid] >= 0 /\ last[k][a.pid] > a.now - Ttl
        BY <2>1, <3>3 DEF Fresh
      <4>2. last[k][a.pid] <= last'[k][a.pid] /\ last[k][a.pid] \in Int /\ last'[k][a.pid] \in Int
        BY <2>3, <3>3
      <4>3. a.now \in Nat /\ Ttl \in Nat
        BY <1>1, AttributionAssumption
      <4>. QED
        BY <4>1, <4>2, <4>3
    <3>. QED
      BY <1>0, <1>5, <1>6, <3>1, <3>2, <3>3, Zenon DEF Fresh
  <2>5. Follows(c)'
    <3>1. ASSUME NEW s \in table', s.inode \in b.stayed PROVE s \in table /\ s.inode \in a.stayed
      BY <1>0, <1>2, <2>2, <3>1 DEF Shape
    <3>. QED
      BY <1>0, <1>6, <2>1, <3>1 DEF Follows
  <2>. QED
    BY <2>4, <2>5
<1>. QED
  BY <1>3, <1>7 DEF CallInv

-----------------------------------------------------------------------------
(* What a step of a thread teaches the map and the walks: nothing but who  *)
(* holds a socket.                                                         *)
Learns ==
  \A i \in Inodes, p \in Pids :
    Names(i, p)' => Names(i, p) \/ \E s \in table : s.inode = i /\ p \in s.holders

(* A thread learns of an inode only from a socket that is in the table.    *)
LEMMA ThreadLearns ==
  ASSUME Types, NEW c \in Callers, Others(c), Thread(c)
  PROVE  Learns
<1>. DEFINE a == call[c]
            Keeps == call'[c].found = NoMap \/ call'[c].found = a.found
<1>0. CallsTyped(c) /\ \A i \in Inodes, p \in Pids : NoMap[i] # p
  BY PidsPositive DEF Types, CallsTyped, NoMap
<1>1. ASSUME \/ call'[c].found = a.found
             \/ call'[c].found = NoMap
             \/ \E p \in Pids : call'[c].found =
                  [i \in Inodes |-> IF a.found[i] = None /\ i \in HeldBy(p) THEN p ELSE a.found[i]],
             inodes' = inodes \/ inodes' = a.found
      PROVE  Learns
  <2>1. ASSUME NEW i \in Inodes, NEW p \in Pids, call'[c].found[i] = p
        PROVE  Names(i, p) \/ \E s \in table : s.inode = i /\ p \in s.holders
    <3>1. CASE a.found[i] = p
      BY <3>1 DEF Names
    <3>2. CASE a.found[i] # p
      <4>1. i \in HeldBy(p)
        BY <1>0, <1>1, <2>1, <3>2, Zenon
      <4>. QED
        BY <4>1 DEF HeldBy
    <3>. QED
      BY <3>1, <3>2
  <2>. QED
    BY <1>1, <2>1 DEF Learns, Names, Others
<1>2. ASSUME NEW pid, NEW hit, NEW disturbed, Answer(c, pid, hit, disturbed)
      PROVE  call'[c].found = NoMap
  BY <1>0, <1>2 DEF Answer, CallsTyped, Idle
<1>3. ASSUME NEW f \in world.flows, Call(c, f) PROVE call'[c].found = NoMap /\ inodes' = inodes
  BY <1>0, <1>3 DEF Call, CallsTyped, Idle, cache
<1>4. ASSUME CheckCache(c) PROVE Keeps /\ inodes' = inodes
  <2>1. CASE call' = [call EXCEPT ![c].pc = IF platform = "linux" THEN "query" ELSE "size",
                                  ![c].query = IF platform = "linux" THEN 1 ELSE 0]
    BY <1>0, <1>4, <2>1 DEF CheckCache, CallsTyped, CallTypes, Idle, cache
  <2>. QED
    BY <1>2, <1>4, <2>1, Zenon DEF CheckCache, cache
<1>5. ASSUME InodeToPid(c) PROVE call'[c].found = a.found /\ inodes' = inodes
  BY <1>0, <1>5 DEF InodeToPid, CallsTyped, CallTypes, Idle
<1>6. ASSUME Insert(c) PROVE call'[c].found = NoMap /\ inodes' = inodes
  BY <1>2, <1>6, Zenon DEF Insert
<1>7. ASSUME QueryOne(c) PROVE Keeps /\ inodes' = inodes
  <2>1. ASSUME NEW disturbed, NextQuery(c, disturbed) PROVE Keeps
    <3>1. CASE call' = [call EXCEPT ![c].query = @ + 1, ![c].disturbed = disturbed]
      BY <1>0, <3>1 DEF CallsTyped, CallTypes, Idle
    <3>. QED
      BY <1>2, <2>1, <3>1, Zenon DEF NextQuery
  <2>2. ASSUME NEW i, call' = [call EXCEPT ![c].pc = "inode", ![c].query = 0, ![c].inode = i]
        PROVE  Keeps
    BY <1>0, <2>2 DEF CallsTyped, CallTypes, Idle
  <2>. QED
    BY <1>7, <2>1, <2>2, Zenon DEF QueryOne, cache
<1>8. ASSUME ScanSocketInodes(c)
      PROVE  /\ inodes' = inodes
             /\ \/ call'[c].found = a.found
                \/ \E p \in Pids : call'[c].found =
                     [i \in Inodes |-> IF a.found[i] = None /\ i \in HeldBy(p) THEN p ELSE a.found[i]]
  BY <1>0, <1>8 DEF ScanSocketInodes, CallsTyped, CallTypes, Idle, cache
<1>9. ASSUME ScanDone(c) PROVE call'[c].found = NoMap /\ inodes' = a.found
  <2>1. CASE call' = [call EXCEPT ![c].pc = "insert", ![c].inode = 0, ![c].found = NoMap,
                                  ![c].pid = a.found[a.inode]]
    BY <1>0, <1>9, <2>1 DEF ScanDone, CallsTyped, CallTypes, Idle
  <2>. QED
    BY <1>2, <1>9, <2>1, Zenon DEF ScanDone
<1>10. ASSUME NEW pid, NEW disturbed, Resolved(c, pid, disturbed)
       PROVE  Keeps
  <2>1. CASE call' = [call EXCEPT ![c].pc = "size", ![c].udp = FALSE, ![c].size = 0,
                                  ![c].disturbed = disturbed]
    BY <1>0, <2>1 DEF CallsTyped, CallTypes, Idle
  <2>2. CASE call' = [call EXCEPT ![c].pc = "insert", ![c].pid = pid, ![c].size = 0,
                                  ![c].disturbed = disturbed]
    BY <1>0, <2>2 DEF CallsTyped, CallTypes, Idle
  <2>. QED
    BY <1>2, <1>10, <2>1, <2>2, Zenon DEF Resolved
<1>11. ASSUME SizeTable(c) PROVE Keeps /\ inodes' = inodes
  <2>1. CASE call' = [call EXCEPT ![c].pc = "fetch", ![c].size = Cardinality(Rows(a.flow, a.udp))]
    BY <1>0, <1>11, <2>1 DEF SizeTable, CallsTyped, CallTypes, Idle, cache
  <2>. QED
    BY <1>10, <1>11, <2>1, Zenon DEF SizeTable, cache
<1>12. ASSUME FetchTable(c) PROVE Keeps /\ inodes' = inodes
  BY <1>10, <1>12, Zenon DEF FetchTable, cache
<1>13. ASSUME ProcessName(c) PROVE call'[c].found = a.found /\ inodes' = inodes
  BY <1>0, <1>13 DEF ProcessName, CallsTyped, CallTypes, Idle, cache
<1>14. CASE \E f \in world.flows : Call(c, f)
  BY <1>1, <1>3, <1>14
<1>15. CASE Acquire(c)
  BY <1>1, <1>4, <1>5, <1>6, <1>15 DEF Acquire
<1>16. CASE Ask(c)
  BY <1>1, <1>7, <1>8, <1>9, <1>11, <1>12, <1>13, <1>16 DEF Ask
<1>. QED
  BY <1>14, <1>15, <1>16 DEF Thread

-----------------------------------------------------------------------------
(* The steps of a lookup keep Inv, and what follows from it. *)

(* The types, after a step of a thread. *)
LEMMA ThreadTypes ==
  ASSUME Types, TableInv, NEW c \in Callers, Shape(c), Thread(c)
  PROVE  Types' /\ UNCHANGED <<world, env>>
<1>. DEFINE a == call[c]
<1>0. /\ UNCHANGED <<world, table, alive, clock, changes, last, used, recycled>>
      /\ Keys' = Keys
  BY Zenon DEF Thread, Call, Acquire, Ask, CheckCache, InodeToPid, Insert, QueryOne,
         ScanSocketInodes, ScanDone, SizeTable, FetchTable, ProcessName, At, env, Keys
<1>1. DOMAIN call' = Callers /\ \A d \in Callers : CallTypes(d)'
  <2>1. CallsTyped(c)' /\ Others(c)
    BY ThreadShape
  <2>. QED
    BY <2>1 DEF Types, CallsTyped, Others, CallTypes
<1>2. lock' \in Callers \cup {None}
  BY Zenon DEF Types, Thread, Call, Acquire, Ask, CheckCache, InodeToPid, Insert, QueryOne,
         ScanSocketInodes, ScanDone, SizeTable, FetchTable, ProcessName, cache
<1>3. inodes' \in [Inodes -> Pids \cup {None}]
  BY Zenon DEF Types, CallTypes, Thread, Call, Acquire, Ask, CheckCache, InodeToPid,
         Insert, QueryOne,
         ScanSocketInodes, ScanDone, SizeTable, FetchTable, ProcessName, cache
<1>4. endpoints' \in [Keys -> [pid : Pids \cup {None}, at : Nat]]
  <2>1. CASE Insert(c)
    <3>1. Key(a.flow) \in Keys /\ a.pid \in Pids /\ a.now \in Nat
      BY <2>1 DEF Insert, At, Shape, Keys, Types, CallTypes
    <3>2. endpoints' = [endpoints EXCEPT ![Key(a.flow)] = [pid |-> a.pid, at |-> a.now]]
      BY <2>1 DEF Insert
    <3>. QED
      BY <3>1, <3>2 DEF Types
  <2>2. CASE ~ Insert(c)
    BY <2>2, Zenon DEF Types, Thread, Call, Acquire, Ask, CheckCache, InodeToPid, QueryOne,
         ScanSocketInodes, ScanDone, SizeTable, FetchTable, ProcessName, cache
  <2>. QED
    BY <2>1, <2>2
<1>. QED
  BY <1>0, <1>1, <1>2, <1>3, <1>4 DEF Types, env

(* A step of a thread keeps the caches right. *)
LEMMA ThreadCache ==
  ASSUME Types, TableInv, CacheInv, NEW c \in Callers, CallInv(c), Thread(c), Learns,
         UNCHANGED <<world, env>>
  PROVE  CacheInv'
<1>. DEFINE a == call[c]
            k == Key(a.flow)
<1>0. /\ UNCHANGED <<table, last, used, recycled>> /\ Keys' = Keys
  BY DEF env, Keys
<1>1. ASSUME NEW q \in Keys, endpoints'[q] # Empty
      PROVE  endpoints'[q].pid \in Pids /\ (~ recycled => last[q][endpoints'[q].pid] >= endpoints'[q].at)
  <2>1. CASE endpoints'[q] = endpoints[q]
    BY <1>1, <2>1 DEF CacheInv
  <2>2. CASE endpoints'[q] # endpoints[q]
    <3>1. Insert(c)
      BY <2>2, Zenon DEF Thread, Call, Acquire, Ask, CheckCache, InodeToPid, QueryOne,
         ScanSocketInodes, ScanDone, SizeTable, FetchTable, ProcessName, cache
    <3>2. a.pc = "insert" /\ endpoints' = [endpoints EXCEPT ![k] = [pid |-> a.pid, at |-> a.now]]
      BY <3>1 DEF Insert, At
    <3>3. q = k /\ endpoints'[q].pid = a.pid /\ endpoints'[q].at = a.now
      BY <2>2, <3>2 DEF Types
    <3>. QED
      BY <3>2, <3>3 DEF CallInv, Shape, Fresh
  <2>. QED
    BY <2>1, <2>2
<1>2. ASSUME ~ recycled, NEW i \in Inodes, NEW p \in Pids, Names(i, p)'
      PROVE  i \in used /\ \A s \in table : s.inode = i => s.owner = p
  <2>1. CASE Names(i, p)
    BY <1>2, <2>1 DEF CacheInv
  <2>2. CASE \E s \in table : s.inode = i /\ p \in s.holders
    BY <1>2, <2>2, AttributionAssumption DEF TableInv
  <2>. QED
    BY <1>2, <2>1, <2>2 DEF Learns
<1>. QED
  BY <1>0, <1>1, <1>2 DEF CacheInv

(* A lookup that is told of a socket at its endpoint is no staler than now. *)
LEMMA HolderNow ==
  ASSUME Types, LastInv, NEW c \in Callers, Shape(c), call[c].pc # "idle", NEW s \in table,
         NEW p \in Pids, p \in s.holders, Serves(s, Key(call[c].flow))
  PROVE  LET seen == last[Key(call[c].flow)][p]
         IN seen >= call[c].now /\ seen >= 0 /\ seen > call[c].now - Ttl
<1>1. Key(call[c].flow) \in Keys
  BY DEF Shape, Keys
<1>2. last[Key(call[c].flow)][p] = clock
  BY <1>1 DEF LastInv
<1>3. clock \in Nat /\ call[c].now \in Nat /\ Ttl \in Nat \ {0} /\ call[c].now <= clock
  BY AttributionAssumption DEF Types, CallTypes, Shape
<1>. QED
  BY <1>2, <1>3

(* What a step teaches about the inode of a lookup is as fresh. *)
LEMMA NamesFresh ==
  ASSUME Types, LastInv, NEW c \in Callers, Learns, Shape(c), Fresh(c),
         call[c].pc \in {"inode", "scan"}, NEW i, i = call[c].inode, NEW p \in Pids, Names(i, p)'
  PROVE  last[Key(call[c].flow)][p] >= call[c].now
<1>1. CASE Names(i, p)
  BY <1>1 DEF Fresh
<1>2. ASSUME NEW s \in table, s.inode = i, p \in s.holders
      PROVE  last[Key(call[c].flow)][p] >= call[c].now
  <2>1. Serves(s, Key(call[c].flow))
    BY <1>2 DEF Fresh
  <2>. QED
    BY <1>2, <2>1, HolderNow
<1>3. i \in Inodes
  BY DEF Shape, Types
<1>. QED
  BY <1>1, <1>2, <1>3 DEF Learns

(* What a step of one thread teaches does not mislead another. *)
LEMMA OtherCalls ==
  ASSUME Types, TableInv, LastInv, NEW c \in Callers, Learns, UNCHANGED <<world, env>>,
         call'[c] = call[c], CallInv(c)
  PROVE  CallInv(c)'
<1>. DEFINE a == call[c]
            k == Key(a.flow)
<1>0. /\ UNCHANGED <<table, last, clock, used, recycled>> /\ platform' = platform
      /\ \A s, x : Serves(s, x)' <=> Serves(s, x)
  BY DEF env, platform, Serves
<1>1. Shape(c)'
  BY <1>0 DEF CallInv, Shape
<1>2. ASSUME ~ recycled PROVE Fresh(c)' /\ Follows(c)'
  <2>1. Fresh(c) /\ Follows(c) /\ Shape(c)
    BY <1>2 DEF CallInv
  <2>2. Follows(c)'
    BY <1>0, <2>1, Zenon DEF Follows, Origin, Connected
  <2>3. ASSUME a.pc \in {"inode", "scan"}, NEW p \in Pids, Names(a.inode, p)'
        PROVE  last[k][p] >= a.now
    BY <2>1, <2>3, NamesFresh
  <2>. QED
    BY <1>0, <2>1, <2>2, <2>3, Zenon DEF Fresh
<1>. QED
  BY <1>0, <1>1, <1>2 DEF CallInv

(* The lookup that moves stays fresh and keeps its socket in sight. *)
LEMMA ThreadCalls ==
  ASSUME Types, TableInv, Local, LastInv, CacheInv, NEW c \in Callers, CallInv(c), Thread(c), Learns,
         CallsTyped(c)', UNCHANGED <<world, env>>, ~ recycled
  PROVE  Fresh(c)' /\ Follows(c)'
<1>. DEFINE a == call[c]
            b == call'[c]
            k == Key(a.flow)
            Seen(s) == s.inode \in a.stayed /\ Origin(s, a.flow)
            Goal == Fresh(c)' /\ Follows(c)'
<1>0. /\ UNCHANGED <<world, table, last, clock, used, recycled>> /\ platform' = platform
      /\ \A s, x : Serves(s, x)' <=> Serves(s, x)
  BY DEF env, platform, Serves
<1>1. Shape(c) /\ Fresh(c) /\ Follows(c) /\ CallsTyped(c)
  BY DEF CallInv, Types, CallsTyped
<1>2. /\ a.now \in Nat /\ clock \in Nat /\ a.now <= clock /\ Ttl \in Nat \ {0}
      /\ used \subseteq Inodes /\ 0 \notin Inodes /\ None \notin Pids /\ None # 0 /\ 0 \notin Pids
  <2>1. a.now \in Nat /\ clock \in Nat /\ a.now <= clock /\ used \subseteq Inodes
    BY <1>1 DEF Types, CallsTyped, CallTypes, Shape
  <2>2. Ttl \in Nat \ {0} /\ 0 \notin Inodes
    BY AttributionAssumption
  <2>3. None \notin Pids /\ None # 0 /\ 0 \notin Pids
    BY PidsPositive DEF None
  <2>. QED
    BY <2>1, <2>2, <2>3
<1>3. ASSUME NEW s \in table, Seen(s)
      PROVE  s.inode \in Inodes /\ s.inode # 0 /\ s.owner \in Pids /\ s.holders = {s.owner}
  BY <1>1, <1>2, <1>3 DEF Shape, TableInv, Types, Socket
<1>4. \A p \in Pids : a.pc # "idle" => k \in Keys /\ last[k][p] \in Int
  BY <1>1 DEF Shape, Keys, Types
(* The three ways in which a lookup goes on. *)
<1>5. ASSUME NEW pid \in Pids \cup {None, 0}, NEW hit, NEW disturbed, Answer(c, pid, hit, disturbed),
             pid \in Pids => last[k][pid] >= 0 /\ last[k][pid] > a.now - Ttl,
             ~ disturbed => \A s \in table : Seen(s) =>
                pid \in Pids /\ (~ hit /\ platform # "windows" => pid = s.owner)
      PROVE  Goal
  <2>1. Answered(c, pid, hit, disturbed)
    BY <1>1, <1>5, AnswerIs, Zenon
  <2>2. Fresh(c)'
    BY <1>0, <1>2, <1>5, <2>1 DEF Answered, Fresh
  <2>3. Follows(c)'
    BY <1>0, <1>5, <2>1 DEF Answered, Follows, Origin, Connected
  <2>. QED
    BY <2>2, <2>3
<1>6. ASSUME b.pc = "insert", b.flow = a.flow, b.now = a.now, b.stayed = a.stayed,
             last[k][b.pid] >= a.now,
             ~ b.disturbed => \A s \in table : Seen(s) => b.pid = s.owner
      PROVE  Goal
  <2>2. Fresh(c)'
    BY <1>0, <1>6, Zenon DEF Fresh
  <2>3. Follows(c)'
    BY <1>0, <1>6 DEF Follows, Origin, Connected
  <2>. QED
    BY <2>2, <2>3
<1>7. ASSUME b.pc \in {"check", "query", "size", "fetch"},
             b.pc \in {"query", "size", "fetch"} => b.flow = a.flow /\ b.stayed = a.stayed,
             ~ b.disturbed => \A s \in table : Seen(s) =>
                /\ b.pc = "query" => b.query = 1
                /\ b.pc \in {"size", "fetch"} => b.udp = a.flow.udp
      PROVE  Goal
  <2>2. Fresh(c)'
    BY <1>7 DEF Fresh
  <2>3. Follows(c)'
    BY <1>0, <1>7 DEF Follows, Origin, Connected
  <2>. QED
    BY <2>2, <2>3
<1>8. ASSUME NEW f \in world.flows, Call(c, f) PROVE Goal
  <2>1. b.pc \in {"check", "size"} /\ b.udp = b.flow.udp
    BY <1>1, <1>8 DEF Call, Idle, CallsTyped
  <2>. QED
    BY <2>1 DEF Fresh, Follows
<1>9. CASE CheckCache(c)
  <2>0. a.pc = "check" /\ platform # "windows" /\ a.udp = a.flow.udp
    BY <1>1, <1>9 DEF CheckCache, At, Shape
  <2>1. CASE /\ endpoints[k] # Empty /\ a.now - endpoints[k].at < Ttl
             /\ Answer(c, endpoints[k].pid, TRUE, a.disturbed)
    <3>1. k \in Keys /\ endpoints[k].at \in Nat
      BY <2>0, <1>1 DEF Shape, Keys, Types
    <3>2. endpoints[k].pid \in Pids /\ last[k][endpoints[k].pid] >= endpoints[k].at
      BY <2>1, <3>1 DEF CacheInv
    <3>3. last[k][endpoints[k].pid] \in Int
      BY <1>4, <2>0, <3>2
    <3>4. last[k][endpoints[k].pid] >= 0 /\ last[k][endpoints[k].pid] > a.now - Ttl
      <4>. DEFINE t == endpoints[k].at
                  l == last[k][endpoints[k].pid]
      <4>1. t \in Nat /\ l \in Int /\ l >= t /\ a.now - t < Ttl /\ a.now \in Nat /\ Ttl \in Nat
        BY <1>2, <2>1, <3>1, <3>2, <3>3
      <4>. HIDE DEF t, l
      <4>. QED
        BY <4>1 DEF l
    <3>. QED
      BY <1>2, <1>5, <2>1, <3>2, <3>4, Zenon
  <2>2. CASE call' = [call EXCEPT ![c].pc = IF platform = "linux" THEN "query" ELSE "size",
                                  ![c].query = IF platform = "linux" THEN 1 ELSE 0]
    <3>1. /\ b.pc \in {"query", "size"} /\ b.flow = a.flow /\ b.stayed = a.stayed
          /\ b.udp = a.udp /\ (b.pc = "query" => b.query = 1)
      BY <1>1, <2>2 DEF CallsTyped, CallTypes, Idle
    <3>. QED
      BY <1>7, <2>0, <3>1
  <2>. QED
    BY <1>9, <2>1, <2>2, Zenon DEF CheckCache
<1>10. CASE InodeToPid(c)
  <2>0. a.pc = "inode" /\ a.inode \in Inodes /\ inodes[a.inode] \in Pids \cup {None}
    BY <1>1, <1>2, <1>10 DEF InodeToPid, At, Shape, Types
  <2>1. CASE /\ inodes[a.inode] # None
             /\ call' = [call EXCEPT ![c].pc = "insert", ![c].inode = 0, ![c].pid = inodes[a.inode]]
    <3>1. /\ b.pc = "insert" /\ b.flow = a.flow /\ b.now = a.now /\ b.stayed = a.stayed
          /\ b.pid = inodes[a.inode] /\ b.disturbed = a.disturbed
      BY <1>1, <2>1 DEF CallsTyped, CallTypes, Idle
    <3>2. inodes[a.inode] \in Pids /\ Names(a.inode, inodes[a.inode])
      BY <2>0, <2>1 DEF Names
    <3>3. last[k][b.pid] >= a.now
      BY <1>1, <2>0, <3>1, <3>2, Zenon DEF Fresh
    <3>4. \A s \in table : s.inode = a.inode => s.owner = b.pid
      BY <2>0, <3>1, <3>2, Zenon DEF CacheInv
    <3>. QED
      BY <1>1, <1>6, <2>0, <3>1, <3>3, <3>4, Zenon DEF Follows
  <2>2. CASE call' = [call EXCEPT ![c].pc = "scan", ![c].unscanned = Pids]
    <3>1. /\ b.pc = "scan" /\ b.flow = a.flow /\ b.now = a.now /\ b.stayed = a.stayed
          /\ b.inode = a.inode /\ b.disturbed = a.disturbed /\ b.unscanned = Pids
          /\ b.found = a.found
      BY <1>1, <2>2 DEF CallsTyped, CallTypes, Idle
    <3>2. ASSUME NEW p \in Pids, Names(a.inode, p)' PROVE last[k][p] >= a.now
      BY <1>1, <2>0, <3>1, <3>2, NamesFresh
    <3>3. Fresh(c)'
      BY <1>0, <1>1, <2>0, <3>1, <3>2, Zenon DEF Fresh
    <3>4. Follows(c)'
      BY <1>0, <1>1, <1>3, <2>0, <3>1, Zenon DEF Follows, Origin, Connected
    <3>. QED
      BY <3>3, <3>4
  <2>. QED
    BY <1>10, <2>1, <2>2 DEF InodeToPid
<1>11. CASE Insert(c)
  <2>1. a.pc = "insert" /\ a.pid \in Pids /\ last[k][a.pid] >= a.now /\ last[k][a.pid] \in Int
    BY <1>1, <1>4, <1>11, Zenon DEF Insert, At, Shape, Fresh
  <2>2. last[k][a.pid] >= 0 /\ last[k][a.pid] > a.now - Ttl
    BY <1>2, <2>1
  <2>3. ~ a.disturbed => \A s \in table : Seen(s) => a.pid = s.owner
    BY <1>1, <2>1 DEF Follows
  <2>. QED
    BY <1>2, <1>5, <1>11, <2>1, <2>2, <2>3, Zenon DEF Insert
<1>12. CASE QueryOne(c)
  <2>0. a.pc = "query" /\ a.query \in 1..3 /\ a.flow \in world.flows /\ platform = "linux"
    BY <1>1, <1>12, AttributionAssumption DEF QueryOne, At, Shape, CallsTyped, CallTypes,
           Types
  <2>1. ASSUME NEW s \in table, Seen(s), ~ a.disturbed
        PROVE  a.query = 1 /\ QuerySocketInode(a.query, a.flow) = {s}
    <3>1. a.query = 1
      BY <1>1, <2>0, <2>1 DEF Follows
    <3>2. QuerySocketInode(1, a.flow) = {s}
      BY <2>0, <2>1, QueryFinds
    <3>. QED
      BY <3>1, <3>2
  <2>2. ASSUME NEW disturbed, NextQuery(c, disturbed),
               ~ disturbed => \A s \in table : ~ Seen(s)
        PROVE  Goal
    <3>1. CASE Answer(c, None, FALSE, disturbed)
      BY <1>2, <1>5, <2>2, <3>1, Zenon
    <3>2. CASE call' = [call EXCEPT ![c].query = @ + 1, ![c].disturbed = disturbed]
      <4>1. /\ b.pc = "query" /\ b.flow = a.flow /\ b.stayed = a.stayed
            /\ b.disturbed = disturbed
        BY <1>1, <2>0, <3>2 DEF CallsTyped, CallTypes, Idle
      <4>. QED
        BY <1>7, <2>2, <4>1
    <3>. QED
      BY <2>2, <3>1, <3>2, Zenon DEF NextQuery
  <2>3. CASE NextQuery(c, TRUE)
    BY <2>2, <2>3, Zenon
  <2>4. CASE QuerySocketInode(a.query, a.flow) = {} /\ NextQuery(c, a.disturbed)
    BY <2>1, <2>2, <2>4
  <2>5. ASSUME NEW r \in QuerySocketInode(a.query, a.flow), InodeOf(r) = None,
               NextQuery(c, a.disturbed)
        PROVE  Goal
    <3>1. ASSUME NEW s \in table, Seen(s), ~ a.disturbed PROVE FALSE
      <4>1. r = s
        BY <2>1, <2>5, <3>1
      <4>2. s.inode \in Inodes /\ s.inode # 0
        BY <1>3, <3>1
      <4>3. None \notin Inodes
        BY AttributionAssumption DEF None
      <4>. QED
        BY <2>5, <4>1, <4>2, <4>3, Zenon DEF InodeOf
    <3>. QED
      BY <2>2, <2>5, <3>1, Zenon
  <2>6. ASSUME NEW r \in QuerySocketInode(a.query, a.flow), InodeOf(r) # None,
               call' = [call EXCEPT ![c].pc = "inode", ![c].query = 0, ![c].inode = InodeOf(r)]
        PROVE  Goal
    <3>1. /\ r \in table /\ r.inode # 0 /\ InodeOf(r) = r.inode
          /\ \A s \in table : s.inode = r.inode => s = r
          /\ r.owner \in Pids /\ r.holders = {r.owner} /\ r.inode \in Inodes
      <4>1. r \in table
        BY <2>0, <2>6, QueryServes
      <4>. QED
        BY <1>2, <2>6, <4>1 DEF InodeOf, TableInv, Types, Socket
    <3>2. /\ b.pc = "inode" /\ b.flow = a.flow /\ b.now = a.now /\ b.stayed = a.stayed
          /\ b.inode = r.inode /\ b.disturbed = a.disturbed /\ b.found = a.found
      BY <1>1, <2>6, <3>1 DEF CallsTyped, CallTypes, Idle
    <3>3. Serves(r, k)
      BY <2>0, <2>6, QueryServes
    <3>4. ASSUME NEW p \in Pids, Names(r.inode, p)' PROVE last[k][p] >= a.now
      <4>1. Names(r.inode, p) \/ \E s \in table : s.inode = r.inode /\ p \in s.holders
        BY <3>1, <3>4 DEF Learns
      <4>2. Names(r.inode, p) => p = r.owner
        BY <3>1 DEF CacheInv
      <4>3. p \in r.holders
        BY <3>1, <4>1, <4>2
      <4>. QED
        BY <1>1, <2>0, <3>1, <3>3, <4>3, HolderNow
    <3>5. Fresh(c)'
      BY <1>0, <3>1, <3>2, <3>3, <3>4, Zenon DEF Fresh
    <3>6. Follows(c)'
      <4>1. \A s \in table : Seen(s) /\ ~ a.disturbed => s = r
        BY <2>1, <2>6
      <4>. QED
        BY <1>0, <3>2, <4>1 DEF Follows, Origin, Connected
    <3>. QED
      BY <3>5, <3>6
  <2>. QED
    BY <1>12, <2>3, <2>4, <2>5, <2>6, Zenon DEF QueryOne
<1>13. CASE ScanSocketInodes(c)
  <2>0. /\ a.pc = "scan" /\ a.inode \in Inodes /\ a.found \in [Inodes -> Pids \cup {None}]
        /\ a.unscanned \subseteq Pids
    BY <1>1, <1>2, <1>13 DEF ScanSocketInodes, At, Shape, CallsTyped, CallTypes
  <2>1. PICK p \in a.unscanned :
          \/ call' = [call EXCEPT ![c].unscanned = @ \ {p},
               ![c].found = [i \in Inodes |-> IF @[i] = None /\ i \in HeldBy(p) THEN p ELSE @[i]]]
          \/ call' = [call EXCEPT ![c].unscanned = @ \ {p}, ![c].disturbed = TRUE]
    BY <1>13, Zenon DEF ScanSocketInodes
  <2>2. /\ b.pc = "scan" /\ b.flow = a.flow /\ b.now = a.now /\ b.stayed = a.stayed
        /\ b.inode = a.inode /\ b.unscanned = a.unscanned \ {p}
        /\ \/ /\ b.disturbed = a.disturbed
              /\ b.found = [i \in Inodes |->
                   IF a.found[i] = None /\ i \in HeldBy(p) THEN p ELSE a.found[i]]
           \/ b.disturbed = TRUE
    <3>1. CASE call' = [call EXCEPT ![c].unscanned = @ \ {p},
               ![c].found = [i \in Inodes |-> IF @[i] = None /\ i \in HeldBy(p) THEN p ELSE @[i]]]
      BY <1>1, <2>0, <3>1 DEF CallsTyped, CallTypes, Idle
    <3>2. CASE call' = [call EXCEPT ![c].unscanned = @ \ {p}, ![c].disturbed = TRUE]
      BY <1>1, <2>0, <3>2 DEF CallsTyped, CallTypes, Idle
    <3>. QED
      BY <2>1, <3>1, <3>2, Zenon
  <2>3. ASSUME NEW q \in Pids, Names(a.inode, q)' PROVE last[k][q] >= a.now
    BY <1>1, <2>0, <2>2, <2>3, NamesFresh
  <2>4. Fresh(c)'
    BY <1>0, <1>1, <2>0, <2>2, <2>3, Zenon DEF Fresh
  <2>5. ASSUME NEW s \in table, Seen(s), ~ b.disturbed
        PROVE  a.inode = s.inode /\ (s.owner \in b.unscanned \/ b.found[s.inode] = s.owner)
    <3>1. /\ ~ a.disturbed /\ s.inode \in Inodes /\ s.owner \in Pids /\ s.holders = {s.owner}
          /\ b.found[s.inode] = IF a.found[s.inode] = None /\ s.inode \in HeldBy(p)
                                THEN p ELSE a.found[s.inode]
      BY <1>3, <2>2, <2>5
    <3>2. a.inode = s.inode /\ (s.owner \in a.unscanned \/ a.found[s.inode] = s.owner)
      BY <1>1, <2>0, <2>5, <3>1 DEF Follows
    <3>3. a.found[s.inode] \in Pids => a.found[s.inode] = s.owner
      BY <3>1 DEF CacheInv, Names
    <3>4. s.inode \in HeldBy(s.owner)
      BY <3>1 DEF HeldBy
    <3>. QED
      BY <1>2, <2>0, <2>2, <3>1, <3>2, <3>3, <3>4, Zenon
  <2>6. Follows(c)'
    BY <1>0, <2>2, <2>5 DEF Follows, Origin, Connected
  <2>. QED
    BY <2>4, <2>6
<1>14. CASE ScanDone(c)
  <2>. DEFINE pid == a.found[a.inode]
  <2>0. a.pc = "scan" /\ a.inode \in Inodes /\ pid \in Pids \cup {None} /\ a.unscanned = {}
    BY <1>1, <1>2, <1>14 DEF ScanDone, At, Shape, CallsTyped, CallTypes
  <2>1. ASSUME NEW s \in table, Seen(s), ~ a.disturbed PROVE pid = s.owner /\ pid # None
    BY <1>1, <1>2, <1>3, <2>0, <2>1 DEF Follows
  <2>2. CASE pid = None /\ Answer(c, None, FALSE, a.disturbed)
    BY <1>2, <1>5, <2>1, <2>2, Zenon
  <2>3. CASE /\ pid # None
             /\ call' = [call EXCEPT ![c].pc = "insert", ![c].inode = 0, ![c].found = NoMap,
                                     ![c].pid = pid]
    <3>1. /\ b.pc = "insert" /\ b.flow = a.flow /\ b.now = a.now /\ b.stayed = a.stayed
          /\ b.pid = pid /\ b.disturbed = a.disturbed
      BY <1>1, <2>3 DEF CallsTyped, CallTypes, Idle
    <3>2. last[k][pid] >= a.now
      BY <1>1, <2>0, <2>3 DEF Fresh, Names
    <3>. QED
      BY <1>6, <2>1, <3>1, <3>2, Zenon
  <2>. QED
    BY <1>14, <2>2, <2>3, Zenon DEF ScanDone
<1>15. ASSUME NEW pid \in Pids \cup {None, 0}, NEW disturbed, Resolved(c, pid, disturbed),
              a.pc \in {"size", "fetch"},
              pid \in Pids => /\ last[k][pid] >= a.now /\ last[k][pid] >= 0
                              /\ last[k][pid] > a.now - Ttl,
              platform # "windows" => pid # 0,
              ~ disturbed => \A s \in table : Seen(s) =>
                 pid \in Pids /\ (platform # "windows" => pid = s.owner)
       PROVE  Goal
  <2>1. CASE /\ pid = None
             /\ call' = [call EXCEPT ![c].pc = "size", ![c].udp = FALSE, ![c].size = 0,
                                     ![c].disturbed = disturbed]
    <3>1. /\ b.pc = "size" /\ b.flow = a.flow /\ b.stayed = a.stayed /\ b.disturbed = disturbed
      BY <1>1, <2>1 DEF CallsTyped, CallTypes, Idle
    <3>. QED
      BY <1>2, <1>7, <1>15, <2>1, <3>1, Zenon
  <2>2. CASE /\ pid # None /\ platform # "windows"
             /\ call' = [call EXCEPT ![c].pc = "insert", ![c].pid = pid, ![c].size = 0,
                                     ![c].disturbed = disturbed]
    <3>1. /\ b.pc = "insert" /\ b.flow = a.flow /\ b.now = a.now /\ b.stayed = a.stayed
          /\ b.pid = pid /\ b.disturbed = disturbed
      BY <1>1, <2>2 DEF CallsTyped, CallTypes, Idle
    <3>. QED
      BY <1>6, <1>15, <2>2, <3>1, Zenon
  <2>3. CASE Answer(c, pid, FALSE, disturbed)
    BY <1>5, <1>15, <2>3, Zenon
  <2>. QED
    BY <1>15, <2>1, <2>2, <2>3, Zenon DEF Resolved
<1>16. a.pc \in {"size", "fetch"} /\ Resolved(c, None, TRUE) => Goal
  BY <1>2, <1>15, Zenon
<1>17. CASE SizeTable(c)
  <2>0. a.pc = "size"
    BY <1>17 DEF SizeTable, At
  <2>1. CASE call' = [call EXCEPT ![c].pc = "fetch", ![c].size = Cardinality(Rows(a.flow, a.udp))]
    <3>1. /\ b.pc = "fetch" /\ b.flow = a.flow /\ b.stayed = a.stayed /\ b.udp = a.udp
          /\ b.disturbed = a.disturbed
      BY <1>1, <2>1 DEF CallsTyped, CallTypes, Idle
    <3>2. ~ a.disturbed => \A s \in table : Seen(s) => a.udp = a.flow.udp
      BY <1>1, <2>0 DEF Follows
    <3>. QED
      BY <1>7, <3>1, <3>2
  <2>. QED
    BY <1>16, <1>17, <2>0, <2>1, Zenon DEF SizeTable
<1>18. CASE FetchTable(c)
  <2>. DEFINE rows == Rows(a.flow, a.udp)
  <2>0. /\ a.pc = "fetch" /\ platform # "linux" /\ a.flow \in Flow /\ a.udp \in BOOLEAN
        /\ a.udp # a.flow.udp => platform = "windows" /\ a.flow.udp
    BY <1>1, <1>18, AttributionAssumption, Zenon DEF FetchTable, At, Shape, CallsTyped,
           CallTypes, Types
  <2>1. ASSUME NEW some \in SUBSET rows, NEW pid \in Pids, pid = Resolve(some, a.flow, a.udp)
        PROVE  last[k][pid] >= a.now /\ last[k][pid] >= 0 /\ last[k][pid] > a.now - Ttl
    <3>1. PICK s \in some : pid = s.owner /\ s.port = a.flow.port
                            /\ s.ip \in {a.flow.ip, Wildcard(a.flow.ip)}
      BY <1>2, <2>0, <2>1, ResolveIs, Zenon
    <3>2. s \in table /\ s.udp = a.udp
      BY <2>1, Zenon DEF Rows
    <3>3. pid \in s.holders
      BY <1>2, <3>1, <3>2 DEF TableInv
    <3>4. Serves(s, k)
      BY <2>0, <3>1, <3>2 DEF Serves, Key
    <3>. QED
      BY <1>1, <2>0, <3>2, <3>3, <3>4, HolderNow, Zenon
  <2>2. ASSUME NEW some \in SUBSET rows
        PROVE  /\ Resolve(some, a.flow, a.udp) \in Pids \cup {None, 0}
               /\ platform # "windows" => Resolve(some, a.flow, a.udp) # 0
    BY <2>0, ResolveType
  <2>3. CASE Resolved(c, Resolve(rows, a.flow, a.udp), a.disturbed \/ Ownerless(rows, a.flow))
    <3>1. ASSUME NEW s \in table, Seen(s), ~ (a.disturbed \/ Ownerless(rows, a.flow))
          PROVE  /\ Resolve(rows, a.flow, a.udp) \in Pids
                 /\ platform # "windows" => Resolve(rows, a.flow, a.udp) = s.owner
      <4>1. a.udp = a.flow.udp
        BY <1>1, <2>0, <3>1 DEF Follows
      <4>2. platform # "windows" => platform = "macos"
        BY <2>0, AttributionAssumption DEF Types, platform
      <4>3. Connected(s, a.flow) /\ s.inode # 0 /\ s.owner \in Pids
        BY <1>3, <2>0, <3>1 DEF Origin
      <4>. QED
        BY <2>0, <3>1, <4>1, <4>2, <4>3, ResolveFinds
    <3>. QED
      BY <1>15, <2>0, <2>1, <2>2, <2>3, <3>1, Zenon
  <2>4. CASE Resolved(c, Resolve(WholePairs(rows, a.size), a.flow, a.udp), TRUE)
    <3>1. WholePairs(rows, a.size) \in SUBSET rows
      BY DEF WholePairs
    <3>. QED
      BY <1>15, <2>0, <2>1, <2>2, <2>4, <3>1, Zenon
  <2>. QED
    BY <1>16, <1>18, <2>0, <2>3, <2>4, Zenon DEF FetchTable
<1>19. CASE ProcessName(c)
  <2>0. a.pc = "name"
    BY <1>19 DEF ProcessName, At
  <2>1. PICK exe, name :
          call' = [call EXCEPT ![c].pc = "done", ![c].exe = exe, ![c].name = name]
    BY <1>19, Zenon DEF ProcessName
  <2>2. /\ b.pc = "done" /\ b.flow = a.flow /\ b.now = a.now /\ b.stayed = a.stayed
        /\ b.pid = a.pid /\ b.hit = a.hit /\ b.disturbed = a.disturbed
    BY <1>1, <2>1 DEF CallsTyped, CallTypes, Idle
  <2>3. Fresh(c)'
    BY <1>0, <1>1, <2>0, <2>2, Zenon DEF Fresh
  <2>4. Follows(c)'
    BY <1>0, <1>1, <2>0, <2>2, Zenon DEF Follows, Origin, Connected
  <2>. QED
    BY <2>3, <2>4
<1>. QED
  BY <1>8, <1>9, <1>10, <1>11, <1>12, <1>13, <1>14, <1>17, <1>18, <1>19 DEF Thread,
         Acquire, Ask
-----------------------------------------------------------------------------
(* Nothing is cached and no lookup has started. *)
LEMMA InitInv ==
  ASSUME Init
  PROVE  Inv
<1>1. /\ Idle.pc = "idle" /\ Idle.now = 0 /\ Idle.query = 0 /\ Idle.unscanned = {}
      /\ Idle.found = NoMap /\ Idle.pid = None /\ Idle.name = None /\ Idle.stayed = {}
  BY DEF Idle
<1>2. Idle.udp \in BOOLEAN
  BY DEF Idle
<1>3. /\ NoMap \in [Inodes -> Pids \cup {None}] /\ None # 0 /\ None \notin Pids
      /\ \A i \in Inodes : NoMap[i] = None
  BY PidsPositive DEF NoMap, None
<1>4. \A c \in Callers : call[c] = Idle
  BY DEF Init
<1>5. \A c \in Callers : CallTypes(c)
  BY <1>1, <1>2, <1>3, <1>4 DEF CallTypes
<1>6. endpoints \in [Keys -> [pid : Pids \cup {None}, at : Nat]]
  BY DEF Init, Empty
<1>7. last \in [Keys -> [Pids -> Int]] /\ \A k \in Keys, p \in Pids : last[k][p] = -1
  BY DEF Init, None
<1>8. Types
  BY <1>3, <1>5, <1>6, <1>7, Zenon DEF Init, Types
<1>9. TableInv /\ Local /\ LastInv
  BY <1>7 DEF Init, TableInv, Local, LastInv
<1>10. CacheInv
  BY <1>1, <1>3, <1>4 DEF Init, CacheInv, Names
<1>11. ASSUME NEW c \in Callers PROVE CallInv(c)
  <2>1. Shape(c)
    BY <1>1, <1>3, <1>4 DEF Shape, Init
  <2>2. Fresh(c) /\ Follows(c)
    BY <1>1, <1>4 DEF Init, Fresh, Follows
  <2>. QED
    BY <2>1, <2>2 DEF CallInv
<1>. QED
  BY <1>8, <1>9, <1>10, <1>11 DEF Inv

(* Every step, of the machine, the clock or a thread, keeps the invariant.  *)
LEMMA NextInv ==
  ASSUME Inv, [Next]_vars
  PROVE  Inv'
<1>1. CASE Machine
  <2>1. Types' /\ TableInv' /\ LastInv' /\ MachineMoves
    BY <1>1, MachineIs DEF Inv
  <2>2. CacheInv' /\ Local'
    BY <1>1, <2>1, MachineCache, MachineLocal DEF Inv, MachineMoves
  <2>3. \A c \in Callers : CallInv(c)'
    BY <2>1, MachineCalls DEF Inv
  <2>. QED
    BY <2>1, <2>2, <2>3 DEF Inv
<1>2. ASSUME NEW c \in Callers, Thread(c) PROVE Inv'
  <2>0. Types /\ TableInv /\ Local /\ LastInv /\ CacheInv /\ \A d \in Callers : CallInv(d)
    BY DEF Inv
  <2>1. Shape(c)
    BY <2>0 DEF CallInv
  <2>2. Types' /\ UNCHANGED <<world, env>> /\ CallsTyped(c)' /\ Others(c) /\ Shape(c)'
    BY <1>2, <2>0, <2>1, ThreadTypes, ThreadShape
  <2>3. Learns
    BY <1>2, <2>0, <2>2, ThreadLearns
  <2>4. CacheInv'
    BY <1>2, <2>0, <2>2, <2>3, ThreadCache
  <2>5. TableInv' /\ Local' /\ LastInv'
    BY <2>0, <2>2 DEF TableInv, Local, LastInv, Keys, Serves, platform, env
  <2>6. ASSUME NEW d \in Callers PROVE CallInv(d)'
    <3>1. CASE d = c
      <4>1. recycled' = recycled
        BY <2>2 DEF env
      <4>2. ~ recycled => Fresh(c)' /\ Follows(c)'
        BY <1>2, <2>0, <2>2, <2>3, ThreadCalls
      <4>. QED
        BY <2>2, <3>1, <4>1, <4>2 DEF CallInv
    <3>2. CASE d # c
      BY <2>0, <2>2, <2>3, <3>2, OtherCalls DEF Others
    <3>. QED
      BY <3>1, <3>2
  <2>. QED
    BY <2>2, <2>4, <2>5, <2>6 DEF Inv
<1>3. CASE UNCHANGED vars
  <2>1. /\ UNCHANGED <<world, table, alive, clock, changes, last, used, recycled>>
        /\ UNCHANGED <<endpoints, inodes, lock, call>>
    BY <1>3 DEF vars
  <2>2. Keys' = Keys /\ Types' = Types
    BY <2>1 DEF Types, CallTypes, Keys
  <2>3. TableInv' /\ Local' /\ LastInv' /\ CacheInv'
    <3>1. TableInv' /\ Local'
      BY <2>1, <2>2 DEF Inv, TableInv, Local, platform
    <3>2. LastInv'
      <4>1. \A s, k : Serves(s, k)' <=> Serves(s, k)
        BY <2>1, Zenon DEF Serves, platform
      <4>. QED
        BY <2>1, <2>2, <4>1, Zenon DEF Inv, LastInv
    <3>3. CacheInv'
      <4>1. \A i, p : Names(i, p)' <=> Names(i, p)
        BY <2>1, Zenon DEF Names
      <4>. QED
        BY <2>1, <2>2, <4>1, Zenon DEF Inv, CacheInv
    <3>. QED
      BY <3>1, <3>2, <3>3
  <2>4. ASSUME NEW c \in Callers PROVE CallInv(c)'
    <3>1. CallInv(c) /\ Learns /\ UNCHANGED <<world, env>>
      BY <2>1 DEF Inv, Learns, Names, env
    <3>. QED
      BY <2>1, <3>1, OtherCalls DEF Inv
  <2>. QED
    BY <2>2, <2>3, <2>4 DEF Inv
<1>4. \A c \in world.callers : c \in Callers
  BY AttributionAssumption DEF Inv, Types
<1>. QED
  BY <1>1, <1>2, <1>3, <1>4 DEF Next, Thread

(* The inductive invariant of resolve_pid and process_name on a changing   *)
(* machine: types, table, ghost, caches, and every lookup in progress.     *)
THEOREM Invariant == Spec => []Inv
<1>1. Init => Inv
  BY InitInv
<1>2. Inv /\ [Next]_vars => Inv'
  BY NextInv
<1>. QED
  BY <1>1, <1>2, PTL DEF Spec

(* resolve_pid caches processes only, never a failure, and every lookup is *)
(* in a state of the model.                                                *)
THEOREM TypeCorrect == Spec => []TypeOK
<1>1. Inv => TypeOK
  BY DEF Inv, Types, CallTypes, CacheInv, TypeOK
<1>. QED
  BY <1>1, Invariant, PTL

(* No answer of resolve_pid is older than CACHE_TTL, however many threads  *)
(* fill the caches and whatever the table does while a lookup is on its    *)
(* way, as long as no descriptor is handed on and no inode or pid reused.  *)
THEOREM AnswerAlwaysFresh == Spec => []AnswerFresh
<1>1. Inv => AnswerFresh
  <2>. SUFFICES ASSUME Inv, NEW c \in Callers, call[c].pc = "done", call[c].pid \in Pids,
                       ~ recycled
                PROVE  /\ last[Key(call[c].flow)][call[c].pid] # None
                       /\ last[Key(call[c].flow)][call[c].pid] > call[c].now - Ttl
    BY DEF AnswerFresh
  <2>1. /\ last[Key(call[c].flow)][call[c].pid] >= 0
        /\ last[Key(call[c].flow)][call[c].pid] > call[c].now - Ttl
    BY DEF Inv, CallInv, Fresh
  <2>. QED
    BY <2>1 DEF None
<1>. QED
  BY <1>1, Invariant, PTL

(* A flow whose socket stays open during the lookup is attributed to a     *)
(* process, on Linux and macOS to the socket's own, unless a query failed, *)
(* the table outgrew its buffer or, on Windows, it listed a row without an *)
(* owner at the endpoint; as long as nothing is recycled. The socket is    *)
(* the connected one, but over UDP on Linux one bound to the port alone:   *)
(* the queries of query_socket_inode do not find a connected one.          *)
THEOREM OwnerAlwaysFound == Spec => []OwnerFound
<1>1. Inv => OwnerFound
  <2>. SUFFICES ASSUME Inv, NEW c \in Callers, NEW s \in table, call[c].pc = "done",
                       ~ call[c].disturbed, ~ recycled, s.inode \in call[c].stayed,
                       Origin(s, call[c].flow)
                PROVE  /\ call[c].pid \in Pids
                       /\ ~ call[c].hit /\ platform # "windows" => call[c].pid \in s.holders
    BY DEF OwnerFound
  <2>1. /\ call[c].pid \in Pids
        /\ ~ call[c].hit /\ platform # "windows" => call[c].pid = s.owner
    BY DEF Inv, CallInv, Follows
  <2>2. s.inode # 0
    BY AttributionAssumption DEF Inv, Types, CallInv, Shape
  <2>3. s.holders = {s.owner}
    BY <2>2 DEF Inv, TableInv
  <2>. QED
    BY <2>1, <2>3
<1>. QED
  BY <1>1, Invariant, PTL

(* scan_pcblist and the two passes of resolve_pid_udp_v4 prefer a socket   *)
(* on the flow's address to a wildcard one, in a table of any size and     *)
(* order.                                                                  *)
THEOREM ExactAlwaysBeforeWildcard == Spec => []ExactBeforeWildcard
<1>1. Inv => ExactBeforeWildcard
  <2>. SUFFICES ASSUME Inv, NEW f \in world.flows,
                       platform = "macos" \/ (platform = "windows" /\ f.udp /\ ~f.ip.v6),
                       NEW e \in Rows(f, f.udp), e.owner > 0, e.ip = f.ip, e.port = f.port
                PROVE  Resolve(Rows(f, f.udp), f, f.udp) \in
                         {s.owner : s \in {s \in Rows(f, f.udp) :
                                             s.owner > 0 /\ s.ip = f.ip /\ s.port = f.port}}
    BY DEF ExactBeforeWildcard
  <2>. DEFINE rows == Rows(f, f.udp)
              exact == {s \in rows : s.owner > 0 /\ s.ip = f.ip /\ s.port = f.port}
  <2>0. Types /\ TableInv /\ f \in Flow /\ f.ip \in Ip
    BY AttributionAssumption DEF Inv, Types, Flow
  <2>1. ASSUME NEW hits \in SUBSET rows, hits # {}
        PROVE  \E s \in hits : FirstOwner(hits) = s.owner
    <3>1. changes \in Nat /\ \A s \in hits : s.place \in Int /\ -changes <= s.place
      BY <2>0 DEF Rows, Types, TableInv, Socket
    <3>. QED
      BY <2>1, <3>1, FirstOwnerIs
  <2>2. \A s \in rows : s \in Socket /\ s.ip \in Ip /\ s.owner \in Pids \cup {0}
    BY <2>0 DEF Rows, Types, Socket
  <2>3. CASE platform = "macos"
    <3>. DEFINE Hit(s) == Specificity(s, f) > 0 /\ \A r \in rows : ~ Better(r, s, f)
    <3>1. \A s \in rows : Specificity(s, f) \in 0..3
      BY DEF Specificity
    <3>2. Specificity(e, f) >= 1
      <4>1. e.ip.v6 = f.ip.v6 /\ ~ (e.owner <= 0)
        BY <2>2, PidsPositive
      <4>. QED
        BY <4>1 DEF Specificity
    <3>3. \E s \in rows : Hit(s)
      <4>1. CASE \E s \in rows : Specificity(s, f) = 3
        BY <3>1, <4>1 DEF Better
      <4>2. CASE /\ ~ \E s \in rows : Specificity(s, f) = 3
                 /\ \E s \in rows : Specificity(s, f) = 2
        BY <3>1, <4>2 DEF Better
      <4>3. CASE ~ \E s \in rows : Specificity(s, f) = 3 \/ Specificity(s, f) = 2
        BY <3>1, <3>2, <4>3 DEF Better
      <4>. QED
        BY <4>1, <4>2, <4>3
    <3>4. PICK h \in rows : Hit(h) /\ ScanPcblist(rows, f) = h.owner
      <4>1. {s \in rows : Hit(s)} \in SUBSET rows /\ {s \in rows : Hit(s)} # {}
        BY <3>3
      <4>2. PICK h \in {s \in rows : Hit(s)} : FirstOwner({s \in rows : Hit(s)}) = h.owner
        BY <2>1, <4>1, Zenon
      <4>. QED
        BY <4>2, Zenon DEF ScanPcblist
    <3>5. Specificity(h, f) >= Specificity(e, f) /\ Specificity(h, f) > 0
      BY <3>1, <3>4 DEF Better
    <3>6. h.ip.v6 = f.ip.v6 /\ h.port = f.port /\ h.owner > 0
      <4>1. h.ip.v6 = f.ip.v6 /\ h.port = f.port /\ ~ (h.owner <= 0)
        BY <3>5 DEF Specificity
      <4>. QED
        BY <2>2, <4>1, PidsPositive
    <3>7. h.ip = f.ip
      <4>1. CASE Specificity(h, f) >= 2
        BY <4>1 DEF Specificity
      <4>2. CASE Specificity(h, f) < 2
        <5>1. Unspecified(h.ip)
          <6>1. Specificity(h, f) = 1
            BY <3>1, <3>5, <4>2
          <6>. QED
            BY <6>1 DEF Specificity
        <5>2. Specificity(e, f) = 1
          BY <3>1, <3>2, <3>5, <4>2
        <5>3. Unspecified(f.ip)
          BY <5>2 DEF Specificity
        <5>. QED
          BY <2>0, <2>2, <3>6, <5>1, <5>3 DEF Unspecified, Ip
      <4>. QED
        BY <3>1, <4>1, <4>2
    <3>8. Resolve(rows, f, f.udp) = h.owner
      BY <2>3, <3>4 DEF Resolve
    <3>. QED
      BY <3>4, <3>6, <3>7, <3>8
  <2>4. CASE platform = "windows" /\ f.udp /\ ~f.ip.v6
    <3>1. \A s \in rows : s.owner > 0 /\ s.owner # None
      <4>1. \A s \in rows : s.owner # 0
        BY <2>0, <2>4, Zenon DEF Rows, TableInv
      <4>. QED
        BY <2>2, <4>1, PidsPositive
    <3>2. OnAddress(rows, f) = exact /\ e \in exact
      BY <3>1 DEF OnAddress
    <3>3. PICK h \in exact : FirstOwner(OnAddress(rows, f)) = h.owner
      BY <2>1, <3>2, Zenon
    <3>4. Resolve(rows, f, f.udp) = h.owner
      BY <2>4, <3>1, <3>3, Zenon DEF Resolve, ResolvePidUdpV4
    <3>. QED
      BY <3>3, <3>4
  <2>. QED
    BY <2>3, <2>4
<1>. QED
  BY <1>1, Invariant, PTL
=============================================================================
