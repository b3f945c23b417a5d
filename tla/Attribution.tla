----------------------------- MODULE Attribution -----------------------------
(* The process behind a flow: platform::resolve_pid and process_name on the   *)
(* three platforms, called once per flow by netstack::attribute from the      *)
(* worker threads of the runtime, while processes open, close and pass on     *)
(* sockets, exit and are replaced.                                            *)
(*                                                                            *)
(*   Linux    endpoint cache, three sock_diag queries, inode map, /proc walk  *)
(*   macOS    endpoint cache, pcblist_n sized and then fetched, best score    *)
(*   Windows  owner-PID table sized and then filled, first matching row       *)
(*                                                                            *)
(* The kernel's socket tables, the processes and the clock are external.      *)
EXTENDS Integers, FiniteSets

CONSTANTS
  Worlds,       \* scenarios: a platform, its worker threads, the flows asked
                \* about, the sockets there may be, and what may go wrong
                \* ("query", "unreadable", "name", "recycle")
  Pids,         \* process identifiers, positive integers
  Inodes,       \* socket inodes, positive integers
  Callers,      \* worker threads
  Ttl,          \* CACHE_TTL, in ticks
  MaxClock,     \* bound: ticks of the clock
  MaxChanges,   \* bound: changes of the socket tables and processes
  MaxSockets    \* bound: rows of the socket tables

Ip == [v6 : BOOLEAN, host : Nat]
Endpoint == [ip : Ip, port : Nat]
Flow == [udp : BOOLEAN, ip : Ip, port : Nat, peer : Endpoint]

(* A flow leaves for an address of its family that is not this machine's.     *)
OtherEnd(w, f) == f.peer.ip.v6 = f.ip.v6 /\ \A s \in w.shapes : s.ip # f.peer.ip

None == -1
NoPeer == [ip |-> [v6 |-> FALSE, host |-> 0], port |-> 0]

ASSUME AttributionAssumption ==
  /\ \A w \in Worlds : /\ w.platform \in {"linux", "macos", "windows"}
                        /\ w.callers \subseteq Callers
                        /\ w.flows \subseteq Flow /\ w.shapes \subseteq Flow
                        /\ \A f \in w.flows : OtherEnd(w, f)
  /\ Pids \subseteq Nat \ {0} /\ Inodes \subseteq Nat \ {0}
  /\ Ttl \in Nat \ {0} /\ MaxClock \in Nat /\ MaxChanges \in Nat

Empty == [pid |-> None, at |-> 0]

VARIABLES
  world,
  table,        \* the kernel's sockets
  alive,        \* the processes that exist
  clock,
  endpoints,    \* ProcessCache.endpoints
  inodes,       \* ProcessCache.inodes, None for an inode the map lacks
  lock,         \* the holder of the CACHE mutex
  call,         \* the state of each worker thread's call
  changes,
  last,         \* ghost: when a process last held a socket at an endpoint
  used,         \* ghost: inodes given out so far
  recycled      \* ghost: an inode, a pid or a socket has changed hands

platform == world.platform
Faults == world.faults

env == <<table, alive, clock, changes, last, used, recycled>>
cache == <<endpoints, inodes, lock>>
vars == <<world, table, alive, clock, changes, last, used, recycled,
          endpoints, inodes, lock, call>>

-----------------------------------------------------------------------------
(* Sockets and flows. A flow is [udp, ip, port, peer]; a socket has the same  *)
(* fields, peer being NoPeer when it is not connected, and an inode, the      *)
(* processes that hold a descriptor of it, the owner the tables report, and   *)
(* its place in the order they are listed in.                                 *)

Unspecified(ip) == ip.host = 0

Wildcard(ip) == [ip EXCEPT !.host = 0]

Key(f) == [udp |-> f.udp, ip |-> f.ip, port |-> f.port]

Keys == {Key(f) : f \in world.flows}

Connected(s, f) ==
  /\ s.peer # NoPeer
  /\ s.udp = f.udp /\ s.ip = f.ip /\ s.port = f.port /\ s.peer = f.peer

Serves(s, k) ==
  /\ s.udp = k.udp \/ (platform = "windows" /\ k.udp)
  /\ s.port = k.port /\ s.ip \in {k.ip, Wildcard(k.ip)}

LastHeld(t, now) ==
  [k \in Keys |-> [p \in Pids |->
     IF \E s \in t : Serves(s, k) /\ p \in s.holders THEN now ELSE last[k][p]]]

NoMap == [i \in Inodes |-> None]

Idle == [pc |-> "idle", flow |-> NoPeer, now |-> 0, query |-> 0, inode |-> 0,
         size |-> 0, udp |-> FALSE, unscanned |-> {}, found |-> NoMap,
         pid |-> None, name |-> None, exe |-> FALSE, hit |-> FALSE, disturbed |-> FALSE,
         stayed |-> {}]

(* The end of resolve_pid. In attribute a flow without a process has the      *)
(* empty name, and process_name is asked about any other.                     *)
Answer(c, pid, hit, disturbed) ==
  call' = [call EXCEPT ![c] =
    [Idle EXCEPT !.pc = IF pid = None THEN "done" ELSE "name",
                 !.flow = call[c].flow, !.now = call[c].now, !.pid = pid,
                 !.hit = hit, !.disturbed = disturbed, !.stayed = call[c].stayed]]

At(c, at) == call[c].pc = at /\ UNCHANGED <<world, env>>

Unlocked == lock = None

-----------------------------------------------------------------------------
(* netstack::attribute calls resolve_pid; the cache is looked at under the    *)
(* mutex, which is free again while the kernel is asked.                      *)

Call(c, f) ==
  /\ call[c].pc \in {"idle", "done"}
  /\ call' = [call EXCEPT ![c] =
       [Idle EXCEPT !.pc = IF platform = "windows" THEN "size" ELSE "check",
                    !.flow = f, !.now = clock, !.udp = f.udp,
                    !.stayed = {s.inode : s \in table} \ {0}]]
  /\ UNCHANGED <<world, env, cache>>

(* Mutant: the mutex is kept while the kernel is asked. *)
CheckCacheKeepsLock(c) ==
  LET entry == endpoints[Key(call[c].flow)]
      now   == call[c].now
      hit   == entry # Empty /\ now - entry.at < Ttl
  IN /\ At(c, "check") /\ Unlocked
     /\ IF hit
        THEN Answer(c, entry.pid, TRUE, call[c].disturbed)
        ELSE call' = [call EXCEPT ![c].pc = IF platform = "linux" THEN "query" ELSE "size",
                                  ![c].query = IF platform = "linux" THEN 1 ELSE 0]
     /\ lock' = IF hit THEN None ELSE c
     /\ UNCHANGED <<endpoints, inodes>>

CheckCache(c) ==
  LET entry == endpoints[Key(call[c].flow)]
      now   == call[c].now
  IN /\ At(c, "check") /\ Unlocked
     /\ IF entry # Empty /\ now - entry.at < Ttl
        THEN Answer(c, entry.pid, TRUE, call[c].disturbed)
        ELSE call' = [call EXCEPT ![c].pc = IF platform = "linux" THEN "query" ELSE "size",
                                  ![c].query = IF platform = "linux" THEN 1 ELSE 0]
     /\ UNCHANGED cache

(* Mutant: the entry is dated when it is made. *)
InsertLate(c) ==
  /\ At(c, "insert") /\ Unlocked
  /\ endpoints' = [endpoints EXCEPT ![Key(call[c].flow)] =
                     [pid |-> call[c].pid, at |-> clock]]
  /\ Answer(c, call[c].pid, FALSE, call[c].disturbed)
  /\ UNCHANGED <<inodes, lock>>

Insert(c) ==
  /\ At(c, "insert") /\ Unlocked
  /\ endpoints' = [endpoints EXCEPT ![Key(call[c].flow)] =
                     [pid |-> call[c].pid, at |-> call[c].now]]
  /\ Answer(c, call[c].pid, FALSE, call[c].disturbed)
  /\ UNCHANGED <<inodes, lock>>

(* process_name. What is read of a process is a text, or nothing, or fails;   *)
(* it fails for a process that is gone.                                       *)
LinuxName(pid, comm, exe) == IF comm = "text" \/ (comm = "empty" /\ exe) THEN pid ELSE None

MacosName(pid, comm) == IF comm = "text" THEN pid ELSE None

WindowsName(pid, path) == IF pid # 0 /\ path = "text" THEN pid ELSE None

ProcessName(c) ==
  LET pid   == call[c].pid
      fault == "name" \in Faults
  IN /\ At(c, "name")
     /\ \E read \in {"text", "empty", "unreadable"}, exe \in BOOLEAN :
          /\ IF pid \in alive THEN ~fault => read = "text" /\ exe
             ELSE read = "unreadable" /\ ~exe
          /\ call' = [call EXCEPT
               ![c].pc = "done", ![c].exe = exe,
               ![c].name = CASE platform = "linux"   -> LinuxName(pid, read, exe)
                             [] platform = "macos"   -> MacosName(pid, read)
                             [] platform = "windows" -> WindowsName(pid, read)]
     /\ UNCHANGED cache

-----------------------------------------------------------------------------
(* Linux. query_socket_inode asks three times, with the endpoints of the      *)
(* flow, with its local address and with the wildcard; the first answer with  *)
(* a non-zero inode ends the chain.                                           *)

(* What the kernel finds for a packet to `local` from `remote`: the socket    *)
(* connected so, else one bound to the address, else one bound to the port.   *)
Lookup(udp, local, remote) ==
  LET Bound(ip) == {s \in table : s.udp = udp /\ s.ip = ip /\ s.port = local.port}
      Free(ip)  == {s \in Bound(ip) : s.peer = NoPeer}
      connected == {s \in Bound(local.ip) : s.peer # NoPeer /\ s.peer = remote}
  IN IF connected # {} THEN connected
     ELSE IF Free(local.ip) # {} THEN Free(local.ip)
     ELSE Free(Wildcard(local.ip))

(* sock_diag: the source of a socket id is the local end for TCP, and for UDP *)
(* the remote one, as in a packet that is received (__udp4_lib_lookup).       *)
SockDiag(udp, id) ==
  LET source      == [ip |-> id.src, port |-> id.sport]
      destination == [ip |-> id.dst, port |-> id.dport]
  IN IF udp THEN Lookup(udp, destination, source) ELSE Lookup(udp, source, destination)

(* Mutant: both protocols are asked the way UDP is. *)
SocketIdReceive(k, f) ==
  LET local == IF k = 3 THEN Wildcard(f.ip) ELSE f.ip
  IN [sport |-> IF k = 1 THEN f.peer.port ELSE 0, dport |-> f.port,
      src |-> local, dst |-> IF k = 1 THEN f.peer.ip ELSE local]

SocketId(k, f) ==
  LET local  == IF k = 3 THEN Wildcard(f.ip) ELSE f.ip
      remote == IF k = 1 THEN f.peer.port ELSE 0
  IN IF f.udp
     THEN [sport |-> remote, dport |-> f.port,
           src |-> local, dst |-> IF k = 1 THEN f.peer.ip ELSE local]
     ELSE [sport |-> f.port, dport |-> remote,
           src |-> local, dst |-> IF k = 1 THEN f.peer.ip ELSE Wildcard(f.ip)]

QuerySocketInode(k, f) == SockDiag(f.udp, SocketId(k, f))

InodeOf(s) == IF s.inode = 0 THEN None ELSE s.inode

NextQuery(c, disturbed) ==
  IF call[c].query = 3
  THEN Answer(c, None, FALSE, disturbed)
  ELSE call' = [call EXCEPT ![c].query = @ + 1, ![c].disturbed = disturbed]

QueryOne(c) ==
  LET found == QuerySocketInode(call[c].query, call[c].flow)
  IN /\ At(c, "query")
     /\ \/ "query" \in Faults /\ NextQuery(c, TRUE)
        \/ found = {} /\ NextQuery(c, call[c].disturbed)
        \/ \E s \in found :
             IF InodeOf(s) = None
             THEN NextQuery(c, call[c].disturbed)
             ELSE call' = [call EXCEPT ![c].pc = "inode", ![c].query = 0,
                                       ![c].inode = InodeOf(s)]
     /\ UNCHANGED cache

(* inode_to_pid holds the mutex over the lookup, and over the walk of /proc   *)
(* that follows a miss.                                                       *)
InodeToPid(c) ==
  LET pid == inodes[call[c].inode]
  IN /\ At(c, "inode") /\ Unlocked
     /\ IF pid # None
        THEN /\ call' = [call EXCEPT ![c].pc = "insert", ![c].inode = 0, ![c].pid = pid]
             /\ UNCHANGED lock
        ELSE /\ lock' = c
             /\ call' = [call EXCEPT ![c].pc = "scan", ![c].unscanned = Pids]
     /\ UNCHANGED <<endpoints, inodes>>

HeldBy(p) == {s.inode : s \in {r \in table : p \in r.holders}}

ScanSocketInodes(c) ==
  /\ At(c, "scan")
  /\ \E p \in call[c].unscanned :
       /\ \A q \in call[c].unscanned : p <= q
       /\ \/ call' = [call EXCEPT
               ![c].unscanned = @ \ {p},
               ![c].found = [i \in Inodes |->
                  IF @[i] = None /\ i \in HeldBy(p) THEN p ELSE @[i]]]
          \/ /\ "unreadable" \in Faults
             /\ call' = [call EXCEPT ![c].unscanned = @ \ {p}, ![c].disturbed = TRUE]
  /\ UNCHANGED cache

ScanDone(c) ==
  LET pid == call[c].found[call[c].inode]
  IN /\ At(c, "scan") /\ call[c].unscanned = {}
     /\ inodes' = call[c].found
     /\ lock' = None
     /\ IF pid = None
        THEN Answer(c, None, FALSE, call[c].disturbed)
        ELSE call' = [call EXCEPT ![c].pc = "insert", ![c].inode = 0,
                                  ![c].found = NoMap, ![c].pid = pid]
     /\ UNCHANGED endpoints

-----------------------------------------------------------------------------
(* macOS. scan_pcblist keeps the first record of the highest specificity:     *)
(* 3 the connected socket, 2 the local address, 1 a wildcard bind.            *)

Specificity(s, f) ==
  IF s.ip.v6 # f.ip.v6 \/ s.port # f.port \/ s.owner <= 0 THEN 0
  ELSE IF s.peer # NoPeer /\ s.ip = f.ip /\ s.peer = f.peer THEN 3
  ELSE IF ~Unspecified(s.ip) /\ s.ip = f.ip THEN 2
  ELSE IF Unspecified(s.ip) THEN 1
  ELSE 0

Better(candidate, best, f) == Specificity(candidate, f) > Specificity(best, f)

(* next_record_pair stops at the first pair the buffer does not hold whole.   *)
WholePairs(rows, size) ==
  {s \in rows : Cardinality({r \in rows : r.place < s.place}) < size}

(* The owner of the row that is listed first. *)
FirstOwner(rows) ==
  IF rows = {} THEN None
  ELSE (CHOOSE s \in rows : \A r \in rows : s.place <= r.place).owner

ScanPcblist(rows, f) ==
  FirstOwner({s \in rows : /\ Specificity(s, f) > 0
                           /\ \A r \in rows : ~ Better(r, s, f)})

(* Windows. The tables list one protocol and one family; only a UDP lookup    *)
(* looks at sockets bound to the unspecified address.                         *)

(* The rows of a socket on the flow's own address, and on any address. *)
OnAddress(rows, f) == {s \in rows : s.ip = f.ip /\ s.port = f.port}

OnAny(rows, f) == {s \in rows : Unspecified(s.ip) /\ s.port = f.port}

ResolvePidTcpV4(rows, f) == FirstOwner(OnAddress(rows, f))

ResolvePidTcpV6(rows, f) == FirstOwner(OnAddress(rows, f))

(* Mutant: one pass for both tests. *)
ResolvePidUdpOnePass(rows, f) == FirstOwner(OnAddress(rows, f) \cup OnAny(rows, f))

ResolvePidUdpV4(rows, f) ==
  LET exact == FirstOwner(OnAddress(rows, f))
  IN IF exact # None THEN exact ELSE FirstOwner(OnAny(rows, f))

ResolvePidUdpV6(rows, f) == FirstOwner(OnAddress(rows, f) \cup OnAny(rows, f))

Resolve(rows, f, udp) ==
  CASE platform = "macos"  -> ScanPcblist(rows, f)
    [] platform # "macos" /\ udp /\ f.ip.v6   -> ResolvePidUdpV6(rows, f)
    [] platform # "macos" /\ udp /\ ~f.ip.v6  -> ResolvePidUdpV4(rows, f)
    [] platform # "macos" /\ ~udp /\ f.ip.v6  -> ResolvePidTcpV6(rows, f)
    [] platform # "macos" /\ ~udp /\ ~f.ip.v6 -> ResolvePidTcpV4(rows, f)

(* The rows of the table a lookup asks for. macOS lists both families.        *)
Rows(f, udp) ==
  {s \in table : s.udp = udp /\ (platform = "macos" \/ s.ip.v6 = f.ip.v6)}

(* Mutant: a lookup without a result is cached. *)
ResolvedCachesFailure(c, pid, disturbed) ==
  IF platform = "windows"
  THEN Answer(c, pid, FALSE, disturbed)
  ELSE call' = [call EXCEPT ![c].pc = "insert", ![c].pid = pid, ![c].size = 0,
                            ![c].disturbed = disturbed]

(* resolve_pid on Windows goes on from the UDP to the TCP table.              *)
Resolved(c, pid, disturbed) ==
  IF platform = "windows" /\ pid = None /\ call[c].udp
  THEN call' = [call EXCEPT ![c].pc = "size", ![c].udp = FALSE, ![c].size = 0,
                            ![c].disturbed = disturbed]
  ELSE IF pid = None \/ platform = "windows"
  THEN Answer(c, pid, FALSE, disturbed)
  ELSE call' = [call EXCEPT ![c].pc = "insert", ![c].pid = pid, ![c].size = 0,
                            ![c].disturbed = disturbed]

(* Windows takes the row of a socket that has lingered after its process, and *)
(* whose owner is 0, for that of the flow (noted in the ghost `disturbed`).   *)
Ownerless(rows, f) == platform = "windows" /\ \E r \in OnAddress(rows, f) : r.owner = 0

(* pcblist_table and fetch_table ask for the size of the table first,         *)
SizeTable(c) ==
  /\ At(c, "size")
  /\ \/ call' = [call EXCEPT ![c].pc = "fetch",
                             ![c].size = Cardinality(Rows(call[c].flow, call[c].udp))]
     \/ "query" \in Faults /\ Resolved(c, None, TRUE)
  /\ UNCHANGED cache

(* and for its rows in a second call. A table that has grown in between does  *)
(* not fit: the call fails or, on macOS, may return the rows that do fit.     *)
FetchTable(c) ==
  LET f    == call[c].flow
      rows == Rows(f, call[c].udp)
      fits == Cardinality(rows) <= call[c].size
  IN /\ At(c, "fetch")
     /\ \/ /\ fits
           /\ Resolved(c, Resolve(rows, f, call[c].udp), call[c].disturbed \/ Ownerless(rows, f))
        \/ ~fits /\ Resolved(c, None, TRUE)
        \/ /\ ~fits /\ platform = "macos"
           /\ Resolved(c, Resolve(WholePairs(rows, call[c].size), f, call[c].udp), TRUE)
        \/ "query" \in Faults /\ Resolved(c, None, TRUE)
     /\ UNCHANGED cache

-----------------------------------------------------------------------------
(* The machine: processes and their sockets, external to the crate.           *)

SetTable(t) ==
  /\ table' = t
  /\ last' = LastHeld(t, clock)
  /\ call' = [c \in Callers |-> [call[c] EXCEPT
       !.stayed = @ \cap {s.inode : s \in t}]]

Changed ==
  /\ changes < MaxChanges
  /\ changes' = changes + 1
  /\ UNCHANGED <<world, clock, cache>>

(* A new socket is listed before or after all others; sock_diag, which is     *)
(* asked about one at a time, shows no order.                                 *)
NewPlaces ==
  IF table = {} \/ platform = "linux" THEN {0}
  ELSE {n \in {s.place - 1 : s \in table} : \A s \in table : n < s.place} \cup
       {n \in {s.place + 1 : s \in table} : \A s \in table : s.place < n}

Open(shape, p, i) ==
  /\ Changed /\ p \in alive /\ Cardinality(table) < MaxSockets
  /\ \A s \in table :
       /\ s.inode # i
       /\ <<s.udp, s.ip, s.port, s.peer>> # <<shape.udp, shape.ip, shape.port, shape.peer>>
  /\ i \in used => "recycle" \in Faults
  /\ i \notin used => \A j \in Inodes \ used : i <= j
  /\ \E n \in NewPlaces :
       SetTable(table \cup
         {[udp |-> shape.udp, ip |-> shape.ip, port |-> shape.port, peer |-> shape.peer,
           inode |-> i, owner |-> p, holders |-> {p}, place |-> n]})
  /\ used' = used \cup {i}
  /\ recycled' = (recycled \/ i \in used)
  /\ UNCHANGED alive

(* A process closes its descriptor. The last one closes the socket, and a     *)
(* connected TCP socket may stay listed for a while, without an owner.        *)
Close(s, p) ==
  LET Becomes(t) == SetTable((table \ {s}) \cup t) IN
  /\ Changed /\ p \in s.holders
  /\ \/ s.holders # {p} /\ Becomes({[s EXCEPT !.holders = @ \ {p}]})
     \/ s.holders = {p} /\ Becomes({})
     \/ /\ s.holders = {p} /\ ~s.udp /\ s.peer # NoPeer
        /\ Becomes({[s EXCEPT !.inode = 0, !.owner = 0, !.holders = {}]})
  /\ UNCHANGED <<alive, used, recycled>>

(* A socket that lingers leaves the tables. *)
Forget(s) ==
  /\ Changed /\ s.inode = 0
  /\ SetTable(table \ {s})
  /\ UNCHANGED <<alive, used, recycled>>

(* A descriptor is inherited or handed over; macOS lists the latest user.     *)
Pass(s, p) ==
  /\ "recycle" \in Faults /\ Changed
  /\ p \in alive \ s.holders /\ s.holders # {}
  /\ SetTable((table \ {s}) \cup
       {[s EXCEPT !.holders = @ \cup {p},
                  !.owner = IF platform = "macos" THEN p ELSE @]})
  /\ recycled' = TRUE
  /\ UNCHANGED <<alive, used>>

Exit(p) ==
  LET without == {[s EXCEPT !.holders = @ \ {p}] : s \in table} IN
  /\ Changed /\ p \in alive
  /\ alive' = alive \ {p}
  /\ SetTable({s \in without : s.holders # {} \/ s.inode = 0})
  /\ UNCHANGED <<used, recycled>>

(* A new process is given the identifier of one that has exited.              *)
Respawn(p) ==
  /\ "recycle" \in Faults /\ Changed /\ p \notin alive
  /\ alive' = alive \cup {p}
  /\ recycled' = TRUE
  /\ UNCHANGED <<table, last, used, call>>

Tick ==
  /\ clock < MaxClock
  /\ clock' = clock + 1
  /\ last' = LastHeld(table, clock')
  /\ UNCHANGED <<world, table, alive, changes, used, recycled, cache, call>>

-----------------------------------------------------------------------------
Init ==
  /\ world \in Worlds
  /\ table = {} /\ alive = Pids /\ clock = 0 /\ changes = 0
  /\ last = [k \in Keys |-> [p \in Pids |-> None]]
  /\ used = {} /\ recycled = FALSE
  /\ endpoints = [k \in Keys |-> Empty] /\ inodes = NoMap /\ lock = None
  /\ call = [c \in Callers |-> Idle]

Acquire(c) == CheckCache(c) \/ InodeToPid(c) \/ Insert(c)

Ask(c) ==
  \/ QueryOne(c) \/ ScanSocketInodes(c) \/ ScanDone(c)
  \/ SizeTable(c) \/ FetchTable(c) \/ ProcessName(c)

Machine ==
  \/ \E shape \in world.shapes, p \in Pids, i \in Inodes : Open(shape, p, i)
  \/ \E s \in table, p \in Pids : Close(s, p) \/ Pass(s, p)
  \/ \E s \in table : Forget(s)
  \/ \E p \in Pids : Exit(p) \/ Respawn(p)
  \/ Tick

Next ==
  \/ \E c \in world.callers :
       \/ \E f \in world.flows : Call(c, f)
       \/ Acquire(c)
       \/ Ask(c)
  \/ Machine

Spec == Init /\ [][Next]_vars

(* A thread inside a lookup is scheduled, the kernel answers or the receive   *)
(* timeout expires, and the mutex lets every waiter in eventually.            *)
FairSpec ==
  Spec /\ \A c \in Callers : SF_vars(Acquire(c)) /\ WF_vars(Ask(c))

-----------------------------------------------------------------------------
(* The lookups range over the states below, and the caches hold positive      *)
(* answers only: resolve_pid inserts in its `if let Some(pid)` branch.        *)
TypeOK ==
  /\ \A c \in Callers :
       /\ call[c].pc \in {"idle", "check", "query", "inode", "scan", "insert",
                          "size", "fetch", "name", "done"}
       /\ call[c].pid \in Pids \cup {None, 0} /\ call[c].name \in Pids \cup {None}
  /\ lock \in Callers \cup {None}
  /\ \A k \in Keys : endpoints[k] # Empty => endpoints[k].pid \in Pids
  /\ inodes \in [Inodes -> Pids \cup {None}]

(* An answer is never older than the time CACHE_TTL allows: the process named *)
(* held a socket at the flow's local endpoint less than Ttl before the call   *)
(* began. It rests on resolve_pid storing the `now` it read before it asked   *)
(* the kernel. Sockets that are passed on, recycled inodes and recycled pids  *)
(* are excepted: the inode map has no expiry.                                 *)
AnswerFresh ==
  \A c \in Callers :
    LET a == call[c] IN
    a.pc = "done" /\ a.pid \in Pids /\ ~recycled =>
      /\ last[Key(a.flow)][a.pid] # None
      /\ last[Key(a.flow)][a.pid] > a.now - Ttl

(* The socket of a flow: the one connected to its peer, but over UDP on Linux *)
(* one bound to the port alone. The first query of query_socket_inode for UDP *)
(* has the addresses the other way round and finds no connected socket (see   *)
(* ConnectedUdpFound), whatever the address it is bound to.                   *)
Origin(s, f) ==
  IF platform = "linux" /\ f.udp
  THEN s.udp /\ s.port = f.port /\ s.peer = NoPeer /\ s.ip = Wildcard(f.ip)
  ELSE Connected(s, f)

(* A flow whose socket is open during the whole lookup is attributed to a     *)
(* process, unless a query failed, the table outgrew its buffer or, on        *)
(* Windows, it listed a row without an owner at the endpoint. On Linux and    *)
(* macOS, where the remote endpoint is part of the question, an answer that   *)
(* is not from the cache is a holder of that very socket. The exceptions of   *)
(* AnswerFresh apply: a descriptor handed to a process the walk of /proc has  *)
(* passed already is not seen by it.                                          *)
OwnerFound ==
  \A c \in Callers : \A s \in table :
    LET a == call[c] IN
    (/\ a.pc = "done" /\ ~a.disturbed /\ ~recycled
     /\ s.inode \in a.stayed /\ Origin(s, a.flow)) =>
      /\ a.pid \in Pids
      /\ ~a.hit /\ platform # "windows" => a.pid \in s.holders

(* In a table at rest a socket bound to the flow's local address is preferred *)
(* to one bound to the wildcard, wherever the two are listed: scan_pcblist,   *)
(* and the two passes of resolve_pid_udp_v4.                                  *)
ExactBeforeWildcard ==
  \A f \in world.flows :
    LET rows  == Rows(f, f.udp)
        exact == {s \in rows : s.owner > 0 /\ s.ip = f.ip /\ s.port = f.port}
    IN platform = "macos" \/ (platform = "windows" /\ f.udp /\ ~f.ip.v6) =>
         (exact # {} => Resolve(rows, f, f.udp) \in {s.owner : s \in exact})

(* Every lookup ends: the receive timeout bounds each query, and resolve_pid  *)
(* has released the mutex before inode_to_pid and the insertion take it.      *)
CallsReturn ==
  \A c \in Callers : call[c].pc = "check" ~> call[c].pc = "done"

-----------------------------------------------------------------------------
(* Sentences of the sources that do not hold in general.                      *)

(* linux/process.rs, inode_to_pid: the inode cache is "never less accurate"   *)
(* than a walk of /proc, so an answer that is not an endpoint-cache hit names *)
(* a process that held a socket at the endpoint during the lookup.            *)
NeverLessAccurate ==
  \A c \in Callers :
    LET a == call[c] IN
    a.pc = "done" /\ a.pid \in Pids /\ ~a.hit => last[Key(a.flow)][a.pid] >= a.now

(* linux/process.rs, inode_to_pid: "a socket that exists at query time cannot *)
(* be absent from a scan taken at that same moment".                          *)
ScanMissesNothing ==
  \A c \in Callers : \A s \in table :
    LET a == call[c] IN
    (/\ a.pc = "done" /\ ~a.disturbed
     /\ s.inode \in a.stayed /\ Connected(s, a.flow)) => a.pid # None

(* linux/process.rs, process_name: "fall back to the executable basename for  *)
(* processes whose comm is empty or unreadable", so a process whose           *)
(* executable can be read has a name.                                         *)
NameFallsBack ==
  \A c \in Callers :
    platform = "linux" /\ call[c].pc = "done" /\ call[c].exe => call[c].name # None

(* macos/process.rs, scan_pcblist: among sockets that share a local endpoint  *)
(* "the remote endpoint is what tells them apart", for answers of the cache   *)
(* as well.                                                                   *)
RemoteTellsApart ==
  \A c \in Callers : \A s \in table :
    LET a == call[c] IN
    (/\ a.pc = "done" /\ ~a.disturbed /\ ~recycled
     /\ s.inode \in a.stayed /\ Connected(s, a.flow)) => a.pid \in s.holders

(* macos/process.rs, pcblist_table: a truncated dump is "exactly what the     *)
(* per-endpoint cache absorbs", so a live flow is attributed nevertheless.    *)
TruncationAbsorbed ==
  \A c \in Callers : \A s \in table :
    LET a == call[c] IN
    (a.pc = "done" /\ s.inode \in a.stayed /\ Connected(s, a.flow)) => a.pid # None

(* linux/process.rs, resolves_own_process_for_live_sockets: a "connected UDP *)
(* socket should resolve to our PID", here when the cache does not answer.    *)
ConnectedUdpFound ==
  \A c \in Callers : \A s \in table :
    LET a == call[c] IN
    (/\ platform = "linux" /\ a.pc = "done" /\ ~a.disturbed /\ ~recycled /\ ~a.hit
     /\ s.udp /\ s.inode \in a.stayed /\ Connected(s, a.flow)) => a.pid \in s.holders

(* windows/process.rs, resolve_pid: "the PID that owns the given local        *)
(* endpoint, or `None` if not found", so it is the identifier of a process.   *)
OwnerOrNone ==
  \A c \in Callers :
    platform = "windows" /\ call[c].pc = "done" => call[c].pid \in Pids \cup {None}
=============================================================================
