# Verification of ace-tun

ace-tun diverts a machine's traffic into a TUN adapter, decides flow by flow
what to do with it (direct, upstream proxy, block), and must put the network
back as it was whatever happens. This directory holds TLA+ models of that
engine, the TLC configurations that check them, and TLAPS proofs.
`PROJECT.json` lists components, runs, mutants, the map from definitions to
source lines, findings, hazards and theorems.

## The system

| part | source | state | operations | model |
|---|---|---|---|---|
| engine lifecycle | `lib.rs` | `Shared::running`, `TunRedirect::running` (a `RunState`), `Shared::iface` | `build`, `start`, `stop`, `drop`, `is_running`, `watchdog` | `Lifecycle` |
| tunnel adapter | `platform/*/adapter.rs` | the `routes` vector, the session | `create`, `remove_routes`, `shutdown_session`, `Drop` | `Lifecycle` |
| route configuration | `platform/*/netcfg.rs`, `platform/mod.rs` | the kernel's table | `add_route`, `delete_route`, `discover` | `RouteTable`, `Encodings` (the bytes of addresses and masks) |
| packet device | `device.rs` | reader thread, channel, readiness | `new`, `join`, `poll_read`, `poll_write` | `Device`; `Lifecycle` has the thread as far as teardown waits for it |
| flow dispatch | `netstack.rs`, `state.rs` | one task per flow, `Stats` | `run`, `decide`, `handle_tcp`, `handle_udp` | `Netstack` |
| outbound sockets | `dial.rs`, `platform/*/dial.rs` | none | `tcp`, `udp`, `pin_socket` | `Netstack`, `Encodings` (the byte order of the option) |
| proxy client | `proxy.rs`, `config.rs` | none | `connect_via_proxy` | `Netstack` (one step), `ProxyHandshake` (the exchange) |
| DNS cache | `dns.rs` | address to name, with expiry | `store`, `lookup`, `snoop_response` | `Netstack` (the cache), `DnsAnswers` (the packet parser) |
| rule engine | `rule.rs` | the compiled list | `evaluate`, pattern matching | `RuleSet`, `Evaluate`, `AddressPatterns`, `TokenLists` |
| process attribution | `platform/*/process.rs` | endpoint and inode caches, a mutex | `resolve_pid`, `process_name` | `Attribution`; its outcomes, in `Netstack` |
| callbacks, errors, `examples/`, `build.rs` | | none | | not modelled |

How they interact: `start` discovers the physical interface, creates the
adapter, installs the routes and spawns the netstack and a watchdog. The
netstack accepts flows; each gets a task that attributes it, asks the rules and
relays it over a socket of the engine. Such a socket must not come back through
the tunnel. The watchdog waits for the netstack to end, by the signal of `stop`
or by itself, and takes the adapter down.

What is hard here: callers overlap with each other and with the watchdog; the
adapter may be torn down by any of three actors; `create` may fail after any
route; a stop may be cancelled, the runtime may go away, the process may be
killed; the machine changes networks; attribution, pinning and the proxy fail
independently of each other; DNS answers race with the flows they lead to; the
owner of a flow is looked up in tables that change during the lookup, through
caches that several threads share; packets pass a thread, a channel and a
waker.

## Modules

**RouteTable** is the forwarding table. A route is a prefix, an interface and,
for the properties only, who added it. The prefixes are the two halves of each
family's default and one multicast prefix per family. Adding and deleting are
defined per platform: Linux and Windows delete by prefix and interface, macOS
by prefix. All three take "already exists" for success; on Linux and macOS that
is a route for the same prefix through any interface.

**Lifecycle** composes callers, tasks and adapters over that table. `pc[c]` is
where a caller is in `start` or `stop`; a call is one action per effect that
another actor can see. `phase[g]` is the adapter of attempt `g` (`held` is
`Some` in the shared mutex, `removing` has been taken out), `handles[g]` its
routes vector. `StartCas` … `StartPublish` are `start` and `create`, `StopTake`
… `StopRemoved` are `stop`, `DropEngine` and `DropAbort` are `Drop`,
`WatchdogTake` … `WatchdogDone` the watchdog, `RemoveRoute` and `CloseAdapter`
the teardown of an adapter by whoever holds it. `Faults` selects what may fail.

**EngineService** is the abstract promise to a program that makes one call at a
time: traffic is diverted only between a start and the following teardown, and
a teardown that has begun ends with the traffic restored. **LifecycleService**
holds the refinement mapping (`ServiceImplemented`): the mode is the phase of
the one attempt that is neither unused nor over, and traffic is diverted as
long as a split route is in the table.

**RuleSet** defines compiled rules, matching, and the declarative `Outcome`:
the first matching rule that is not a full wildcard, else the first matching
full wildcard, else Direct. **Evaluate** is the loop of `RuleSet::evaluate`.
Lists of names, hosts and ports are the set of what they match.
**AddressPatterns** is the matching of single patterns (exact, wildcard, CIDR,
range, ports): an IPv4 address is a tuple of octets, an IPv6 address a tuple of
bits, since masks are about bits. **TokenLists** is the splitting of process
lists, the stripping of `.exe` and the globs, on texts of a few symbols, one of
them a letter of three bytes, inside which a cut panics (the others, `.exe`
among them, may be cut anywhere); **Encodings** has octets and bits, the bytes of rows, socket options,
socket addresses and netmasks, and what a kernel reads from them.
`MCFunctions` asks the three of them one question per behaviour and compares
the answer with what the pattern, the rule or the bytes denote.

**Netstack** models flows. `Accept` is the accept of `run`; `Open` is attribution, lookup and
`decide`; `Dial`, `DialProxy`, `ProxyAnswers`, `ProxyFails` the outbound side;
`Snoop` and `Deliver` the DNS path; `RelayEnds` the end. An unpinned socket
that does not go to the loopback comes back as a new flow whose `parent` is
the flow that opened it.

**ProxyHandshake** is what happens between `DialProxy` and `ProxyAnswers`: HTTP
CONNECT and SOCKS5 over a byte stream that arrives in pieces. A byte is its
position; `start` is the first one that belongs to the tunnel, `blank` the
positions where the stream ends in an empty line. `ReadHead` is a turn of the
loop of `http_connect`; `ReadMethod` … `ReadBound` are the `read_exact` calls of
`socks5_connect` and `read_socks5_reply`. The proxy (`Answer`, `Close`) and the
far end (`FarEndSpeaks`) are external and answer anything.

**DnsAnswers** is `parse_dns_answers` and `parse_name`: `Begin` enters a name,
`Label`, `Jump`, `NameEnds` and `NameFails` are the turns of its loop, and
`NameEnds` goes on with the rest of the question (`Question`) or record
(`Record`). It is compared with a recursive definition of what a message says
that has no cursor (`AnswersOf`). `HasAnswers` is the early returns: a short
message, a query, an error, no answers. The lengths of the header and of the
fixed fields are constants.

**Attribution** is the lookup of a flow's owner on the three platforms. `Call`
begins one; `CheckCache`, `InodeToPid` and `Insert` are the three critical
sections of Linux (macOS has the first and the last), `QueryOne` a sock_diag
query with the fields of `SocketId`, `ScanSocketInodes` the visit of one process
in the walk of `/proc`,
`SizeTable` and `FetchTable` the two calls that read a table on macOS and
Windows, `ProcessName` the name. Between any two of them the machine (external)
opens, closes and hands over sockets, forgets one that has lingered, ends processes and reuses their numbers,
and the clock ticks. A socket table is a set of sockets that have a `place` in
it: a new one is listed first or last, and a scan takes the first of the best
rows, or the first that matches. What the Linux kernel makes of a socket id is
external (`SockDiag`, `Lookup`): for TCP the source is the local end, for UDP the
remote one, as in a packet that is received (`__udp4_lib_lookup`, which the
comment at `linux/process.rs:172` names); a connected socket goes before one
bound to the address, and that before one bound to the port. The code swaps the
ports of its first UDP query accordingly, and not the addresses. `last`
records when a process last held a socket at an endpoint; it is there for the
properties.

**Device** is `TunDevice`. On Windows `Receive` and `Send` are the reader
thread, and `PollReadWindows` reads the channel; `PollReadLinux` and
`PollReadMacos` read the descriptor, driven by its readiness. `PollWrite…` are
the writes, with the header of macOS. `Arrive`, `Shutdown`, `DropDevice` and
`Congestion` are the driver, teardown and the netstack (external). A packet is
its number and its length.

Definitions marked as mutants are plausible bugs of the code; they are used by
no specification and exist to show that each property can fail.

## Runs

| run | instance | shows |
|---|---|---|
| LifecycleSerial | Linux, IPv6, one caller, two attempts | a running engine diverts everything; multicast of a family whose interface was discovered does not enter the tunnel, at any step of installing and removing; EngineService is implemented |
| LifecycleShared | macOS, two callers, two attempts; failing creates, dying netstack, cancelled stops, runtime shutdown, drop, rebuild, kill, interface down | one RunState; no orphaned route, although deletion ignores the interface; a returned stop has restored the table; an adapter has an owner |
| LivenessWindows | Windows, two callers; failing creates and deletions, dying netstack, cancelled stops, drop, kill | `stop` returns although it waits for a blocked thread; the end of the netstack, or a drop, ends the diversion |
| EvaluateLoop | all lists of up to two rules, and lists of three that differ in what decides the order | the loop computes `Outcome`; the lookup gate is sound |
| Functions | three octets in base 3, four-bit addresses; lists and names of up to three symbols; every interface index of four base-3 octets | host and port patterns denote what they should; a rule for `a.exe` is a rule for `a` (where no slice panics); a row of an owner table matches its endpoint only; options and addresses are read back as meant |
| FlowsNamed | four flows, no faults, interfaces for any non-empty set of families | no routing loop, fail-closed proxying, snoop before delivery |
| FlowsMixed | three flows, every fault | QUIC of applications stays in; every flow and drop is counted once; every flow is relayed, dropped or given up |
| Handshake | both protocols, heads of 4 to 9 bytes, names of 0, 1 and 255 bytes, all splits | a tunnel is handed over only if granted, and at its first byte; the exchange ends without the timeout |
| DnsAnswers | all messages of up to five bytes, structured ones with up to two questions and two answers, and queries and errors | the parser stops and finds the complete records |
| Attribution | seven worlds: TCP and UDP, IPv4 and IPv6, on the three platforms, one of them with two threads; two processes, two sockets, three changes, two ticks | an answer is no older than the cache allows; a flow whose socket stays open is attributed, on Linux and macOS to a holder of it unless the cache answers; an exact local address goes before the wildcard; every lookup ends |
| Device | the three platforms, ring and channel of two, four packets of lengths below, at and above the limits | packets arrive whole, once and in order; no wakeup is lost; writes report the packet's length; the reader thread exits; packets do not get stuck |

Two attempts are the least at which one teardown meets the next start, and two
callers the least at which calls overlap; three flows are the least for a chain
of re-entry (`NoRoutingLoop`). `MaxSendErrors` bounds the one counter that
could grow without end. In Handshake `ReadSize` 3 and `HttpLimit` 7 stand for
512 and 65536, so that a head takes several reads and one of 9 bytes meets the
limit; `MaxPieces` bounds what the far end sends. In DnsAnswers the fixed fields
have one or two bytes and `MaxJumps` 2 stands for 10, so that short messages
hold pointer chains on both sides of the limit. In Attribution three changes
are enough to close a socket, hand over another and open a third during one
lookup, a `Ttl` of one tick with a clock of two lets entries expire, and two
processes are the least for a wrong answer. In Device four packets
overflow the ring, or fill the channel and block the thread; `Room` 4 and `MaxPacket` 5
stand for the two sizes of buffers in `device.rs`, so that a packet may fit one
and not the other. In Functions an address of three octets has every position a
pattern treats apart. When no flow identity is free, a socket that would
re-enter is not opened; the failure of that dial stays possible.
Deadlock is not checked where the system may rest for ever: an engine that is
stopped, dropped or out of attempts, a function that has returned, an exchange
that is over. It is checked for Attribution and Device, which go on.

The type invariants of Lifecycle, Evaluate, Netstack and ProxyHandshake are not
in a run, because they are proved; so are `EofIsLast` of Device and `DrainFits`
of ProxyHandshake.

### Where the documentation and the code disagree

The run OverlappingStart checks a sentence of the documentation and finds a
counterexample: a start during a stop returns Ok and diverts nothing.
`findings` quotes the sentence and explains it.

Further configurations are kept for use by hand (`tlc -config X.cfg M`; with
`-continue` for the ones that have several properties). Each finds a
counterexample to a sentence of the documentation. The module is `MCLifecycle`
for the first seven, `MCNetstack` for the next five, then `ProxyHandshake`,
`MCDnsAnswers`, `MCAttribution` (three times) and `MCFunctions`:

| configuration | sentence | what the code does |
|---|---|---|
| PinAfterRoaming | `lib.rs:370`, "the value would be identical anyway" | a restart keeps the interface of the first start, also after the machine has moved |
| PinAfterRebuild | `lib.rs:354`, "Discover the internet-facing NIC *before* our routes exist" | an engine built while the watchdog of a dropped one removes routes is pinned to that tunnel |
| AdminMulticastRoute | `platform/mod.rs:124`, "Remove the routes we installed." | `add_route` takes an existing multicast route for its own, and `remove_routes` deletes it |
| IsRunningAfterFailure | `lib.rs:321`, "Whether the engine is currently running." | `is_running` stays true after the watchdog has cleaned up |
| GroupRoutesAfterKill | `README.md:198`, "a graceful stop removes them" | not if the next start discovers no interface of that family, and so has no handle |
| MulticastAfterFlap | `README.md:196`, "multicast never enters the tunnel" | it does once the physical interface went down and took the routes along |
| MulticastOneFamily, `MulticastNeverEnters` | the same sentence | `linux/adapter.rs:77` installs no multicast route for a family without a discovered interface, and the split default all the same |
| SocketsUnpinned | `dial.rs:16`, "pin every outbound socket to it" | `proxy.rs:61` connects to a remote proxy unpinned |
| LoopUnpinned | `dial.rs:57`, "drops our own flows outright in exactly that case" | when a pin fails, the engine's own socket comes back and is relayed on another unpinned one; `decide` only looks whether an index is known |
| LoopUnattributed | `dial.rs:17`, "nothing has to know about which process" | the socket to a proxy comes back; only its PID keeps it from the rules |
| NameUnused | `README.md:171`, the hostname "when one is known" | no lookup unless some rule has a domain filter |
| FlowsAsDocumented, `FailsOpen` | `README.md:78`, "unreachable upstream proxy" results in "traffic flowing" | `netstack.rs:290` closes the flow, as `netstack.rs:12` says |
| … `BlockedByRule` | `state.rs:42`, "because a `Block` rule matched" | a flow without its proxy counts too |
| … `QuicCounterIsPolicy` | `state.rs:44`, "dropped to force a TCP fallback" | a Block rule on the QUIC port counts too, under `Allow` |
| ServerSpeaksFirst | `proxy.rs:80`, "Read until the double-CRLF" | bytes of the tunnel that arrive with the head of the response are taken for part of it and lost |
| PartialAnswers | `dns.rs:108`, "Returns an empty vec for malformed" messages | the records before the first malformed one are returned |
| AttributionLinux, `NeverLessAccurate` | `linux/process.rs:338`, the inode cache is "never less accurate" | it has no expiry; an inode that is reused, or handed over, is looked up under its old owner |
| … `ScanMissesNothing` | `linux/process.rs:335`, an open socket "cannot be absent from a scan taken at that same moment" | the walk takes time; a descriptor handed to a process that was already visited is missed |
| … `NameFallsBack` | `linux/process.rs:154`, the fallback is for a comm that is "empty or unreadable" | an unreadable comm returns before the fallback |
| … `ConnectedUdpFound` | `linux/process.rs:516`, "connected UDP socket should resolve to our PID" | the first query names the remote address as the local one and finds a socket bound to the port alone, or none; the test has one address on both sides, and is answered from the cache |
| AttributionMacos, `RemoteTellsApart` | `macos/process.rs:279`, "the remote endpoint is what tells them apart" | the endpoint cache is keyed by the local endpoint alone |
| … `TruncationAbsorbed` | `macos/process.rs:223`, a stale snapshot "is exactly what the per-endpoint cache absorbs" | not for a flow that is asked about for the first time |
| AttributionWindows, `OwnerOrNone` | `windows/process.rs:42`, "the PID that owns the given local endpoint, or `None`" | the row of a closed connection that is listed first is taken, and its owner is 0 |
| FunctionsAsDocumented, `SockaddrV4Reads` | `macos/netcfg.rs:362`, "the position of `sin_addr` inside `sockaddr_in`" | that is the position of the port; the address follows it |
| … `StripReturns` | `rule.rs:350`, "Strip a trailing `.exe`" | the slice panics where the fourth byte from the end is inside a character |

The passing properties therefore have conditions. `UpMeansDiverting`,
`MulticastStaysOut` and `ServiceImplemented` are for one
call at a time and one engine, and
`MulticastStaysOut` for interfaces that stay up, deletions that succeed and
families for which an interface was discovered (`MulticastNeverEnters` is the
sentence without the last condition).
`RoutesAccountedFor` and `ReturnedMeansRestored` are for deletions that succeed
(the code only logs one that fails). `NoRoutingLoop` is for attribution and
pinning that work. `NetstackEndRestores` is for a runtime that stays up. `TunnelAligned` and
`NegotiationEnds` are, over HTTP, for a proxy that sends nothing after the head
until the client does: no early byte of the far end, no body of a refusal.
`FailClosed` is for attribution that works. `AnswerFresh` and `OwnerFound`
except sockets that were handed over and inodes and process numbers that were
reused, and `OwnerFound` also a failed query, a table that outgrew its buffer
and, on Windows, a table with a row without an owner at the endpoint. Over UDP
on Linux `OwnerFound` is for a socket bound to the port alone (`Origin`), which
the first query finds whatever else there is; of a socket connected or bound to
an address it says nothing. It is for flows to other machines (`OtherEnd`), the
only ones the tunnel sees. `ExactBeforeWildcard` is for macOS and for UDP over
IPv4 on Windows; elsewhere nothing promises it. `ExeImmaterial` is for lists of one token, other
than the word for everything and without a doubled suffix, and for names on
which the code does not panic. `KernelReadsBack` leaves out the IPv4 socket
address of macOS, which is `SockaddrV4Reads`.

## Fairness

`Fairness` of Lifecycle: a call in progress continues, spawned tasks run,
a netstack that was signalled sees the signal (its `select!` polls the watch
channel), a teardown goes on, and the Windows reader wakes when the session is
shut down or the queue moves. That is what threads and the Tokio scheduler
give. Nobody is assumed to call anything, and no fault has to happen.
`FairSpec` of Netstack: the task of a flow that is not yet relayed runs;
connecting and the proxy handshake have timeouts, so waiting ends. Nothing is
assumed of relays, of peers or of the proxy.
`FairSpec` of ProxyHandshake: the client runs, the network delivers, and the
proxy answers; the timeout is possible at any time and never assumed, because
`NegotiationEnds` is about an exchange that does not need it. `DnsSpec`: the
function runs.
`FairSpec` of Attribution: a thread inside a lookup runs and the kernel answers
or the receive timeout expires (weak fairness), and a thread that waits for the
mutex gets it eventually (strong fairness, since others take it in between: the
mutex promises no order, but no lookup holds it for ever). `FairSpec` of Device: the reader thread and a
task that was woken run; nothing is assumed of the driver, of teardown or of
the netstack's writes.

## Proofs

All are for arbitrary constants: any callers, attempts, interfaces, platform
and faults; any rule lists and connections; any flows, proxies and DNS answers;
any threads, processes and sockets; any sizes of buffers; any DNS messages; any
number of octets or bits in an address and any size of an octet. Assumptions on
constants are the named ASSUMEs, which TLC evaluates in the runs.

*Lifecycle.* None of the invariants is inductive: whether a route is accounted
for depends on who holds the adapter, which depends on where the calls are,
which depends on the flag. The inductive invariant has five layers, each kept
by every step given the ones before it: `TypeInv`; `FlagInv`, the flag has one
owner; `CallInv`, the place of a call fixes the phase of its attempt;
`TaskInv`, the watchdog's state tells how far its adapter has come; `RouteInv`,
what is in the table, where most steps only let an adapter begin to be removed
(`Settles`) and keep it for that reason (all in LifecycleProofs). They give
`TypeCorrect`, `OneRunStateAlways`, `AdapterHasOwnerAlways`, and, if route deletions do not fail,
`RoutesAccountedForAlways` and `ReturnedMeansRestoredAlways`.

*One call at a time* (ServiceProofs). What EngineService promises holds only under `OneAtATime`: one caller, no cancelled
stop, no second engine, and deletions that succeed; OverlappingStart and
PinAfterRebuild show what happens otherwise. Every other fault stays (failing
probes and creates, a dying netstack, drop, runtime shutdown, kill, interfaces
that change and go down), and so do all platforms and any number of attempts.
Four more layers are needed. `SerialInv`: at most one attempt is under way, and
it is the one the call, the RunState or the drop is about; so a start finds no
route of its predecessor. `TableInv`: group routes lead through NICs and split
routes into the tunnel of their own attempt; so `discover` never sees a tunnel.
`UpInv`: until a teardown begins, what was installed is in the table. `GroupInv`:
the multicast routes of an attempt are there as long as one of its split routes
is (first in, last out). They give `UpMeansDivertingAlways`,
`PinnedToPhysicalAlways`, `MulticastStaysOutAlways` (for families with a
discovered interface, unless an interface goes down) and `ServiceRefined`: Lifecycle implements the safety part of
EngineService. The last is shown step by step: the initial states map to
"down, not diverting", and each action is put in one of a few classes (the mode
stays and the table gains or loses nothing that diverts; an attempt opens, comes
up, fails, begins to go or is gone; a kill), each of which is one action of
EngineService or a stutter.

*Evaluate* (FlowSetupProofs). The loop invariant: no rule passed so far is a hit,
and the held fallback is the first full wildcard that applies. It gives
`EvaluateTypeCorrect`, `EvaluateCorrectAlways` and `LookupGateSoundAlways`.

*Netstack* (NetstackProofs). None of the properties follows from itself: that a socket keeps to its proxy depends on what its flow
was decided to be, when, and on which flow it came back from. `ShapeInv` ties
the place of a task to its facts, its match, its sockets and its children; with
`TypeOK` it is inductive whatever goes wrong (`FlowsTyped`). A lemma reduces
the steps to five kinds: a flow is accepted, is decided, opens a socket that
stays outside, opens one that comes back, or nothing is opened. On that rest
- `QuicIsKept`, with `QuicInv` (only the engine's own QUIC is passed, and only
  it comes back), under every fault;
- `LoopInv`, if owners are found: a flow that came back goes direct, over a
  family with an interface, and to the proxy if that is where its parent was
  sent. It gives `ProxiedOnly` and, if sockets can be pinned as well,
  `LoopGuard`;
- `NamesComeFirst`, with `SnoopInv` (an answer that is being passed on is in
  the cache);
- `CountersAddUp`, for any number of flows, from a lemma on how a count of
  tasks shifts when one of them moves.

*ProxyHandshake* (FlowSetupProofs, too). `HandshakeInv` says, for every place the
client waits at, which question is open and how many bytes of the answer are
left. It gives `TypesHold`, `TunnelsAreGranted`, `ScratchSuffices` (a drained
reply fits its buffer) and, if an HTTP proxy sends nothing after the head
before the client does, `TunnelsAreAligned`, for any sizes of heads, names and
reads.

*Device* (DeviceProofs). `DeviceInv` has the types, where the thread and the
task can be when the device ends (`EndInv`), that the stations of the pipeline
are each in order and one behind the other and account for every number
(`OrderInv`), and that what is delivered is whole. It gives `BuffersBounded`,
`PacketsInOrder`, `WakeupsKept`, `EndComesLast` and `WritesReported`, for any
capacities and any number of packets.

*Attribution* (AttributionProofs), for any number of
threads, processes, inodes, sockets and flows, and any `CACHE_TTL`. Whether an
answer is fresh depends on what other threads have put into the caches and on
what the table was while this one was between two of its steps. The inductive
invariant `Inv` has, besides the types,
- `TableInv`: inodes and endpoints are unique, and until something is recycled
  a socket has one holder, the owner that is reported;
- `Local`: no socket is bound to the address a flow goes to;
- `LastInv`: whoever holds a socket now is recorded as holding it now;
- `CacheInv`: the process of an endpoint entry held a socket there at the time
  the entry is dated, or later, and whatever the inode map, or a walk of `/proc` that is
  not over, says of an inode is the owner of its socket (`Names`). That the map
  needs no expiry rests on this, and on nothing being recycled;
- for each lookup, `Shape` (which platform and step goes with which data),
  `Fresh` (an inode in hand is of a socket at the flow's endpoint, and every
  process it leads to held one after the call began; an answer is not too old)
  and `Follows` (a flow's socket that stays is not lost: it is the inode in
  hand, its owner is yet to be visited or has been found).

The steps of the machine keep it because they add only sockets with an inode
not seen before (`MachineMoves`), those of a thread because all it teaches is
who holds a socket now (`Learns`), which misleads no other thread
(`OtherCalls`). It gives `TypeCorrect`, `AnswerAlwaysFresh`, `OwnerAlwaysFound`
and, from lemmas on what a scan of a table returns (`FirstOwnerIs`,
`ResolveIs`, `ResolveFinds`) and of what a query finds (`QueryServes`,
`QueryFinds`), `ExactAlwaysBeforeWildcard`, for tables of any
size and order. That a table has a first row is the well-foundedness of the
naturals, cited from the library for a relation and a set, so no induction is
needed. TLC has checked `Inv` as an invariant of the instance of the run.

*Recursion* (DnsProofs, FunctionProofs). The parser's reference and the pure
functions are recursive functions, so what they compute takes induction over
data. The library's induction theorems take a predicate as a parameter, which
the installed provers cannot instantiate; here induction is stated over a set
instead (`StrongInduction`, `Induction`, `BoundedInduction`), from the fact that
a set of naturals has a least element (`Least`), and a predicate becomes the set
of the numbers that have it. A recursive definition denotes a function only if
one satisfies its equation: `Recursion` shows that for every equation whose
calls lower a rank, by iterating it, and `FoldExists` for those that go through
a sequence from its beginning. Each recursive definition then has one lemma with
its equation and its type (`NameDef`, `AddressesDef`, `AnswersAfterDef`;
`ValuesDef`, `QuotientsDef`, `OffsetsDef`, `SpelledDef`, `ReachedDef`), and only
that lemma is used. The two modules state `MinIn` and `Least` each for itself,
as neither extends the other.

*DnsAnswers* (DnsProofs), for every message, any limit on pointers and any
lengths of fields. `DnsInv` has, besides the types, `NameInv` (inside a name, its
labels so far followed by what the reference reads from the current position,
with the pointers that are left, are the name; and the end of the name is that
of the rest until a pointer has been followed) and `SectionInv` (the addresses so
far followed by those the reference finds in the records that are left are the
answer; a message without a header has no first question, `NoHeader`). `AnswersCorrect` is
not inductive without them, as it speaks of the last state only. They give `DnsAnswersCorrect`. `DnsParserAdvances` is the
argument for `ParserStops`: every step lowers the natural number `Variant`, which
counts the names still to come and, within a name, pointers before bytes. That
the function then really ends is fairness and stays with TLC.

*Patterns, encodings, lists* (FunctionProofs). A behaviour asks one question, so
the inductive invariant only says that the answer is that of the function
(`FunctionsInv`); the work is in the lemmas about the functions.
- Numbers: digits determine a number and their order is that of the first
  difference (`ValueOrder`), which gives `RangesCorrect` and
  `SingleAddressCorrect`; a mask keeps the bits of the prefix (`CidrBits`), and
  the addresses with a prefix are an interval (`PrefixIsRange`), which gives
  `CidrCorrect`.
- Bytes: storing and loading a number are inverse, in both orders (`LoadStore`,
  `StoreLoad`), and a port loaded as a word is in its low half
  (`PortReadsBack`). They give `RowsCorrect` and `KernelReadsCorrect`.
- Lists: a list of one token splits into that token (`SplitOne`), and stripping
  is defined by the last symbol where it does not panic (`StripDef`). A list
  that is `*` is never compiled, while `*.exe` is stripped to a glob that
  matches every name (`StarMatches`); so the two agree. They give
  `ExeSuffixCorrect`, for lists and names of any length.

TLC has checked `DnsInv`, the decrease of `Variant` and `FunctionsInv` on the
instances of the runs.

Modules that are proved about do not use SequencesExt of the community modules:
all that it brings along is handed to the provers with every obligation.
`Swapped` of Encodings is there for that reason.

Only model-checked: liveness (fairness and ENABLED are out of the prover's
reach), which is `StopReturns`, `NetstackEndRestores`, `DropRestores`,
`FlowsSettle`, `NegotiationEnds`, `ParserStops`, `CallsReturn`, `ReaderExits` and
`PacketsMove`, and the fairness part of `ServiceImplemented`. Every invariant
that a run checks is proved, under the condition the run has where it has one.

## Not modelled

- `callback.rs`, `error.rs`: types and texts without state. The connection
  callback only observes.
- `config.rs` and the setters of the builders: they store and validate values;
  the models start from a configuration that was accepted.
- Netlink framing, attributes and sequence numbers, and the binary layout of
  the socket tables of macOS and Windows: parsing of kernel structures by fixed
  offsets, abstracted to rows. The numbers that change byte order are in
  Encodings.
- The text of CONNECT requests and of the authentication exchange, and log
  messages: formatting without a decision.
- `purge_expired` removes entries that `lookup` already takes for absent;
  `Expire` stands for both.
- The bytes of a relay: `copy_bidirectional` is Tokio's.
- `examples/live_check.rs` and `build.rs`: a manual test program and linker
  flags. The unit tests, more than a quarter of the lines, are not modelled
  either.
