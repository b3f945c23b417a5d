------------------------------ MODULE Lifecycle ------------------------------
(***************************************************************************)
(* The life of the tunnel: TunRedirect::{start, stop, drop}, the watchdog  *)
(* task and the adapter it guards (lib.rs), TunAdapter::{create, Drop,     *)
(* remove_routes} (platform/*/adapter.rs), the reader thread of the        *)
(* Windows device (device.rs), and the forwarding table they share with    *)
(* the rest of the machine (RouteTable).                                   *)
(*                                                                         *)
(* Callers are threads or tasks that hold a reference to one TunRedirect.  *)
(* A call is a sequence of steps, one for each effect another actor can    *)
(* see; start runs without an await, stop suspends once.  Every start that *)
(* gets past the compare-exchange is an attempt g of its own.              *)
(***************************************************************************)
EXTENDS RouteTable

CONSTANTS
  Caller,  \* the threads or tasks that call start and stop
  NoGen,   \* "no attempt"
  AdminRoutes, \* routes the administrator may have set before the first start
  Faults   \* which failures and environment events may happen

FaultNames ==
  {"probe",     \* a route lookup of discover fails
   "create",    \* a step of create or the device fails
   "netstack",  \* the netstack's accept fails, or its task panics
   "delete",    \* a route deletion fails
   "cancel",    \* the future of a suspended stop is dropped
   "runtime",   \* the Tokio runtime shuts down
   "drop",      \* the TunRedirect is dropped
   "rebuild",   \* ... and another one is built afterwards
   "kill",      \* the process is killed and started again
   "nic",       \* the machine's default interface changes
   "flap"}      \* a physical interface goes down

ASSUME CallerAssumption ==
  /\ NoGen \notin Gen
  /\ Faults \subseteq FaultNames
  /\ AdminRoutes \subseteq {r \in Route : r.dest \in GroupDest /\ r.ifc \in Nic /\ r.by = Admin}

VARIABLES
  sharedRunning, \* Shared::running, the flag start compares and exchanges
  running,       \* TunRedirect::running: the attempt whose RunState it holds
  iface,         \* Shared::iface, a OnceLock
  alive,         \* the TunRedirect exists
  dropping,      \* the attempt whose adapter Drop for TunRedirect is removing
  runtime,       \* the Tokio runtime is up
  pc, at,        \* where each caller is, and in which attempt
  phase,         \* the adapter of each attempt
  handles,       \* ... and its routes vector
  via,           \* the interface discover found for the attempt
  netstack, watchdog, shutdown, \* the two tasks and the watch channel
  device, reader,               \* the device handle of the netstack, the reader thread
  table, nic     \* the forwarding table, and the default interface by family

apiVars  == <<sharedRunning, running, iface, alive, dropping, runtime>>
callVars == <<pc, at>>
tunVars  == <<phase, handles, via>>
taskVars == <<netstack, watchdog, shutdown>>
devVars  == <<device, reader>>
vars == <<apiVars, callVars, tunVars, taskVars, devVars, table, nic>>

StartPc == {"discover", "create", "install", "publish", "unwind"}
StopPc  == {"clear", "send", "await", "remove"}
Returned == {"idle", "started", "stopped", "failed"}

(* The adapter object exists and can still be asked for its routes.        *)
(* "held" is Some in the Mutex<Option<TunAdapter>>; "removing" has been    *)
(* taken out of it, or is being dropped.                                   *)
Live == {"building", "held", "removing"}

TypeOK ==
  /\ sharedRunning \in BOOLEAN
  /\ running \in Gen \cup {NoGen}
  /\ iface \in PhysicalInterface \cup {None}
  /\ alive \in BOOLEAN
  /\ dropping \in Gen \cup {NoGen}
  /\ runtime \in BOOLEAN
  /\ pc \in [Caller -> StartPc \cup StopPc \cup Returned]
  /\ at \in [Caller -> Gen \cup {NoGen}]
  /\ phase \in [Gen -> Live \cup {"none", "opening", "gone", "killed"}]
  /\ handles \in [Gen -> SUBSET Handle]
  /\ via \in [Gen -> PhysicalInterface]
  /\ netstack \in [Gen -> {"none", "running", "ended"}]
  /\ watchdog \in [Gen -> {"none", "await", "removing", "join", "done", "cancelled"}]
  /\ shutdown \in [Gen -> BOOLEAN]
  /\ device \in [Gen -> {"none", "open", "closed"}]
  /\ reader \in [Gen -> {"none", "recv", "send", "exited"}]
  /\ table \in SUBSET Route
  /\ nic \in [Family -> Nic \cup {None}]

Init ==
  /\ sharedRunning = FALSE
  /\ running = NoGen
  /\ iface = None
  /\ alive = TRUE
  /\ dropping = NoGen
  /\ runtime = TRUE
  /\ pc = [c \in Caller |-> "idle"]
  /\ at = [c \in Caller |-> NoGen]
  /\ phase = [g \in Gen |-> "none"]
  /\ handles = [g \in Gen |-> {}]
  /\ via = [g \in Gen |-> [f \in Family |-> None]]
  /\ netstack = [g \in Gen |-> "none"]
  /\ watchdog = [g \in Gen |-> "none"]
  /\ shutdown = [g \in Gen |-> FALSE]
  /\ device = [g \in Gen |-> "none"]
  /\ reader = [g \in Gen |-> "none"]
  /\ table \in SUBSET AdminRoutes
  /\ nic \in [Family -> Nic \cup {None}]

-----------------------------------------------------------------------------
(* A tunnel interface exists as long as anything holds a handle to it: the *)
(* adapter, the duplicate in the netstack's device, or the session in the  *)
(* reader thread.                                                          *)
InterfaceUp(g) ==
  \/ phase[g] \in Live
  \/ device[g] = "open"
  \/ reader[g] \in {"recv", "send"}

(* The kernel's part of a step that gives up a handle of attempt g. *)
TableAfterClose(g) == IF InterfaceUp(g)' THEN table ELSE DropInterface(table, g)

Goto(c, l) == pc' = [pc EXCEPT ![c] = l]

-----------------------------------------------------------------------------
(* Mutant: the flag is stored, not compared and exchanged. *)
StartCasUnchecked(c) ==
  /\ alive /\ runtime
  /\ pc[c] \in Returned
  /\ sharedRunning' = TRUE
  /\ \E g \in Gen :
       /\ phase[g] = "none"
       /\ phase' = [phase EXCEPT ![g] = "opening"]
       /\ at' = [at EXCEPT ![c] = g]
  /\ Goto(c, "discover")
  /\ UNCHANGED <<running, iface, alive, dropping, runtime, handles, via,
                 taskVars, devVars, table, nic>>

(* start.  The compare-exchange admits one attempt at a time. *)
StartCas(c) ==
  /\ alive /\ runtime
  /\ pc[c] \in Returned
  /\ ~ sharedRunning
  /\ sharedRunning' = TRUE
  /\ \E g \in Gen :
       /\ phase[g] = "none"
       /\ phase' = [phase EXCEPT ![g] = "opening"]
       /\ at' = [at EXCEPT ![c] = g]
  /\ Goto(c, "discover")
  /\ UNCHANGED <<running, iface, alive, dropping, runtime, handles, via,
                 taskVars, devVars, table, nic>>

(* The error path of start: the flag is given back. *)
StartFails(c) ==
  /\ sharedRunning' = FALSE
  /\ Goto(c, "failed")

Probe(f) == BestRoute(table, f, nic[f]) \cup (IF "probe" \in Faults THEN {None} ELSE {})

(* start_inner up to Shared::iface.set, whose second call has no effect. *)
StartDiscover(c) ==
  LET g == at[c]
  IN  /\ pc[c] = "discover"
      /\ \E v4 \in Probe("v4"), v6 \in Probe("v6") :
           LET found == [v4 |-> v4, v6 |-> v6]
           IN  /\ via' = [via EXCEPT ![g] = found]
               /\ IF v4 = None /\ v6 = None
                  THEN /\ StartFails(c)
                       /\ phase' = [phase EXCEPT ![g] = "gone"]
                       /\ UNCHANGED iface
                  ELSE /\ iface' = IF iface = None THEN found ELSE iface
                       /\ Goto(c, "create")
                       /\ UNCHANGED <<sharedRunning, phase>>
      /\ UNCHANGED <<running, alive, dropping, runtime, at, handles,
                     taskVars, devVars, table, nic>>

(* Backend::create up to the first route: the privilege check, the device, *)
(* its addresses and its MTU.  Nothing is diverted yet, so a failure here  *)
(* (NotElevated among them) only closes the device.                        *)
StartCreate(c) ==
  LET g == at[c]
  IN  /\ pc[c] = "create"
      /\ \/ /\ phase' = [phase EXCEPT ![g] = "building"]
            /\ Goto(c, "install")
            /\ UNCHANGED sharedRunning
         \/ /\ "create" \in Faults
            /\ phase' = [phase EXCEPT ![g] = "gone"]
            /\ StartFails(c)
      /\ UNCHANGED <<running, iface, alive, dropping, runtime, at, handles, via,
                     taskVars, devVars, table, nic>>

(* Mutant: only the lower half of the address space is routed. *)
ToInstallHalf(g) == {h \in Wanted(g, via[g]) : h.dest # "v4hi"} \ handles[g]

ToInstall(g) == Wanted(g, via[g]) \ handles[g]

(* The kernel refuses a route through an interface that is gone. *)
Routable(i) == i \in Gen => InterfaceUp(i)

(* install_route: one entry of create's list. *)
StartInstall(c) ==
  LET g == at[c]
  IN  /\ pc[c] = "install"
      /\ \E h \in NextToInstall(ToInstall(g)) :
           /\ Routable(h.ifc)
           /\ table' = AddRoute(table, h, g)
           /\ handles' = [handles EXCEPT ![g] = @ \cup {h}]
      /\ UNCHANGED <<apiVars, callVars, phase, via, taskVars, devVars, nic>>

(* Mutant: every platform keeps the handles in a local vector. *)
StartInstallFailsForgetting(c) ==
  LET g == at[c]
  IN  /\ pc[c] = "install"
      /\ "create" \in Faults
      /\ phase' = [phase EXCEPT ![g] = "removing"]
      /\ handles' = [handles EXCEPT ![g] = {}]
      /\ Goto(c, "unwind")
      /\ UNCHANGED <<apiVars, at, via, taskVars, devVars, table, nic>>

(* A route or the device fails: the adapter built so far is dropped.  The  *)
(* Windows create keeps its handles in a local vector, whose drop deletes  *)
(* nothing; the other two keep them in the adapter.                        *)
StartInstallFails(c) ==
  LET g == at[c]
  IN  /\ pc[c] = "install"
      /\ \/ "create" \in Faults
         \/ \E h \in NextToInstall(ToInstall(g)) : ~ Routable(h.ifc)
      /\ phase' = [phase EXCEPT ![g] = "removing"]
      /\ handles' = [handles EXCEPT ![g] =
                       IF Platform = "windows" /\ ToInstall(g) # {} THEN {} ELSE @]
      /\ Goto(c, "unwind")
      /\ UNCHANGED <<apiVars, at, via, taskVars, devVars, table, nic>>

StartUnwound(c) ==
  /\ pc[c] = "unwind"
  /\ phase[at[c]] = "gone"
  /\ StartFails(c)
  /\ UNCHANGED <<running, iface, alive, dropping, runtime, at, tunVars,
                 taskVars, devVars, table, nic>>

(* TunDevice::new, IpStack::new and the two spawns. *)
StartSpawn(c) ==
  LET g == at[c]
  IN  /\ pc[c] = "install"
      /\ ToInstall(g) = {}
      /\ phase' = [phase EXCEPT ![g] = "held"]
      /\ netstack' = [netstack EXCEPT ![g] = "running"]
      /\ watchdog' = [watchdog EXCEPT ![g] = "await"]
      /\ device' = [device EXCEPT ![g] = "open"]
      /\ reader' = [reader EXCEPT ![g] = IF Platform = "windows" THEN "recv" ELSE "exited"]
      /\ Goto(c, "publish")
      /\ UNCHANGED <<apiVars, at, handles, via, shutdown, table, nic>>

(* The Ok arm of start: the RunState becomes visible to stop and drop. *)
StartPublish(c) ==
  /\ pc[c] = "publish"
  /\ running' = at[c]
  /\ Goto(c, "started")
  /\ UNCHANGED <<sharedRunning, iface, alive, dropping, runtime, at, tunVars,
                 taskVars, devVars, table, nic>>

-----------------------------------------------------------------------------
(* stop: take the RunState, clear the flag, signal, wait for the watchdog. *)
StopTake(c) ==
  /\ alive
  /\ pc[c] \in Returned
  /\ running # NoGen
  /\ at' = [at EXCEPT ![c] = running]
  /\ running' = NoGen
  /\ Goto(c, "clear")
  /\ UNCHANGED <<sharedRunning, iface, alive, dropping, runtime, tunVars,
                 taskVars, devVars, table, nic>>

StopClear(c) ==
  /\ pc[c] = "clear"
  /\ sharedRunning' = FALSE
  /\ Goto(c, "send")
  /\ UNCHANGED <<running, iface, alive, dropping, runtime, at, tunVars,
                 taskVars, devVars, table, nic>>

(* Mutant: the shutdown signal is not sent. *)
StopSendNothing(c) ==
  /\ pc[c] = "send"
  /\ Goto(c, "await")
  /\ UNCHANGED <<apiVars, at, tunVars, taskVars, devVars, table, nic>>

StopSend(c) ==
  /\ pc[c] = "send"
  /\ shutdown' = [shutdown EXCEPT ![at[c]] = TRUE]
  /\ Goto(c, "await")
  /\ UNCHANGED <<apiVars, at, tunVars, netstack, watchdog, devVars, table, nic>>

(* Mutant: stop returns without waiting for the watchdog. *)
StopAwaitNothing(c) ==
  /\ pc[c] = "await"
  /\ Goto(c, "stopped")
  /\ UNCHANGED <<apiVars, at, tunVars, taskVars, devVars, table, nic>>

StopAwait(c) ==
  /\ pc[c] = "await"
  /\ watchdog[at[c]] = "done"
  /\ Goto(c, "stopped")
  /\ UNCHANGED <<apiVars, at, tunVars, taskVars, devVars, table, nic>>

(* Mutant: stop ignores the watchdog's JoinError. *)
StopFallbackNothing(c) ==
  /\ pc[c] = "await"
  /\ watchdog[at[c]] = "cancelled"
  /\ Goto(c, "stopped")
  /\ UNCHANGED <<apiVars, at, tunVars, taskVars, devVars, table, nic>>

(* The watchdog's JoinHandle returned an error: stop removes the adapter. *)
StopFallback(c) ==
  LET g == at[c]
  IN  /\ pc[c] = "await"
      /\ watchdog[g] = "cancelled"
      /\ IF phase[g] = "held"
         THEN /\ phase' = [phase EXCEPT ![g] = "removing"]
              /\ Goto(c, "remove")
         ELSE /\ Goto(c, "stopped")
              /\ UNCHANGED phase
      /\ UNCHANGED <<apiVars, at, handles, via, taskVars, devVars, table, nic>>

StopRemoved(c) ==
  /\ pc[c] = "remove"
  /\ phase[at[c]] = "gone"
  /\ Goto(c, "stopped")
  /\ UNCHANGED <<apiVars, at, tunVars, taskVars, devVars, table, nic>>

(* The future of a suspended stop is dropped, and the RunState with it.    *)
(* The watchdog goes on by itself; if it was cancelled before, this was    *)
(* the last reference to the adapter.                                      *)
CancelStop(c) ==
  LET g == at[c]
  IN  /\ "cancel" \in Faults
      /\ pc[c] = "await"
      /\ phase' = IF phase[g] = "held" /\ watchdog[g] = "cancelled"
                  THEN [phase EXCEPT ![g] = "removing"]
                  ELSE phase
      /\ Goto(c, "idle")
      /\ UNCHANGED <<apiVars, at, handles, via, taskVars, devVars, table, nic>>

-----------------------------------------------------------------------------
(* Drop for TunRedirect needs exclusive access: no call is in progress. *)
Exclusive == \A c \in Caller : pc[c] \in Returned

(* JoinHandle::abort takes effect where the task is suspended.  A watchdog *)
(* that is removing the adapter finishes that first.                       *)
AtAwait(g) == watchdog[g] \in {"await", "join"}

Abort(g) == watchdog' = [watchdog EXCEPT ![g] = IF AtAwait(g) THEN "cancelled" ELSE @]

(* Mutant: drop takes the adapter but leaves the netstack running. *)
DropEngineUnsignalled ==
  /\ "drop" \in Faults
  /\ alive
  /\ Exclusive
  /\ alive' = FALSE
  /\ running' = NoGen
  /\ IF running = NoGen
     THEN UNCHANGED <<sharedRunning, dropping, phase>>
     ELSE /\ sharedRunning' = FALSE
          /\ dropping' = running
          /\ phase' = [phase EXCEPT ![running] = IF @ = "held" THEN "removing" ELSE @]
  /\ UNCHANGED <<iface, runtime, callVars, handles, via, taskVars, devVars, table, nic>>

DropEngine ==
  /\ "drop" \in Faults
  /\ alive
  /\ Exclusive
  /\ alive' = FALSE
  /\ running' = NoGen
  /\ IF running = NoGen
     THEN UNCHANGED <<sharedRunning, dropping, phase, watchdog, shutdown>>
     ELSE /\ sharedRunning' = FALSE
          /\ shutdown' = [shutdown EXCEPT ![running] = TRUE]
          /\ IF phase[running] = "held"
             THEN /\ phase' = [phase EXCEPT ![running] = "removing"]
                  /\ dropping' = running
                  /\ UNCHANGED watchdog
             ELSE /\ Abort(running)
                  /\ UNCHANGED <<phase, dropping>>
  /\ UNCHANGED <<iface, runtime, callVars, handles, via, netstack, devVars, table, nic>>

DropAbort ==
  /\ dropping # NoGen
  /\ phase[dropping] = "gone"
  /\ Abort(dropping)
  /\ dropping' = NoGen
  /\ UNCHANGED <<sharedRunning, running, iface, alive, runtime, callVars, tunVars,
                 netstack, shutdown, devVars, table, nic>>

(* TunRedirectBuilder::build: a fresh Shared. *)
Build ==
  /\ "rebuild" \in Faults
  /\ ~ alive /\ dropping = NoGen
  /\ alive' = TRUE
  /\ sharedRunning' = FALSE
  /\ iface' = None
  /\ UNCHANGED <<running, dropping, runtime, callVars, tunVars, taskVars, devVars, table, nic>>

-----------------------------------------------------------------------------
(* netstack::run leaves its loop: a shutdown signal, or a failure of       *)
(* accept, or a panic.                                                     *)
NetstackEnds(g) ==
  /\ netstack[g] = "running"
  /\ shutdown[g] \/ "netstack" \in Faults
  /\ netstack' = [netstack EXCEPT ![g] = "ended"]
  /\ UNCHANGED <<apiVars, callVars, tunVars, watchdog, shutdown, devVars, table, nic>>

(* The IpStack is dropped with the netstack's future; its own task, which  *)
(* owns the device, ends some time later.                                  *)
DeviceClosed(g) ==
  /\ netstack[g] = "ended"
  /\ device[g] = "open"
  /\ device' = [device EXCEPT ![g] = "closed"]
  /\ UNCHANGED <<apiVars, callVars, tunVars, taskVars, reader, nic>>
  /\ table' = TableAfterClose(g)

(* Mutant: the watchdog acts on a clean shutdown only. *)
WatchdogTakeIfAsked(g) ==
  /\ watchdog[g] = "await"
  /\ netstack[g] = "ended"
  /\ IF phase[g] = "held" /\ shutdown[g]
     THEN /\ phase' = [phase EXCEPT ![g] = "removing"]
          /\ watchdog' = [watchdog EXCEPT ![g] = "removing"]
     ELSE /\ watchdog' = [watchdog EXCEPT ![g] = "join"]
          /\ UNCHANGED phase
  /\ UNCHANGED <<apiVars, callVars, handles, via, netstack, shutdown, devVars, table, nic>>

(* watchdog: wait for the netstack, take the adapter if it is still there. *)
WatchdogTake(g) ==
  /\ watchdog[g] = "await"
  /\ netstack[g] = "ended"
  /\ IF phase[g] = "held"
     THEN /\ phase' = [phase EXCEPT ![g] = "removing"]
          /\ watchdog' = [watchdog EXCEPT ![g] = "removing"]
     ELSE /\ watchdog' = [watchdog EXCEPT ![g] = "join"]
          /\ UNCHANGED phase
  /\ UNCHANGED <<apiVars, callVars, handles, via, netstack, shutdown, devVars, table, nic>>

(* ... the adapter is gone: wait for the reader thread. *)
WatchdogRemoved(g) ==
  /\ watchdog[g] = "removing"
  /\ phase[g] = "gone"
  /\ watchdog' = [watchdog EXCEPT ![g] = IF runtime THEN "join" ELSE "cancelled"]
  /\ UNCHANGED <<apiVars, callVars, tunVars, netstack, shutdown, devVars, table, nic>>

WatchdogDone(g) ==
  /\ watchdog[g] = "join"
  /\ reader[g] = "exited"
  /\ watchdog' = [watchdog EXCEPT ![g] = "done"]
  /\ UNCHANGED <<apiVars, callVars, tunVars, netstack, shutdown, devVars, table, nic>>

(* TunAdapter::remove_routes: one handle.  A failed deletion is logged. *)
RemoveRoute(g) ==
  /\ phase[g] = "removing"
  /\ \E h \in NextToRemove(handles[g]) :
       /\ handles' = [handles EXCEPT ![g] = @ \ {h}]
       /\ \/ table' = DeleteRoute(table, h)
          \/ "delete" \in Faults /\ UNCHANGED table
  /\ UNCHANGED <<apiVars, callVars, phase, via, taskVars, devVars, nic>>

(* Mutant: Drop for TunAdapter does not call remove_routes. *)
CloseAdapterAtOnce(g) ==
  /\ phase[g] = "removing"
  /\ phase' = [phase EXCEPT ![g] = "gone"]
  /\ handles' = [handles EXCEPT ![g] = {}]
  /\ UNCHANGED <<apiVars, callVars, via, taskVars, devVars, nic>>
  /\ table' = TableAfterClose(g)

(* The rest of Drop for TunAdapter: shut the session down, close. *)
CloseAdapter(g) ==
  /\ phase[g] = "removing"
  /\ handles[g] = {}
  /\ phase' = [phase EXCEPT ![g] = "gone"]
  /\ UNCHANGED <<apiVars, callVars, handles, via, taskVars, devVars, nic>>
  /\ table' = TableAfterClose(g)

(* Mutant: closing the adapter does not shut the session down. *)
ReaderStepUnaware(g) ==
  /\ \/ /\ reader[g] = "recv"
        /\ reader' = [reader EXCEPT ![g] = "send"]
     \/ /\ reader[g] = "send"
        /\ device[g] # "closed"
        /\ reader' = [reader EXCEPT ![g] = "recv"]
  /\ UNCHANGED <<apiVars, callVars, tunVars, taskVars, device, nic>>
  /\ table' = TableAfterClose(g)

(* The Windows reader thread: receive_blocking, then blocking_send into    *)
(* the bounded queue.  The session's shutdown ends the first, the device's *)
(* drop the second.                                                        *)
ReaderStep(g) ==
  /\ \/ /\ reader[g] = "recv"
        /\ reader' = [reader EXCEPT ![g] = IF phase[g] = "gone" THEN "exited" ELSE "send"]
     \/ /\ reader[g] = "send"
        /\ reader' = [reader EXCEPT ![g] = IF device[g] = "closed" THEN "exited" ELSE "recv"]
  /\ UNCHANGED <<apiVars, callVars, tunVars, taskVars, device, nic>>
  /\ table' = TableAfterClose(g)

-----------------------------------------------------------------------------
(* A RunState other than the watchdog's own reference keeps the adapter. *)
RunStateHeld(g) ==
  running = g \/ \E c \in Caller : at[c] = g /\ pc[c] \in StopPc

(* The runtime is shut down, between calls of start: every task is         *)
(* dropped where it is suspended, and with the watchdog possibly the last  *)
(* reference to its adapter.                                               *)
RuntimeShutdown ==
  /\ "runtime" \in Faults
  /\ runtime
  /\ \A c \in Caller : pc[c] \notin StartPc
  /\ runtime' = FALSE
  /\ netstack' = [g \in Gen |-> IF netstack[g] = "running" THEN "ended" ELSE netstack[g]]
  /\ watchdog' = [g \in Gen |-> IF AtAwait(g) THEN "cancelled" ELSE watchdog[g]]
  /\ phase' = [g \in Gen |-> IF phase[g] = "held" /\ ~ RunStateHeld(g)
                             THEN "removing" ELSE phase[g]]
  /\ UNCHANGED <<sharedRunning, running, iface, alive, dropping, callVars, handles, via,
                 shutdown, devVars, table, nic>>

(* The process is killed: the kernel closes its handles, which destroys    *)
(* the tunnel interfaces; then it is started again.                        *)
Kill ==
  /\ "kill" \in Faults
  /\ sharedRunning' = FALSE
  /\ running' = NoGen
  /\ iface' = None
  /\ alive' = TRUE
  /\ dropping' = NoGen
  /\ runtime' = TRUE
  /\ pc' = [c \in Caller |-> "idle"]
  /\ at' = [c \in Caller |-> NoGen]
  /\ phase' = [g \in Gen |-> IF phase[g] \in {"none", "gone"} THEN phase[g] ELSE "killed"]
  /\ handles' = [g \in Gen |-> {}]
  /\ netstack' = [g \in Gen |-> IF netstack[g] = "none" THEN "none" ELSE "ended"]
  /\ watchdog' = [g \in Gen |-> IF watchdog[g] = "none" THEN "none" ELSE "cancelled"]
  /\ device' = [g \in Gen |-> IF device[g] = "none" THEN "none" ELSE "closed"]
  /\ reader' = [g \in Gen |-> IF reader[g] = "none" THEN "none" ELSE "exited"]
  /\ table' = {r \in table : r.ifc \in Nic}
  /\ UNCHANGED <<via, shutdown, nic>>

(* The machine's default route moves to another interface, or away. *)
NicChanges ==
  /\ "nic" \in Faults
  /\ \E f \in Family, i \in Nic \cup {None} :
       /\ nic[f] # i
       /\ nic' = [nic EXCEPT ![f] = i]
  /\ UNCHANGED <<apiVars, callVars, tunVars, taskVars, devVars, table>>

(* A physical interface goes down; the kernel drops the routes through it. *)
NicDown ==
  /\ "flap" \in Faults
  /\ \E i \in Nic :
       /\ \E f \in Family : nic[f] = i
       /\ nic' = [f \in Family |-> IF nic[f] = i THEN None ELSE nic[f]]
       /\ table' = DropInterface(table, i)
  /\ UNCHANGED <<apiVars, callVars, tunVars, taskVars, devVars>>

-----------------------------------------------------------------------------
(* The steps of a call in progress, which the thread that runs it takes    *)
(* as soon as it can.                                                      *)
Call(c) ==
  \/ StartDiscover(c) \/ StartCreate(c) \/ StartInstall(c) \/ StartInstallFails(c)
  \/ StartUnwound(c) \/ StartSpawn(c) \/ StartPublish(c)
  \/ StopClear(c) \/ StopSend(c) \/ StopAwait(c) \/ StopFallback(c) \/ StopRemoved(c)

Tasks(g) ==
  \/ DeviceClosed(g)
  \/ WatchdogTake(g) \/ WatchdogRemoved(g) \/ WatchdogDone(g)
  \/ RemoveRoute(g) \/ CloseAdapter(g)

Environment ==
  \/ RuntimeShutdown \/ Kill \/ NicChanges \/ NicDown

Next ==
  \/ \E c \in Caller : StartCas(c) \/ StopTake(c) \/ Call(c) \/ CancelStop(c)
  \/ DropEngine \/ DropAbort \/ Build
  \/ \E g \in Gen : NetstackEnds(g) \/ Tasks(g) \/ ReaderStep(g)
  \/ Environment

Spec == Init /\ [][Next]_vars

(* Threads and tasks run; a signalled netstack sees the signal; the reader *)
(* runs too.  Nobody has to call start, stop or drop, and nothing fails.   *)
Fairness ==
  /\ \A c \in Caller : WF_vars(Call(c))
  /\ WF_vars(DropAbort)
  /\ \A g \in Gen : /\ WF_vars(shutdown[g] /\ NetstackEnds(g))
                    /\ WF_vars(DeviceClosed(g))
                    /\ WF_vars(WatchdogTake(g) \/ WatchdogRemoved(g) \/ WatchdogDone(g))
                    /\ WF_vars(RemoveRoute(g) \/ CloseAdapter(g))
                    /\ WF_vars((phase[g] = "gone" \/ reader[g] = "send") /\ ReaderStep(g))

FairSpec == Spec /\ Fairness

-----------------------------------------------------------------------------
(* Properties of every use: any number of callers, cancelled futures, a    *)
(* runtime that goes away, a process that is killed.                       *)

(* Nothing diverts traffic behind the engine's back: a route in the table  *)
(* that an attempt added is still in that attempt's routes vector, where   *)
(* its teardown will find it, or it points at the attempt's own tunnel     *)
(* interface, which still exists and takes the route with it.  Only a      *)
(* killed process leaves routes behind, and only those through a NIC.      *)
RoutesAccountedFor ==
  \A r \in table : r.by # Admin =>
    \/ phase[r.by] \in Live /\ [dest |-> r.dest, ifc |-> r.ifc] \in handles[r.by]
    \/ r.ifc = r.by /\ InterfaceUp(r.by)
    \/ phase[r.by] = "killed" /\ r.ifc \in Nic

(* stop's comment: waiting for the watchdog "is waiting for a restored     *)
(* routing table" (lib.rs:416); and a start that failed "leaves the        *)
(* machine's networking untouched".  When either has returned, no route    *)
(* that its attempt added is in the table.                                 *)
ReturnedMeansRestored ==
  \A c \in Caller : pc[c] \in {"stopped", "failed"} =>
    \A r \in table : r.by # at[c]

(* Shared::running admits one start at a time, and a RunState is never     *)
(* overwritten by the next one: while a start is in progress, or a stop    *)
(* that has taken the RunState has not yet cleared the flag, `running` is  *)
(* None and nobody else is in either place.                                *)
OneRunState ==
  \A c \in Caller : pc[c] \in StartPc \cup {"clear"} =>
    /\ running = NoGen
    /\ \A d \in Caller \ {c} : pc[d] \notin StartPc \cup {"clear"}

(* "Whichever of the two runs first tears the adapter down, exactly once"  *)
(* (RunState::adapter): an adapter that is in place is always in the reach *)
(* of a live watchdog, or of a RunState someone can still stop or drop.    *)
AdapterHasOwner ==
  \A g \in Gen : phase[g] = "held" =>
    \/ watchdog[g] = "await"
    \/ RunStateHeld(g)

-----------------------------------------------------------------------------
(* Properties of a program that makes one call at a time and lets stop     *)
(* finish before the next start.                                           *)

(* start "creates the adapter, installs routes, and begins intercepting":  *)
(* while the engine is up, every half of the address space of every        *)
(* enabled family is routed into its tunnel.                               *)
UpMeansDiverting ==
  running # NoGen /\ phase[running] = "held" =>
    \A h \in SplitRoutes(running) : \E r \in table : Matches(r, h)

(* discover runs "before our routes exist, so the answer describes the     *)
(* real network rather than our own tunnel" (lib.rs:354): the interface    *)
(* outbound sockets are pinned to is never a tunnel.                       *)
PinnedToPhysical ==
  iface # None => \A f \in Family : iface[f] \in Nic \cup {None}

(* The group routes are installed before and removed after the split       *)
(* default, so that multicast "never enters the tunnel" (adapter.rs:28):   *)
(* as long as a split route of a family is in the table, so is the group   *)
(* route of that family, through a physical interface. That is so for a    *)
(* family that discover found an interface for; for any other, create adds *)
(* the split routes alone (MulticastNeverEnters).                          *)
MulticastStaysOut ==
  Platform # "windows" =>
    \A r \in table, f \in Enabled :
      r.dest \in Split(f) /\ via[r.ifc][f] # None
        => \E q \in table : q.dest = Group(f) /\ q.ifc \in Nic

(* "The backend instead installs `224.0.0.0/4` and `ff00::/8` routes via   *)
(* the discovered physical NIC, so multicast never enters the tunnel"      *)
(* (README.md:194-196), of either family. It does enter when one family    *)
(* has no interface: linux/adapter.rs:77-93 skips its group route only.    *)
MulticastNeverEnters ==
  Platform # "windows" =>
    \A r \in table, f \in Enabled :
      r.dest \in Split(f) => \E q \in table : q.dest = Group(f) /\ q.ifc \in Nic

(* Shared::iface is set once; "the value would be identical anyway"        *)
(* (lib.rs:370): the interface sockets are pinned to is the one this start *)
(* discovered.                                                             *)
PinIsCurrent ==
  running # NoGen => iface = via[running]

(* is_running: "Whether the engine is currently running" (lib.rs:321).     *)
(* It does not stay true for an engine whose tunnel has been torn down.    *)
IsRunningMeansUp ==
  running # NoGen => watchdog[running] # "done"

(* README: after a hard kill the group routes survive, "and a graceful     *)
(* stop removes them".                                                     *)
StopRemovesGroupRoutes ==
  \A c \in Caller : pc[c] = "stopped" =>
    ~ \E r \in table : r.dest \in GroupDest /\ r.by # Admin

(* remove_routes: "Remove the routes we installed" (platform/mod.rs:124),  *)
(* and no others.                                                          *)
AdminRoutesKept ==
  [][\A r \in table \ table' : r.by = Admin => nic' # nic]_table

-----------------------------------------------------------------------------
(* stop returns: the shutdown signal reaches the netstack, the watchdog    *)
(* removes the adapter and the reader thread can be joined.                *)
StopReturns ==
  \A c \in Caller : pc[c] = "clear" ~> pc[c] \notin StopPc

(* However the netstack ended, its tunnel stops diverting traffic, with no *)
(* call of the application: watchdog's promise that "the adapter still     *)
(* goes away and the machine still has internet" (lib.rs:436).             *)
NetstackEndRestores ==
  \A g \in Gen : netstack[g] = "ended" ~> (\A r \in table : r.ifc # g)

(* Dropping the engine does too. *)
DropRestores ==
  ~ alive ~> (\A r \in table : r.ifc \in Nic)
=============================================================================
