-------------------------- MODULE LifecycleProofs ---------------------------
(***************************************************************************)
(* The invariants of Lifecycle that hold for every use of the engine,      *)
(* proved for any number of callers, attempts and interfaces, on every     *)
(* platform and under every combination of faults the theorem allows.      *)
(*                                                                         *)
(* The inductive invariant comes in layers, each proved from the ones      *)
(* before it: the types (TypeInv), who may touch the flag and the RunState *)
(* (FlagInv), what a call in progress knows of its attempt (CallInv), what *)
(* the tasks of an attempt know of each other (TaskInv) and what is in the *)
(* forwarding table (RouteInv).  ServiceProofs goes on from there.         *)
(***************************************************************************)
EXTENDS Lifecycle, TLAPS

InCall == StartPc \cup StopPc

(* TypeOK, and a call in progress is about an attempt. *)
TypeInv ==
  /\ TypeOK
  /\ \A c \in Caller : pc[c] \in InCall \cup {"stopped", "failed"} => at[c] \in Gen

-----------------------------------------------------------------------------
(* The routes create installs are routes: a prefix and an interface. *)
LEMMA WantedType ==
  ASSUME NEW g \in Gen, NEW found \in PhysicalInterface
  PROVE  Wanted(g, found) \subseteq Handle
<1>1. GroupRoutes(found) \subseteq Handle
  BY DEF GroupRoutes, Group, Handle, PhysicalInterface, Enabled, Family, Dest, GroupDest
<1>2. SplitRoutes(g) \subseteq Handle
  BY DEF SplitRoutes, Split, Handle, Enabled, Family, Dest, Ifc
<1>. QED
  BY <1>1, <1>2 DEF Wanted

(* The initial states are well typed. *)
LEMMA TypeInit == Init => TypeInv
<1>. SUFFICES ASSUME Init PROVE TypeInv
  OBVIOUS
<1>1. table \in SUBSET Route
  BY CallerAssumption DEF Init
<1>2. via \in [Gen -> PhysicalInterface]
  BY DEF Init, PhysicalInterface
<1>. QED
  BY <1>1, <1>2, Zenon DEF Init, TypeInv, TypeOK, InCall, StartPc, StopPc, Returned, Live

(* Every step of every actor keeps them so. *)
LEMMA TypeStep == TypeInv /\ [Next]_vars => TypeInv'
<1>. SUFFICES ASSUME TypeInv, [Next]_vars PROVE TypeInv'
  OBVIOUS
<1>. USE DEF TypeInv, TypeOK, InCall, StartPc, StopPc, Returned, Live,
         apiVars, callVars, tunVars, taskVars, devVars
<1>0. CASE UNCHANGED vars
  BY <1>0 DEF vars
<1>1. ASSUME NEW c \in Caller, StartCas(c) PROVE TypeInv'
  BY <1>1 DEF StartCas, Goto
<1>2. ASSUME NEW c \in Caller, StopTake(c) PROVE TypeInv'
  BY <1>2 DEF StopTake, Goto
<1>3. ASSUME NEW c \in Caller, StartDiscover(c) PROVE TypeInv'
  <2>. DEFINE q == at[c]
  <2>1. PICK v4 \in Probe("v4"), v6 \in Probe("v6") :
          LET found == [v4 |-> v4, v6 |-> v6]
          IN  /\ via' = [via EXCEPT ![q] = found]
              /\ IF v4 = None /\ v6 = None
                 THEN /\ StartFails(c)
                      /\ phase' = [phase EXCEPT ![q] = "gone"]
                      /\ UNCHANGED iface
                 ELSE /\ iface' = IF iface = None THEN found ELSE iface
                      /\ Goto(c, "create")
                      /\ UNCHANGED <<sharedRunning, phase>>
    BY <1>3, Zenon DEF StartDiscover
  <2>2. v4 \in Ifc \cup {None} /\ v6 \in Ifc \cup {None}
    BY DEF Probe, BestRoute, Route, Ifc, Family
  <2>3. [v4 |-> v4, v6 |-> v6] \in PhysicalInterface
    BY <2>2 DEF PhysicalInterface, Family
  <2>4. CASE v4 = None /\ v6 = None
    <3>1. via' \in [Gen -> PhysicalInterface]
      BY <2>1, <2>3, Zenon
    <3>2. StartFails(c) /\ phase' = [phase EXCEPT ![at[c]] = "gone"] /\ UNCHANGED iface
      BY <2>1, <2>4
    <3>3. UNCHANGED <<running, alive, dropping, runtime, at, handles, taskVars, devVars, table, nic>>
      BY <1>3 DEF StartDiscover
    <3>. QED
      BY <3>1, <3>2, <3>3, <1>3, Zenon DEF StartDiscover, StartFails, Goto
  <2>5. CASE ~ (v4 = None /\ v6 = None)
    <3>1. iface' \in PhysicalInterface \cup {None} /\ via' \in [Gen -> PhysicalInterface]
      BY <2>1, <2>3, <2>5, Zenon
    <3>. QED
      BY <1>3, <2>1, <2>5, <3>1 DEF StartDiscover, Goto
  <2>. QED
    BY <2>4, <2>5
<1>4. ASSUME NEW c \in Caller, StartCreate(c) PROVE TypeInv'
  <2>1. CASE /\ phase' = [phase EXCEPT ![at[c]] = "building"]
             /\ Goto(c, "install")
             /\ UNCHANGED sharedRunning
    BY <1>4, <2>1 DEF StartCreate, Goto
  <2>2. CASE phase' = [phase EXCEPT ![at[c]] = "gone"] /\ StartFails(c)
    BY <1>4, <2>2, Zenon DEF StartCreate, StartFails, Goto
  <2>. QED
    BY <1>4, <2>1, <2>2 DEF StartCreate
<1>5. ASSUME NEW c \in Caller, StartInstall(c) PROVE TypeInv'
  <2>1. at[c] \in Gen /\ via[at[c]] \in PhysicalInterface
    BY <1>5 DEF StartInstall
  <2>2. PICK h \in NextToInstall(ToInstall(at[c])) :
          /\ table' = AddRoute(table, h, at[c])
          /\ handles' = [handles EXCEPT ![at[c]] = @ \cup {h}]
    BY <1>5, Zenon DEF StartInstall
  <2>3. h \in Handle /\ [dest |-> h.dest, ifc |-> h.ifc, by |-> at[c]] \in Route
    BY <2>1, WantedType DEF NextToInstall, Oldest, ToInstall, Handle, Route
  <2>4. AddRoute(table, h, at[c]) \in SUBSET Route
    BY <2>3, PlatformAssumption
    DEF AddRoute, AddRouteLinux, AddRouteMacos, AddRouteWindows, Entry
  <2>. QED
    BY <1>5, <2>1, <2>2, <2>3, <2>4 DEF StartInstall
<1>6. ASSUME NEW c \in Caller, StartInstallFails(c) PROVE TypeInv'
  BY <1>6 DEF StartInstallFails, Goto
<1>7. ASSUME NEW c \in Caller, StartUnwound(c) PROVE TypeInv'
  BY <1>7, Zenon DEF StartUnwound, StartFails, Goto
<1>8. ASSUME NEW c \in Caller, StartSpawn(c) PROVE TypeInv'
  BY <1>8 DEF StartSpawn, Goto
<1>9. ASSUME NEW c \in Caller, StartPublish(c) PROVE TypeInv'
  BY <1>9 DEF StartPublish, Goto
<1>10. ASSUME NEW c \in Caller, StopClear(c) PROVE TypeInv'
  BY <1>10, Zenon DEF StopClear, Goto
<1>11. ASSUME NEW c \in Caller, StopSend(c) PROVE TypeInv'
  BY <1>11 DEF StopSend, Goto
<1>12. ASSUME NEW c \in Caller, StopAwait(c) PROVE TypeInv'
  BY <1>12 DEF StopAwait, Goto
<1>13. ASSUME NEW c \in Caller, StopFallback(c) PROVE TypeInv'
  BY <1>13 DEF StopFallback, Goto
<1>14. ASSUME NEW c \in Caller, StopRemoved(c) PROVE TypeInv'
  BY <1>14 DEF StopRemoved, Goto
<1>15. ASSUME NEW c \in Caller, CancelStop(c) PROVE TypeInv'
  BY <1>15 DEF CancelStop, Goto
<1>16. CASE DropEngine
  <2>1. CASE running = NoGen
    BY <1>16, <2>1, Zenon DEF DropEngine
  <2>2. CASE running # NoGen /\ phase[running] = "held"
    BY <1>16, <2>2, Zenon DEF DropEngine
  <2>3. CASE running # NoGen /\ phase[running] # "held"
    <3>1. watchdog' \in [Gen -> {"none", "await", "removing", "join", "done", "cancelled"}]
      BY <1>16, <2>3 DEF DropEngine, Abort
    <3>. QED
      BY <1>16, <2>3, <3>1, Zenon DEF DropEngine
  <2>. QED
    BY <2>1, <2>2, <2>3
<1>17. CASE DropAbort
  BY <1>17 DEF DropAbort, Abort
<1>18. CASE Build
  BY <1>18, Zenon DEF Build
<1>19. ASSUME NEW g \in Gen, NetstackEnds(g) PROVE TypeInv'
  BY <1>19 DEF NetstackEnds
<1>20. ASSUME NEW g \in Gen, DeviceClosed(g) PROVE TypeInv'
  BY <1>20 DEF DeviceClosed, TableAfterClose, DropInterface
<1>21. ASSUME NEW g \in Gen, WatchdogTake(g) PROVE TypeInv'
  BY <1>21 DEF WatchdogTake
<1>22. ASSUME NEW g \in Gen, WatchdogRemoved(g) PROVE TypeInv'
  BY <1>22 DEF WatchdogRemoved
<1>23. ASSUME NEW g \in Gen, WatchdogDone(g) PROVE TypeInv'
  BY <1>23 DEF WatchdogDone
<1>24. ASSUME NEW g \in Gen, RemoveRoute(g) PROVE TypeInv'
  <2>1. table' \subseteq table
    BY <1>24, PlatformAssumption
    DEF RemoveRoute, DeleteRoute, DeleteRouteLinux, DeleteRouteMacos, DeleteRouteWindows
  <2>. QED
    BY <1>24, <2>1 DEF RemoveRoute
<1>25. ASSUME NEW g \in Gen, CloseAdapter(g) PROVE TypeInv'
  BY <1>25 DEF CloseAdapter, TableAfterClose, DropInterface
<1>26. ASSUME NEW g \in Gen, ReaderStep(g) PROVE TypeInv'
  BY <1>26 DEF ReaderStep, TableAfterClose, DropInterface
<1>27. CASE RuntimeShutdown
  BY <1>27, Zenon DEF RuntimeShutdown
<1>28. CASE Kill
  BY <1>28, Zenon DEF Kill
<1>29. CASE NicChanges
  BY <1>29 DEF NicChanges
<1>30. CASE NicDown
  BY <1>30 DEF NicDown, DropInterface
<1>. HIDE DEF TypeInv
<1>. QED
  BY <1>0, <1>1, <1>2, <1>3, <1>4, <1>5, <1>6, <1>7, <1>8, <1>9, <1>10, <1>11,
     <1>12, <1>13, <1>14, <1>15, <1>16, <1>17, <1>18, <1>19, <1>20, <1>21, <1>22, <1>23,
     <1>24, <1>25, <1>26, <1>27, <1>28, <1>29, <1>30
  DEF Next, Call, Tasks, Environment

-----------------------------------------------------------------------------
(* A call that owns Shared::running. *)
Tok == StartPc \cup {"clear"}

FlagInv ==
  /\ \A c \in Caller : pc[c] \in Tok => sharedRunning /\ running = NoGen
  /\ running # NoGen => sharedRunning
  /\ \A c, d \in Caller : pc[c] \in Tok /\ pc[d] \in Tok => c = d
  /\ ~ alive => running = NoGen /\ Exclusive
  /\ dropping # NoGen => ~ alive

(* The threads and tasks of an attempt leave the engine and its callers    *)
(* alone.                                                                  *)
LEMMA TasksStayInside ==
  ASSUME NEW g \in Gen, NetstackEnds(g) \/ Tasks(g) \/ ReaderStep(g)
  PROVE  UNCHANGED <<apiVars, callVars>>
BY DEF NetstackEnds, Tasks, ReaderStep, DeviceClosed, WatchdogTake, WatchdogRemoved,
       WatchdogDone, RemoveRoute, CloseAdapter

(* The flag is owned by one start, by the RunState, or by a stop that has  *)
(* taken the RunState and not yet cleared the flag.                        *)
LEMMA FlagStep == TypeInv /\ FlagInv /\ [Next]_vars => FlagInv'
<1>. SUFFICES ASSUME TypeInv, FlagInv, [Next]_vars PROVE FlagInv'
  OBVIOUS
<1>0. pc \in [Caller -> StartPc \cup StopPc \cup Returned]
  BY DEF TypeInv, TypeOK
<1>1. CASE UNCHANGED <<sharedRunning, running, alive, dropping, pc>>
  BY <1>1 DEF FlagInv, Exclusive
<1>2. ASSUME NEW c \in Caller, StartInstall(c)
      PROVE  UNCHANGED <<sharedRunning, running, alive, dropping, pc>>
  BY <1>2 DEF StartInstall, apiVars, callVars
<1>3. ASSUME UNCHANGED vars \/ RuntimeShutdown \/ NicChanges \/ NicDown
      PROVE  UNCHANGED <<sharedRunning, running, alive, dropping, pc>>
  BY <1>3 DEF vars, RuntimeShutdown, NicChanges, NicDown, apiVars, callVars
<1>4. ASSUME NEW g \in Gen, NetstackEnds(g) \/ Tasks(g) \/ ReaderStep(g)
      PROVE  UNCHANGED <<sharedRunning, running, alive, dropping, pc>>
  BY <1>4, TasksStayInside DEF apiVars, callVars
<1>. USE DEF FlagInv, Tok, Exclusive, StartPc, StopPc, Returned, Goto, StartFails
<1>5. ASSUME NEW c \in Caller, StartCas(c) PROVE FlagInv'
  BY <1>0, <1>5 DEF StartCas
<1>6. ASSUME NEW c \in Caller, StopTake(c) PROVE FlagInv'
  BY <1>0, <1>6 DEF StopTake
<1>7. ASSUME NEW c \in Caller, StartDiscover(c) \/ StartCreate(c) PROVE FlagInv'
  <2>1. pc[c] \in Tok /\ UNCHANGED <<running, alive, dropping>>
    BY <1>7 DEF StartDiscover, StartCreate
  <2>2. \/ sharedRunning' = FALSE /\ pc' = [pc EXCEPT ![c] = "failed"]
        \/ UNCHANGED sharedRunning /\ \E l \in StartPc : pc' = [pc EXCEPT ![c] = l]
    BY <1>7, Zenon DEF StartDiscover, StartCreate
  <2>. QED
    BY <1>0, <2>1, <2>2
<1>8. ASSUME NEW c \in Caller, StartInstallFails(c) \/ StartSpawn(c) PROVE FlagInv'
  BY <1>0, <1>8 DEF StartInstallFails, StartSpawn, apiVars
<1>9. ASSUME NEW c \in Caller, StartUnwound(c) \/ StartPublish(c) PROVE FlagInv'
  BY <1>0, <1>9 DEF StartUnwound, StartPublish
<1>10. ASSUME NEW c \in Caller, StopClear(c) PROVE FlagInv'
  BY <1>0, <1>10 DEF StopClear
<1>11. ASSUME NEW c \in Caller,
              StopSend(c) \/ StopAwait(c) \/ StopFallback(c) \/ StopRemoved(c) \/ CancelStop(c)
       PROVE  FlagInv'
  BY <1>0, <1>11 DEF StopSend, StopAwait, StopFallback, StopRemoved, CancelStop, apiVars
<1>12. CASE DropEngine
  BY <1>0, <1>12 DEF DropEngine, callVars
<1>13. CASE DropAbort \/ Build
  BY <1>0, <1>13 DEF DropAbort, Build, callVars
<1>14. CASE Kill
  BY <1>0, <1>14 DEF Kill
<1>. HIDE DEF FlagInv
<1>. QED
  BY <1>1, <1>2, <1>3, <1>4, <1>5, <1>6, <1>7, <1>8, <1>9, <1>10, <1>11, <1>12, <1>13, <1>14
  DEF Next, Call, Environment

-----------------------------------------------------------------------------
(* What the type invariant says of calls and of the attempts they are      *)
(* about.                                                                  *)
CallTypes ==
  /\ pc \in [Caller -> StartPc \cup StopPc \cup Returned]
  /\ at \in [Caller -> Gen \cup {NoGen}]
  /\ phase \in [Gen -> Live \cup {"none", "opening", "gone", "killed"}]
  /\ running \in Gen \cup {NoGen}
  /\ dropping \in Gen \cup {NoGen}
  /\ watchdog \in [Gen -> {"none", "await", "removing", "join", "done", "cancelled"}]
  /\ device \in [Gen -> {"none", "open", "closed"}]
  /\ reader \in [Gen -> {"none", "recv", "send", "exited"}]
  /\ \A c \in Caller : pc[c] \in InCall \cup {"stopped", "failed"} => at[c] \in Gen

(* The third layer: where a call is tells how far the adapter of its       *)
(* attempt has come, and no two calls are about the same attempt.          *)
CallInv ==
  /\ \A c \in Caller :
       /\ pc[c] \in {"discover", "create"} => phase[at[c]] = "opening"
       /\ pc[c] = "install" => phase[at[c]] = "building"
       /\ pc[c] = "unwind" => phase[at[c]] \in {"removing", "gone"}
       /\ pc[c] \in StopPc \cup {"publish"} => phase[at[c]] \in {"held", "removing", "gone"}
       /\ pc[c] \in InCall => running # at[c]
  /\ running # NoGen => phase[running] \in {"held", "removing", "gone"}
  /\ dropping # NoGen => phase[dropping] \in {"removing", "gone"}
  /\ \A c, d \in Caller :
       c # d /\ pc[c] \in InCall /\ pc[d] \in InCall => at[c] # at[d]

(* An adapter may be taken out of its Mutex, or closed; nothing else that  *)
(* CallInv is about changes.                                               *)
Ages ==
  /\ UNCHANGED <<pc, at, running, dropping>>
  /\ \A g \in Gen : \/ phase'[g] = phase[g]
                    \/ phase[g] = "held" /\ phase'[g] = "removing"
                    \/ phase[g] = "removing" /\ phase'[g] = "gone"

(* What the tasks of an attempt do to its adapter is no more. *)
LEMMA TasksAge ==
  ASSUME CallTypes, NEW g \in Gen, NetstackEnds(g) \/ Tasks(g) \/ ReaderStep(g)
  PROVE  Ages
<1>1. UNCHANGED <<pc, at, running, dropping>>
  BY TasksStayInside DEF apiVars, callVars
<1>2. \A k \in Gen : \/ phase'[k] = phase[k]
                     \/ phase[k] = "held" /\ phase'[k] = "removing"
                     \/ phase[k] = "removing" /\ phase'[k] = "gone"
  BY DEF CallTypes, NetstackEnds, Tasks, ReaderStep, DeviceClosed, WatchdogTake,
         WatchdogRemoved, WatchdogDone, RemoveRoute, CloseAdapter, tunVars
<1>. QED
  BY <1>1, <1>2 DEF Ages

(* A step of a call keeps CallInv. *)
LEMMA CallCallStep ==
  ASSUME CallTypes, FlagInv, CallInv, NEW c \in Caller,
         StartCas(c) \/ StopTake(c) \/ Call(c) \/ CancelStop(c)
  PROVE  CallInv'
<1>. USE CallerAssumption
     DEF CallTypes, CallInv, InCall, StartPc, StopPc, Returned, Live, Goto
<1>1. CASE StartCas(c)
  BY <1>1 DEF StartCas
<1>2. CASE StopTake(c)
  BY <1>2 DEF StopTake, tunVars
<1>3. CASE StartDiscover(c)
  BY <1>3 DEF StartDiscover, StartFails
<1>4. CASE StartCreate(c)
  BY <1>4 DEF StartCreate, StartFails
<1>5. CASE StartInstall(c)
  BY <1>5 DEF StartInstall, apiVars, callVars
<1>6. CASE StartInstallFails(c)
  BY <1>6 DEF StartInstallFails, apiVars
<1>7. CASE StartSpawn(c)
  BY <1>7 DEF StartSpawn, apiVars
<1>8. CASE StartUnwound(c)
  BY <1>8 DEF StartUnwound, StartFails, tunVars
<1>9. CASE StartPublish(c)
  BY <1>9 DEF StartPublish, tunVars
<1>10. CASE StopClear(c)
  BY <1>10 DEF StopClear, tunVars
<1>11. CASE StopSend(c) \/ StopAwait(c) \/ StopRemoved(c)
  BY <1>11 DEF StopSend, StopAwait, StopRemoved, apiVars, tunVars
<1>12. CASE StopFallback(c)
  BY <1>12 DEF StopFallback, apiVars
<1>13. CASE CancelStop(c)
  BY <1>13 DEF CancelStop, apiVars
<1>. HIDE DEF CallTypes, CallInv
<1>. QED
  BY <1>1, <1>2, <1>3, <1>4, <1>5, <1>6, <1>7, <1>8, <1>9, <1>10, <1>11, <1>12, <1>13
  DEF Call

(* Every step keeps CallInv. *)
LEMMA CallStep == TypeInv /\ FlagInv /\ CallInv /\ [Next]_vars => CallInv'
<1>. SUFFICES ASSUME TypeInv, FlagInv, CallInv, [Next]_vars PROVE CallInv'
  OBVIOUS
<1>0. CallTypes
  BY DEF TypeInv, TypeOK, CallTypes
<1>1. ASSUME NEW c \in Caller, StartCas(c) \/ StopTake(c) \/ Call(c) \/ CancelStop(c)
      PROVE  CallInv'
  BY <1>0, <1>1, CallCallStep
<1>2. CASE Ages
  BY <1>0, <1>2 DEF Ages, CallInv, CallTypes, InCall, StartPc, StopPc
<1>3. ASSUME UNCHANGED vars \/ Build \/ RuntimeShutdown \/ NicChanges \/ NicDown PROVE Ages
  BY <1>3 DEF vars, Build, RuntimeShutdown, NicChanges, NicDown, apiVars,
         callVars, tunVars, Ages
<1>4. CASE DropEngine
  BY <1>0, <1>4, CallerAssumption
  DEF DropEngine, Exclusive, CallInv, CallTypes, InCall, StartPc, StopPc, Returned, callVars
<1>5. CASE DropAbort
  BY <1>5 DEF DropAbort, CallInv, callVars, tunVars
<1>6. CASE Kill
  BY <1>6 DEF Kill, CallInv, InCall, StartPc, StopPc
<1>. QED
  BY <1>0, <1>1, <1>2, <1>3, <1>4, <1>5, <1>6, TasksAge DEF Next, Environment

-----------------------------------------------------------------------------
(* The fourth layer: the state of the watchdog tells how far its adapter   *)
(* has come, ...                                                           *)
Watched(g) ==
  /\ phase[g] \in {"none", "opening", "building"} =>
       device[g] = "none" /\ reader[g] = "none" /\ watchdog[g] = "none"
  /\ phase[g] = "held" => watchdog[g] \in {"await", "cancelled"}
  /\ watchdog[g] \in {"await", "join", "done"} =>
       \/ phase[g] = "gone"
       \/ phase[g] = "held" /\ watchdog[g] = "await"
       \/ phase[g] = "removing" /\ dropping = g
  /\ watchdog[g] = "removing" => phase[g] \in {"removing", "gone"}

(* ... an adapter whose watchdog was cancelled is in its Mutex or gone,    *)
(* and one in place is never out of reach.                                 *)
TaskInv ==
  /\ \A g \in Gen : Watched(g)
  /\ \A c \in Caller :
       /\ pc[c] \in {"publish", "clear", "send", "await"} /\ watchdog[at[c]] = "cancelled"
            => phase[at[c]] \in {"held", "gone"}
       /\ pc[c] \in {"stopped", "failed"} => phase[at[c]] = "gone"
  /\ running # NoGen /\ watchdog[running] = "cancelled"
       => phase[running] \in {"held", "gone"}
  /\ AdapterHasOwner

-----------------------------------------------------------------------------
(* A step of a call keeps TaskInv. *)
LEMMA TaskCallStep ==
  ASSUME CallTypes, FlagInv, CallInv, TaskInv, NEW c \in Caller,
         StartCas(c) \/ StopTake(c) \/ Call(c) \/ CancelStop(c)
  PROVE  TaskInv'
<1>. USE CallerAssumption
     DEF CallTypes, CallInv, TaskInv, Watched, AdapterHasOwner, RunStateHeld,
         InCall, StartPc, StopPc, Returned, Live, Goto
<1>1. CASE StartCas(c)
  BY <1>1 DEF StartCas, taskVars, devVars
<1>2. CASE StopTake(c)
  BY <1>2 DEF StopTake, tunVars, taskVars, devVars
<1>3. CASE StartDiscover(c)
  <2>1. pc[c] = "discover" /\ UNCHANGED <<running, dropping, at, watchdog, device, reader>>
    BY <1>3 DEF StartDiscover, taskVars, devVars
  <2>2. \/ pc' = [pc EXCEPT ![c] = "failed"] /\ phase' = [phase EXCEPT ![at[c]] = "gone"]
        \/ pc' = [pc EXCEPT ![c] = "create"] /\ phase' = phase
    BY <1>3 DEF StartDiscover, StartFails
  <2>. QED
    BY <2>1, <2>2
<1>4. CASE StartCreate(c)
  BY <1>4 DEF StartCreate, StartFails, taskVars, devVars
<1>5. CASE StartInstall(c)
  BY <1>5 DEF StartInstall, apiVars, callVars, taskVars, devVars
<1>6. CASE StartInstallFails(c)
  BY <1>6 DEF StartInstallFails, apiVars, taskVars, devVars
<1>7. CASE StartSpawn(c)
  BY <1>7 DEF StartSpawn, apiVars
<1>8. CASE StartUnwound(c)
  BY <1>8 DEF StartUnwound, StartFails, tunVars, taskVars, devVars
<1>9. CASE StartPublish(c)
  BY <1>9 DEF StartPublish, FlagInv, Tok, tunVars, taskVars, devVars
<1>10. CASE StopClear(c)
  BY <1>10 DEF StopClear, tunVars, taskVars, devVars
<1>11. CASE StopSend(c)
  BY <1>11 DEF StopSend, apiVars, tunVars, devVars
<1>12. CASE StopAwait(c)
  <2>1. phase[at[c]] = "gone"
    BY <1>12 DEF StopAwait, FlagInv, Exclusive
  <2>. QED
    BY <1>12, <2>1 DEF StopAwait, apiVars, tunVars, taskVars, devVars
<1>13. CASE StopRemoved(c)
  BY <1>13 DEF StopRemoved, apiVars, tunVars, taskVars, devVars
<1>14. CASE StopFallback(c)
  BY <1>14 DEF StopFallback, apiVars, taskVars, devVars
<1>15. CASE CancelStop(c)
  BY <1>15 DEF CancelStop, apiVars, taskVars, devVars
<1>. HIDE DEF CallTypes, CallInv, TaskInv
<1>. QED
  BY <1>1, <1>2, <1>3, <1>4, <1>5, <1>6, <1>7, <1>8, <1>9, <1>10, <1>11, <1>12, <1>13,
     <1>14, <1>15 DEF Call

(* A step of the tasks of an attempt keeps TaskInv. *)
LEMMA TaskTasksStep ==
  ASSUME CallTypes, FlagInv, CallInv, TaskInv, NEW g \in Gen,
         NetstackEnds(g) \/ Tasks(g) \/ ReaderStep(g)
  PROVE  TaskInv'
<1>1. UNCHANGED <<pc, at, running, dropping>>
  BY TasksStayInside DEF apiVars, callVars
<1>2. \A k \in Gen : k # g =>
        /\ phase'[k] = phase[k] /\ watchdog'[k] = watchdog[k]
        /\ device'[k] = device[k] /\ reader'[k] = reader[k]
  BY DEF CallTypes, NetstackEnds, Tasks, ReaderStep, DeviceClosed, WatchdogTake,
         WatchdogRemoved,
         WatchdogDone, RemoveRoute, CloseAdapter, tunVars, taskVars, devVars
<1>3. \/ phase'[g] = phase[g] /\ watchdog'[g] = watchdog[g]
      \/ phase[g] = "held" /\ phase'[g] = "removing" /\ watchdog'[g] = "removing"
      \/ phase[g] = "removing" /\ phase'[g] = "gone" /\ watchdog'[g] = watchdog[g]
      \/ phase[g] = "gone" /\ phase'[g] = "gone"
      \/ /\ phase[g] # "held" /\ phase'[g] = phase[g]
         /\ watchdog[g] \in {"await", "join"} /\ watchdog'[g] \in {"join", "done"}
  BY DEF CallTypes, TaskInv, Watched, NetstackEnds, Tasks, ReaderStep,
         DeviceClosed, WatchdogTake, WatchdogRemoved,
         WatchdogDone, RemoveRoute, CloseAdapter, tunVars, taskVars, devVars
<1>4. phase[g] \in {"none", "opening", "building"} =>
        device'[g] = device[g] /\ reader'[g] = reader[g]
  BY DEF CallTypes, TaskInv, Watched, NetstackEnds, Tasks, ReaderStep, DeviceClosed,
         WatchdogTake,
         WatchdogRemoved, WatchdogDone, RemoveRoute, CloseAdapter, devVars
<1>5. \A k \in Gen : RunStateHeld(k)' = RunStateHeld(k)
  BY <1>1 DEF RunStateHeld
<1>6. \A c \in Caller : pc[c] \in {"publish", "clear", "send", "await", "stopped", "failed"}
                          => at[c] \in Gen
  BY DEF CallTypes, InCall, StartPc, StopPc
<1>7. ASSUME NEW k \in Gen PROVE Watched(k)'
  BY <1>1, <1>2, <1>3, <1>4 DEF TaskInv, Watched
<1>8. AdapterHasOwner'
  BY <1>2, <1>3, <1>5 DEF TaskInv, AdapterHasOwner
<1>9. ASSUME NEW k \in Gen, watchdog[k] = "cancelled" => phase[k] \in {"held", "gone"},
             watchdog'[k] = "cancelled"
      PROVE  phase'[k] \in {"held", "gone"}
  BY <1>2, <1>3, <1>9
<1>10. ASSUME NEW c \in Caller
       PROVE  /\ pc[c] \in {"publish", "clear", "send", "await"} /\ watchdog'[at[c]] = "cancelled"
                   => phase'[at[c]] \in {"held", "gone"}
              /\ pc[c] \in {"stopped", "failed"} => phase'[at[c]] = "gone"
  BY <1>2, <1>3, <1>6, <1>9 DEF TaskInv
<1>11. running # NoGen => running \in Gen
  BY DEF CallTypes
<1>12. running # NoGen /\ watchdog'[running] = "cancelled" => phase'[running] \in {"held", "gone"}
  BY <1>9, <1>11 DEF TaskInv
<1>. QED
  BY <1>1, <1>7, <1>8, <1>10, <1>12 DEF TaskInv

(* The runtime takes the tasks with it, and the adapters nobody else holds. *)
LEMMA TaskRuntimeStep ==
  ASSUME CallTypes, FlagInv, CallInv, TaskInv, RuntimeShutdown
  PROVE  TaskInv'
<1>1. \A c \in Caller : /\ pc[c] \in StopPc => dropping = NoGen
                        /\ pc[c] # "publish"
  BY Zenon DEF FlagInv, Exclusive, RuntimeShutdown, StartPc, StopPc, Returned
<1>2. \A g \in Gen : /\ watchdog'[g] = IF AtAwait(g) THEN "cancelled" ELSE watchdog[g]
                     /\ phase'[g] = IF phase[g] = "held" /\ ~ RunStateHeld(g)
                                   THEN "removing" ELSE phase[g]
  BY DEF RuntimeShutdown
<1>3. UNCHANGED <<running, dropping, pc, at, device, reader>>
  BY DEF RuntimeShutdown, callVars, devVars
<1>4. running # NoGen => dropping = NoGen
  BY DEF FlagInv
<1>5. ASSUME NEW g \in Gen PROVE Watched(g)'
  BY <1>2, <1>3 DEF TaskInv, Watched, AtAwait, AdapterHasOwner
<1>6. AdapterHasOwner'
  BY <1>2, <1>3 DEF AdapterHasOwner, RunStateHeld
<1>. QED
  BY <1>1, <1>2, <1>3, <1>4, <1>5, <1>6, CallerAssumption
  DEF AtAwait, CallTypes, CallInv, TaskInv, Watched, RunStateHeld, InCall, StartPc, StopPc

(* The state of the watchdog tells how far its adapter has come, and an    *)
(* adapter in place is never out of reach.                                 *)
LEMMA TaskStep == TypeInv /\ FlagInv /\ CallInv /\ TaskInv /\ [Next]_vars => TaskInv'
<1>. SUFFICES ASSUME TypeInv, FlagInv, CallInv, TaskInv, [Next]_vars PROVE TaskInv'
  OBVIOUS
<1>0. CallTypes
  BY DEF TypeInv, TypeOK, CallTypes
<1>1. ASSUME NEW c \in Caller, StartCas(c) \/ StopTake(c) \/ Call(c) \/ CancelStop(c)
      PROVE  TaskInv'
  BY <1>0, <1>1, TaskCallStep
<1>2. CASE UNCHANGED vars \/ Build \/ NicChanges \/ NicDown
  <2>1. UNCHANGED <<callVars, tunVars, taskVars, device, reader, running, dropping>>
    BY <1>2 DEF vars, Build, NicChanges, NicDown, apiVars, callVars, tunVars, taskVars,
           devVars
  <2>2. UNCHANGED <<pc, at, phase, watchdog, device, reader, running, dropping>>
    BY <2>1 DEF callVars, tunVars, taskVars
  <2>3. AdapterHasOwner'
    BY <2>2 DEF TaskInv, AdapterHasOwner, RunStateHeld
  <2>. QED
    BY <2>2, <2>3 DEF TaskInv, Watched
<1>3. CASE DropEngine
  BY <1>0, <1>3, CallerAssumption
  DEF DropEngine, Exclusive, Abort, AtAwait, FlagInv, CallTypes, CallInv, TaskInv, Watched,
      AdapterHasOwner, RunStateHeld, InCall, StartPc, StopPc, Returned, callVars, devVars
<1>4. CASE DropAbort
  BY <1>0, <1>4, CallerAssumption
  DEF DropAbort, Exclusive, Abort, AtAwait, FlagInv, CallTypes, CallInv, TaskInv, Watched,
      AdapterHasOwner, RunStateHeld, StartPc, StopPc, Returned, callVars, tunVars, devVars
<1>5. CASE Kill
  BY <1>0, <1>5 DEF Kill, CallTypes, TaskInv, Watched, AdapterHasOwner, Live
<1>. QED
  BY <1>0, <1>1, <1>2, <1>3, <1>4, <1>5, TaskTasksStep, TaskRuntimeStep DEF Next,
         Environment
-----------------------------------------------------------------------------
(* The route is one its adapter will delete, or one that dies with an      *)
(* adapter under construction, or one that a killed process left behind.   *)
Accounted(r) ==
  \/ phase[r.by] \in Live /\ [dest |-> r.dest, ifc |-> r.ifc] \in handles[r.by]
  \/ /\ Platform = "windows" /\ r.ifc = r.by
     /\ phase[r.by] = "removing" /\ device[r.by] = "none" /\ reader[r.by] = "none"
  \/ phase[r.by] = "killed" /\ r.ifc \in Nic

RouteInv ==
  /\ \A r \in table : r.by # Admin => Accounted(r)
  /\ Platform = "windows" => \A g \in Gen : \A h \in handles[g] : h.ifc = g

(* The table, what is to be deleted and the devices are left alone, and an *)
(* adapter at most begins to be removed; no route is of one that is not    *)
(* there yet or no more.                                                   *)
Settles ==
  /\ UNCHANGED <<table, handles, device, reader>>
  /\ \A k \in Gen :
       \/ phase'[k] = phase[k]
       \/ phase[k] \in {"none", "opening", "gone"}
       \/ phase[k] \in {"building", "held"} /\ phase'[k] = "removing"

(* The steps of calls that do no more than that ... *)
CallSettles(c) ==
  \/ StartCas(c) \/ StopTake(c) \/ StartDiscover(c) \/ StartCreate(c)
  \/ StartUnwound(c) \/ StartPublish(c) \/ StopClear(c) \/ StopSend(c)
  \/ StopAwait(c) \/ StopFallback(c) \/ StopRemoved(c) \/ CancelStop(c)

(* ... and the others. *)
OtherSettles ==
  \/ UNCHANGED vars
  \/ \E g \in Gen : \/ NetstackEnds(g) \/ WatchdogTake(g) \/ WatchdogRemoved(g)
                    \/ WatchdogDone(g)
  \/ DropEngine \/ DropAbort \/ Build \/ RuntimeShutdown

-----------------------------------------------------------------------------
(* These steps settle. *)
LEMMA CallSettled ==
  ASSUME TypeInv, CallInv, NEW c \in Caller, CallSettles(c)
  PROVE  Settles
<1>. USE DEF TypeInv, TypeOK, CallInv, InCall, StartPc, StopPc, Live, Settles,
             apiVars, callVars, tunVars, taskVars, devVars
<1>1. CASE StartCas(c)
  BY <1>1 DEF StartCas
<1>2. CASE StopTake(c)
  BY <1>2 DEF StopTake
<1>3. CASE StartDiscover(c)
  BY <1>3 DEF StartDiscover
<1>4. CASE StartCreate(c)
  BY <1>4 DEF StartCreate
<1>5. CASE StartUnwound(c)
  BY <1>5 DEF StartUnwound
<1>6. CASE StartPublish(c)
  BY <1>6 DEF StartPublish
<1>7. CASE StopClear(c)
  BY <1>7 DEF StopClear
<1>8. CASE StopSend(c)
  BY <1>8 DEF StopSend
<1>9. CASE StopAwait(c)
  BY <1>9 DEF StopAwait
<1>10. CASE StopFallback(c)
  BY <1>10 DEF StopFallback
<1>11. CASE StopRemoved(c)
  BY <1>11 DEF StopRemoved
<1>12. CASE CancelStop(c)
  BY <1>12 DEF CancelStop
<1>. QED
  BY <1>1, <1>2, <1>3, <1>4, <1>5, <1>6, <1>7, <1>8, <1>9, <1>10, <1>11, <1>12
     DEF CallSettles

(* And so do these. *)
LEMMA OtherSettled ==
  ASSUME TypeInv, OtherSettles
  PROVE  Settles
<1>. USE DEF TypeInv, TypeOK, Live, Settles, apiVars, callVars, tunVars, taskVars, devVars
<1>1. CASE UNCHANGED vars
  BY <1>1 DEF vars
<1>2. ASSUME NEW g \in Gen, NetstackEnds(g) PROVE Settles
  BY <1>2 DEF NetstackEnds
<1>3. ASSUME NEW g \in Gen, WatchdogTake(g) PROVE Settles
  BY <1>3 DEF WatchdogTake
<1>4. ASSUME NEW g \in Gen, WatchdogRemoved(g) PROVE Settles
  BY <1>4 DEF WatchdogRemoved
<1>5. ASSUME NEW g \in Gen, WatchdogDone(g) PROVE Settles
  BY <1>5 DEF WatchdogDone
<1>6. CASE DropEngine
  BY <1>6 DEF DropEngine
<1>7. CASE DropAbort
  BY <1>7 DEF DropAbort
<1>8. CASE Build
  BY <1>8 DEF Build
<1>9. CASE RuntimeShutdown
  BY <1>9 DEF RuntimeShutdown
<1>. QED
  BY <1>1, <1>2, <1>3, <1>4, <1>5, <1>6, <1>7, <1>8, <1>9 DEF OtherSettles

(* A step that settles keeps RouteInv. *)
LEMMA SettledStep ==
  ASSUME TypeInv, RouteInv, Settles
  PROVE  RouteInv'
<1>1. \A r \in table : r.by # Admin => r.by \in Gen
  BY DEF TypeInv, TypeOK, Route
<1>2. UNCHANGED <<table, handles, device, reader>>
  BY Zenon DEF Settles
<1>3. ASSUME NEW r \in table, r.by # Admin
      PROVE  Accounted(r)'
  BY <1>1, <1>2, <1>3 DEF RouteInv, Accounted, Settles, Live
<1>. QED
  BY <1>2, <1>3 DEF RouteInv

(* What the steps below need of the types. *)
RouteTypes ==
  /\ phase \in [Gen -> Live \cup {"none", "opening", "gone", "killed"}]
  /\ handles \in [Gen -> SUBSET Handle]
  /\ device \in [Gen -> {"none", "open", "closed"}]
  /\ reader \in [Gen -> {"none", "recv", "send", "exited"}]
  /\ \A r \in table : r.by # Admin => r.by \in Gen

(* A route that is added is one its adapter will delete. *)
LEMMA InstallStep ==
  ASSUME RouteTypes, RouteInv, NEW c \in Caller, StartInstall(c), at[c] \in Gen,
         phase[at[c]] = "building", via[at[c]] \in PhysicalInterface
  PROVE  RouteInv'
<1>. DEFINE g == at[c]
<1>1. PICK h \in NextToInstall(ToInstall(g)) :
        /\ table' = AddRoute(table, h, g)
        /\ handles' = [handles EXCEPT ![g] = @ \cup {h}]
  BY Zenon DEF StartInstall
<1>2. h \in Wanted(g, via[g])
  BY DEF NextToInstall, Oldest, ToInstall
<1>3. h \in Handle
  BY <1>2, WantedType
<1>4. UNCHANGED <<phase, device, reader>>
  BY DEF StartInstall, devVars
<1>5. \A r \in table' : r \in table \/ r = Entry(h, g)
  BY <1>1, PlatformAssumption DEF AddRoute, AddRouteLinux, AddRouteMacos, AddRouteWindows
<1>6. handles'[g] = handles[g] \cup {h} /\ \A k \in Gen : k # g => handles'[k] = handles[k]
  BY <1>1 DEF RouteTypes
<1>7. [dest |-> h.dest, ifc |-> h.ifc] = h
  BY <1>3 DEF Handle
<1>8. Platform = "windows" => h.ifc = g
  BY <1>2 DEF Wanted, GroupRoutes, SplitRoutes
<1>9. Platform = "windows" => \A k \in Gen : \A i \in handles'[k] : i.ifc = k
  BY <1>6, <1>8 DEF RouteInv
<1>10. ASSUME NEW r \in table', r.by # Admin PROVE Accounted(r)'
  <2>1. CASE r \in table
    <3>1. Accounted(r) /\ r.by \in Gen
      BY <1>10, <2>1 DEF RouteInv, RouteTypes
    <3>2. handles[r.by] \subseteq handles'[r.by]
      BY <1>6, <3>1, Zenon
    <3>. QED
      BY <1>4, <3>1, <3>2, Zenon DEF Accounted
  <2>2. CASE r = Entry(h, g)
    BY <1>4, <1>6, <1>7, <2>2 DEF Entry, Accounted, Live
  <2>. QED
    BY <1>5, <2>1, <2>2
<1>. QED
  BY <1>9, <1>10 DEF RouteInv

(* A handle is given up with its route. *)
LEMMA RemoveStep ==
  ASSUME RouteTypes, RouteInv, "delete" \notin Faults, NEW g \in Gen, RemoveRoute(g)
  PROVE  RouteInv'
<1>1. PICK h \in NextToRemove(handles[g]) :
        /\ handles' = [handles EXCEPT ![g] = @ \ {h}]
        /\ table' = DeleteRoute(table, h)
  BY Zenon DEF RemoveRoute
<1>2. UNCHANGED <<phase, device, reader>>
  BY DEF RemoveRoute, devVars
<1>3. h \in Handle
  BY DEF NextToRemove, Oldest, Newest, RouteTypes
<1>4. handles'[g] = handles[g] \ {h} /\ \A k \in Gen : k # g => handles'[k] = handles[k]
  BY <1>1 DEF RouteTypes
<1>5. ASSUME NEW r \in table', r.by # Admin PROVE Accounted(r)'
  <2>1. r \in table /\ ~ (r.dest = h.dest /\ r.ifc = h.ifc)
    BY <1>1, PlatformAssumption
    DEF DeleteRoute, DeleteRouteLinux, DeleteRouteMacos, DeleteRouteWindows, Matches
  <2>2. [dest |-> r.dest, ifc |-> r.ifc] # h
    BY <2>1, <1>3 DEF Handle
  <2>3. Accounted(r) /\ r.by \in Gen
    BY <1>5, <2>1 DEF RouteInv, RouteTypes
  <2>4. [dest |-> r.dest, ifc |-> r.ifc] \in handles[r.by]
          => [dest |-> r.dest, ifc |-> r.ifc] \in handles'[r.by]
    BY <1>4, <2>2, <2>3
  <2>. QED
    BY <1>2, <2>3, <2>4 DEF Accounted
<1>. QED
  BY <1>4, <1>5, Zenon DEF RouteInv

(* An adapter that is closed has deleted its routes, and those of one that *)
(* never ran go with the interface.                                        *)
LEMMA CloseStep ==
  ASSUME RouteTypes, RouteInv, NEW g \in Gen, CloseAdapter(g)
  PROVE  RouteInv'
<1>1. phase[g] = "removing" /\ handles[g] = {}
  BY DEF CloseAdapter
<1>2. UNCHANGED <<handles, device, reader>>
  BY DEF CloseAdapter, devVars
<1>3. \A k \in Gen : phase'[k] = IF k = g THEN "gone" ELSE phase[k]
  BY DEF CloseAdapter, RouteTypes
<1>4. table' \subseteq table
  BY DEF CloseAdapter, TableAfterClose, DropInterface
<1>5. device[g] = "none" /\ reader[g] = "none" => \A r \in table' : r.ifc # g
  BY <1>2, <1>3 DEF CloseAdapter, TableAfterClose, DropInterface, InterfaceUp,
         Live
<1>6. ASSUME NEW r \in table', r.by # Admin PROVE Accounted(r)'
  <2>1. Accounted(r) /\ r.by \in Gen
    BY <1>4, <1>6 DEF RouteInv, RouteTypes
  <2>2. r.by # g
    BY <1>1, <1>5, <1>6, <2>1 DEF Accounted
  <2>. QED
    BY <1>2, <1>3, <2>1, <2>2 DEF Accounted
<1>. QED
  BY <1>2, <1>6 DEF RouteInv

(* Nothing is given up but routes. *)
LEMMA ShrinkStep ==
  ASSUME RouteTypes, RouteInv, table' \subseteq table, UNCHANGED <<phase, handles>>,
         \A k \in Gen : device[k] = "none" /\ reader[k] = "none" =>
                          device'[k] = "none" /\ reader'[k] = "none"
  PROVE  RouteInv'
<1>1. ASSUME NEW r \in table', r.by # Admin PROVE Accounted(r)'
  <2>1. r \in table /\ Accounted(r) /\ r.by \in Gen
    BY <1>1 DEF RouteInv, RouteTypes
  <2>. QED
    BY <2>1 DEF Accounted
<1>. QED
  BY <1>1 DEF RouteInv

(* If no deletion fails, a route in the table is one that its adapter will *)
(* delete, or one that dies with an adapter under construction, or one     *)
(* that a killed process left behind.                                      *)
LEMMA RouteStep ==
  ASSUME "delete" \notin Faults
  PROVE  TypeInv /\ FlagInv /\ CallInv /\ TaskInv /\ RouteInv /\ [Next]_vars => RouteInv'
<1>. SUFFICES ASSUME TypeInv, FlagInv, CallInv, TaskInv, RouteInv, [Next]_vars PROVE RouteInv'
  OBVIOUS
<1>0. RouteTypes
  BY DEF TypeInv, TypeOK, Route, RouteTypes
<1>1. ASSUME NEW c \in Caller, CallSettles(c) PROVE RouteInv'
  BY <1>1, CallSettled, SettledStep
<1>2. CASE OtherSettles
  BY <1>2, OtherSettled, SettledStep
<1>3. ASSUME NEW c \in Caller, pc[c] = "install"
      PROVE  at[c] \in Gen /\ phase[at[c]] = "building" /\ via[at[c]] \in PhysicalInterface
  BY <1>3 DEF TypeInv, TypeOK, CallInv, InCall, StartPc
<1>4. ASSUME NEW c \in Caller, StartInstall(c) PROVE RouteInv'
  <2>1. pc[c] = "install"
    BY <1>4 DEF StartInstall
  <2>. QED
    BY <1>0, <1>3, <1>4, <2>1, InstallStep
<1>5. ASSUME NEW c \in Caller, StartInstallFails(c) PROVE RouteInv'
  <2>. DEFINE g == at[c]
  <2>1. pc[c] = "install" /\ UNCHANGED <<table, device, reader>>
    BY <1>5 DEF StartInstallFails, devVars
  <2>2. g \in Gen /\ phase[g] = "building"
    BY <1>3, <2>1
  <2>3. device[g] = "none" /\ reader[g] = "none"
    BY <2>2 DEF TaskInv, Watched
  <2>4. phase'[g] = "removing" /\ \A k \in Gen : k # g => phase'[k] = phase[k]
    BY <1>0, <1>5, <2>2 DEF StartInstallFails, RouteTypes
  <2>5. /\ handles'[g] = handles[g] \/ (Platform = "windows" /\ handles'[g] = {})
        /\ \A k \in Gen : k # g => handles'[k] = handles[k]
    BY <1>0, <1>5, <2>2 DEF StartInstallFails, RouteTypes
  <2>6. Platform = "windows" => \A k \in Gen : \A h \in handles'[k] : h.ifc = k
    BY <2>5 DEF RouteInv
  <2>7. ASSUME NEW r \in table', r.by # Admin PROVE Accounted(r)'
    <3>1. Accounted(r) /\ r.by \in Gen
      BY <1>0, <2>1, <2>7 DEF RouteInv, RouteTypes
    <3>2. CASE r.by # g
      BY <2>1, <2>4, <2>5, <3>1, <3>2 DEF Accounted
    <3>3. CASE r.by = g
      <4>1. [dest |-> r.dest, ifc |-> r.ifc] \in handles[g]
        BY <2>2, <3>1, <3>3 DEF Accounted
      <4>2. Platform = "windows" => r.ifc = g
        BY <2>2, <4>1 DEF RouteInv
      <4>. QED
        BY <2>1, <2>3, <2>4, <2>5, <3>3, <4>1, <4>2 DEF Accounted, Live
    <3>. QED
      BY <3>2, <3>3
  <2>. QED
    BY <2>6, <2>7 DEF RouteInv
<1>6. ASSUME NEW c \in Caller, StartSpawn(c) PROVE RouteInv'
  <2>. DEFINE g == at[c]
  <2>1. pc[c] = "install" /\ UNCHANGED <<table, handles>>
    BY <1>6 DEF StartSpawn
  <2>2. g \in Gen /\ phase[g] = "building"
    BY <1>3, <2>1
  <2>3. phase'[g] = "held" /\ \A k \in Gen : k # g =>
          phase'[k] = phase[k] /\ device'[k] = device[k] /\ reader'[k] = reader[k]
    BY <1>0, <1>6, <2>2 DEF StartSpawn, RouteTypes
  <2>4. ASSUME NEW r \in table', r.by # Admin PROVE Accounted(r)'
    <3>1. Accounted(r) /\ r.by \in Gen
      BY <1>0, <2>1, <2>4 DEF RouteInv, RouteTypes
    <3>2. CASE r.by # g
      BY <2>1, <2>3, <3>1, <3>2 DEF Accounted
    <3>3. CASE r.by = g
      BY <2>1, <2>2, <2>3, <3>1, <3>3 DEF Accounted, Live
    <3>. QED
      BY <3>2, <3>3
  <2>. QED
    BY <2>1, <2>4 DEF RouteInv
<1>7. ASSUME NEW g \in Gen, DeviceClosed(g) \/ ReaderStep(g) PROVE RouteInv'
  <2>1. table' \subseteq table /\ UNCHANGED <<phase, handles>>
    BY <1>7 DEF DeviceClosed, ReaderStep, TableAfterClose, DropInterface, tunVars
  <2>2. \A k \in Gen : device[k] = "none" /\ reader[k] = "none" =>
          device'[k] = "none" /\ reader'[k] = "none"
    BY <1>0, <1>7 DEF DeviceClosed, ReaderStep, RouteTypes
  <2>. QED
    BY <1>0, <2>1, <2>2, ShrinkStep
<1>8. ASSUME NEW g \in Gen, RemoveRoute(g) \/ CloseAdapter(g) PROVE RouteInv'
  BY <1>0, <1>8, RemoveStep, CloseStep
<1>9. CASE Kill
  <2>1. \A r \in table' : r \in table /\ r.ifc \in Nic
    BY <1>9 DEF Kill
  <2>2. \A k \in Gen : /\ phase[k] \in Live \cup {"killed"} => phase'[k] = "killed"
                       /\ handles'[k] = {}
    BY <1>9 DEF Kill, Live
  <2>3. \A r \in table : r.by # Admin => r.by \in Gen /\ phase[r.by] \in Live \cup {"killed"}
    BY <1>0, Zenon DEF RouteInv, Accounted, RouteTypes, Live
  <2>. QED
    BY <2>1, <2>2, <2>3 DEF RouteInv, Accounted
<1>10. CASE NicChanges
  BY <1>0, <1>10, ShrinkStep DEF NicChanges, tunVars, devVars
<1>11. CASE NicDown
  BY <1>0, <1>11, ShrinkStep DEF NicDown, DropInterface, tunVars, devVars
<1>. QED
  BY <1>1, <1>2, <1>4, <1>5, <1>6, <1>7, <1>8, <1>9, <1>10, <1>11
  DEF Next, Call, Tasks, Environment, CallSettles, OtherSettles

-----------------------------------------------------------------------------
(* All layers but the last hold in every behaviour, whatever fails. *)
Inv == TypeInv /\ FlagInv /\ CallInv /\ TaskInv

(* An engine that was just built satisfies every layer. *)
LEMMA InvInit == Init => Inv
<1>. SUFFICES ASSUME Init PROVE Inv
  OBVIOUS
<1>1. FlagInv /\ CallInv /\ TaskInv
  BY DEF Init, FlagInv, CallInv, TaskInv, Watched, AdapterHasOwner, Tok, InCall,
         StartPc, StopPc
<1>. QED
  BY <1>1, TypeInit DEF Inv

(* Each layer is kept by every step, given the layers below it. *)
LEMMA InvAlways == Spec => []Inv
<1>1. Inv /\ [Next]_vars => Inv'
  BY TypeStep, FlagStep, CallStep, TaskStep DEF Inv
<1>. QED
  BY InvInit, <1>1, PTL DEF Spec

(* The state of the engine is well typed in every behaviour. *)
THEOREM TypeCorrect == Spec => []TypeOK
<1>1. Inv => TypeOK
  BY DEF Inv, TypeInv
<1>. QED
  BY <1>1, InvAlways, PTL

(* Shared::running and the running mutex (lib.rs 326-351, 405-415) admit   *)
(* one start at a time and never overwrite a RunState, for any number of   *)
(* callers and whatever fails.                                             *)
THEOREM OneRunStateAlways == Spec => []OneRunState
<1>1. Inv => OneRunState
  BY DEF Inv, FlagInv, OneRunState, Tok
<1>. QED
  BY <1>1, InvAlways, PTL

(* No interleaving of start, stop, drop, the watchdog, a cancelled stop    *)
(* and a runtime shutdown leaves an adapter in place that nobody can tear  *)
(* down (lib.rs 287-294, 433-463).                                         *)
THEOREM AdapterHasOwnerAlways == Spec => []AdapterHasOwner
<1>1. Inv => AdapterHasOwner
  BY DEF Inv, TaskInv
<1>. QED
  BY <1>1, InvAlways, PTL

(* The layer of the routes holds too, if delete_route does not fail. *)
LEMMA RouteAlways == ASSUME "delete" \notin Faults PROVE Spec => []RouteInv
<1>1. Init => RouteInv
  BY CallerAssumption DEF Init, RouteInv
<1>2. Inv /\ RouteInv /\ [Next]_vars => RouteInv'
  BY RouteStep DEF Inv
<1>. QED
  BY <1>1, <1>2, InvAlways, PTL DEF Spec

(* As long as the kernel carries out the deletions it is asked for, every  *)
(* route the engine added is in the vector its teardown drains, or dies    *)
(* with its interface, or was left through a NIC by a killed process       *)
(* (TunAdapter::{create, remove_routes, drop}).                            *)
THEOREM RoutesAccountedForAlways ==
  ASSUME "delete" \notin Faults PROVE Spec => []RoutesAccountedFor
<1>1. RouteInv => RoutesAccountedFor
  BY DEF RouteInv, Accounted, RoutesAccountedFor, InterfaceUp, Live
<1>. QED
  BY <1>1, RouteAlways, PTL

(* When stop has returned, or start has failed, no route of that attempt   *)
(* is in the table: the promise of stop's comment (lib.rs 416) for any     *)
(* number of callers, cancelled stops and a runtime that goes away.        *)
THEOREM ReturnedMeansRestoredAlways ==
  ASSUME "delete" \notin Faults PROVE Spec => []ReturnedMeansRestored
<1>1. Inv /\ RouteInv => ReturnedMeansRestored
  <2>. SUFFICES ASSUME Inv, RouteInv,
                       NEW c \in Caller, pc[c] \in {"stopped", "failed"},
                       NEW r \in table, r.by = at[c]
                PROVE  FALSE
    BY DEF ReturnedMeansRestored
  <2>1. at[c] \in Gen /\ phase[at[c]] = "gone"
    BY DEF Inv, TypeInv, TaskInv
  <2>2. phase[r.by] \in Live \cup {"removing", "killed"}
    BY <2>1, InterfaceAssumption, Zenon DEF RouteInv, Accounted
  <2>. QED
    BY <2>1, <2>2 DEF Live
<1>. QED
  BY <1>1, InvAlways, RouteAlways, PTL
=============================================================================
