--------------------------- MODULE ServiceProofs ----------------------------
(***************************************************************************)
(* What Lifecycle promises a program that makes one call at a time, proved *)
(* for any number of attempts and interfaces, on every platform: while it  *)
(* is up it diverts, multicast stays out of the tunnel, discover never     *)
(* finds a tunnel, and every step is a step of EngineService.              *)
(*                                                                         *)
(* Four more layers stand on those of LifecycleProofs: SerialInv (one      *)
(* attempt at a time), TableInv (whose routes lead where), UpInv (what has *)
(* been installed is in the table) and GroupInv (the group routes of an    *)
(* attempt outlast its split routes).                                      *)
(***************************************************************************)
EXTENDS LifecycleProofs, LifecycleService

(* The use lib.rs (lines 40-43) speaks of: one caller, which lets stop     *)
(* finish and does not build a second engine; and a kernel that deletes    *)
(* the routes it is asked to.  Everything else may fail.                   *)
OneAtATime ==
  /\ \A c, d \in Caller : c = d
  /\ Faults \cap {"cancel", "rebuild", "delete"} = {}

(* An attempt between its compare-exchange and the end of its teardown. *)
Active == Live \cup {"opening"}

(* Somebody knows of the attempt, or no start can happen any more. *)
Owned(g) ==
  \/ running = g
  \/ \E c \in Caller : at[c] = g /\ pc[c] \in InCall
  \/ ~ alive
  \/ ~ runtime

SerialInv ==
  /\ \A g \in Gen : phase[g] \in Active => Owned(g)
  /\ \A g, k \in Gen : phase[g] \in Active /\ phase[k] \in Active => g = k

(* Steps that begin no attempt: whoever knew of an active one still does.  *)
Serves ==
  \A g \in Gen : phase'[g] \in Active => phase[g] \in Active /\ (Owned(g) => Owned(g)')

(* A step of a call in progress begins no attempt. *)
LEMMA CallServes ==
  ASSUME Inv, NEW c \in Caller, StopTake(c) \/ Call(c)
  PROVE  Serves
<1>. USE DEF Inv, TypeInv, TypeOK, CallInv, InCall, StartPc, StopPc, Returned, Live, Active,
             Serves, Owned, apiVars, callVars, tunVars, Goto, StartFails
<1>1. CASE StopTake(c)
  <2>1. \A d \in Caller : pc[d] \in InCall => d # c
    BY <1>1 DEF StopTake
  <2>2. \A d \in Caller : d # c => pc'[d] = pc[d] /\ at'[d] = at[d]
    BY <1>1 DEF StopTake
  <2>3. at'[c] = running /\ pc'[c] = "clear"
    BY <1>1 DEF StopTake
  <2>4. UNCHANGED <<phase, alive, runtime>>
    BY <1>1 DEF StopTake
  <2>5. ASSUME NEW g \in Gen, Owned(g) PROVE Owned(g)'
    <3>1. CASE running = g
      BY <2>3, <3>1
    <3>2. CASE ~ alive \/ ~ runtime
      BY <2>4, <3>2
    <3>3. ASSUME NEW d \in Caller, at[d] = g, pc[d] \in InCall PROVE Owned(g)'
      BY <2>1, <2>2, <3>3
    <3>. QED
      BY <2>5, <3>1, <3>2, <3>3
  <2>. QED
    BY <2>4, <2>5
<1>2. CASE StartDiscover(c)
  BY <1>2 DEF StartDiscover
<1>3. CASE StartCreate(c)
  BY <1>3 DEF StartCreate
<1>4. CASE StartInstall(c)
  BY <1>4 DEF StartInstall
<1>5. CASE StartInstallFails(c)
  BY <1>5 DEF StartInstallFails
<1>6. CASE StartUnwound(c)
  BY <1>6 DEF StartUnwound
<1>7. CASE StartSpawn(c)
  BY <1>7 DEF StartSpawn
<1>8. CASE StartPublish(c)
  BY <1>8, CallerAssumption DEF StartPublish, FlagInv, Tok
<1>9. CASE StopClear(c)
  BY <1>9 DEF StopClear
<1>10. CASE StopSend(c)
  BY <1>10 DEF StopSend
<1>11. CASE StopAwait(c)
  <2>1. phase[at[c]] = "gone"
    BY <1>11, CallerAssumption DEF StopAwait, TaskInv, Watched, FlagInv, Exclusive
  <2>. QED
    BY <1>11, <2>1 DEF StopAwait
<1>12. CASE StopFallback(c)
  BY <1>12 DEF StopFallback, TaskInv, Watched
<1>13. CASE StopRemoved(c)
  BY <1>13 DEF StopRemoved
<1>. QED
  BY <1>1, <1>2, <1>3, <1>4, <1>5, <1>6, <1>7, <1>8, <1>9, <1>10, <1>11, <1>12, <1>13,
     Zenon DEF Call

(* And neither does any other step, as long as no call is cancelled and no *)
(* second engine is built.                                                 *)
LEMMA OtherServes ==
  ASSUME Inv, DropEngine \/ DropAbort \/ UNCHANGED vars \/ Environment
              \/ \E g \in Gen : NetstackEnds(g) \/ Tasks(g) \/ ReaderStep(g)
  PROVE  Serves
<1>. USE DEF Inv, TypeInv, TypeOK, Live, Active, Serves, Owned,
             apiVars, callVars, tunVars
<1>1. CASE DropEngine
  BY <1>1 DEF DropEngine
<1>2. CASE DropAbort
  BY <1>2 DEF DropAbort
<1>3. CASE UNCHANGED vars
  BY <1>3 DEF vars
<1>4. CASE RuntimeShutdown
  BY <1>4 DEF RuntimeShutdown
<1>5. CASE Kill
  BY <1>5 DEF Kill
<1>6. CASE NicChanges \/ NicDown
  BY <1>6 DEF NicChanges, NicDown
<1>7. ASSUME NEW g \in Gen, NetstackEnds(g) \/ ReaderStep(g) PROVE Serves
  BY <1>7 DEF NetstackEnds, ReaderStep
<1>8. ASSUME NEW g \in Gen, Tasks(g) PROVE Serves
  <2>1. UNCHANGED <<apiVars, callVars>>
    BY <1>8 DEF Tasks, DeviceClosed, WatchdogTake, WatchdogRemoved, WatchdogDone,
                RemoveRoute, CloseAdapter
  <2>2. \A k \in Gen : phase'[k] \in Active => phase[k] \in Active
    BY <1>8 DEF Tasks, DeviceClosed, WatchdogTake, WatchdogRemoved, WatchdogDone,
                RemoveRoute, CloseAdapter
  <2>. QED
    BY <2>1, <2>2
<1>. QED
  BY <1>1, <1>2, <1>3, <1>4, <1>5, <1>6, <1>7, <1>8, Zenon DEF Environment

(* When start gets past the compare-exchange, no attempt is under way. *)
LEMMA NoneUnderWay ==
  ASSUME OneAtATime, Inv, SerialInv, NEW c \in Caller, StartCas(c)
  PROVE  \A g \in Gen : phase[g] \notin Active
<1>1. running = NoGen /\ alive /\ runtime
  BY DEF Inv, FlagInv, StartCas
<1>2. \A d \in Caller : pc[d] \notin InCall
  BY DEF OneAtATime, StartCas, InCall, StartPc, StopPc, Returned
<1>. QED
  BY <1>1, <1>2, CallerAssumption DEF SerialInv, Owned

(* One attempt is under way at a time, and someone knows of it. *)
LEMMA SerialStep ==
  ASSUME OneAtATime
  PROVE  Inv /\ SerialInv /\ [Next]_vars => SerialInv'
<1>. SUFFICES ASSUME Inv, SerialInv, [Next]_vars PROVE SerialInv'
  OBVIOUS
<1>1. ASSUME NEW c \in Caller, StartCas(c) PROVE SerialInv'
  <2>1. \A g \in Gen : phase[g] \notin Active
    BY <1>1, NoneUnderWay
  <2>2. PICK g \in Gen : phase' = [phase EXCEPT ![g] = "opening"] /\ at' = [at EXCEPT ![c] = g]
    BY <1>1, Zenon DEF StartCas
  <2>3. at'[c] = g /\ pc'[c] \in InCall
    BY <1>1, <2>2 DEF StartCas, Goto, Inv, TypeInv, TypeOK, InCall, StartPc
  <2>4. \A k \in Gen : phase'[k] \in Active => k = g
    BY <2>1, <2>2 DEF Inv, TypeInv, TypeOK
  <2>. QED
    BY <2>3, <2>4 DEF SerialInv, Owned
<1>2. CASE Serves
  BY <1>2 DEF SerialInv, Serves
<1>3. ~ Build /\ \A c \in Caller : ~ CancelStop(c)
  BY DEF OneAtATime, CancelStop, Build
<1>. QED
  BY <1>1, <1>2, <1>3, CallServes, OtherServes DEF Next
-----------------------------------------------------------------------------
(* Group routes lead through NICs, the others into the tunnel of the       *)
(* attempt that added them.                                                *)
TableInv ==
  /\ \A r \in table : r.dest \in GroupDest => r.ifc \in Nic
  /\ \A r \in table : r.dest \notin GroupDest => r.by \in Gen /\ r.ifc = r.by
  /\ \A g \in Gen :
       /\ handles[g] \subseteq Wanted(g, via[g])
       /\ phase[g] \in {"none", "opening"} => handles[g] = {}
       /\ \A f \in Family : via[g][f] \in Nic \cup {None}
  /\ iface # None => \A f \in Family : iface[f] \in Nic \cup {None}

(* Until its teardown begins, the split routes of an attempt stay in the   *)
(* table; they are complete when it is up.                                 *)
UpInv ==
  \A g \in Gen :
    /\ phase[g] \in {"building", "held"} =>
         \A h \in handles[g] : h.dest \notin GroupDest => \E r \in table : Matches(r, h)
    /\ phase[g] = "held" => SplitRoutes(g) \subseteq handles[g]

(* The group routes are first in and last out. *)
GroupInv ==
  Platform # "windows" => \A g \in Gen : phase[g] \in Live =>
    /\ \A h \in handles[g] : h.dest \in GroupDest => \E q \in table : q.dest = h.dest
    /\ (\E h \in handles[g] : h.dest \notin GroupDest) => GroupRoutes(via[g]) \subseteq handles[g]

-----------------------------------------------------------------------------
(* Steps that touch neither the table nor the routes vectors.  What they   *)
(* may do to the phase of an adapter takes nothing away from what the      *)
(* layers say of it.                                                       *)
Quiet ==
  /\ UNCHANGED <<table, handles, via>>
  /\ iface' \in {iface, None}
  /\ \A g \in Gen :
       \/ phase'[g] = phase[g]
       \/ phase[g] = "none" /\ phase'[g] = "opening"
       \/ phase[g] = "opening" /\ phase'[g] \in {"building", "gone"}
       \/ phase[g] = "held" /\ phase'[g] = "removing"

(* The steps of calls that are quiet ... *)
QuietCall(c) ==
  \/ StartCas(c) \/ StopTake(c) \/ StartCreate(c) \/ StartUnwound(c) \/ StartPublish(c)
  \/ StopClear(c) \/ StopSend(c) \/ StopAwait(c) \/ StopFallback(c) \/ StopRemoved(c)
  \/ CancelStop(c)

(* ... and the others. *)
QuietOther ==
  \/ UNCHANGED vars
  \/ \E g \in Gen : \/ NetstackEnds(g) \/ WatchdogTake(g) \/ WatchdogRemoved(g)
                    \/ WatchdogDone(g)
  \/ DropEngine \/ DropAbort \/ Build \/ RuntimeShutdown \/ NicChanges

(* These steps are quiet. *)
LEMMA CallQuiet ==
  ASSUME Inv, NEW c \in Caller, QuietCall(c)
  PROVE  Quiet
<1>. USE DEF Inv, TypeInv, TypeOK, CallInv, InCall, StartPc, StopPc, Quiet,
             apiVars, callVars, tunVars
<1>1. CASE StartCas(c)
  BY <1>1 DEF StartCas
<1>2. CASE StartCreate(c)
  BY <1>2 DEF StartCreate
<1>3. CASE StopFallback(c)
  BY <1>3 DEF StopFallback
<1>4. CASE CancelStop(c)
  BY <1>4 DEF CancelStop
<1>5. CASE StopTake(c) \/ StartUnwound(c) \/ StartPublish(c)
  BY <1>5 DEF StopTake, StartUnwound, StartPublish
<1>6. CASE StopClear(c) \/ StopSend(c) \/ StopAwait(c) \/ StopRemoved(c)
  BY <1>6 DEF StopClear, StopSend, StopAwait, StopRemoved
<1>. QED
  BY <1>1, <1>2, <1>3, <1>4, <1>5, <1>6 DEF QuietCall

(* And so are these. *)
LEMMA OtherQuiet ==
  ASSUME Inv, QuietOther
  PROVE  Quiet
<1>. USE DEF Inv, TypeInv, TypeOK, Quiet, apiVars, callVars, tunVars
<1>1. CASE UNCHANGED vars
  BY <1>1 DEF vars
<1>2. ASSUME NEW g \in Gen, NetstackEnds(g) \/ WatchdogRemoved(g) \/ WatchdogDone(g)
      PROVE  Quiet
  BY <1>2 DEF NetstackEnds, WatchdogRemoved, WatchdogDone
<1>3. ASSUME NEW g \in Gen, WatchdogTake(g) PROVE Quiet
  BY <1>3 DEF WatchdogTake
<1>4. CASE DropEngine
  BY <1>4 DEF DropEngine
<1>5. CASE DropAbort \/ Build \/ NicChanges
  BY <1>5 DEF DropAbort, Build, NicChanges
<1>6. CASE RuntimeShutdown
  BY <1>6 DEF RuntimeShutdown
<1>. QED
  BY <1>1, <1>2, <1>3, <1>4, <1>5, <1>6 DEF QuietOther

(* A quiet step keeps the layers. *)
LEMMA QuietStep ==
  ASSUME TypeInv, TableInv, UpInv, Quiet
  PROVE  TableInv' /\ UpInv' /\ (GroupInv => GroupInv')
<1>1. UNCHANGED <<table, handles, via>>
  BY DEF Quiet
<1>2. TableInv'
  BY <1>1 DEF Quiet, TableInv
<1>3. ASSUME NEW g \in Gen, phase'[g] \in {"building", "held"}
      PROVE  phase'[g] = phase[g] \/ (phase'[g] = "building" /\ handles[g] = {})
  BY <1>3 DEF Quiet, TableInv
<1>4. UpInv'
  <2>. SUFFICES ASSUME NEW g \in Gen, phase'[g] \in {"building", "held"} PROVE
                  /\ \A h \in handles[g] : h.dest \notin GroupDest => \E r \in table : Matches(r, h)
                  /\ phase'[g] = "held" => SplitRoutes(g) \subseteq handles[g]
    BY <1>1 DEF UpInv
  <2>. QED
    BY <1>3 DEF UpInv
<1>5. ASSUME NEW g \in Gen, phase'[g] \in Live
      PROVE  phase[g] \in Live \/ handles[g] = {}
  BY <1>5 DEF Quiet, TableInv, Live
<1>6. GroupInv => GroupInv'
  BY <1>1, <1>5 DEF GroupInv
<1>. QED
  BY <1>2, <1>4, <1>6

-----------------------------------------------------------------------------
(* A split route belongs to an attempt that has not closed its adapter. *)
LEMMA SplitIsLive ==
  ASSUME RouteInv, TableInv, NEW r \in table, r.dest \notin GroupDest
  PROVE  r.by \in Gen /\ r.ifc = r.by /\ phase[r.by] \in Live
<1>1. r.by \in Gen /\ r.ifc = r.by
  BY DEF TableInv
<1>2. Accounted(r)
  BY <1>1, InterfaceAssumption DEF RouteInv
<1>. QED
  BY <1>1, <1>2, InterfaceAssumption DEF Accounted, Live

(* A group route is one of the multicast prefixes. *)
LEMMA GroupRouteDest ==
  ASSUME NEW found, NEW h \in GroupRoutes(found)
  PROVE  h.dest \in GroupDest
BY DEF GroupRoutes, Group, GroupDest

(* A route create installs leads into the tunnel, or is the group route of *)
(* a family for which discover found an interface.                         *)
LEMMA WantedShape ==
  ASSUME NEW g \in Gen, NEW found \in PhysicalInterface, NEW h \in Wanted(g, found)
  PROVE  /\ h \in Handle
         /\ h.dest \notin GroupDest => h.ifc = g
         /\ h.dest \in GroupDest => \E f \in Enabled :
              /\ h = [dest |-> Group(f), ifc |-> found[f]]
              /\ found[f] # None
<1>1. h \in Handle
  BY WantedType
<1>2. CASE h \in GroupRoutes(found)
  BY <1>1, <1>2 DEF GroupRoutes, Group, GroupDest
<1>3. CASE h \in SplitRoutes(g)
  BY <1>1, <1>3 DEF SplitRoutes, Split, GroupDest, Enabled, Family
<1>. QED
  BY <1>1, <1>2, <1>3 DEF Wanted

(* ... so the group routes of one attempt have different prefixes. *)
LEMMA GroupRoutesDiffer ==
  ASSUME NEW g \in Gen, NEW found \in PhysicalInterface,
         NEW h \in Wanted(g, found), NEW k \in Wanted(g, found),
         h.dest \in GroupDest, h.dest = k.dest
  PROVE  h = k
<1>1. PICK e \in Enabled : h = [dest |-> Group(e), ifc |-> found[e]]
  BY WantedShape
<1>2. PICK f \in Enabled : k = [dest |-> Group(f), ifc |-> found[f]]
  BY WantedShape
<1>3. Group(e) = Group(f)
  BY <1>1, <1>2
<1>4. e = f
  BY <1>3 DEF Group, Enabled, Family
<1>. QED
  BY <1>1, <1>2, <1>4

(* discover runs when no tunnel is up, so it finds the machine's own       *)
(* default interface.                                                      *)
LEMMA DiscoverFindsNic ==
  ASSUME Inv, RouteInv, SerialInv, TableInv,
         NEW c \in Caller, pc[c] = "discover", NEW f \in Family
  PROVE  Probe(f) \subseteq Nic \cup {None}
<1>1. at[c] \in Gen /\ phase[at[c]] = "opening"
  BY DEF Inv, TypeInv, CallInv, InCall, StartPc
<1>2. ASSUME NEW r \in table, r.dest \notin GroupDest PROVE FALSE
  <2>1. r.by \in Gen /\ phase[r.by] \in Live
    BY <1>2, SplitIsLive
  <2>. QED
    BY <1>1, <2>1 DEF SerialInv, Active, Live
<1>3. {r \in table : r.dest = Low(f)} = {}
  BY <1>2 DEF Low, GroupDest
<1>4. nic[f] \in Nic \cup {None}
  BY DEF Inv, TypeInv, TypeOK
<1>. QED
  BY <1>3, <1>4 DEF Probe, BestRoute

(* Together the layers say what is kept. *)
Kept == TableInv /\ UpInv /\ (Faults \cap {"flap"} = {} => GroupInv)

(* discover is the one step that decides what a start is going to route. *)
LEMMA DiscoverKeeps ==
  ASSUME Inv, RouteInv, SerialInv, Kept, NEW c \in Caller, StartDiscover(c)
  PROVE  Kept'
<1>. DEFINE g == at[c]
<1>1. g \in Gen /\ phase[g] = "opening" /\ handles[g] = {}
  BY DEF Inv, TypeInv, CallInv, InCall, StartPc, StartDiscover, Kept, TableInv
<1>2. PICK v4 \in Probe("v4"), v6 \in Probe("v6") :
        /\ via' = [via EXCEPT ![g] = [v4 |-> v4, v6 |-> v6]]
        /\ iface' \in {iface, [v4 |-> v4, v6 |-> v6]}
        /\ phase' \in {phase, [phase EXCEPT ![g] = "gone"]}
  BY Zenon DEF StartDiscover
<1>3. v4 \in Nic \cup {None} /\ v6 \in Nic \cup {None}
  BY DiscoverFindsNic DEF Family, StartDiscover, Kept
<1>4. UNCHANGED <<table, handles>>
  BY DEF StartDiscover
<1>5. \A k \in Gen : k # g => via'[k] = via[k] /\ phase'[k] = phase[k]
  BY <1>2 DEF Inv, TypeInv, TypeOK
<1>6. \A f \in Family : [v4 |-> v4, v6 |-> v6][f] \in Nic \cup {None}
  BY <1>3 DEF Family
<1>7. via'[g] = [v4 |-> v4, v6 |-> v6] /\ phase'[g] \in {"opening", "gone"}
  BY <1>1, <1>2 DEF Inv, TypeInv, TypeOK
<1>8. TableInv'
  <2>1. ASSUME NEW k \in Gen
        PROVE  /\ handles[k] \subseteq Wanted(k, via'[k])
               /\ phase'[k] \in {"none", "opening"} => handles[k] = {}
               /\ \A f \in Family : via'[k][f] \in Nic \cup {None}
    BY <1>1, <1>5, <1>6, <1>7 DEF Kept, TableInv
  <2>2. iface' # None => \A f \in Family : iface'[f] \in Nic \cup {None}
    BY <1>2, <1>6 DEF Kept, TableInv
  <2>. QED
    BY <1>4, <2>1, <2>2 DEF Kept, TableInv
<1>9. UpInv'
  BY <1>4, <1>5, <1>7, Zenon DEF Kept, UpInv
<1>10. GroupInv => GroupInv'
  BY <1>4, <1>5, <1>7 DEF GroupInv, Live
<1>. QED
  BY <1>8, <1>9, <1>10 DEF Kept

(* A split route that create asks for is in the table afterwards: one that *)
(* is there already can only be its own.                                   *)
LEMMA InstallKeeps ==
  ASSUME Inv, RouteInv, SerialInv, Kept, NEW c \in Caller, StartInstall(c)
  PROVE  Kept'
<1>. DEFINE g == at[c]
<1>1. g \in Gen /\ phase[g] = "building" /\ via[g] \in PhysicalInterface
  BY DEF Inv, TypeInv, TypeOK, CallInv, InCall, StartPc, StartInstall
<1>2. PICK h \in Oldest(ToInstall(g)) :
        /\ table' = AddRoute(table, h, g)
        /\ handles' = [handles EXCEPT ![g] = @ \cup {h}]
  BY Zenon DEF StartInstall, NextToInstall
<1>3. UNCHANGED <<phase, via, iface>>
  BY Zenon DEF StartInstall, apiVars
<1>4. h \in Wanted(g, via[g])
  BY DEF Oldest, ToInstall
<1>5. /\ h \in Handle
      /\ h.dest \notin GroupDest => h.ifc = g
      /\ h.dest \in GroupDest => h.ifc \in Nic
  <2>1. /\ h \in Handle
        /\ h.dest \notin GroupDest => h.ifc = g
        /\ h.dest \in GroupDest => \E f \in Enabled : h.ifc = via[g][f] /\ via[g][f] # None
    BY <1>1, <1>4, WantedShape
  <2>2. \A f \in Enabled : via[g][f] \in Nic \cup {None}
    BY <1>1 DEF Kept, TableInv, Enabled, Family
  <2>. QED
    BY <2>1, <2>2
<1>6. handles'[g] = handles[g] \cup {h} /\ \A k \in Gen : k # g => handles'[k] = handles[k]
  BY <1>1, <1>2 DEF Inv, TypeInv, TypeOK
<1>7. table \subseteq table' /\ table' \subseteq table \cup {Entry(h, g)}
  BY <1>2, PlatformAssumption DEF AddRoute, AddRouteLinux, AddRouteMacos, AddRouteWindows
<1>8. \/ Entry(h, g) \in table'
      \/ \E r \in table : Matches(r, h)
      \/ Platform # "windows" /\ \E r \in table : r.dest = h.dest
  BY <1>2, PlatformAssumption DEF AddRoute, AddRouteLinux, AddRouteMacos, AddRouteWindows
<1>9. \E q \in table' : q.dest = h.dest
  BY <1>7, <1>8 DEF Entry, Matches
<1>10. ASSUME h.dest \notin GroupDest PROVE \E r \in table' : Matches(r, h)
  <2>1. ASSUME NEW r \in table, r.dest = h.dest PROVE Matches(r, h)
    <3>1. r.by \in Gen /\ r.ifc = r.by /\ phase[r.by] \in Live
      BY <1>10, <2>1, SplitIsLive DEF Kept
    <3>2. r.by = g
      BY <1>1, <3>1 DEF SerialInv, Active, Live
    <3>. QED
      BY <1>5, <1>10, <2>1, <3>1, <3>2 DEF Matches
  <2>. QED
    BY <1>7, <1>8, <2>1 DEF Entry, Matches
<1>11. TableInv'
  <2>1. \A r \in table' : r.dest \in GroupDest => r.ifc \in Nic
    <3>1. \A r \in table : r.dest \in GroupDest => r.ifc \in Nic
      BY DEF Kept, TableInv
    <3>2. Entry(h, g).dest \in GroupDest => Entry(h, g).ifc \in Nic
      BY <1>5 DEF Entry
    <3>. QED
      BY <1>7, <3>1, <3>2
  <2>2. \A r \in table' : r.dest \notin GroupDest => r.by \in Gen /\ r.ifc = r.by
    <3>1. \A r \in table : r.dest \notin GroupDest => r.by \in Gen /\ r.ifc = r.by
      BY DEF Kept, TableInv
    <3>2. Entry(h, g).dest \notin GroupDest => Entry(h, g).by \in Gen /\ Entry(h, g).ifc = Entry(h, g).by
      BY <1>1, <1>5 DEF Entry
    <3>. QED
      BY <1>7, <3>1, <3>2
  <2>3. \A k \in Gen : handles'[k] \subseteq Wanted(k, via[k])
    BY <1>4, <1>6 DEF Kept, TableInv
  <2>4. \A k \in Gen : phase[k] \in {"none", "opening"} => handles'[k] = {}
    BY <1>1, <1>6 DEF Kept, TableInv
  <2>. QED
    BY <1>3, <2>1, <2>2, <2>3, <2>4 DEF Kept, TableInv
<1>12. UpInv'
  <2>1. \A k \in Gen : handles[k] \subseteq handles'[k]
    BY <1>6
  <2>2. ASSUME NEW k \in Gen, phase[k] \in {"building", "held"},
               NEW i \in handles'[k], i.dest \notin GroupDest
        PROVE  \E r \in table' : Matches(r, i)
    <3>1. i \in handles[k] \/ i = h
      BY <1>6
    <3>. QED
      BY <1>7, <1>10, <2>2, <3>1 DEF Kept, UpInv
  <2>. QED
    BY <1>3, <2>1, <2>2 DEF Kept, UpInv
<1>13. GroupInv => GroupInv'
  <2>. SUFFICES ASSUME GroupInv, Platform # "windows", NEW k \in Gen, phase[k] \in Live
                PROVE  /\ \A i \in handles'[k] : i.dest \in GroupDest => \E q \in table' : q.dest = i.dest
                       /\ (\E i \in handles'[k] : i.dest \notin GroupDest)
                            => GroupRoutes(via[k]) \subseteq handles'[k]
    BY <1>3 DEF GroupInv
  <2>1. k = g
    BY <1>1 DEF SerialInv, Active, Live
  <2>2. \A i \in handles'[k] : i.dest \in GroupDest => \E q \in table' : q.dest = i.dest
    BY <1>6, <1>7, <1>9, <2>1 DEF GroupInv
  <2>3. ASSUME h.dest \notin GroupDest, NEW i \in GroupRoutes(via[g]) PROVE i \in handles[g]
    <3>1. i \in Wanted(g, via[g]) /\ i.dest \in GroupDest
      BY GroupRouteDest DEF Wanted
    <3>2. Rank[i.dest] < Rank[h.dest]
      BY <1>5, <2>3, <3>1 DEF Rank, Handle, Dest, GroupDest
    <3>3. h \in ToInstall(g) /\ \A j \in ToInstall(g) : Rank[h.dest] <= Rank[j.dest]
      BY DEF Oldest
    <3>4. \A d \in Dest : Rank[d] \in Nat
      BY DEF Rank, Dest, GroupDest
    <3>5. Rank[i.dest] \in Nat /\ Rank[h.dest] \in Nat
      BY <1>5, <3>1, <3>4 DEF Handle, Dest
    <3>. QED
      BY <3>1, <3>2, <3>3, <3>5 DEF ToInstall
  <2>. QED
    BY <1>6, <2>1, <2>2, <2>3 DEF GroupInv
<1>. QED
  BY <1>11, <1>12, <1>13 DEF Kept

(* A start that fails half-way no longer has to divert. *)
LEMMA InstallFailsKeeps ==
  ASSUME Inv, Kept, NEW c \in Caller, StartInstallFails(c)
  PROVE  Kept'
<1>. DEFINE g == at[c]
<1>1. g \in Gen /\ phase[g] = "building"
  BY DEF Inv, TypeInv, CallInv, InCall, StartPc, StartInstallFails
<1>2. UNCHANGED <<table, via, iface>>
  BY Zenon DEF StartInstallFails, apiVars
<1>3. /\ phase'[g] = "removing"
      /\ handles'[g] = {} \/ handles'[g] = handles[g]
      /\ Platform # "windows" => handles'[g] = handles[g]
      /\ \A k \in Gen : k # g => phase'[k] = phase[k] /\ handles'[k] = handles[k]
  BY <1>1 DEF StartInstallFails, Inv, TypeInv, TypeOK
<1>4. TableInv'
  BY <1>2, <1>3 DEF Kept, TableInv
<1>5. UpInv'
  BY <1>2, <1>3 DEF Kept, UpInv
<1>6. GroupInv => GroupInv'
  <2>1. \A k \in Gen : phase'[k] \in Live => phase[k] \in Live
    BY <1>1, <1>3 DEF Live
  <2>2. Platform # "windows" => \A k \in Gen : handles'[k] = handles[k]
    BY <1>3
  <2>. QED
    BY <1>2, <2>1, <2>2 DEF GroupInv
<1>. QED
  BY <1>4, <1>5, <1>6 DEF Kept

(* The tasks are spawned when no route is left to install. *)
LEMMA SpawnKeeps ==
  ASSUME Inv, Kept, NEW c \in Caller, StartSpawn(c)
  PROVE  Kept'
<1>. DEFINE g == at[c]
<1>1. g \in Gen /\ phase[g] = "building"
  BY DEF Inv, TypeInv, CallInv, InCall, StartPc, StartSpawn
<1>2. UNCHANGED <<table, via, iface, handles>>
  BY Zenon DEF StartSpawn, apiVars
<1>3. phase'[g] = "held" /\ \A k \in Gen : k # g => phase'[k] = phase[k]
  BY <1>1 DEF StartSpawn, Inv, TypeInv, TypeOK
<1>4. SplitRoutes(g) \subseteq handles[g]
  BY DEF StartSpawn, ToInstall, Wanted
<1>5. TableInv'
  BY <1>2, <1>3 DEF Kept, TableInv
<1>6. UpInv'
  BY <1>1, <1>2, <1>3, <1>4 DEF Kept, UpInv
<1>7. GroupInv => GroupInv'
  BY <1>1, <1>2, <1>3 DEF GroupInv, Live
<1>. QED
  BY <1>5, <1>6, <1>7 DEF Kept

(* When the last handle of an interface that outlived its adapter is       *)
(* closed, no route is left for the kernel to drop.                        *)
LEMMA LateCloseQuiet ==
  ASSUME RouteInv, TableInv, NEW g \in Gen, DeviceClosed(g) \/ ReaderStep(g)
  PROVE  Quiet
<1>1. UNCHANGED <<phase, handles, via, iface>>
  BY DEF DeviceClosed, ReaderStep, apiVars, tunVars
<1>2. table' = TableAfterClose(g)
  BY DEF DeviceClosed, ReaderStep
<1>3. ASSUME ~ InterfaceUp(g)', NEW r \in table PROVE r.ifc # g
  <2>1. phase[g] \notin Live
    BY <1>1, <1>3 DEF InterfaceUp
  <2>. QED
    BY <2>1, SplitIsLive, InterfaceAssumption DEF TableInv
<1>4. table' = table
  BY <1>2, <1>3 DEF TableAfterClose, DropInterface
<1>. QED
  BY <1>1, <1>4 DEF Quiet

(* The deletion of one route takes no other prefix with it. *)
LEMMA DeleteOnlyPrefix ==
  ASSUME NEW t, NEW h, NEW r \in t, r.dest # h.dest
  PROVE  r \in DeleteRoute(t, h)
BY PlatformAssumption
DEF DeleteRoute, DeleteRouteLinux, DeleteRouteMacos, DeleteRouteWindows, Matches

(* ... and adds nothing. *)
LEMMA DeleteOnlyDeletes ==
  ASSUME NEW t, NEW h
  PROVE  DeleteRoute(t, h) \subseteq t
BY PlatformAssumption
DEF DeleteRoute, DeleteRouteLinux, DeleteRouteMacos, DeleteRouteWindows

(* remove_routes drains the split routes before the group routes. *)
LEMMA RemoveKeeps ==
  ASSUME OneAtATime, Inv, SerialInv, Kept, NEW g \in Gen, RemoveRoute(g)
  PROVE  Kept'
<1>1. phase[g] = "removing" /\ via[g] \in PhysicalInterface
  BY DEF RemoveRoute, Inv, TypeInv, TypeOK
<1>2. PICK h \in NextToRemove(handles[g]) :
        /\ handles' = [handles EXCEPT ![g] = @ \ {h}]
        /\ table' = DeleteRoute(table, h)
  BY Zenon DEF RemoveRoute, OneAtATime
<1>3. UNCHANGED <<phase, via, iface>>
  BY DEF RemoveRoute, apiVars
<1>4. h \in handles[g]
  BY DEF NextToRemove, Oldest, Newest
<1>5. handles'[g] = handles[g] \ {h} /\ \A k \in Gen : k # g => handles'[k] = handles[k]
  BY <1>2 DEF Inv, TypeInv, TypeOK
<1>6. table' \subseteq table
  BY <1>2, DeleteOnlyDeletes
<1>7. \A k \in Gen : phase[k] \in Active => k = g
  BY <1>1 DEF SerialInv, Active, Live
<1>8. TableInv'
  BY <1>3, <1>5, <1>6 DEF Kept, TableInv
<1>9. UpInv'
  BY <1>1, <1>3, <1>7 DEF UpInv, Active, Live
<1>10. GroupInv => GroupInv'
  <2>. SUFFICES ASSUME GroupInv, Platform # "windows", NEW k \in Gen, phase[k] \in Live
                PROVE  /\ \A i \in handles'[k] : i.dest \in GroupDest => \E q \in table' : q.dest = i.dest
                       /\ (\E i \in handles'[k] : i.dest \notin GroupDest)
                            => GroupRoutes(via[k]) \subseteq handles'[k]
    BY <1>3 DEF GroupInv
  <2>1. k = g
    BY <1>7 DEF Active
  <2>2. handles[g] \subseteq Wanted(g, via[g]) /\ handles[g] \subseteq Handle
    BY <1>1, WantedType DEF Kept, TableInv
  <2>3. ASSUME NEW i \in handles'[g], i.dest \in GroupDest PROVE \E q \in table' : q.dest = i.dest
    <3>1. i \in handles[g] /\ i # h
      BY <1>5, <2>3
    <3>2. i.dest # h.dest
      BY <1>1, <1>4, <2>2, <2>3, <3>1, GroupRoutesDiffer
    <3>3. PICK q \in table : q.dest = i.dest
      BY <1>1, <2>3, <3>1 DEF GroupInv, Live
    <3>. QED
      BY <1>2, <3>2, <3>3, DeleteOnlyPrefix
  <2>4. ASSUME NEW i \in handles'[g], i.dest \notin GroupDest,
               NEW j \in GroupRoutes(via[g])
        PROVE  j \in handles'[g]
    <3>1. j \in handles[g]
      BY <1>1, <1>5, <2>4 DEF GroupInv, Live
    <3>2. i \in handles[g] /\ i \in Handle /\ h \in Handle
      BY <1>4, <1>5, <2>2
    <3>3. Rank[i.dest] <= Rank[h.dest]
      BY <3>2 DEF NextToRemove, Newest
    <3>4. h.dest \notin GroupDest
      BY <2>4, <3>2, <3>3 DEF Rank, Handle, Dest, GroupDest
    <3>5. j.dest \in GroupDest
      BY GroupRouteDest
    <3>. QED
      BY <1>5, <3>1, <3>4, <3>5
  <2>. QED
    BY <2>1, <2>3, <2>4
<1>. QED
  BY <1>8, <1>9, <1>10 DEF Kept

(* Once the adapter is closed, nothing of it has to be in the table. *)
LEMMA EndKeeps ==
  ASSUME Inv, SerialInv, Kept, NEW g \in Gen, CloseAdapter(g)
  PROVE  Kept'
<1>1. phase[g] = "removing" /\ handles[g] = {}
  BY DEF CloseAdapter
<1>2. UNCHANGED <<handles, via, iface>>
  BY DEF CloseAdapter, apiVars
<1>3. phase'[g] = "gone" /\ \A k \in Gen : k # g => phase'[k] = phase[k]
  BY DEF CloseAdapter, Inv, TypeInv, TypeOK
<1>4. table' \subseteq table
  BY DEF CloseAdapter, TableAfterClose, DropInterface
<1>5. \A k \in Gen : phase'[k] \notin Live
  BY <1>1, <1>3 DEF SerialInv, Active, Live
<1>6. TableInv'
  BY <1>2, <1>3, <1>4 DEF Kept, TableInv
<1>7. UpInv' /\ GroupInv'
  BY <1>5 DEF UpInv, GroupInv, Live
<1>. QED
  BY <1>6, <1>7 DEF Kept

(* A killed process leaves only what goes through NICs. *)
LEMMA KillKeeps ==
  ASSUME Inv, Kept, Kill
  PROVE  Kept'
<1>1. /\ table' \subseteq table
      /\ \A k \in Gen : handles'[k] = {} /\ phase'[k] \notin Live
      /\ iface' = None
      /\ UNCHANGED via
  BY DEF Kill, Inv, TypeInv, TypeOK, Live
<1>2. TableInv'
  BY <1>1, Zenon DEF Kept, TableInv
<1>3. UpInv' /\ GroupInv'
  BY <1>1 DEF UpInv, GroupInv, Live
<1>. QED
  BY <1>2, <1>3 DEF Kept

(* A NIC that goes down takes no split route with it. *)
LEMMA NicDownKeeps ==
  ASSUME Kept, NicDown
  PROVE  Kept'
<1>1. UNCHANGED <<phase, handles, via, iface>>
  BY DEF NicDown, apiVars, tunVars
<1>2. /\ table' \subseteq table
      /\ \A r \in table : r.ifc \notin Nic => r \in table'
  BY DEF NicDown, DropInterface
<1>3. TableInv'
  BY <1>1, <1>2 DEF Kept, TableInv
<1>4. \A r \in table : r.dest \notin GroupDest => r \in table'
  BY <1>2, InterfaceAssumption DEF Kept, TableInv
<1>5. UpInv'
  BY <1>1, <1>4 DEF Kept, UpInv, Matches
<1>6. Faults \cap {"flap"} # {}
  BY DEF NicDown
<1>. QED
  BY <1>3, <1>5, <1>6 DEF Kept

(* Every step keeps the layers. *)
LEMMA KeptStep ==
  ASSUME OneAtATime
  PROVE  Inv /\ RouteInv /\ SerialInv /\ Kept /\ [Next]_vars => Kept'
<1>. SUFFICES ASSUME Inv, RouteInv, SerialInv, Kept, [Next]_vars PROVE Kept'
  OBVIOUS
<1>1. CASE Quiet
  BY <1>1, QuietStep DEF Inv, Kept
<1>2. ASSUME NEW c \in Caller, StartCas(c) \/ StopTake(c) \/ Call(c) \/ CancelStop(c) PROVE Kept'
  BY <1>1, <1>2, CallQuiet, DiscoverKeeps, InstallKeeps, InstallFailsKeeps, SpawnKeeps
  DEF Call, QuietCall
<1>3. ASSUME NEW g \in Gen, NetstackEnds(g) \/ Tasks(g) \/ ReaderStep(g) PROVE Kept'
  BY <1>1, <1>3, OtherQuiet, LateCloseQuiet, RemoveKeeps, EndKeeps
  DEF Tasks, QuietOther, Kept
<1>4. CASE UNCHANGED vars \/ DropEngine \/ DropAbort \/ Build \/ RuntimeShutdown \/ NicChanges
  BY <1>1, <1>4, OtherQuiet DEF QuietOther
<1>. QED
  BY <1>2, <1>3, <1>4, KillKeeps, NicDownKeeps DEF Next, Environment

-----------------------------------------------------------------------------
(* All layers hold in every behaviour of a program that makes one call at  *)
(* a time.                                                                 *)
LEMMA KeptAlways ==
  ASSUME OneAtATime
  PROVE  Spec => [](Inv /\ RouteInv /\ SerialInv /\ Kept)
<1>1. Init => SerialInv /\ Kept
  <2>. SUFFICES ASSUME Init PROVE SerialInv /\ Kept
    OBVIOUS
  <2>1. \A g \in Gen : phase[g] = "none" /\ handles[g] = {} /\ \A f \in Family : via[g][f] = None
    BY DEF Init
  <2>2. \A r \in table : r.dest \in GroupDest /\ r.ifc \in Nic
    BY CallerAssumption DEF Init
  <2>3. iface = None
    BY DEF Init
  <2>. QED
    BY <2>1, <2>2, <2>3 DEF SerialInv, Kept, TableInv, UpInv, GroupInv, Active,
           Live
<1>2. Spec => []RouteInv
  BY RouteAlways DEF OneAtATime
<1>3. Inv /\ SerialInv /\ [Next]_vars => SerialInv'
  BY SerialStep
<1>4. Inv /\ RouteInv /\ SerialInv /\ Kept /\ [Next]_vars => Kept'
  BY KeptStep
<1>. QED
  BY <1>1, <1>2, <1>3, <1>4, InvAlways, PTL DEF Spec

(* While the engine is up, every half of the address space of every        *)
(* enabled family is routed into its tunnel (lib.rs 325, TunAdapter::create): *)
(* for one caller, any number of starts, and whatever else fails.          *)
THEOREM UpMeansDivertingAlways ==
  ASSUME OneAtATime PROVE Spec => []UpMeansDiverting
<1>1. Inv /\ Kept => UpMeansDiverting
  <2>. SUFFICES ASSUME Inv, Kept, running # NoGen, phase[running] = "held",
                       NEW h \in SplitRoutes(running)
                PROVE  \E r \in table : Matches(r, h)
    BY DEF UpMeansDiverting
  <2>1. running \in Gen
    BY DEF Inv, TypeInv, TypeOK
  <2>2. h.dest \notin GroupDest
    BY DEF SplitRoutes, Split, Enabled, Family, GroupDest
  <2>. QED
    BY <2>1, <2>2 DEF Kept, UpInv
<1>. QED
  BY <1>1, KeptAlways, PTL

(* discover never finds a tunnel: the interface that outbound sockets are  *)
(* pinned to is a physical one (lib.rs 354-372), after any number of       *)
(* starts and stops.                                                       *)
THEOREM PinnedToPhysicalAlways ==
  ASSUME OneAtATime PROVE Spec => []PinnedToPhysical
<1>1. Kept => PinnedToPhysical
  BY DEF Kept, TableInv, PinnedToPhysical
<1>. QED
  BY <1>1, KeptAlways, PTL

(* As long as a split route of a family is in the table, so is its group   *)
(* route through a physical interface (create installs it first and        *)
(* remove_routes drains it last), for every family that discover found an  *)
(* interface for and unless the NIC itself goes down. A family without an  *)
(* interface has split routes and no group route (linux/adapter.rs:78-93). *)
THEOREM MulticastStaysOutAlways ==
  ASSUME OneAtATime, "flap" \notin Faults
  PROVE  Spec => []MulticastStaysOut
<1>1. RouteInv /\ Kept => MulticastStaysOut
  <2>. SUFFICES ASSUME RouteInv, Kept, Platform # "windows", NEW r \in table, NEW f \in Enabled,
                       r.dest \in Split(f), via[r.ifc][f] # None
                PROVE  \E q \in table : q.dest = Group(f) /\ q.ifc \in Nic
    BY DEF MulticastStaysOut
  <2>1. r.dest \notin GroupDest
    BY DEF Split, GroupDest, Enabled, Family
  <2>2. r.by \in Gen /\ r.ifc = r.by /\ phase[r.by] \in Live
    BY <2>1, SplitIsLive DEF Kept
  <2>3. [dest |-> r.dest, ifc |-> r.ifc] \in handles[r.by]
    BY <2>2, InterfaceAssumption DEF RouteInv, Accounted, Live
  <2>4. GroupInv
    BY DEF Kept
  <2>5. GroupRoutes(via[r.by]) \subseteq handles[r.by]
    BY <2>1, <2>2, <2>3, <2>4 DEF GroupInv
  <2>6. [dest |-> Group(f), ifc |-> via[r.by][f]] \in GroupRoutes(via[r.by])
    BY <2>2 DEF GroupRoutes
  <2>7. Group(f) \in GroupDest
    BY DEF Group, GroupDest
  <2>8. PICK q \in table : q.dest = Group(f)
    BY <2>2, <2>4, <2>5, <2>6, <2>7 DEF GroupInv
  <2>. QED
    BY <2>7, <2>8 DEF Kept, TableInv
<1>. QED
  BY <1>1, KeptAlways, PTL

-----------------------------------------------------------------------------
(* The refinement.  The mode is the phase of the attempt under way, and    *)
(* "down" if there is none; an attempt diverts nothing before it has an    *)
(* adapter, and something when all its routes are installed.               *)
Maps ==
  /\ \A g \in Gen :
       /\ phase[g] \in {"opening", "building"} => Mode = "starting"
       /\ phase[g] = "held" => Mode = "up"
       /\ phase[g] = "removing" => Mode = "stopping"
       /\ phase[g] = "opening" => ~ Diverting
       /\ phase[g] = "building" /\ SplitRoutes(g) \subseteq handles[g] => Diverting
  /\ (\A g \in Gen : phase[g] \notin Active) => Mode = "down" /\ ~ Diverting

(* The layers say so. *)
LEMMA MapsFromLayers == RouteInv /\ SerialInv /\ Kept => Maps
<1>. SUFFICES ASSUME RouteInv, SerialInv, Kept PROVE Maps
  OBVIOUS
<1>1. ASSUME NEW g \in Gen, phase[g] \in {"opening", "building"} PROVE Mode = "starting"
  <2>1. InPhase({"opening", "building"}) /\ ~ InPhase({"held"}) /\ ~ InPhase({"removing"})
    BY <1>1 DEF SerialInv, Active, Live, InPhase
  <2>. QED
    BY <2>1 DEF Mode
<1>2. ASSUME NEW g \in Gen, phase[g] = "held" PROVE Mode = "up"
  <2>1. ~ InPhase({"opening", "building"}) /\ InPhase({"held"}) /\ ~ InPhase({"removing"})
    BY <1>2 DEF SerialInv, Active, Live, InPhase
  <2>. QED
    BY <2>1 DEF Mode
<1>3. ASSUME NEW g \in Gen, phase[g] = "removing" PROVE Mode = "stopping"
  <2>1. ~ InPhase({"opening", "building"}) /\ ~ InPhase({"held"}) /\ InPhase({"removing"})
    BY <1>3 DEF SerialInv, Active, Live, InPhase
  <2>. QED
    BY <2>1 DEF Mode
<1>4. ASSUME NEW g \in Gen, phase[g] = "opening", Diverting PROVE FALSE
  <2>1. PICK r \in table : r.dest \notin GroupDest
    BY <1>4 DEF Diverting
  <2>2. r.by \in Gen /\ phase[r.by] \in Live
    BY <2>1, SplitIsLive DEF Kept
  <2>. QED
    BY <1>4, <2>2 DEF SerialInv, Active, Live
<1>5. ASSUME NEW g \in Gen, phase[g] = "building", SplitRoutes(g) \subseteq handles[g]
      PROVE  Diverting
  <2>1. [dest |-> "v4lo", ifc |-> g] \in SplitRoutes(g)
    BY DEF SplitRoutes, Split, Enabled, Family
  <2>2. \E r \in table : Matches(r, [dest |-> "v4lo", ifc |-> g])
    BY <1>5, <2>1 DEF Kept, UpInv, GroupDest
  <2>. QED
    BY <2>2 DEF Matches, Diverting, GroupDest
<1>6. ASSUME \A g \in Gen : phase[g] \notin Active PROVE Mode = "down" /\ ~ Diverting
  <2>1. Mode = "down"
    BY <1>6 DEF Mode, InPhase, Active, Live
  <2>2. ~ Diverting
    BY <1>6, SplitIsLive DEF Diverting, Active, Kept
  <2>. QED
    BY <2>1, <2>2
<1>. QED
  BY <1>1, <1>2, <1>3, <1>4, <1>5, <1>6 DEF Maps

(* What EngineService allows of a step. *)
Allowed == [Service!Next]_(Service!vars)

(* The layers, and what they say. *)
Facts == Inv /\ RouteInv /\ SerialInv /\ Kept /\ Maps

(* Attempt g moves on, and the table is left alone: a start begins, goes   *)
(* on, gives up or comes up; what is up or half up retreats.               *)
Moves(g) ==
  /\ UNCHANGED table
  /\ \/ /\ phase[g] = "none" /\ phase'[g] = "opening"
        /\ \A k \in Gen : phase[k] \notin Active
     \/ phase[g] = "opening" /\ phase'[g] = "building"
     \/ phase[g] = "opening" /\ phase'[g] = "gone" /\ \A k \in Gen : k # g => phase'[k] = phase[k]
     \/ phase[g] = "building" /\ phase'[g] = "held" /\ SplitRoutes(g) \subseteq handles[g]
     \/ phase[g] \in {"building", "held"} /\ phase'[g] = "removing"

(* A step that moves an attempt on is one of the service's. *)
LEMMA MovesAllowed ==
  ASSUME Facts, Facts', NEW g \in Gen, Moves(g)
  PROVE  Allowed
<1>1. Maps /\ Maps' /\ SerialInv
  BY DEF Facts
<1>2. Diverting' = Diverting
  BY DEF Diverting, Moves
<1>3. \/ Mode = "down" /\ Mode' = "starting"
      \/ Mode = "starting" /\ Mode' = "starting"
      \/ Mode = "starting" /\ Mode' = "down" /\ ~ Diverting
      \/ Mode = "starting" /\ Mode' = "up" /\ Diverting
      \/ Mode \in {"starting", "up"} /\ Mode' = "stopping"
  <2>1. ASSUME phase[g] = "opening", phase'[g] = "gone", \A k \in Gen : k # g => phase'[k] = phase[k]
        PROVE  \A k \in Gen : phase'[k] \notin Active
    BY <1>1, <2>1 DEF SerialInv, Active, Live
  <2>. QED
    BY <1>1, <2>1 DEF Moves, Maps
<1>. QED
  BY <1>2, <1>3 DEF Allowed, Service!vars, Service!Next, Service!Begin, Service!GiveUp,
                    Service!ComeUp, Service!Retreat

(* A step that changes neither a phase nor the split routes is a stutter. *)
LEMMA StutterAllowed ==
  ASSUME \A g \in Gen : phase'[g] = phase[g],
         \A r : r.dest \notin GroupDest => (r \in table <=> r \in table')
  PROVE  Allowed
<1>1. Mode' = Mode
  BY DEF Mode, InPhase
<1>2. Diverting' = Diverting
  BY DEF Diverting
<1>. QED
  BY <1>1, <1>2 DEF Allowed, Service!vars

(* Each step of a call is one of the service's, or none. *)
LEMMA CallAllowed ==
  ASSUME OneAtATime, Facts, Facts',
         NEW c \in Caller, StartCas(c) \/ StopTake(c) \/ Call(c)
  PROVE  Allowed
<1>. DEFINE g == at[c]
<1>1. Inv /\ SerialInv /\ Maps /\ Maps'
  BY DEF Facts
<1>0. /\ DOMAIN phase = Gen
      /\ pc[c] \in {"discover", "create"} => g \in Gen /\ phase[g] = "opening"
      /\ pc[c] = "install" => g \in Gen /\ phase[g] = "building"
      /\ pc[c] \in StopPc => g \in Gen
  BY <1>1 DEF Inv, TypeInv, TypeOK, CallInv, InCall, StartPc, StopPc
<1>2. CASE StartCas(c)
  <2>1. \A j \in Gen : phase[j] \notin Active
    BY <1>1, <1>2, NoneUnderWay
  <2>2. \E k \in Gen : Moves(k)
    BY <1>0, <1>2, <2>1, Zenon DEF StartCas, Moves
  <2>. QED
    BY <2>2, MovesAllowed
<1>3. CASE StartDiscover(c) /\ phase' # phase
  <2>1. g \in Gen /\ Moves(g)
    BY <1>0, <1>3 DEF StartDiscover, Moves
  <2>. QED
    BY <2>1, MovesAllowed
<1>4. CASE StartCreate(c)
  <2>1. g \in Gen /\ Moves(g)
    BY <1>0, <1>4 DEF StartCreate, Moves
  <2>. QED
    BY <2>1, MovesAllowed
<1>5. CASE StartInstall(c)
  <2>1. table \subseteq table'
    BY <1>5, PlatformAssumption
    DEF StartInstall, AddRoute, AddRouteLinux, AddRouteMacos, AddRouteWindows
  <2>2. Mode = "starting" /\ Mode' = "starting"
    BY <1>0, <1>1, <1>5, Zenon DEF Maps, StartInstall
  <2>3. Diverting' = Diverting \/ Diverting' = TRUE
    BY <2>1 DEF Diverting
  <2>. QED
    BY <2>2, <2>3 DEF Allowed, Service!vars, Service!Next, Service!Divert
<1>6. CASE StartInstallFails(c)
  <2>1. g \in Gen /\ Moves(g)
    BY <1>0, <1>6, Zenon DEF StartInstallFails, Moves
  <2>. QED
    BY <2>1, MovesAllowed
<1>7. CASE StartSpawn(c)
  <2>1. g \in Gen /\ Moves(g)
    BY <1>0, <1>7 DEF StartSpawn, Moves, ToInstall, Wanted
  <2>. QED
    BY <2>1, MovesAllowed
<1>8. CASE StopFallback(c) /\ phase' # phase
  <2>1. g \in Gen /\ Moves(g)
    BY <1>0, <1>8 DEF StopFallback, Moves, StopPc
  <2>. QED
    BY <2>1, MovesAllowed
<1>9. CASE UNCHANGED <<phase, table>>
  BY <1>9, StutterAllowed
<1>10. StopFallback(c) \/ StartDiscover(c) => UNCHANGED table
  BY DEF StopFallback, StartDiscover
<1>11. ASSUME \/ StopTake(c) \/ StartUnwound(c) \/ StartPublish(c) \/ StopClear(c)
              \/ StopSend(c) \/ StopAwait(c) \/ StopRemoved(c)
       PROVE  UNCHANGED <<phase, table>>
  BY <1>11, Zenon DEF StopTake, StartUnwound, StartPublish, StopClear, StopSend, StopAwait,
         StopRemoved, tunVars
<1>. QED
  BY <1>2, <1>3, <1>4, <1>5, <1>6, <1>7, <1>8, <1>9, <1>10, <1>11 DEF Call

(* So is each step of the tasks ... *)
LEMMA TasksAllowed ==
  ASSUME Facts, Facts', NEW g \in Gen, NetstackEnds(g) \/ Tasks(g) \/ ReaderStep(g)
  PROVE  Allowed
<1>1. Inv /\ RouteInv /\ SerialInv /\ TableInv /\ Maps /\ Maps'
  BY DEF Facts, Kept
<1>2. CASE WatchdogTake(g) /\ phase' # phase
  <2>1. Moves(g)
    BY <1>1, <1>2 DEF WatchdogTake, Moves, Inv, TypeInv, TypeOK
  <2>. QED
    BY <2>1, MovesAllowed
<1>3. CASE RemoveRoute(g)
  <2>1. table' \subseteq table
    BY <1>3, DeleteOnlyDeletes DEF RemoveRoute
  <2>2. Mode = "stopping" /\ Mode' = "stopping"
    BY <1>1, <1>3 DEF Maps, RemoveRoute
  <2>3. Diverting' = Diverting \/ (Diverting' = FALSE /\ Diverting)
    BY <2>1 DEF Diverting
  <2>. QED
    BY <2>2, <2>3 DEF Allowed, Service!vars, Service!Next, Service!Restore
<1>4. CASE CloseAdapter(g)
  <2>1. phase[g] = "removing" /\ \A k \in Gen : phase'[k] \notin Active
    BY <1>1, <1>4 DEF CloseAdapter, Inv, TypeInv, TypeOK, SerialInv, Active, Live
  <2>2. Mode = "stopping" /\ Mode' = "down" /\ Diverting' = FALSE
    BY <1>1, <2>1, Zenon DEF Maps, Diverting
  <2>. QED
    BY <2>2 DEF Allowed, Service!Next, Service!GoDown
<1>5. CASE UNCHANGED <<phase, table>>
  BY <1>5, StutterAllowed
<1>6. WatchdogTake(g) => UNCHANGED table
  BY DEF WatchdogTake
<1>7. NetstackEnds(g) \/ WatchdogRemoved(g) \/ WatchdogDone(g) => UNCHANGED <<phase, table>>
  BY Zenon DEF NetstackEnds, WatchdogRemoved, WatchdogDone, tunVars
<1>8. DeviceClosed(g) \/ ReaderStep(g) => UNCHANGED <<phase, table>>
  BY <1>1, LateCloseQuiet DEF Quiet, DeviceClosed, ReaderStep, tunVars
<1>. QED
  BY <1>2, <1>3, <1>4, <1>5, <1>6, <1>7, <1>8 DEF Tasks

(* ... and each other step. *)
LEMMA OtherAllowed ==
  ASSUME Facts, Facts', UNCHANGED vars \/ DropEngine \/ DropAbort \/ Build \/ Environment
  PROVE  Allowed
<1>1. Inv /\ TableInv /\ Maps /\ Maps'
  BY DEF Facts, Kept
<1>2. CASE DropEngine /\ phase' # phase
  <2>1. running \in Gen /\ Moves(running)
    BY <1>1, <1>2 DEF DropEngine, Moves, Inv, TypeInv, TypeOK
  <2>. QED
    BY <2>1, MovesAllowed
<1>3. CASE RuntimeShutdown
  <2>1. UNCHANGED table /\ \A g \in Gen : phase'[g] = phase[g] \/ Moves(g)
    BY <1>3, Zenon DEF RuntimeShutdown, Moves
  <2>. QED
    BY <2>1, MovesAllowed, StutterAllowed
<1>4. CASE Kill
  <2>1. \A g \in Gen : phase'[g] \notin Active
    BY <1>4, Zenon DEF Kill, Active, Live
  <2>2. Mode' = "down" /\ Diverting' = FALSE
    BY <1>1, <2>1 DEF Maps, Diverting
  <2>3. Mode = "down" => \A g \in Gen : phase[g] \notin Active
    BY <1>1 DEF Maps, Active, Live
  <2>4. Mode = "down" => Diverting = FALSE
    BY <1>1, <2>3 DEF Maps, Diverting
  <2>. QED
    BY <2>2, <2>4 DEF Allowed, Service!vars, Service!Next, Service!Killed
<1>5. CASE NicDown
  <2>1. \A r : r.dest \notin GroupDest => (r \in table <=> r \in table')
    BY <1>1, <1>5, InterfaceAssumption DEF NicDown, DropInterface, TableInv
  <2>2. UNCHANGED phase
    BY <1>5 DEF NicDown, tunVars
  <2>. QED
    BY <2>1, <2>2, StutterAllowed
<1>6. CASE UNCHANGED <<phase, table>>
  BY <1>6, StutterAllowed
<1>7. UNCHANGED vars \/ DropAbort \/ Build \/ NicChanges => UNCHANGED <<phase, table>>
  BY DEF vars, DropAbort, Build, NicChanges, tunVars
<1>8. DropEngine => UNCHANGED table
  BY DEF DropEngine
<1>. QED
  BY <1>2, <1>3, <1>4, <1>5, <1>6, <1>7, <1>8 DEF Environment

(* Lifecycle implements EngineService, for a program that makes one call   *)
(* at a time: traffic is diverted only between a start and its teardown,   *)
(* the engine is up only when it diverts, and it is down only when nothing *)
(* is diverted, whatever fails (lib.rs 40-43, 326-463).                    *)
THEOREM ServiceRefined ==
  ASSUME OneAtATime PROVE Spec => Service!Safety
<1>1. Init => Service!Init
  <2>. SUFFICES ASSUME Init PROVE Service!Init
    OBVIOUS
  <2>1. Mode = "down"
    BY DEF Init, Mode, InPhase
  <2>2. ~ Diverting
    BY CallerAssumption DEF Init, Diverting
  <2>3. Diverting \in BOOLEAN
    BY DEF Diverting
  <2>. QED
    BY <2>1, <2>2, <2>3 DEF Service!Init
<1>2. Facts /\ Facts' /\ [Next]_vars => [Service!Next]_(Service!vars)
  <2>. SUFFICES ASSUME Facts, Facts', [Next]_vars PROVE Allowed
    BY DEF Allowed
  <2>1. \A c \in Caller : ~ CancelStop(c)
    BY DEF OneAtATime, CancelStop
  <2>. QED
    BY <2>1, CallAllowed, TasksAllowed, OtherAllowed DEF Next
<1>3. Spec => []Facts
  BY KeptAlways, MapsFromLayers, PTL DEF Facts
<1>. QED
  BY <1>1, <1>2, <1>3, PTL DEF Spec, Service!Safety
=============================================================================
