----------------------------- MODULE RouteTable -----------------------------
(***************************************************************************)
(* The operating system's forwarding table, as the three netcfg modules    *)
(* (platform/{linux,macos,windows}/netcfg.rs) read and write it, and the   *)
(* routes TunAdapter::create installs.                                     *)
(*                                                                         *)
(* A route is a destination prefix, the interface it points at and, for    *)
(* the properties only, who added it: the kernel does not keep that.  The  *)
(* prefixes are names: per address family one multicast prefix             *)
(* (224.0.0.0/4, ff00::/8) and the two halves of the split default route.  *)
(*                                                                         *)
(* A tunnel interface is named by the start attempt (an element of Gen)    *)
(* that created it.  Interface indices are not reused while it matters:    *)
(* Linux hands them out in increasing order.                               *)
(***************************************************************************)
EXTENDS Naturals

CONSTANTS
  Platform,  \* "linux", "macos" or "windows": the backend that is compiled
  Ipv6,      \* TunRedirectBuilder::ipv6
  Gen,       \* start attempts; also the tunnel interfaces they create
  Nic,       \* physical interfaces
  None,      \* Option::None
  Admin      \* the owner of a route the engine did not add

ASSUME PlatformAssumption ==
  /\ Platform \in {"linux", "macos", "windows"}
  /\ Ipv6 \in BOOLEAN

ASSUME InterfaceAssumption ==
  /\ Gen \cap Nic = {}
  /\ None \notin Gen \cup Nic
  /\ Admin \notin Gen

-----------------------------------------------------------------------------
Family == {"v4", "v6"}

(* The families that get addresses and routes on the tunnel. *)
Enabled == IF Ipv6 THEN Family ELSE {"v4"}

Group(f) == IF f = "v4" THEN "group4" ELSE "group6"
Split(f) == IF f = "v4" THEN {"v4lo", "v4hi"} ELSE {"v6lo", "v6hi"}
Low(f)   == IF f = "v4" THEN "v4lo" ELSE "v6lo"

GroupDest == {"group4", "group6"}
Dest == GroupDest \cup {"v4lo", "v4hi", "v6lo", "v6hi"}

(* The order in which create installs the prefixes. *)
Rank == [group4 |-> 1, group6 |-> 2, v4lo |-> 3, v4hi |-> 4, v6lo |-> 5, v6hi |-> 6]

Ifc    == Gen \cup Nic
Route  == [dest : Dest, ifc : Ifc, by : Gen \cup {Admin}]
Handle == [dest : Dest, ifc : Ifc]

(* PhysicalInterface: an interface index, or None, for each family. *)
PhysicalInterface == [Family -> Ifc \cup {None}]

Matches(r, h) == r.dest = h.dest /\ r.ifc = h.ifc

-----------------------------------------------------------------------------
(* add_route.  Linux (RTM_NEWROUTE with NLM_F_EXCL) and macOS (route add)  *)
(* refuse a second route for a prefix, whatever its interface; Windows     *)
(* keys a row by prefix and interface.  All three treat "already exists"   *)
(* as success and leave the entry that is there.                           *)
Entry(h, g) == [dest |-> h.dest, ifc |-> h.ifc, by |-> g]

AddRouteLinux(t, h, g) ==
  IF \E r \in t : r.dest = h.dest THEN t ELSE t \cup {Entry(h, g)}

AddRouteMacos(t, h, g) ==
  IF \E r \in t : r.dest = h.dest THEN t ELSE t \cup {Entry(h, g)}

AddRouteWindows(t, h, g) ==
  IF \E r \in t : Matches(r, h) THEN t ELSE t \cup {Entry(h, g)}

AddRoute(t, h, g) ==
  CASE Platform = "linux" -> AddRouteLinux(t, h, g)
    [] Platform = "macos" -> AddRouteMacos(t, h, g)
    [] Platform = "windows" -> AddRouteWindows(t, h, g)

(* delete_route.  Linux sends prefix and interface, macOS the prefix       *)
(* alone, Windows the whole row.  A route that is not there is no failure. *)
DeleteRouteLinux(t, h)   == {r \in t : ~ Matches(r, h)}
DeleteRouteMacos(t, h)   == {r \in t : r.dest # h.dest}
DeleteRouteWindows(t, h) == {r \in t : ~ Matches(r, h)}

DeleteRoute(t, h) ==
  CASE Platform = "linux" -> DeleteRouteLinux(t, h)
    [] Platform = "macos" -> DeleteRouteMacos(t, h)
    [] Platform = "windows" -> DeleteRouteWindows(t, h)

(* The kernel: a route does not outlive its interface. *)
DropInterface(t, i) == {r \in t : r.ifc # i}

(* best_route_index: the interfaces that may carry traffic to the probe    *)
(* address of family f (8.8.8.8, 2001:4860:4860::8888), both in the lower  *)
(* half of the address space.  The split default is more specific than the *)
(* default route through the NIC.                                          *)
BestRoute(t, f, default) ==
  LET low == {r \in t : r.dest = Low(f)}
  IN  IF low = {} THEN {default} ELSE {r.ifc : r \in low}

(* The routes create installs for attempt g, given the interface that      *)
(* discover found: on Linux and macOS the multicast prefixes through the   *)
(* physical interface, and everywhere the split default into the tunnel.   *)
GroupRoutes(found) ==
  IF Platform = "windows" THEN {}
  ELSE {[dest |-> Group(f), ifc |-> found[f]] : f \in {e \in Enabled : found[e] # None}}

SplitRoutes(g) ==
  UNION {{[dest |-> d, ifc |-> g] : d \in Split(f)} : f \in Enabled}

Wanted(g, found) == GroupRoutes(found) \cup SplitRoutes(g)

(* The next route to install, and the next handle remove_routes drains:    *)
(* newest first on Linux and macOS, oldest first on Windows.               *)
Oldest(hs) == {h \in hs : \A k \in hs : Rank[h.dest] <= Rank[k.dest]}
Newest(hs) == {h \in hs : \A k \in hs : Rank[k.dest] <= Rank[h.dest]}

NextToInstall(todo) == Oldest(todo)

(* Mutant: the vector is drained from the front on every platform. *)
NextToRemoveOldest(hs) == Oldest(hs)

NextToRemove(hs) == IF Platform = "windows" THEN Oldest(hs) ELSE Newest(hs)
=============================================================================
