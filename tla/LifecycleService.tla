--------------------------- MODULE LifecycleService --------------------------
(***************************************************************************)
(* The mapping from Lifecycle to EngineService: the mode is the phase of   *)
(* the one attempt that is neither unused nor over, and traffic is         *)
(* diverted as long as a half of the address space is in the table.        *)
(***************************************************************************)
EXTENDS Lifecycle

InPhase(ps) == \E g \in Gen : phase[g] \in ps

Mode ==
  CASE InPhase({"opening", "building"}) -> "starting"
    [] InPhase({"held"}) -> "up"
    [] InPhase({"removing"}) -> "stopping"
    [] OTHER -> "down"

Diverting == \E r \in table : r.dest \notin GroupDest

Service == INSTANCE EngineService WITH mode <- Mode, diverting <- Diverting

(* Lifecycle, used by one caller at a time, implements EngineService: what *)
(* the failure section of lib.rs (lines 40-43) promises of start, stop,    *)
(* drop, a dead netstack and a hard kill.                                  *)
ServiceImplemented == Service!Spec
==============================================================================
