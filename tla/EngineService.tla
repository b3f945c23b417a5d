---------------------------- MODULE EngineService ----------------------------
(***************************************************************************)
(* What the engine promises a program that makes one call at a time: the   *)
(* machine's traffic is diverted only between a start and the teardown     *)
(* that follows it, it is diverted as long as the engine is up, and a      *)
(* teardown, once begun, ends with the traffic restored.                   *)
(***************************************************************************)
VARIABLES
  mode,      \* "down", "starting", "up", "stopping"
  diverting  \* some part of the address space is routed into the tunnel

vars == <<mode, diverting>>

Init == mode = "down" /\ diverting = FALSE

Begin == mode = "down" /\ mode' = "starting" /\ UNCHANGED diverting

(* A start fails before it has touched the forwarding table. *)
GiveUp == mode = "starting" /\ ~ diverting /\ mode' = "down" /\ UNCHANGED diverting

Divert == mode = "starting" /\ diverting' = TRUE /\ UNCHANGED mode

ComeUp == mode = "starting" /\ diverting /\ mode' = "up" /\ UNCHANGED diverting

(* A start fails half-way, the engine is stopped or dropped, or it fails. *)
Retreat == mode \in {"starting", "up"} /\ mode' = "stopping" /\ UNCHANGED diverting

Restore == mode = "stopping" /\ diverting /\ diverting' = FALSE /\ UNCHANGED mode

GoDown == mode = "stopping" /\ mode' = "down" /\ diverting' = FALSE

(* The process is killed. *)
Killed == mode # "down" /\ mode' = "down" /\ diverting' = FALSE

Next == Begin \/ GiveUp \/ Divert \/ ComeUp \/ Retreat \/ Restore \/ GoDown \/ Killed

(* What may happen, and that a teardown does not stop half-way. *)
Safety == Init /\ [][Next]_vars

Spec == Safety /\ WF_vars(Restore \/ GoDown)
=============================================================================
