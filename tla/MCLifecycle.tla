---------------------------- MODULE MCLifecycle ----------------------------
(* Instances of Lifecycle for TLC. *)
EXTENDS LifecycleService, TLC

CONSTANT n1  \* a physical interface

(* Attempts, callers and interfaces are interchangeable. *)
Interchangeable == Permutations(Gen) \cup Permutations(Nic) \cup Permutations(Caller)

(* The routes of an administrator's own multicast setup. *)
NoAdminRoutes == {}
AdminMulticast == {[dest |-> "group4", ifc |-> n1, by |-> Admin]}
=============================================================================
