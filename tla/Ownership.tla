------------------------------ MODULE Ownership ------------------------------
(***************************************************************************)
(* What the pid file promises to those that start supervisors: it has one  *)
(* owner at a time, from whom nobody takes it; an owner gives it up or     *)
(* dies before the next one has it.  Modules PIDFile (Linux) and           *)
(* PIDFileWindows implement it, and Handover builds upon it.               *)
(***************************************************************************)
CONSTANT Processes

VARIABLE owners   \* the processes that own the pid file: one, or none

Init == owners = {}

Take(s) == owners = {} /\ owners' = {s}
Drop == owners # {} /\ owners' = {}

Next == Drop \/ \E s \in Processes : Take(s)

Spec == Init /\ [][Next]_owners
=============================================================================
