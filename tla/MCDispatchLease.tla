-------------------------- MODULE MCDispatchLease --------------------------
(* Instances of DispatchLease for TLC. *)
EXTENDS DispatchLease, TLC
CONSTANTS a1, a2, a3, d1, d2, d3

\* every delivery reaches another daemon
OneEach == (a1 :> d1) @@ (a2 :> d2) @@ (a3 :> d3)
\* two deliveries reach one daemon, the third another
TwoAndOne == (a1 :> d1) @@ (a2 :> d1) @@ (a3 :> d2)
\* a retry or a second copy: all deliveries reach one daemon
AllToOne == (a1 :> d1) @@ (a2 :> d1) @@ (a3 :> d1)
=============================================================================
