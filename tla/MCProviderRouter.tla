-------------------------- MODULE MCProviderRouter --------------------------
(* Small instances of ProviderRouter. *)
EXTENDS ProviderRouter, TLC

CONSTANTS r1, r2, r3, p1, p2, va, vb

\* Two requests of one process, and one of another that shares the row.
MCTwoProcesses == (r1 :> p1) @@ (r2 :> p1) @@ (r3 :> p2)
\* Interchangeable: the requests of one process, and the vendors.
MCSymmetry == Permutations({r1, r2}) \cup Permutations(Provider)
MCOneProcess   == (r1 :> p1) @@ (r2 :> p1)
=============================================================================
