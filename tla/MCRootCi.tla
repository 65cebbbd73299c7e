------------------------------ MODULE MCRootCi ------------------------------
(* RootCi for TLC. *)
EXTENDS RootCi

\* Of root movement, service restart, worker crash, fault and lapse, any three in
\* one behaviour.
ThreeFaults == moves + restarts + crashes + faults + lapses <= 3
=============================================================================
