----------------------- MODULE MCRuntimeDependencies -----------------------
(* A worker, an API with two readiness requests, one limited subject.      *)
EXTENDS RuntimeDependencies

CONSTANTS q1, q2, c1, c2

=============================================================================
