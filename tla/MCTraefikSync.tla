--------------------------- MODULE MCTraefikSync ---------------------------
(* A TLC instance of TraefikSync: routes with names of their own. *)
EXTENDS TraefikSync, TLC

OwnNames == [f \in Fqdns |-> f]
=============================================================================
