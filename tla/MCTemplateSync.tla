--------------------------- MODULE MCTemplateSync ---------------------------
(* TLC instances of TemplateSync: a machine and an archive on shared storage at  *)
(* the default node, an archive of the same title on the other node only.        *)
EXTENDS TemplateSync, TLC

CONSTANTS vm, ct1, ct2, titleV, titleC, nodeA, nodeB

Titled  == (vm :> titleV) @@ (ct1 :> titleC) @@ (ct2 :> titleC)
Showing == (nodeA :> {vm, ct2}) @@ (nodeB :> {ct1, ct2})
=============================================================================
