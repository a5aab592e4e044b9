----------------------------- MODULE MCKumaSync -----------------------------
(* TLC instances of KumaSync: a device that moves to another site, or changes its *)
(* name or its address or both, and a service.  No two of them share any of it.   *)
EXTENDS KumaSync, TLC

CONSTANTS d, w, s1, s2, nameD, nameE, hostD, hostE, nameW, urlW

Entry(group, name, at) == [group |-> group, name |-> name, at |-> at]

Declared ==
  (d :> {Entry(s1, nameD, hostD), Entry(s2, nameD, hostD), Entry(s1, nameD, hostE),
         Entry(s2, nameE, hostD), Entry(s1, nameE, hostE),
         Entry(Excluded, nameD, hostD), Entry(Excluded, nameD, hostE)})
  @@ (w :> {Entry(Web, nameW, urlW), Entry(Excluded, nameW, urlW)})

AtHome == (d :> Entry(s1, nameD, hostD)) @@ (w :> Entry(Web, nameW, urlW))
=============================================================================
