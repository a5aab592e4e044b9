------------------------- MODULE TraefikSync_proofs -------------------------
(***************************************************************************)
(* A service that people created is never deleted by a pass, for any       *)
(* routes, passes and bounds.  The inductive invariant says that such a    *)
(* service is as it was made, in NetBox and in every listing that has it,  *)
(* so that no route matches it and the guard of the pruning spares it.     *)
(* Type correctness comes second: TypeOK is inductive as it stands.        *)
(***************************************************************************)
EXTENDS TraefikSync, TLAPS

\* People do not name their services like a route.
HandNamed == \A f \in Fqdns : NameOf[f] # ManualName

ByHand == [fqdn |-> NoFqdn, name |-> ManualName, target |-> NoRoute, ours |-> FALSE]

SyncInv ==
  /\ sync \in [Callers -> Passes]
  /\ service \in [Ids -> Services \cup {NoService}]
  /\ manual \subseteq Ids
  /\ routes \in Routes

HandInv ==
  \A i \in manual :
    /\ service[i] = ByHand
    /\ \A c \in Callers : sync[c].listing[i] \in {NoService, ByHand}

IInv == SyncInv /\ HandInv

USE DEF Works, Fails

LEMMA IdleIsPass == Idle \in Passes
BY DEF Idle, Passes, Nothing, Empty, Routes

LEMMA ByHandIsService == ByHand \in Services /\ ByHand # NoService
<1>1. NoFqdn \in Fqdns \cup {NoFqdn} /\ ManualName \in Names /\ NoRoute \in Targets \cup {NoRoute}
  BY DEF Names
<1>2. ByHand \in Services
  BY <1>1 DEF ByHand, Services
<1> QED BY <1>2, NamesAssumption

LEMMA ExistingIsListed ==
  ASSUME NEW s, NEW f, NEW i \in Existing(s, f)
  PROVE  i \in Listed(s) /\ (s.listing[i].fqdn = f \/ s.listing[i].name = NameOf[f])
<1> DEFINE byFqdn == {k \in Listed(s) : s.listing[k].fqdn = f}
           byName == {k \in Listed(s) : s.listing[k].name = NameOf[f]}
<1>1. i \in Last(byFqdn) \/ i \in Last(byName)
  BY DEF Existing
<1>2. i \in byFqdn \/ i \in byName
  BY <1>1 DEF Last
<1> QED BY <1>2

\* No route of a pass matches a service made by hand, and no orphan is one.
LEMMA HandIsSpared ==
  ASSUME HandNamed, IInv, NEW c \in Callers
  PROVE  /\ \A f \in Fqdns : Existing(sync[c], f) \cap manual = {}
         /\ Orphans(sync[c]) \cap manual = {}
<1>1. \A i \in manual : i \in Listed(sync[c]) => sync[c].listing[i] = ByHand
  BY DEF IInv, HandInv, Listed
<1>2. \A f \in Fqdns : ByHand.fqdn # f /\ ByHand.name # NameOf[f] /\ ~ByHand.ours
  BY NamesAssumption DEF ByHand, HandNamed
<1>3. ASSUME NEW f \in Fqdns, NEW i \in Existing(sync[c], f) PROVE i \notin manual
  <2>1. /\ i \in Listed(sync[c])
        /\ sync[c].listing[i].fqdn = f \/ sync[c].listing[i].name = NameOf[f]
    BY <1>3, ExistingIsListed
  <2> QED BY <1>1, <1>2, <2>1
<1>4. ASSUME NEW i \in Orphans(sync[c]) PROVE i \notin manual
  BY <1>1 DEF Orphans, ByHand
<1> QED BY <1>3, <1>4

\* What keeps the invariant: services made by hand are left alone, and the pass
\* goes on with its listing, or with none.
LEMMA PassKeeps ==
  ASSUME IInv, NEW c \in Callers, NEW s \in Passes, Goto(c, s),
         \A i \in Ids : s.listing[i] \in {sync[c].listing[i], service[i], NoService},
         service' \in [Ids -> Services \cup {NoService}],
         \A i \in manual : service'[i] = service[i],
         UNCHANGED <<manual, routes>>
  PROVE  IInv'
BY DEF IInv, SyncInv, HandInv, Goto

\* A request that writes v to service i, which nobody made by hand.
LEMMA RequestKeeps ==
  ASSUME IInv, NEW c \in Callers, NEW i \in Ids \ manual, NEW v \in Services \cup {NoService},
         NEW s \in Passes, Request(c, [service EXCEPT ![i] = v], s, s),
         s.listing = sync[c].listing, UNCHANGED <<manual, routes>>
  PROVE  IInv'
<1>1. PICK n \in {s, Idle} : Goto(c, n)
  BY DEF Request
<1>2. service' \in {service, [service EXCEPT ![i] = v]}
  BY DEF Request
<1>3. n \in Passes /\ \A k \in Ids : n.listing[k] \in {sync[c].listing[k], NoService}
  BY <1>1, IdleIsPass DEF Idle, Empty
<1>4. /\ service' \in [Ids -> Services \cup {NoService}]
      /\ \A k \in manual : service'[k] = service[k]
  BY <1>2 DEF IInv, SyncInv
<1> QED BY <1>1, <1>3, <1>4, PassKeeps

LEMMA WriteKeeps ==
  ASSUME HandNamed, IInv, NEW c \in Callers, Post(c) \/ Patch(c) \/ Prune(c)
  PROVE  IInv'
<1> DEFINE s == sync[c]
<1>1. s \in Passes /\ UNCHANGED <<manual, routes>>
  BY DEF IInv, SyncInv, Post, Patch, Prune
<1>2. ASSUME NEW f \in Found(s)
      PROVE  /\ f \in Fqdns /\ Payload(s, f) \in Services
             /\ [s EXCEPT !.found[f] = NoRoute] \in Passes
             /\ [s EXCEPT !.found[f] = NoRoute].listing = s.listing
             /\ \A i \in Ids : LET n == [s EXCEPT !.found[f] = NoRoute, !.done = @ \cup {i}]
                               IN  n \in Passes /\ n.listing = s.listing
  <2>1. f \in Fqdns /\ s.found \in Routes /\ s.found[f] # NoRoute
    BY <1>1 DEF Found, Passes
  <2>2. Payload(s, f) \in Services
    BY <2>1 DEF Payload, Services, Routes, Names
  <2>3. [s.found EXCEPT ![f] = NoRoute] \in Routes
    BY <2>1 DEF Routes
  <2> QED BY <1>1, <2>1, <2>2, <2>3 DEF Passes
<1>3. ASSUME NEW i \in Ids
      PROVE  [s EXCEPT !.done = @ \cup {i}] \in Passes /\ [s EXCEPT !.done = @ \cup {i}].listing = s.listing
  BY <1>1 DEF Passes
<1>4. CASE Post(c)
  <2>1. PICK f \in Found(s), i \in Ids :
          /\ NextId(i)
          /\ Request(c, [service EXCEPT ![i] = Payload(s, f)],
                     [s EXCEPT !.found[f] = NoRoute], [s EXCEPT !.found[f] = NoRoute])
    BY <1>4 DEF Post
  <2>2. i \notin manual
    BY <2>1, ByHandIsService DEF NextId, Fresh, IInv, HandInv
  <2> QED BY <1>1, <1>2, <2>1, <2>2, RequestKeeps
<1>5. CASE Patch(c)
  <2>1. PICK f \in Found(s) : \E i \in Existing(s, f) :
          LET next == [s EXCEPT !.found[f] = NoRoute, !.done = @ \cup {i}]
          IN  \/ UNCHANGED service /\ Goto(c, next)
              \/ Request(c, [service EXCEPT ![i] = Payload(s, f)], next, next)
    BY <1>5 DEF Patch
  <2>2. PICK i \in Existing(s, f) :
          LET next == [s EXCEPT !.found[f] = NoRoute, !.done = @ \cup {i}]
          IN  \/ UNCHANGED service /\ Goto(c, next)
              \/ Request(c, [service EXCEPT ![i] = Payload(s, f)], next, next)
    BY <2>1
  <2>3. i \in Ids \ manual
    BY <1>2, HandIsSpared, ExistingIsListed DEF Listed
  <2> DEFINE next == [s EXCEPT !.found[f] = NoRoute, !.done = @ \cup {i}]
  <2>4. next \in Passes /\ next.listing = s.listing
    BY <1>2, <2>3
  <2>5. CASE UNCHANGED service /\ Goto(c, next)
    <3> HIDE DEF next
    <3> QED BY <1>1, <2>4, <2>5, PassKeeps DEF IInv, SyncInv
  <2>6. CASE Request(c, [service EXCEPT ![i] = Payload(s, f)], next, next)
    <3>1. Payload(s, f) \in Services
      BY <1>2
    <3> HIDE DEF next
    <3> QED BY <1>1, <2>3, <2>4, <2>6, <3>1, RequestKeeps
  <2> QED BY <2>2, <2>5, <2>6
<1>6. CASE Prune(c)
  <2>1. PICK i \in Orphans(s) :
          LET next == [s EXCEPT !.done = @ \cup {i}]
          IN  Request(c, [service EXCEPT ![i] = NoService], next, next)
    BY <1>6 DEF Prune, First
  <2>2. i \in Ids \ manual
    BY HandIsSpared DEF Orphans, Listed
  <2> QED BY <1>1, <1>3, <2>1, <2>2, RequestKeeps
<1> QED BY <1>4, <1>5, <1>6

LEMMA ReadKeeps ==
  ASSUME IInv, NEW c \in Callers, Discover(c) \/ List(c) \/ Finish(c) \/ Abort(c)
  PROVE  IInv'
<1>1. UNCHANGED <<service, manual, routes>>
  BY DEF Discover, List, Finish, Abort
<1>2. sync[c] \in Passes /\ service \in [Ids -> Services \cup {NoService}]
  BY DEF IInv, SyncInv
<1>3. CASE Discover(c)
  <2>1. PICK found \in Routes : Goto(c, [Idle EXCEPT !.phase = "list", !.found = found])
    BY <1>3 DEF Discover, IInv, SyncInv, Routes
  <2> DEFINE s == [Idle EXCEPT !.phase = "list", !.found = found]
  <2>2. s \in Passes /\ \A i \in Ids : s.listing[i] = NoService
    BY DEF Idle, Empty, Passes
  <2>3. Goto(c, s)
    BY <2>1
  <2> HIDE DEF s
  <2> QED BY <1>1, <1>2, <2>2, <2>3, PassKeeps
<1>4. CASE List(c)
  <2> DEFINE s == [sync[c] EXCEPT !.phase = "apply", !.listing = service]
  <2>1. s \in Passes /\ s.listing = service /\ Goto(c, s)
    BY <1>2, <1>4 DEF List, Passes
  <2> HIDE DEF s
  <2> QED BY <1>1, <1>2, <2>1, PassKeeps
<1>5. CASE Finish(c) \/ Abort(c)
  <2>1. Goto(c, Idle) /\ \A i \in Ids : Idle.listing[i] = NoService
    BY <1>5 DEF Finish, Abort, Idle, Empty
  <2> QED BY <1>1, <1>2, <2>1, IdleIsPass, PassKeeps
<1> QED BY <1>3, <1>4, <1>5

LEMMA PeopleKeep ==
  ASSUME IInv, People PROVE IInv'
<1>1. ASSUME NEW f \in Fqdns, EditRoute(f) PROVE IInv'
  <2>1. routes' \in Routes /\ UNCHANGED <<service, manual, sync>>
    BY <1>1 DEF EditRoute, IInv, SyncInv, Routes
  <2> QED BY <2>1 DEF IInv, SyncInv, HandInv
<1>2. ASSUME NEW i \in Ids, CreateByHand(i) PROVE IInv'
  <2>1. /\ service' = [service EXCEPT ![i] = ByHand]
        /\ manual' = manual \cup {i} /\ UNCHANGED <<routes, sync>>
        /\ \A c \in Callers : sync[c].listing[i] = NoService
    BY <1>2 DEF CreateByHand, ByHand, NextId, Fresh
  <2>2. SyncInv'
    BY <2>1, ByHandIsService DEF IInv, SyncInv
  <2>3. HandInv'
    BY <2>1 DEF IInv, SyncInv, HandInv
  <2> QED BY <2>2, <2>3 DEF IInv
<1> QED BY <1>1, <1>2 DEF People

LEMMA NextKeeps ==
  ASSUME HandNamed, IInv, [Next]_vars PROVE IInv'
<1>1. CASE UNCHANGED vars
  BY <1>1 DEF vars, IInv, SyncInv, HandInv
<1>2. CASE People
  BY <1>2, PeopleKeep
<1>3. ASSUME NEW c \in Callers, Discover(c) \/ Pass(c) \/ Abort(c) PROVE IInv'
  BY <1>3, ReadKeeps, WriteKeeps DEF Pass
<1> QED BY <1>1, <1>2, <1>3 DEF Next

LEMMA InitIInv == Init => IInv
BY IdleIsPass DEF Init, IInv, SyncInv, HandInv, Empty

\* No pass deletes a service that people created, whatever passes overlap, fail
\* or are cut off, as long as people do not use the name of a route (the strict
\* safety guard of sync_instance's orphan pruning).
THEOREM HandSafe ==
  ASSUME HandNamed PROVE Spec => []ManualKept
<1>1. IInv => ManualKept
  BY ByHandIsService DEF IInv, HandInv, ManualKept
<1>2. HandNamed
  OBVIOUS
<1>3. IInv /\ [Next]_vars => IInv'
  BY <1>2, NextKeeps
<1> QED BY <1>1, <1>3, InitIInv, PTL DEF Spec

-----------------------------------------------------------------------------
(* Type correctness *)

\* What TypeOK says of one pass.
WellFormed(s) ==
  /\ s \in Passes /\ s.done \subseteq Listed(s)
  /\ s.phase # "apply" => s.listing = Empty

LEMMA IdleIsWellFormed == WellFormed(Idle)
BY IdleIsPass DEF WellFormed, Idle

LEMMA FaultsBounded ==
  ASSUME TypeOK, Works \/ Fails PROVE faults' \in 0..MaxFaults
BY BoundsAssumption DEF TypeOK

\* What keeps TypeOK: a pass goes on well formed.
LEMMA PassTyped ==
  ASSUME TypeOK, NEW c \in Callers, NEW s, WellFormed(s), Goto(c, s), Works \/ Fails,
         service' \in [Ids -> Services \cup {NoService}],
         edits' \in 0..MaxEdits, UNCHANGED <<manual, routes>>
  PROVE  TypeOK'
<1>1. sync' \in [Callers -> Passes]
  BY DEF TypeOK, Goto, WellFormed
<1>2. ASSUME NEW d \in Callers
      PROVE  /\ sync'[d].done \subseteq Listed(sync'[d])
             /\ sync'[d].phase # "apply" => sync'[d].listing = Empty
  <2>1. sync'[d] = IF d = c THEN s ELSE sync[d]
    BY DEF TypeOK, Goto
  <2> QED BY <2>1 DEF TypeOK, WellFormed
<1>3. faults' \in 0..MaxFaults
  BY FaultsBounded
<1> QED BY <1>1, <1>2, <1>3 DEF TypeOK

LEMMA RequestTyped ==
  ASSUME TypeOK, NEW c \in Callers, NEW i \in Ids, NEW v \in Services \cup {NoService},
         NEW s, WellFormed(s), Request(c, [service EXCEPT ![i] = v], s, s),
         UNCHANGED <<manual, routes, edits>>
  PROVE  TypeOK'
<1>1. PICK n \in {s, Idle} : Goto(c, n)
  BY DEF Request
<1>2. service' \in {service, [service EXCEPT ![i] = v]} /\ (Works \/ Fails)
  BY DEF Request
<1>3. WellFormed(n)
  BY <1>1, IdleIsWellFormed
<1>4. service' \in [Ids -> Services \cup {NoService}] /\ edits' \in 0..MaxEdits
  BY <1>2 DEF TypeOK
<1> QED BY <1>1, <1>2, <1>3, <1>4, PassTyped

LEMMA WriteTyped ==
  ASSUME TypeOK, NEW c \in Callers, Post(c) \/ Patch(c) \/ Prune(c)
  PROVE  TypeOK'
<1> DEFINE s == sync[c]
<1>1. WellFormed(s) /\ s.phase = "apply" /\ UNCHANGED <<manual, routes, edits>>
  BY DEF TypeOK, WellFormed, Post, Patch, Prune
<1>2. ASSUME NEW f \in Found(s)
      PROVE  /\ Payload(s, f) \in Services
             /\ WellFormed([s EXCEPT !.found[f] = NoRoute])
             /\ \A i \in Listed(s) : WellFormed([s EXCEPT !.found[f] = NoRoute, !.done = @ \cup {i}])
  <2>1. f \in Fqdns /\ s.found \in Routes /\ s.found[f] # NoRoute /\ s \in Passes
    BY <1>1 DEF Found, Passes, WellFormed
  <2>2. Payload(s, f) \in Services
    BY <2>1 DEF Payload, Services, Routes, Names
  <2>3. [s.found EXCEPT ![f] = NoRoute] \in Routes
    BY <2>1 DEF Routes
  <2>4. WellFormed([s EXCEPT !.found[f] = NoRoute])
    BY <1>1, <2>1, <2>3 DEF WellFormed, Passes, Listed
  <2>5. ASSUME NEW i \in Listed(s)
        PROVE  WellFormed([s EXCEPT !.found[f] = NoRoute, !.done = @ \cup {i}])
    BY <1>1, <2>1, <2>3 DEF WellFormed, Passes, Listed
  <2> QED BY <2>2, <2>4, <2>5
<1>3. ASSUME NEW i \in Listed(s) PROVE WellFormed([s EXCEPT !.done = @ \cup {i}])
  BY <1>1 DEF WellFormed, Passes, Listed
<1>4. CASE Post(c)
  <2>1. PICK f \in Found(s), i \in Ids :
          Request(c, [service EXCEPT ![i] = Payload(s, f)],
                  [s EXCEPT !.found[f] = NoRoute], [s EXCEPT !.found[f] = NoRoute])
    BY <1>4 DEF Post
  <2> QED BY <1>1, <1>2, <2>1, RequestTyped
<1>5. CASE Patch(c)
  <2>0. PICK f \in Found(s) : \E i \in Existing(s, f) :
          LET next == [s EXCEPT !.found[f] = NoRoute, !.done = @ \cup {i}]
          IN  \/ Works /\ UNCHANGED service /\ Goto(c, next)
              \/ Request(c, [service EXCEPT ![i] = Payload(s, f)], next, next)
    BY <1>5 DEF Patch
  <2>1. PICK i \in Existing(s, f) :
          LET next == [s EXCEPT !.found[f] = NoRoute, !.done = @ \cup {i}]
          IN  \/ Works /\ UNCHANGED service /\ Goto(c, next)
              \/ Request(c, [service EXCEPT ![i] = Payload(s, f)], next, next)
    BY <2>0
  <2> DEFINE next == [s EXCEPT !.found[f] = NoRoute, !.done = @ \cup {i}]
  <2>2. i \in Listed(s) /\ i \in Ids
    BY ExistingIsListed DEF Listed
  <2>3. WellFormed(next) /\ Payload(s, f) \in Services
    BY <1>2, <2>2
  <2>4. CASE Works /\ UNCHANGED service /\ Goto(c, next)
    <3>1. service' \in [Ids -> Services \cup {NoService}] /\ edits' \in 0..MaxEdits
      BY <1>1, <2>4 DEF TypeOK
    <3> HIDE DEF next
    <3> QED BY <1>1, <2>3, <2>4, <3>1, PassTyped
  <2>5. CASE Request(c, [service EXCEPT ![i] = Payload(s, f)], next, next)
    <3> HIDE DEF next
    <3> QED BY <1>1, <2>2, <2>3, <2>5, RequestTyped
  <2> QED BY <2>1, <2>4, <2>5
<1>6. CASE Prune(c)
  <2>1. PICK i \in Orphans(s) :
          LET next == [s EXCEPT !.done = @ \cup {i}]
          IN  Request(c, [service EXCEPT ![i] = NoService], next, next)
    BY <1>6 DEF Prune, First
  <2>2. i \in Listed(s) /\ i \in Ids
    BY DEF Orphans, Listed
  <2> QED BY <1>1, <1>3, <2>1, <2>2, RequestTyped
<1> QED BY <1>4, <1>5, <1>6

LEMMA ReadTyped ==
  ASSUME TypeOK, NEW c \in Callers, Discover(c) \/ List(c) \/ Finish(c) \/ Abort(c)
  PROVE  TypeOK'
<1>1. /\ UNCHANGED <<manual, routes>> /\ (Works \/ Fails)
      /\ service' \in [Ids -> Services \cup {NoService}]
  BY DEF TypeOK, Discover, List, Finish, Abort
<1>2. edits' \in 0..MaxEdits
  <2>1. UNCHANGED edits \/ (edits < MaxEdits /\ edits' = edits + 1)
    BY DEF Discover, Begin, List, Finish, Abort
  <2>2. edits \in 0..MaxEdits /\ MaxEdits \in Nat
    BY BoundsAssumption DEF TypeOK
  <2> HIDE DEF Works, Fails
  <2> QED BY <2>1, <2>2
<1>3. CASE Discover(c)
  <2>1. PICK found \in Routes : Goto(c, [Idle EXCEPT !.phase = "list", !.found = found])
    BY <1>3 DEF Discover, TypeOK, Routes
  <2> DEFINE s == [Idle EXCEPT !.phase = "list", !.found = found]
  <2>2. WellFormed(s)
    BY IdleIsPass DEF WellFormed, Idle, Passes
  <2>3. Goto(c, s)
    BY <2>1
  <2> HIDE DEF s
  <2> QED BY <1>1, <1>2, <2>2, <2>3, PassTyped
<1>4. CASE List(c)
  <2> DEFINE s == [sync[c] EXCEPT !.phase = "apply", !.listing = service]
  <2>1. sync[c] \in Passes /\ sync[c].done \subseteq Listed(sync[c]) /\ sync[c].listing = Empty
    BY <1>4 DEF TypeOK, List
  <2>2. sync[c].done = {}
    BY <2>1 DEF Listed, Empty
  <2>3. WellFormed(s) /\ Goto(c, s)
    BY <1>4, <2>1, <2>2 DEF List, WellFormed, Passes, TypeOK
  <2> HIDE DEF s
  <2> QED BY <1>1, <1>2, <2>3, PassTyped
<1>5. CASE Finish(c) \/ Abort(c)
  <2>1. Goto(c, Idle)
    BY <1>5 DEF Finish, Abort
  <2> QED BY <1>1, <1>2, <2>1, IdleIsWellFormed, PassTyped
<1> QED BY <1>3, <1>4, <1>5

LEMMA PeopleTyped ==
  ASSUME TypeOK, People PROVE TypeOK'
<1>1. edits' \in 0..MaxEdits /\ UNCHANGED <<sync, faults>>
  BY BoundsAssumption DEF TypeOK, People, EditRoute, CreateByHand
<1>2. ASSUME NEW f \in Fqdns, EditRoute(f) PROVE routes' \in Routes /\ UNCHANGED <<service, manual>>
  BY <1>2 DEF EditRoute, TypeOK, Routes
<1>3. ASSUME NEW i \in Ids, CreateByHand(i)
      PROVE  /\ service' \in [Ids -> Services \cup {NoService}] /\ manual' \subseteq Ids
             /\ UNCHANGED routes
  BY <1>3, ByHandIsService DEF CreateByHand, ByHand, TypeOK
<1> QED BY <1>1, <1>2, <1>3 DEF People, TypeOK

LEMMA InitTyped == Init => TypeOK
<1> SUFFICES ASSUME Init PROVE TypeOK
  OBVIOUS
<1>1. \A c \in Callers : sync[c] = Idle
  BY DEF Init
<1>2. sync \in [Callers -> Passes]
  BY IdleIsPass DEF Init
<1> QED BY <1>1, <1>2, IdleIsWellFormed, BoundsAssumption DEF Init, TypeOK, WellFormed, Empty

\* Every variable has its type, for any routes, names, callers and bounds: a pass
\* has dealt only with services it listed, and what it found and listed is gone with
\* it (the local variables of sync_instance).
THEOREM TypeCorrect == Spec => []TypeOK
<1>1. TypeOK /\ [Next]_vars => TypeOK'
  <2> SUFFICES ASSUME TypeOK, [Next]_vars PROVE TypeOK'
    OBVIOUS
  <2>1. CASE UNCHANGED vars
    BY <2>1 DEF vars, TypeOK
  <2>2. CASE People
    BY <2>2, PeopleTyped
  <2>3. ASSUME NEW c \in Callers, Discover(c) \/ Pass(c) \/ Abort(c) PROVE TypeOK'
    BY <2>3, ReadTyped, WriteTyped DEF Pass
  <2> QED BY <2>1, <2>2, <2>3 DEF Next
<1> QED BY <1>1, InitTyped, PTL DEF Spec
=============================================================================
