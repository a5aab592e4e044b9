---------------------------- MODULE TraefikSync ----------------------------
(***************************************************************************)
(* app/drivers/traefik_sync.py, sync_instance: the routes of one Traefik   *)
(* instance are mirrored as services of one parent object in NetBox.  The  *)
(* periodic task, the pass at startup and POST /sync/traefik all run it,   *)
(* and nothing keeps them apart; each await is a step.                     *)
(***************************************************************************)
EXTENDS Naturals, FiniteSets

CONSTANTS
  Fqdns,      \* the hosts routes are for
  NameOf,     \* the service name a route's container or file gives it
  Targets,    \* backends
  Scheduler,  \* the periodic task
  Requests,   \* handlers of POST /sync/traefik, and the pass at startup
  LastId,     \* NetBox's service ids are 1..LastId
  NoRoute, NoService, NoFqdn,
  ManualName, \* the name of services that people create by hand
  MaxEdits,   \* changes and requests made by people
  MaxFaults   \* requests that fail

Callers == Requests \cup {Scheduler}

Ids    == 1..LastId
Names  == {NameOf[f] : f \in Fqdns} \cup {ManualName}
Routes == [Fqdns -> Targets \cup {NoRoute}]

\* ours: the tag, or the description, that marks a service as Traefik's.
Services == [fqdn : Fqdns \cup {NoFqdn}, name : Names, target : Targets \cup {NoRoute}, ours : BOOLEAN]

ASSUME BoundsAssumption ==
  LastId \in Nat /\ MaxEdits \in Nat /\ MaxFaults \in Nat
ASSUME NamesAssumption ==
  /\ Scheduler \notin Requests
  /\ DOMAIN NameOf = Fqdns
  /\ NoRoute \notin Targets /\ NoFqdn \notin Fqdns /\ NoService \notin Services

VARIABLES
  routes,   \* Traefik: the routes that are configured
  service,  \* NetBox: the services of the parent
  manual,   \* the services people created
  sync,     \* the passes
  edits, faults

vars == <<routes, service, manual, sync, edits, faults>>

Nothing == [f \in Fqdns |-> NoRoute]
Empty   == [i \in Ids |-> NoService]

\* A pass: the routes it discovered and has still to write, the services it
\* listed, and those of them it has dealt with.
Idle == [phase |-> "idle", found |-> Nothing, listing |-> Empty, done |-> {}]

Init ==
  /\ routes \in Routes
  /\ service = Empty
  /\ manual = {}
  /\ sync = [c \in Callers |-> Idle]
  /\ edits = 0 /\ faults = 0

Works == UNCHANGED faults
Fails == faults < MaxFaults /\ faults' = faults + 1

\* NetBox never hands an id out twice: one that no pass remembers.
Fresh(i)  == service[i] = NoService /\ \A c \in Callers : sync[c].listing[i] = NoService
NextId(i) == Fresh(i) /\ \A k \in 1..(i - 1) : ~Fresh(k)

-----------------------------------------------------------------------------
(* People *)

EditRoute(f) ==
  /\ edits < MaxEdits /\ edits' = edits + 1
  /\ \E t \in Targets \cup {NoRoute} : t # routes[f] /\ routes' = [routes EXCEPT ![f] = t]
  /\ UNCHANGED <<service, manual, sync, faults>>

CreateByHand(i) ==
  /\ edits < MaxEdits /\ edits' = edits + 1
  /\ NextId(i)
  /\ service' = [service EXCEPT ![i] = [fqdn |-> NoFqdn, name |-> ManualName,
                                        target |-> NoRoute, ours |-> FALSE]]
  /\ manual' = manual \cup {i}
  /\ UNCHANGED <<routes, sync, faults>>

-----------------------------------------------------------------------------
(* A pass *)

Goto(c, s) == sync' = [sync EXCEPT ![c] = s]

\* A pass begins, by schedule or on request.
Begin(c) ==
  /\ sync[c].phase = "idle"
  /\ IF c = Scheduler THEN UNCHANGED edits ELSE edits < MaxEdits /\ edits' = edits + 1

\* discover_docker_routes, discover_file_routes, discover_remote_traefik_routes:
\* every error is swallowed, and what was found before it is the answer.
Discover(c) ==
  /\ Begin(c)
  /\ \/ Works /\ Goto(c, [Idle EXCEPT !.phase = "list", !.found = routes])
     \/ /\ Fails
        /\ \E seen \in SUBSET Fqdns :
             Goto(c, [Idle EXCEPT !.phase = "list",
                                  !.found = [f \in Fqdns |-> IF f \in seen THEN routes[f] ELSE NoRoute]])
  /\ UNCHANGED <<routes, service, manual>>

Found(s) == {f \in Fqdns : s.found[f] # NoRoute}

List(c) ==
  LET s == sync[c] IN
  /\ s.phase = "list" /\ Works
  /\ Goto(c, [s EXCEPT !.phase = "apply", !.listing = service])
  /\ UNCHANGED <<routes, service, manual, edits>>

Listed(s) == {i \in Ids : s.listing[i] # NoService}

\* NetBox lists services in the order of their ids: of several the last one stays
\* in the dictionaries.
First(S) == {i \in S : \A k \in S : i <= k}
Last(S)  == {i \in S : \A k \in S : k <= i}

\* existing_by_fqdn, or else existing_by_name.
Existing(s, f) ==
  LET byFqdn == {i \in Listed(s) : s.listing[i].fqdn = f}
      byName == {i \in Listed(s) : s.listing[i].name = NameOf[f]}
  IN  IF byFqdn # {} THEN Last(byFqdn) ELSE Last(byName)

\* The services that are not in Traefik any more and are marked as Traefik's.
Orphans(s) == {i \in Listed(s) \ s.done : s.listing[i].ours}

Payload(s, f) == [fqdn |-> f, name |-> NameOf[f], target |-> s.found[f], ours |-> TRUE]

\* A request that makes services become v: it is answered, refused (which is
\* only logged), or cut off together with the pass, carried out or not.
Request(c, v, answered, refused) ==
  \/ Works /\ service' = v /\ Goto(c, answered)
  \/ Fails /\ UNCHANGED service /\ Goto(c, refused)
  \/ Fails /\ service' \in {service, v} /\ Goto(c, Idle)

Post(c) ==
  LET s == sync[c] IN
  /\ s.phase = "apply"
  /\ \E f \in Found(s), i \in Ids :
       LET next == [s EXCEPT !.found[f] = NoRoute]
       IN  /\ Existing(s, f) = {} /\ NextId(i)
           /\ Request(c, [service EXCEPT ![i] = Payload(s, f)], next, next)
  /\ UNCHANGED <<routes, manual, edits>>

\* Mutant: a service that needs no update is not counted as matched.
PatchForgets(c) ==
  LET s == sync[c] IN
  /\ s.phase = "apply"
  /\ \E f \in Found(s) : \E i \in Existing(s, f) :
       LET left == [s EXCEPT !.found[f] = NoRoute]
           next == [left EXCEPT !.done = @ \cup {i}]
       IN  \/ s.listing[i] = Payload(s, f) /\ Works /\ UNCHANGED service /\ Goto(c, left)
           \/ /\ s.listing[i] # Payload(s, f) /\ service[i] # NoService
              /\ Request(c, [service EXCEPT ![i] = Payload(s, f)], next, next)
  /\ UNCHANGED <<routes, manual, edits>>

\* The update is decided on what was listed; a service that is gone by now is
\* answered with 404.
Patch(c) ==
  LET s == sync[c] IN
  /\ s.phase = "apply"
  /\ \E f \in Found(s) : \E i \in Existing(s, f) :
       LET next == [s EXCEPT !.found[f] = NoRoute, !.done = @ \cup {i}]
       IN  \/ /\ s.listing[i] = Payload(s, f) \/ service[i] = NoService
              /\ Works /\ UNCHANGED service /\ Goto(c, next)
           \/ /\ s.listing[i] # Payload(s, f) /\ service[i] # NoService
              /\ Request(c, [service EXCEPT ![i] = Payload(s, f)], next, next)
  /\ UNCHANGED <<routes, manual, edits>>

\* Mutant: whatever was not matched is pruned.
PruneUnguarded(c) ==
  LET s == sync[c] IN
  /\ s.phase = "apply" /\ Found(s) = {}
  /\ \E i \in First(Listed(s) \ s.done) :
       LET next == [s EXCEPT !.done = @ \cup {i}]
       IN  Request(c, [service EXCEPT ![i] = NoService], next, next)
  /\ UNCHANGED <<routes, manual, edits>>

Prune(c) ==
  LET s == sync[c] IN
  /\ s.phase = "apply" /\ Found(s) = {}
  /\ \E i \in First(Orphans(s)) :
       LET next == [s EXCEPT !.done = @ \cup {i}]
       IN  Request(c, [service EXCEPT ![i] = NoService], next, next)
  /\ UNCHANGED <<routes, manual, edits>>

\* Mutant: the matched services outlive their pass.
FinishKeeps(c) ==
  /\ sync[c].phase = "apply" /\ Found(sync[c]) = {} /\ Orphans(sync[c]) = {}
  /\ Works /\ Goto(c, [sync[c] EXCEPT !.phase = "idle"])
  /\ UNCHANGED <<routes, service, manual, edits>>

Finish(c) ==
  /\ sync[c].phase = "apply" /\ Found(sync[c]) = {} /\ Orphans(sync[c]) = {}
  /\ Works /\ Goto(c, Idle)
  /\ UNCHANGED <<routes, service, manual, edits>>

\* The listing fails, or wait_for cancels the pass after 120 s.
Abort(c) ==
  /\ sync[c].phase # "idle" /\ Fails
  /\ Goto(c, Idle)
  /\ UNCHANGED <<routes, service, manual, edits>>

-----------------------------------------------------------------------------

People == (\E f \in Fqdns : EditRoute(f)) \/ (\E i \in Ids : CreateByHand(i))
Pass(c) == List(c) \/ Post(c) \/ Patch(c) \/ Prune(c) \/ Finish(c)

Next ==
  \/ People
  \/ \E c \in Callers : Discover(c) \/ Pass(c) \/ Abort(c)

\* A pass that has begun goes on, its requests being answered or timing out,
\* and the scheduler begins another one.
Fairness == WF_vars(Discover(Scheduler)) /\ \A c \in Callers : WF_vars(Pass(c))

Spec == Init /\ [][Next]_vars /\ Fairness

-----------------------------------------------------------------------------

Passes == [phase : {"idle", "list", "apply"}, found : Routes,
           listing : [Ids -> Services \cup {NoService}], done : SUBSET Ids]

\* Every variable has its type; a pass keeps nothing for the next one and
\* has dealt only with services it listed (sync_instance's local variables).
TypeOK ==
  /\ routes \in Routes
  /\ service \in [Ids -> Services \cup {NoService}]
  /\ manual \subseteq Ids
  /\ sync \in [Callers -> Passes]
  /\ \A c \in Callers :
       /\ sync[c].done \subseteq Listed(sync[c])
       /\ sync[c].phase # "apply" => sync[c].listing = Empty
  /\ edits \in 0..MaxEdits /\ faults \in 0..MaxFaults

\* The services of the parent are the routes, one each.
Mirrored ==
  /\ \A f \in Fqdns : routes[f] # NoRoute =>
       \E i \in Ids : service[i] = [fqdn |-> f, name |-> NameOf[f], target |-> routes[f], ours |-> TRUE]
  /\ \A i, k \in Ids : service[i] # NoService /\ service[i].ours =>
       /\ routes[service[i].fqdn] # NoRoute
       /\ i # k /\ service[k] # NoService => service[i].fqdn # service[k].fqdn

\* However passes overlap, fail or are cut off, the services end up as the
\* routes, each once, and stay so (TraefikSyncDriver: routers are idempotently
\* synchronized into services).
Converges == <>[]Mirrored

\* A service people created by hand is theirs: no pass deletes it (the strict
\* safety guard of the orphan pruning).
ManualKept == \A i \in manual : service[i] # NoService
=============================================================================
