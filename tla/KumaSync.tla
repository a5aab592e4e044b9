------------------------------- MODULE KumaSync -------------------------------
(***************************************************************************)
(* app/drivers/uptime_kuma.py with scripts/sync_kuma_inventory.py and      *)
(* sync_kuma_services.py: NetBox devices become ping monitors in a group   *)
(* of their site, Traefik's services HTTP monitors in one group of their   *)
(* own, all in one Uptime Kuma.  The two batches are threads of two        *)
(* periodic tasks, of the startup and of API requests, which nothing keeps *)
(* apart and which no cancellation stops; each call to Kuma is a step.     *)
(***************************************************************************)
EXTENDS Naturals, FiniteSets

CONSTANTS
  Devices, Services,   \* what NetBox may list
  Names, Hosts, Urls,  \* their names; the addresses of devices and of services
  EntriesOf,           \* what people say in NetBox of each of them, in turn
  Home,                \* what they say at first
  Sites, Web,          \* the groups: one per site, and the one of the services
  DeviceThreads,       \* executor threads that take a devices' batch
  ServiceThreads,      \* executor threads that take a services' batch
  LastId,              \* Kuma's monitor ids are 1..LastId
  Excluded, Absent,    \* tagged no-monitor; not listed by NetBox
  NoMonitor, NoAddress, NoLink, NoPatch,
  MaxEdits,            \* changes and requests made by people
  MaxFaults            \* requests that fail, and interruptions

Things  == Devices \cup Services
Groups  == Sites \cup {Web}
Ids     == 1..LastId

\* What a batch looks monitors up by: groups and others in dictionaries of their own.
Keys == Names \cup Hosts \cup Urls \cup Groups

\* NetBox's entry of a thing, and one monitor of Kuma: a group, or a ping monitor with a
\* host or an HTTP monitor with a URL, and the group that is its parent.
Entries(x) ==
  IF x \in Devices THEN [group : Sites \cup {Excluded}, name : Names, at : Hosts]
  ELSE [group : {Web, Excluded}, name : Names, at : Urls]
Monitors == [name : Names \cup Groups, at : Hosts \cup Urls \cup {NoAddress}, parent : SUBSET Ids]
Links    == Ids \cup {NoLink}

NamesOf(x)     == {e.name : e \in EntriesOf[x]}
AddressesOf(x) == {e.at : e \in EntriesOf[x]}

ASSUME BoundsAssumption == LastId \in Nat /\ MaxEdits \in Nat /\ MaxFaults \in Nat
ASSUME NamesAssumption ==
  /\ Devices \cap Services = {} /\ Web \notin Sites /\ Excluded \notin Groups
  /\ Names \cap (Hosts \cup Urls \cup Groups) = {} /\ Hosts \cap (Urls \cup Groups) = {}
  /\ Urls \cap Groups = {} /\ NoAddress \notin Keys
  /\ \A x \in Things : Home[x] \in EntriesOf[x] /\ EntriesOf[x] \subseteq Entries(x)
  /\ \A x \in Things : Absent \notin Entries(x)
  /\ NoMonitor \notin Monitors /\ NoLink \notin Ids /\ NoPatch \notin Links
\* Links are written by a device's name: no two devices have one name, at once or in turn.
ASSUME DevicesAssumption ==
  \A x, y \in Devices : x # y => NamesOf(x) \cap NamesOf(y) = {}

VARIABLES
  declared,  \* NetBox: the entry of each thing, or Absent
  link,      \* NetBox: kuma_monitor_id of a device
  monitor,   \* Kuma
  batch,     \* the threads
  edits, faults

env  == <<edits, faults>>
vars == <<declared, link, monitor, batch, edits, faults>>

Empty   == [i \in Ids |-> NoMonitor]
Nothing == [k \in Keys |-> {}]

Kinds   == {"devices", "services"}
Threads == DeviceThreads \cup ServiceThreads

\* A batch: of what, who awaits it, what NetBox listed, the monitors it was listed and what
\* it finds them by, those it has to delete, the things it has to deal with, those whose
\* group could not be created, the groups it must spare, and the links it will write to
\* NetBox; and (for the fairness only) whether a services' batch has run alone.
Idle == [phase |-> "idle", kind |-> "devices", by |-> "nobody", want |-> [x \in Things |-> Absent],
         links |-> [d \in Devices |-> NoLink], known |-> Empty, found |-> Nothing, doomed |-> {},
         left |-> {}, bare |-> {}, spared |-> {}, patch |-> [d \in Devices |-> NoPatch],
         alone |-> FALSE]

Init ==
  /\ declared = [x \in Things |-> Home[x]]
  /\ link = [d \in Devices |-> NoLink]
  /\ monitor = Empty
  /\ batch = [t \in Threads |-> Idle]
  /\ edits = 0 /\ faults = 0

Works == UNCHANGED faults
Fails == faults < MaxFaults /\ faults' = faults + 1
EditCounted == edits < MaxEdits /\ edits' = edits + 1

-----------------------------------------------------------------------------
(* People *)

\* A device moves, gets another name or address, is tagged, leaves or enters NetBox; so
\* does a service.
Declare(x) ==
  /\ EditCounted
  /\ \E e \in EntriesOf[x] \cup {Absent} :
       /\ e # declared[x] /\ declared' = [declared EXCEPT ![x] = e]
       /\ link' = IF e = Absent /\ x \in Devices THEN [link EXCEPT ![x] = NoLink] ELSE link
  /\ UNCHANGED <<monitor, batch, faults>>

-----------------------------------------------------------------------------
(* Uptime Kuma *)

\* Ids are never used again: one that nobody remembers.
Remembered(i) ==
  \/ \E d \in Devices : link[d] = i
  \/ \E t \in Threads :
       \/ batch[t].known[i] # NoMonitor \/ i \in batch[t].spared \cup batch[t].doomed
       \/ \E k \in Keys : i \in batch[t].found[k]
       \/ \E d \in Devices : i \in {batch[t].links[d], batch[t].patch[d]}
Fresh(i)  == monitor[i] = NoMonitor /\ ~Remembered(i)
NextId(i) == Fresh(i) /\ \A k \in 1..(i - 1) : ~Fresh(k)

Listed(m) == {i \in Ids : m[i] # NoMonitor}

IsGroup(m) == m.name \in Groups

\* Whatever their kind: Kuma lists by id, and the last of several stays in a dictionary.
Last(S)  == {i \in S : \A k \in S : k <= i}
Found(m) == [k \in Keys |-> Last({i \in Listed(m) : k \in {m[i].name, m[i].at}})]

Children(m, i) == {k \in Listed(m) : i \in m[k].parent}

\* A group that is deleted leaves its children without a parent.
Without(m, i) ==
  [k \in Ids |-> IF k = i THEN NoMonitor
                 ELSE IF k \in Children(m, i) THEN [m[k] EXCEPT !.parent = {}] ELSE m[k]]

\* No monitor can have a parent that does not exist.
Accepts(parent) == parent \subseteq Listed(monitor)

-----------------------------------------------------------------------------
(* A batch *)

\* Mutant: nothing to write is something to write.
ReturnedLinking(s) ==
  IF s.by = "nobody" THEN Idle
  ELSE [Idle EXCEPT !.phase = "link", !.by = s.by, !.patch = s.patch]

\* The thread has returned: who still awaits it writes the links.
Returned(s) ==
  IF s.by = "nobody" \/ \A d \in Devices : s.patch[d] = NoPatch THEN Idle
  ELSE [Idle EXCEPT !.phase = "link", !.by = s.by, !.patch = s.patch]

\* A services' batch ends when everything is provided for, a devices' one when
\* the empty groups are gone.
Goto(t, s) ==
  batch' = [batch EXCEPT ![t] =
    CASE s.kind = "services" /\ s.phase = "apply" /\ s.doomed = {} /\ s.left = {} -> Idle
      [] s.phase = "sweep" /\ s.doomed = {} -> Returned(s)
      [] OTHER -> s]

Mine(s) == IF s.kind = "devices" THEN Devices ELSE Services

\* run_sync: NetBox is asked first, then the thread begins.
Fetch(t, kind, by) ==
  LET new   == [Idle EXCEPT !.phase = "list", !.kind = kind, !.by = by]
      want  == [x \in Things |-> IF x \in Mine(new) THEN declared[x] ELSE Absent]
      alone == \A u \in Threads : batch[u].phase = "idle"
      begun == [new EXCEPT !.want = want, !.links = IF kind = "devices" THEN link ELSE @,
                           !.left = {x \in Mine(new) : want[x] # Absent},
                           !.alone = kind = "services" /\ alone]
  IN  /\ batch[t].phase = "idle" /\ t \in IF kind = "devices" THEN DeviceThreads ELSE ServiceThreads
      /\ batch' = [u \in Threads |-> IF u = t THEN begun ELSE [batch[u] EXCEPT !.alone = FALSE]]
      /\ UNCHANGED <<declared, link, monitor>>

\* PeriodicTask: the next pass begins after the one before has been awaited.
Schedule(kind) ==
  /\ \A t \in Threads : ~(batch[t].by = "schedule" /\ batch[t].kind = kind)
  /\ \E t \in Threads : Fetch(t, kind, "schedule")
  /\ UNCHANGED env

\* POST /sync/uptime-kuma and /services, or the startup.
Ask(t, kind) == EditCounted /\ Fetch(t, kind, "request") /\ UNCHANGED faults

Bears(m, e) == m.name = e.name \/ m.at = e.at

\* Mutant: the services' monitors are orphans of the devices as well.
OrphansOfAll(s, web) ==
  {i \in Listed(monitor) : /\ ~IsGroup(monitor[i])
                           /\ \A x \in Things : s.want[x] # Absent => ~Bears(monitor[i], s.want[x])}

\* What bears no name or address in the listing of NetBox: a ping monitor anywhere but
\* in the services' group, or whatever is in that group.
Orphans(s, web) ==
  {i \in Listed(monitor) :
     LET inWeb == web # {} /\ monitor[i].parent = web IN
     /\ ~IsGroup(monitor[i])
     /\ IF s.kind = "services" THEN inWeb ELSE monitor[i].at \in Hosts /\ ~inWeb
     /\ \A x \in Things : s.want[x] # Absent => ~Bears(monitor[i], s.want[x])}

\* Everything is found in the one listing the thread begins with.
List(t) ==
  LET s   == batch[t]
      web == Found(monitor)[Web]
  IN  /\ s.phase = "list" /\ Works
      /\ Goto(t, [s EXCEPT !.phase = IF s.kind = "services" /\ web = {} THEN "group" ELSE "apply",
                           !.known = monitor, !.found = Found(monitor),
                           !.doomed = Orphans(s, web),
                           !.spared = IF s.kind = "devices" THEN web ELSE {}])
      /\ UNCHANGED <<declared, link, monitor, edits>>

\* A call that makes the monitors become m: it is answered, or fails, carried out
\* or not; a batch logs that and goes on.
Call(t, m, answered, failed) ==
  \/ Works /\ monitor' = m /\ Goto(t, answered)
  \/ Fails /\ monitor' \in {monitor, m} /\ Goto(t, failed)

Add(m, i, name, at, parent) == [m EXCEPT ![i] = [name |-> name, at |-> at, parent |-> parent]]

\* By address, or else by name: neither is ever brought up to date in Kuma.
Existing(s, x) ==
  IF s.found[s.want[x].at] # {} THEN s.found[s.want[x].at] ELSE s.found[s.want[x].name]

GroupOf(s, x) == IF x \in s.bare THEN {} ELSE s.found[s.want[x].group]

\* The services' group is made first ...
AddWebGroup(t) ==
  LET s == [batch[t] EXCEPT !.phase = "apply"] IN
  /\ batch[t].phase = "group"
  /\ \E i \in Ids : NextId(i) /\ Call(t, Add(monitor, i, Web, NoAddress, {}),
                                      [s EXCEPT !.found[Web] = {i}], [s EXCEPT !.bare = Services])
  /\ UNCHANGED <<declared, link, edits>>

\* ... then the orphans are deleted ...
Delete(t) ==
  LET s == batch[t] IN
  /\ s.phase = "apply"
  /\ \E i \in s.doomed : LET next == [s EXCEPT !.doomed = @ \ {i}] IN
       Call(t, Without(monitor, i), next, next)
  /\ UNCHANGED <<declared, link, edits>>

\* ... then the monitor of each tagged thing, the link of a device with it ...
Tagged(s) == {x \in s.left : s.want[x].group = Excluded}

Untagged(s, x) ==
  [s EXCEPT !.found = [@ EXCEPT ![s.want[x].at] = {}, ![s.want[x].name] = {}],
            !.patch = IF x \in Devices /\ s.links[x] # NoLink THEN [@ EXCEPT ![x] = NoLink] ELSE @]

DropTagged(t) ==
  LET s == batch[t] IN
  /\ s.phase = "apply" /\ s.doomed = {}
  /\ \E x \in Tagged(s) :
       LET next == [s EXCEPT !.left = @ \ {x}] IN
       \/ Existing(s, x) = {} /\ Works /\ UNCHANGED monitor /\ Goto(t, next)
       \/ \E i \in Existing(s, x) : Call(t, Without(monitor, i), Untagged(next, x), next)
  /\ UNCHANGED <<declared, link, edits>>

Providing(s, x) == s.phase = "apply" /\ s.doomed = {} /\ Tagged(s) = {} /\ x \in s.left

\* ... then each device's group is looked up or made ...
AddSiteGroup(t) ==
  LET s == batch[t] IN
  /\ \E d \in s.left \cap Devices :
       LET site == s.want[d].group IN
       /\ Providing(s, d) /\ d \notin s.bare /\ GroupOf(s, d) = {}
       /\ \E i \in Ids : NextId(i) /\ Call(t, Add(monitor, i, site, NoAddress, {}),
                                           [s EXCEPT !.found[site] = {i}],
                                           [s EXCEPT !.bare = @ \cup {d}])
  /\ UNCHANGED <<declared, link, edits>>

\* Mutant: only a new monitor is linked.
ProvidedOnce(s, x, i) ==
  [s EXCEPT !.left = @ \ {x}, !.spared = IF x \in Devices THEN @ \cup GroupOf(s, x) ELSE @,
            !.patch = IF x \in Devices /\ i \notin Listed(s.known) THEN [@ EXCEPT ![x] = i] ELSE @]

\* Mutant: the newest monitor is the one that has just been made.
ProvidedNewest(s, x, i) ==
  [s EXCEPT !.left = @ \ {x}, !.spared = IF x \in Devices THEN @ \cup GroupOf(s, x) ELSE @,
            !.patch = IF x \in Devices /\ s.links[x] # i
                      THEN [@ EXCEPT ![x] = CHOOSE k \in Last(Listed(monitor) \cup {i}) : TRUE] ELSE @]

\* The thing is provided for: its group is in use, its monitor known.
Provided(s, x, i) ==
  [s EXCEPT !.left = @ \ {x}, !.spared = IF x \in Devices THEN @ \cup GroupOf(s, x) ELSE @,
            !.patch = IF x \in Devices /\ s.links[x] # i THEN [@ EXCEPT ![x] = i] ELSE @]

Ready(s, x) == Providing(s, x) /\ (x \in s.bare \/ GroupOf(s, x) # {})

\* ... and its monitor made; Kuma refuses one whose group is gone ...
AddMonitor(t) ==
  LET s == batch[t] IN
  /\ \E x \in s.left :
       LET e    == s.want[x]
           g    == GroupOf(s, x)
           left == [s EXCEPT !.left = @ \ {x}, !.spared = IF x \in Devices THEN @ \cup g ELSE @]
       IN  /\ Ready(s, x) /\ Existing(s, x) = {}
           /\ \/ ~Accepts(g) /\ Works /\ UNCHANGED monitor /\ Goto(t, left)
              \/ /\ Accepts(g)
                 /\ \E i \in Ids : NextId(i)
                      /\ Call(t, Add(monitor, i, e.name, e.at, g),
                              [Provided(s, x, i) EXCEPT !.found = [@ EXCEPT ![e.at] = {i}, ![e.name] = {i}]],
                              left)
  /\ UNCHANGED <<declared, link, edits>>

\* ... or moved, if it was listed, unless it is where it belongs or the group could
\* not be made.
MoveMonitor(t) ==
  LET s == batch[t] IN
  /\ \E x \in {y \in s.left : Ready(s, y)} : \E i \in Existing(s, x) :
       LET g    == GroupOf(s, x)
           next == Provided(s, x, i)
       IN  IF \/ s.known[i] = NoMonitor \/ g = {} \/ s.known[i].parent = g
              \/ monitor[i] = NoMonitor \/ ~Accepts(g)
           THEN Works /\ UNCHANGED monitor /\ Goto(t, next)
           ELSE Call(t, [monitor EXCEPT ![i].parent = g],
                     [next EXCEPT !.known[i].parent = g], next)
  /\ UNCHANGED <<declared, link, edits>>

\* A devices' batch lists once more and deletes the groups that have become empty,
\* but none of those it used, nor the services' one if there was one at first.
Relist(t) ==
  LET s == batch[t] IN
  /\ s.kind = "devices" /\ s.phase = "apply" /\ s.doomed = {} /\ s.left = {}
  /\ \/ /\ Works
        /\ Goto(t, [s EXCEPT !.phase = "sweep", !.known = Empty, !.found = Nothing,
                             !.spared = {}, !.bare = {}, !.want = Idle.want, !.links = Idle.links,
                             !.doomed = {i \in Listed(monitor) \ s.spared :
                                           IsGroup(monitor[i]) /\ Children(monitor, i) = {}}])
     \/ Fails /\ Goto(t, Returned(s))
  /\ UNCHANGED <<declared, link, monitor, edits>>

DropGroup(t) ==
  LET s == batch[t] IN
  /\ s.phase = "sweep"
  /\ \E i \in s.doomed : Call(t, Without(monitor, i), [s EXCEPT !.doomed = @ \ {i}], Returned(s))
  /\ UNCHANGED <<declared, link, edits>>

\* PATCH kuma_monitor_id; one that fails is logged, one for a device that is not
\* there any more is answered with 404.
PatchLink(t) ==
  LET s == batch[t] IN
  /\ s.phase = "link"
  /\ \E d \in Devices :
       LET after == Returned([s EXCEPT !.patch[d] = NoPatch])
           done  == IF declared[d] = Absent THEN link ELSE [link EXCEPT ![d] = s.patch[d]]
       IN  /\ s.patch[d] # NoPatch /\ Goto(t, after)
           /\ \/ Works /\ link' = done
              \/ Fails /\ link' \in {link, done}
  /\ UNCHANGED <<declared, monitor, edits>>

\* wait_for gives the batch up after 180 s: its thread goes on.
Abandon(t) ==
  /\ batch[t].by # "nobody" /\ Fails
  /\ Goto(t, IF batch[t].phase = "link" THEN Idle ELSE [batch[t] EXCEPT !.by = "nobody"])
  /\ UNCHANGED <<declared, link, monitor, edits>>

\* The session cannot be opened, or the process dies.
Abort(t) ==
  /\ batch[t].phase # "idle" /\ Fails
  /\ Goto(t, Idle)
  /\ UNCHANGED <<declared, link, monitor, edits>>

-----------------------------------------------------------------------------

Step(t) ==
  \/ List(t) \/ AddWebGroup(t) \/ Delete(t) \/ DropTagged(t) \/ AddSiteGroup(t)
  \/ AddMonitor(t) \/ MoveMonitor(t) \/ Relist(t) \/ DropGroup(t) \/ PatchLink(t)

Next ==
  \/ \E x \in Things : Declare(x)
  \/ \E kind \in Kinds : Schedule(kind)
  \/ \E t \in Threads, kind \in Kinds : Ask(t, kind)
  \/ \E t \in Threads : Step(t) \/ Abandon(t) \/ Abort(t)

\* A services' batch ends that has had Kuma to itself.
Undisturbed == \E t \in Threads : batch[t].alone /\ batch'[t].phase = "idle"

\* A batch that has begun goes on, its calls being answered or timing out (30 s),
\* and the scheduler begins both again and again: every 30 and every 15 minutes, so
\* that they do not for ever fall into the same minute.
Fairness ==
  /\ \A kind \in Kinds : WF_vars(Schedule(kind))
  /\ \A t \in Threads : WF_vars(Step(t))
  /\ []<><<Undisturbed>>_vars

Spec == Init /\ [][Next]_vars /\ Fairness

-----------------------------------------------------------------------------

Batches ==
  [phase : {"idle", "list", "group", "apply", "sweep", "link"}, kind : Kinds, by : {"nobody", "schedule", "request"},
   want : [Things -> (UNION {EntriesOf[x] : x \in Things}) \cup {Absent}], links : [Devices -> Links],
   known : [Ids -> Monitors \cup {NoMonitor}], found : [Keys -> SUBSET Ids], doomed : SUBSET Ids,
   left : SUBSET Things, bare : SUBSET Things, spared : SUBSET Ids,
   patch : [Devices -> Links \cup {NoPatch}], alone : BOOLEAN]

\* Every variable has its type; only a devices' batch writes links, and it is
\* over when there are none to write (run_sync).
TypeOK ==
  /\ DOMAIN declared = Things /\ \A x \in Things : declared[x] \in EntriesOf[x] \cup {Absent}
  /\ link \in [Devices -> Links]
  /\ monitor \in [Ids -> Monitors \cup {NoMonitor}]
  /\ batch \in [Threads -> Batches]
  /\ \A t \in Threads : LET writes == \E d \in Devices : batch[t].patch[d] # NoPatch IN
       /\ batch[t].phase = "link" => writes
       /\ writes => batch[t].kind = "devices"
       /\ \A x \in Things : batch[t].want[x] \in EntriesOf[x] \cup {Absent}
  /\ edits \in 0..MaxEdits /\ faults \in 0..MaxFaults

\* A device is linked to a monitor that bears a name or an address of its own, or to one
\* that is gone by now: never to another's, however old the listing was that the link was
\* taken from, and whatever the device was called in it (run_sync, existing_by_ip).
LinkedToOwn ==
  \A d \in Devices : link[d] \in Listed(monitor) =>
    \/ monitor[link[d]].name \in NamesOf(d)
    \/ monitor[link[d]].at \in AddressesOf(d)

Monitored(e) == e # Absent /\ e.group \in Groups

\* A monitor that a batch deletes is of its kind and bears no name or address of
\* anything that the batch's own listing of NetBox has monitored; groups are deleted by
\* the sweep that ends a devices' batch, and nothing else by it.
SparesWanted ==
  [][\A i \in Ids : monitor[i] # NoMonitor /\ monitor'[i] = NoMonitor =>
       \E t \in Threads :
         LET s == batch[t] IN
         /\ batch'[t] # s
         /\ IF s.phase = "sweep" THEN IsGroup(monitor[i])
            ELSE /\ monitor[i].at \in UNION {AddressesOf(x) : x \in Mine(s)}
                 /\ \A x \in Mine(s) : Monitored(s.want[x]) => ~Bears(monitor[i], s.want[x])]_vars

Inside(i, g) == \E p \in Listed(monitor) : monitor[i].parent = {p} /\ monitor[p].name = g

\* Every monitored thing has a monitor that bears its name or its address in its group, a
\* device is linked to it, and neither monitors nor groups are left that nothing in
\* NetBox calls for, but for HTTP monitors that are outside the services' group.
Mirrored ==
  /\ \A x \in Things : Monitored(declared[x]) =>
       \E i \in Listed(monitor) :
         /\ Bears(monitor[i], declared[x]) /\ Inside(i, declared[x].group)
         /\ x \in Devices => link[x] = i
  /\ \A i \in Listed(monitor) :
       LET m      == monitor[i]
           Of(xs) == {x \in xs : declared[x] # Absent /\ Bears(m, declared[x])}
       IN  /\ m.name \in Sites => Children(monitor, i) # {}
           /\ m.at \in Hosts => \E x \in Of(Devices) : Monitored(declared[x])
           /\ m.at \in Urls =>
                \/ \E x \in Of(Services) : Monitored(declared[x])
                \/ Of(Services) = {} /\ ~Inside(i, Web)

\* However the batches overlap, fail, are given up or cut off, once people let
\* NetBox be, Kuma ends up as NetBox and stays so.
Converges == <>[]Mirrored
=============================================================================
