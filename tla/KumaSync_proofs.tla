--------------------------- MODULE KumaSync_proofs ---------------------------
(***************************************************************************)
(* The types of KumaSync, that devices are linked to monitors of their own *)
(* name or address, and that no batch deletes what is wanted or the        *)
(* other's: for every set of things, names, addresses, sites and threads   *)
(* and every bound.                                                        *)
(***************************************************************************)
EXTENDS KumaSync, TLAPS

\* What people may have said in NetBox.
Said(f) ==
  /\ f \in [Things -> (UNION {EntriesOf[x] : x \in Things}) \cup {Absent}]
  /\ \A x \in Things : f[x] \in EntriesOf[x] \cup {Absent}

\* What a batch is sure of: only the devices' one gets as far as the sweep and the
\* links, only the services' one makes its group beforehand and never has a device
\* in hand; what is left to deal with was listed, and is of its kind.
Sound(s) ==
  /\ s \in Batches
  /\ s.phase \in {"sweep", "link"} => s.kind = "devices"
  /\ s.phase = "group" => s.kind = "services"
  /\ s.kind = "services" => \A d \in Devices : s.patch[d] = NoPatch
  /\ Said(s.want)
  /\ s.left \subseteq {x \in Mine(s) : s.want[x] # Absent}
  /\ s.phase = "link" => \E d \in Devices : s.patch[d] # NoPatch

Kuma == [Ids -> Monitors \cup {NoMonitor}]

\* The inductive invariant.
BatchesInv == batch = [t \in Threads |-> batch[t]] /\ \A t \in Threads : Sound(batch[t])
TypeInv ==
  /\ Said(declared)
  /\ link \in [Devices -> Links]
  /\ monitor \in Kuma
  /\ BatchesInv
  /\ edits \in 0..MaxEdits /\ faults \in 0..MaxFaults

LEMMA TypeFollows == TypeInv => TypeOK
<1> SUFFICES ASSUME TypeInv PROVE TypeOK
  OBVIOUS
<1>1. batch \in [Threads -> Batches]
  BY DEF TypeInv, BatchesInv, Sound
<1>2. ASSUME NEW t \in Threads
      PROVE  LET writes == \E d \in Devices : batch[t].patch[d] # NoPatch IN
             /\ batch[t].phase = "link" => writes
             /\ writes => batch[t].kind = "devices"
             /\ \A x \in Things : batch[t].want[x] \in EntriesOf[x] \cup {Absent}
  <2>1. Sound(batch[t]) /\ batch[t].kind \in Kinds
    BY DEF TypeInv, BatchesInv, Sound, Batches
  <2> QED
    BY <2>1 DEF Sound, Kinds, Said
<1>3. DOMAIN declared = Things /\ \A x \in Things : declared[x] \in EntriesOf[x] \cup {Absent}
  BY DEF TypeInv, Said
<1> QED
  BY <1>1, <1>2, <1>3 DEF TypeInv, TypeOK, Kuma

-----------------------------------------------------------------------------
(* The monitors *)

\* What an entry says is of the kind of the thing.
LEMMA EntryFacts ==
  ASSUME NEW x \in Things, NEW e \in EntriesOf[x]
  PROVE  /\ e # Absent /\ e.name \in Names /\ e.group \in Groups \cup {Excluded}
         /\ x \in Devices => e.at \in Hosts /\ e.group \in Sites \cup {Excluded}
         /\ x \notin Devices => e.at \in Urls /\ e.group \in {Web, Excluded}
<1>1. e \in Entries(x)
  BY NamesAssumption
<1>2. CASE x \in Devices
  BY <1>1, <1>2, NamesAssumption DEF Entries, Groups
<1>3. CASE x \notin Devices
  BY <1>1, <1>3, NamesAssumption DEF Entries, Groups
<1> QED
  BY <1>2, <1>3

LEMMA EntryKeys ==
  ASSUME NEW x \in Things, NEW e \in EntriesOf[x]
  PROVE  e.name \in Keys /\ e.at \in Keys /\ e.at \in Hosts \cup Urls /\ e.name \notin Groups
BY EntryFacts, NamesAssumption DEF Keys

LEMMA FoundFacts ==
  ASSUME NEW m \in Kuma
  PROVE  /\ Found(m) \in [Keys -> SUBSET Ids]
         /\ \A k \in Keys : \A i \in Found(m)[k] : i \in Listed(m) /\ k \in {m[i].name, m[i].at}
BY DEF Found, Last, Listed

LEMMA AddKept ==
  ASSUME NEW m \in Kuma, NEW i \in Ids, NEW name \in Names \cup Groups,
         NEW at \in Hosts \cup Urls \cup {NoAddress}, NEW g \in SUBSET Ids
  PROVE  Add(m, i, name, at, g) \in Kuma
<1>1. [name |-> name, at |-> at, parent |-> g] \in Monitors
  BY DEF Monitors
<1> QED
  BY <1>1 DEF Add, Kuma

LEMMA WithoutKept ==
  ASSUME NEW m \in Kuma, NEW i
  PROVE  Without(m, i) \in Kuma
<1>1. ASSUME NEW k \in Children(m, i) PROVE [m[k] EXCEPT !.parent = {}] \in Monitors
  <2>1. m[k] \in Monitors
    BY <1>1 DEF Children, Listed, Kuma
  <2> QED
    BY <2>1 DEF Monitors
<1> QED
  BY <1>1 DEF Without, Kuma

LEMMA MovedKept ==
  ASSUME NEW m \in Kuma, NEW i \in Ids, m[i] # NoMonitor, NEW g \in SUBSET Ids
  PROVE  [m EXCEPT ![i].parent = g] \in Kuma
<1>1. m[i] \in Monitors
  BY DEF Kuma
<1>2. [m[i] EXCEPT !.parent = g] \in Monitors
  BY <1>1 DEF Monitors
<1> QED
  BY <1>2 DEF Kuma

\* What a batch finds for a thing that it was told of, and its group.
LEMMA ExistingFacts ==
  ASSUME NEW s, Sound(s), NEW x \in Things, s.want[x] # Absent
  PROVE  /\ s.want[x] \in EntriesOf[x] /\ s.want[x].at \in Keys /\ s.want[x].name \in Keys
         /\ Existing(s, x) \subseteq Ids
         /\ \A i \in Existing(s, x) : i \in s.found[s.want[x].at] \cup s.found[s.want[x].name]
<1>1. s.want[x] \in EntriesOf[x]
  BY DEF Sound, Said
<1>2. s.want[x].at \in Keys /\ s.want[x].name \in Keys
  BY <1>1, EntryKeys
<1>3. s.found \in [Keys -> SUBSET Ids]
  BY DEF Sound, Batches
<1> QED
  BY <1>1, <1>2, <1>3 DEF Existing

LEMMA GroupOfFacts ==
  ASSUME NEW s, Sound(s), NEW x \in s.left, Tagged(s) = {}
  PROVE  /\ x \in Things /\ x \in Mine(s) /\ s.want[x] # Absent
         /\ s.want[x] \in EntriesOf[x] /\ s.want[x].group \in Groups
         /\ GroupOf(s, x) \in SUBSET Ids
<1>1. x \in Things /\ x \in Mine(s) /\ s.want[x] # Absent
  BY DEF Sound, Batches
<1>2. s.want[x] \in EntriesOf[x]
  BY <1>1 DEF Sound, Said
<1>3. s.want[x].group \in Groups
  BY <1>2, <1>1, EntryFacts DEF Tagged
<1>4. s.found \in [Keys -> SUBSET Ids]
  BY DEF Sound, Batches
<1> QED
  BY <1>1, <1>2, <1>3, <1>4 DEF GroupOf, Keys

-----------------------------------------------------------------------------
(* The threads *)

LEMMA EmptyKept == Empty \in Kuma
BY DEF Empty, Kuma

LEMMA IdleSound == Sound(Idle)
<1> DEFINE E == UNION {EntriesOf[x] : x \in Things}
<1>0. [x \in Things |-> Absent] \in [Things -> E \cup {Absent}]
  <2> HIDE DEF E
  <2> QED
    OBVIOUS
<1>1. Idle \in Batches
  <2>1. Idle.want = [x \in Things |-> Absent]
    BY DEF Idle
  <2> HIDE DEF E
  <2> QED
    BY <1>0, <2>1, EmptyKept DEF Idle, Batches, Kuma, Kinds, Links, Nothing
<1>2. Said(Idle.want)
  <2>1. Idle.want = [x \in Things |-> Absent]
    BY DEF Idle
  <2> QED
    BY <1>0, <2>1 DEF Said
<1> QED
  BY <1>1, <1>2 DEF Sound, Idle

LEMMA LinkingSound ==
  ASSUME NEW by \in {"nobody", "schedule", "request"}, NEW patch \in [Devices -> Links \cup {NoPatch}],
         \E d \in Devices : patch[d] # NoPatch
  PROVE  Sound([Idle EXCEPT !.phase = "link", !.by = by, !.patch = patch])
<1> DEFINE r == [Idle EXCEPT !.phase = "link", !.by = by, !.patch = patch]
<1>1. r \in Batches
  BY IdleSound DEF Batches, Sound
<1>2. r.phase = "link" /\ r.kind = "devices" /\ r.left = {} /\ r.patch = patch /\ r.want = Idle.want
  BY DEF Idle
<1> HIDE DEF r
<1>3. Sound(r)
  BY <1>1, <1>2, IdleSound DEF Sound
<1> QED
  BY <1>3 DEF r

\* A batch that returns is over, or goes on to the links it has to write.
LEMMA ReturnedSound ==
  ASSUME NEW s, s \in Batches
  PROVE  Sound(Returned(s))
<1>1. CASE s.by = "nobody" \/ \A d \in Devices : s.patch[d] = NoPatch
  BY <1>1, IdleSound DEF Returned
<1>2. CASE s.by # "nobody" /\ \E d \in Devices : s.patch[d] # NoPatch
  <2>1. Returned(s) = [Idle EXCEPT !.phase = "link", !.by = s.by, !.patch = s.patch]
    BY <1>2 DEF Returned
  <2>2. s.by \in {"nobody", "schedule", "request"}
    BY DEF Batches
  <2>3. s.patch \in [Devices -> Links \cup {NoPatch}]
    BY DEF Batches
  <2>4. Sound([Idle EXCEPT !.phase = "link", !.by = s.by, !.patch = s.patch])
    BY <1>2, <2>2, <2>3, LinkingSound
  <2> QED
    BY <2>1, <2>4
<1> QED
  BY <1>1, <1>2

LEMMA GotoSound ==
  ASSUME TypeInv, NEW t \in Threads, NEW s, Sound(s), Goto(t, s)
  PROVE  BatchesInv'
<1>1. batch' = [batch EXCEPT ![t] = Idle] \/ batch' = [batch EXCEPT ![t] = Returned(s)]
      \/ batch' = [batch EXCEPT ![t] = s]
  BY DEF Goto
<1>2. Sound(Returned(s))
  BY ReturnedSound DEF Sound
<1>3. PICK k : Sound(k) /\ batch' = [batch EXCEPT ![t] = k]
  BY <1>1, <1>2, IdleSound
<1> QED
  BY <1>3 DEF TypeInv, BatchesInv

\* What a call leaves: Kuma is one of two, the batch one of two.
LEMMA CallSound ==
  ASSUME TypeInv, NEW t \in Threads, NEW m \in Kuma, NEW a, NEW f, Sound(a), Sound(f), Call(t, m, a, f)
  PROVE  monitor' \in Kuma /\ BatchesInv' /\ faults' \in 0..MaxFaults
<1>1. CASE Works /\ monitor' = m /\ Goto(t, a)
  BY <1>1, GotoSound DEF Works, TypeInv
<1>2. CASE Fails /\ monitor' \in {monitor, m} /\ Goto(t, f)
  <2>1. monitor' \in Kuma /\ BatchesInv'
    BY <1>2, GotoSound DEF TypeInv
  <2>2. faults' \in 0..MaxFaults
    BY <1>2, BoundsAssumption DEF Fails, TypeInv
  <2> QED
    BY <2>1, <2>2
<1> QED
  BY <1>1, <1>2 DEF Call

LEMMA FailsCounted ==
  ASSUME TypeInv, Works \/ Fails
  PROVE  faults' \in 0..MaxFaults
BY BoundsAssumption DEF Works, Fails, TypeInv

LEMMA EditKept ==
  ASSUME TypeInv, EditCounted
  PROVE  edits' \in 0..MaxEdits
BY BoundsAssumption DEF EditCounted, TypeInv

-----------------------------------------------------------------------------
(* The steps *)

\* A batch in hand has its type.
LEMMA InHand ==
  ASSUME TypeInv, NEW t \in Threads
  PROVE  Sound(batch[t]) /\ batch[t] \in Batches /\ batch[t].found \in [Keys -> SUBSET Ids]
BY DEF TypeInv, BatchesInv, Sound, Batches

\* A batch stays sound that keeps its kind, its listing of NetBox and its links to
\* write, and has no more left to deal with, within the same phases.
LEMMA GoesOn ==
  ASSUME NEW s, Sound(s), NEW r \in Batches, r.kind = s.kind, r.want = s.want, r.left \subseteq s.left,
         r.phase \in {"apply", s.phase},
         r.patch = s.patch \/ (s.kind = "devices" /\ r.phase = "apply")
  PROVE  Sound(r)
<1>1. r.phase \in {"sweep", "link"} => r.kind = "devices"
  BY DEF Sound
<1>2. r.phase = "group" => r.kind = "services"
  BY DEF Sound
<1>3. r.kind = "services" => \A d \in Devices : r.patch[d] = NoPatch
  BY DEF Sound
<1>4. r.left \subseteq {x \in Mine(r) : r.want[x] # Absent}
  BY DEF Sound, Mine
<1>5. r.phase = "link" => \E d \in Devices : r.patch[d] # NoPatch
  BY DEF Sound
<1> QED
  BY <1>1, <1>2, <1>3, <1>4, <1>5 DEF Sound

\* Only a devices' batch has a device in hand.
LEMMA MineDevices ==
  ASSUME NEW s, Sound(s), NEW x \in s.left, x \in Devices
  PROVE  s.kind = "devices"
BY NamesAssumption DEF Sound, Mine

LEMMA DeclareTyped ==
  ASSUME TypeInv, NEW x \in Things, Declare(x)
  PROVE  TypeInv'
<1>1. PICK e \in EntriesOf[x] \cup {Absent} :
        /\ declared' = [declared EXCEPT ![x] = e]
        /\ link' = IF e = Absent /\ x \in Devices THEN [link EXCEPT ![x] = NoLink] ELSE link
  BY DEF Declare
<1>2. Said(declared)'
  <2> DEFINE E == UNION {EntriesOf[y] : y \in Things}
  <2>1. e \in E \cup {Absent} /\ declared \in [Things -> E \cup {Absent}]
    BY DEF TypeInv, Said
  <2>2. declared' \in [Things -> E \cup {Absent}]
    <3> HIDE DEF E
    <3> QED
      BY <1>1, <2>1
  <2>3. \A y \in Things : declared'[y] \in EntriesOf[y] \cup {Absent}
    <3> HIDE DEF E
    <3>1. \A y \in Things : declared[y] \in EntriesOf[y] \cup {Absent}
      BY DEF TypeInv, Said
    <3> QED
      BY <1>1, <2>1, <3>1
  <2> QED
    BY <2>2, <2>3 DEF Said
<1>3. link' \in [Devices -> Links]
  BY <1>1 DEF TypeInv, Links
<1> QED
  BY <1>2, <1>3, EditKept DEF Declare, TypeInv, BatchesInv

LEMMA FetchSound ==
  ASSUME TypeInv, NEW t \in Threads, NEW kind \in Kinds, NEW by \in {"schedule", "request"},
         Fetch(t, kind, by)
  PROVE  BatchesInv' /\ UNCHANGED <<declared, link, monitor>>
<1> DEFINE new   == [Idle EXCEPT !.phase = "list", !.kind = kind, !.by = by]
           want  == [x \in Things |-> IF x \in Mine(new) THEN declared[x] ELSE Absent]
           alone == kind = "services" /\ \A u \in Threads : batch[u].phase = "idle"
           begun == [new EXCEPT !.want = want, !.links = IF kind = "devices" THEN link ELSE @,
                                !.left = {x \in Mine(new) : want[x] # Absent},
                                !.alone = alone]
<1>1. batch' = [u \in Threads |-> IF u = t THEN begun ELSE [batch[u] EXCEPT !.alone = FALSE]]
  BY DEF Fetch
<1>2. Mine(new) \subseteq Things /\ Mine(new) = Mine(begun)
  BY DEF Mine, Things, Idle, Kinds
<1>3. Said(want)
  <2> DEFINE E == UNION {EntriesOf[y] : y \in Things}
  <2>1. declared \in [Things -> E \cup {Absent}] /\ \A y \in Things : declared[y] \in EntriesOf[y] \cup {Absent}
    BY DEF TypeInv, Said
  <2>2. want \in [Things -> E \cup {Absent}]
    <3> HIDE DEF E
    <3> QED
      BY <2>1
  <2>3. \A y \in Things : want[y] \in EntriesOf[y] \cup {Absent}
    BY <2>1
  <2> QED
    BY <2>2, <2>3 DEF Said
<1>4. alone \in BOOLEAN
  OBVIOUS
<1>5. new \in Batches
  BY IdleSound DEF Sound, Batches
<1>6. begun \in Batches
  <2> DEFINE ls == IF kind = "devices" THEN link ELSE new.links
             E  == UNION {EntriesOf[y] : y \in Things}
             l  == {x \in Mine(new) : want[x] # Absent}
  <2>1. ls \in [Devices -> Links]
    BY <1>5 DEF TypeInv, Batches
  <2>2. want \in [Things -> E \cup {Absent}]
    BY <1>3 DEF Said
  <2>3. l \in SUBSET Things
    BY <1>2
  <2>4. begun = [new EXCEPT !.want = want, !.links = ls, !.left = l, !.alone = alone]
    OBVIOUS
  <2> HIDE DEF alone, want, ls, l, new
  <2> QED
    BY <1>4, <1>5, <2>1, <2>2, <2>3, <2>4 DEF Batches
<1> HIDE DEF alone, want
<1>7. begun.phase = "list" /\ begun.kind = kind /\ begun.want = want /\ begun.patch = Idle.patch
      /\ begun.left = {x \in Mine(new) : want[x] # Absent}
  BY DEF Idle
<1>8. \A d \in Devices : Idle.patch[d] = NoPatch
  BY DEF Idle
<1> HIDE DEF new, begun
<1>9. Sound(begun)
  BY <1>2, <1>3, <1>6, <1>7, <1>8 DEF Sound
<1>10. ASSUME NEW u \in Threads PROVE Sound([batch[u] EXCEPT !.alone = FALSE])
  <2> DEFINE r == [batch[u] EXCEPT !.alone = FALSE]
  <2>0. batch[u] \in Batches
    BY InHand
  <2>1. r \in Batches
    BY <2>0 DEF Batches
  <2>2. r.kind = batch[u].kind /\ r.want = batch[u].want /\ r.left = batch[u].left
        /\ r.phase = batch[u].phase /\ r.patch = batch[u].patch
    BY <2>0 DEF Batches
  <2> HIDE DEF r
  <2>3. Sound(r)
    BY <2>1, <2>2, InHand, GoesOn
  <2> QED
    BY <2>3 DEF r
<1> QED
  BY <1>1, <1>9, <1>10 DEF Fetch, BatchesInv

\* A batch that has listed Kuma is sound, whatever it found there.
LEMMA ListedSound ==
  ASSUME NEW s, Sound(s), NEW known \in Kuma, NEW found \in [Keys -> SUBSET Ids],
         NEW doomed \in SUBSET Ids, NEW spared \in SUBSET Ids, NEW none
  PROVE  Sound([s EXCEPT !.phase = IF s.kind = "services" /\ none THEN "group" ELSE "apply",
                         !.known = known, !.found = found, !.doomed = doomed, !.spared = spared])
<1> DEFINE p == IF s.kind = "services" /\ none THEN "group" ELSE "apply"
           r == [s EXCEPT !.phase = p, !.known = known, !.found = found, !.doomed = doomed, !.spared = spared]
<1>1. s \in Batches
  BY DEF Sound
<1>2. p = "apply" \/ (p = "group" /\ s.kind = "services")
  OBVIOUS
<1> HIDE DEF p
<1>3. [s EXCEPT !.phase = p] \in Batches
  BY <1>2, <1>1 DEF Batches
<1>4. [s EXCEPT !.phase = p, !.known = known, !.found = found] \in Batches
  BY <1>3 DEF Batches, Kuma
<1>5. r \in Batches
  BY <1>4 DEF Batches
<1>6. r.kind = s.kind /\ r.want = s.want /\ r.left = s.left /\ r.patch = s.patch /\ r.phase = p
  BY <1>1 DEF Batches
<1> HIDE DEF r
<1>7. Sound(r)
  BY <1>2, <1>1, <1>5, <1>6 DEF Sound, Mine
<1> QED
  BY <1>7 DEF r, p

LEMMA ListSound ==
  ASSUME TypeInv, NEW t \in Threads, List(t)
  PROVE  TypeInv'
<1> DEFINE s   == batch[t]
           web == Found(monitor)[Web]
           r   == [s EXCEPT !.phase = IF s.kind = "services" /\ web = {} THEN "group" ELSE "apply",
                            !.known = monitor, !.found = Found(monitor),
                            !.doomed = Orphans(s, web),
                            !.spared = IF s.kind = "devices" THEN web ELSE {}]
<1>1. Works /\ Goto(t, r) /\ UNCHANGED <<declared, link, monitor, edits>>
  BY DEF List
<1>2. monitor \in Kuma /\ Found(monitor) \in [Keys -> SUBSET Ids] /\ web \subseteq Ids
  BY FoundFacts DEF TypeInv, Keys, Groups
<1>3. Orphans(s, web) \subseteq Ids
  BY DEF Orphans, Listed
<1>4. Sound(r)
  <2>1. Orphans(s, web) \in SUBSET Ids /\ (IF s.kind = "devices" THEN web ELSE {}) \in SUBSET Ids
    BY <1>2, <1>3
  <2> HIDE DEF web
  <2> QED
    BY <1>2, <2>1, InHand, ListedSound
<1>5. BatchesInv'
  BY <1>1, <1>4, GotoSound
<1> QED
  BY <1>1, <1>5 DEF TypeInv, Works

\* A batch that finds something else, or has others without a group, is as sound.
LEMMA FindsSound ==
  ASSUME NEW s, Sound(s), NEW found \in [Keys -> SUBSET Ids], NEW bare \in SUBSET Things
  PROVE  Sound([s EXCEPT !.found = found]) /\ Sound([s EXCEPT !.bare = bare])
<1> DEFINE r == [s EXCEPT !.found = found]
           q == [s EXCEPT !.bare = bare]
<1>1. r \in Batches /\ q \in Batches /\ s \in Batches
  BY DEF Sound, Batches
<1>2. /\ r.kind = s.kind /\ r.want = s.want /\ r.left = s.left /\ r.patch = s.patch /\ r.phase = s.phase
      /\ q.kind = s.kind /\ q.want = s.want /\ q.left = s.left /\ q.patch = s.patch /\ q.phase = s.phase
  BY <1>1 DEF Batches
<1> HIDE DEF r, q
<1>3. Sound(r) /\ Sound(q)
  BY <1>1, <1>2, GoesOn
<1> QED
  BY <1>3 DEF r, q

LEMMA ApplySound ==
  ASSUME NEW s, Sound(s)
  PROVE  Sound([s EXCEPT !.phase = "apply"])
<1> DEFINE r == [s EXCEPT !.phase = "apply"]
<1>1. r \in Batches /\ s \in Batches
  BY DEF Sound, Batches
<1>2. r.kind = s.kind /\ r.want = s.want /\ r.left = s.left /\ r.patch = s.patch /\ r.phase = "apply"
  BY <1>1 DEF Batches
<1> HIDE DEF r
<1>3. Sound(r)
  BY <1>1, <1>2, GoesOn
<1> QED
  BY <1>3 DEF r

LEMMA AddWebGroupSound ==
  ASSUME TypeInv, NEW t \in Threads, AddWebGroup(t)
  PROVE  TypeInv'
<1> DEFINE s == [batch[t] EXCEPT !.phase = "apply"]
           b == [s EXCEPT !.bare = Services]
           a(i) == [s EXCEPT !.found[Web] = {i}]
<1>1. PICK i \in Ids : Call(t, Add(monitor, i, Web, NoAddress, {}), a(i), b)
  BY DEF AddWebGroup
<1>2. Add(monitor, i, Web, NoAddress, {}) \in Kuma
  BY AddKept DEF TypeInv, Groups
<1>3. Sound(s)
  BY InHand, ApplySound
<1>4. Sound(a(i)) /\ Sound(b)
  <2>1. s.found \in [Keys -> SUBSET Ids] /\ Services \in SUBSET Things
    BY InHand, <1>3 DEF Sound, Batches, Things
  <2> HIDE DEF s
  <2>2. [s.found EXCEPT ![Web] = {i}] \in [Keys -> SUBSET Ids]
    BY <2>1
  <2>3. a(i) = [s EXCEPT !.found = [s.found EXCEPT ![Web] = {i}]]
    OBVIOUS
  <2> QED
    BY <1>3, <2>1, <2>2, <2>3, FindsSound
<1> HIDE DEF a, b
<1>5. monitor' \in Kuma /\ BatchesInv' /\ faults' \in 0..MaxFaults
  BY <1>1, <1>2, <1>4, CallSound
<1> QED
  BY <1>5 DEF TypeInv, AddWebGroup

LEMMA FewerDoomed ==
  ASSUME NEW s, Sound(s), NEW i
  PROVE  Sound([s EXCEPT !.doomed = @ \ {i}])
<1> DEFINE r == [s EXCEPT !.doomed = @ \ {i}]
<1>1. r \in Batches /\ s \in Batches
  BY DEF Sound, Batches
<1>2. r.kind = s.kind /\ r.want = s.want /\ r.left = s.left /\ r.patch = s.patch /\ r.phase = s.phase
  BY <1>1 DEF Batches
<1> HIDE DEF r
<1>3. Sound(r)
  BY <1>1, <1>2, GoesOn
<1> QED
  BY <1>3 DEF r

LEMMA DeleteSound ==
  ASSUME TypeInv, NEW t \in Threads, Delete(t)
  PROVE  TypeInv'
<1> DEFINE s       == batch[t]
           next(i) == [s EXCEPT !.doomed = @ \ {i}]
<1>1. PICK i \in s.doomed : Call(t, Without(monitor, i), next(i), next(i))
  BY DEF Delete
<1>2. Without(monitor, i) \in Kuma
  BY WithoutKept DEF TypeInv
<1>3. Sound(next(i))
  BY InHand, FewerDoomed
<1> HIDE DEF next
<1>4. monitor' \in Kuma /\ BatchesInv' /\ faults' \in 0..MaxFaults
  BY <1>1, <1>2, <1>3, CallSound
<1> QED
  BY <1>4 DEF TypeInv, Delete

\* A thing that has been dealt with leaves the batch sound, and so do a group that is
\* to be spared and a link that is to be written.
LEMMA LeftSound ==
  ASSUME NEW s, Sound(s), NEW x
  PROVE  Sound([s EXCEPT !.left = @ \ {x}])
<1> DEFINE r == [s EXCEPT !.left = @ \ {x}]
<1>1. r \in Batches /\ s \in Batches
  BY DEF Sound, Batches
<1>2. r.kind = s.kind /\ r.want = s.want /\ r.left \subseteq s.left /\ r.patch = s.patch /\ r.phase = s.phase
  BY <1>1 DEF Batches
<1> HIDE DEF r
<1>3. Sound(r)
  BY <1>1, <1>2, GoesOn
<1> QED
  BY <1>3 DEF r

LEMMA SpareSound ==
  ASSUME NEW s, Sound(s), NEW x, NEW g \in SUBSET Ids
  PROVE  Sound([s EXCEPT !.left = @ \ {x}, !.spared = IF x \in Devices THEN @ \cup g ELSE @])
<1> DEFINE e == IF x \in Devices THEN s.spared \cup g ELSE s.spared
           r == [s EXCEPT !.left = @ \ {x}, !.spared = e]
<1>1. s \in Batches
  BY DEF Sound
<1>2. e \in SUBSET Ids
  BY <1>1 DEF Batches
<1> HIDE DEF e
<1>3. r \in Batches
  BY <1>1, <1>2 DEF Batches
<1>4. r.kind = s.kind /\ r.want = s.want /\ r.left \subseteq s.left /\ r.patch = s.patch /\ r.phase = s.phase
  BY <1>1 DEF Batches
<1> HIDE DEF r
<1>5. Sound(r)
  BY <1>3, <1>4, GoesOn
<1> QED
  BY <1>5 DEF r, e

LEMMA LinkSound ==
  ASSUME NEW s, Sound(s), s.phase = "apply", NEW p \in [Devices -> Links \cup {NoPatch}],
         p = s.patch \/ s.kind = "devices"
  PROVE  Sound([s EXCEPT !.patch = p])
<1> DEFINE r == [s EXCEPT !.patch = p]
<1>1. r \in Batches /\ s \in Batches
  BY DEF Sound, Batches
<1>2. r.kind = s.kind /\ r.want = s.want /\ r.left = s.left /\ r.patch = p /\ r.phase = "apply"
  BY <1>1 DEF Batches
<1> HIDE DEF r
<1>3. Sound(r)
  BY <1>1, <1>2, GoesOn
<1> QED
  BY <1>3 DEF r

\* What finds nothing by the keys of a thing any more, or one monitor.
LEMMA RefoundKept ==
  ASSUME NEW f \in [Keys -> SUBSET Ids], NEW k, NEW l, NEW S \in SUBSET Ids
  PROVE  [f EXCEPT ![k] = S, ![l] = S] \in [Keys -> SUBSET Ids]
OBVIOUS

LEMMA UntaggedSound ==
  ASSUME NEW s, Sound(s), s.phase = "apply", NEW x, x \in Devices => s.kind = "devices"
  PROVE  Sound(Untagged(s, x))
<1> DEFINE f == [s.found EXCEPT ![s.want[x].at] = {}, ![s.want[x].name] = {}]
           p == IF x \in Devices /\ s.links[x] # NoLink THEN [s.patch EXCEPT ![x] = NoLink] ELSE s.patch
           q == [s EXCEPT !.found = f]
<1>1. s \in Batches
  BY DEF Sound
<1>2. f \in [Keys -> SUBSET Ids]
  BY <1>1, RefoundKept DEF Batches
<1>3. p \in [Devices -> Links \cup {NoPatch}] /\ (p = s.patch \/ s.kind = "devices")
  BY <1>1 DEF Batches, Links
<1>4. Untagged(s, x) = [q EXCEPT !.patch = p]
  BY <1>1 DEF Untagged, Batches
<1>5. q.patch = s.patch /\ q.phase = "apply" /\ q.kind = s.kind
  BY <1>1 DEF Batches
<1>6. Sound(q)
  BY <1>1, <1>2, FindsSound DEF Batches
<1> HIDE DEF q, p
<1> QED
  BY <1>3, <1>4, <1>5, <1>6, LinkSound

LEMMA DropTaggedSound ==
  ASSUME TypeInv, NEW t \in Threads, DropTagged(t)
  PROVE  TypeInv'
<1> DEFINE s       == batch[t]
           next(x) == [s EXCEPT !.left = @ \ {x}]
<1>1. PICK x \in Tagged(s) :
        \/ Works /\ UNCHANGED monitor /\ Goto(t, next(x))
        \/ \E i \in Existing(s, x) : Call(t, Without(monitor, i), Untagged(next(x), x), next(x))
  BY DEF DropTagged
<1>2. s.phase = "apply" /\ x \in s.left /\ s \in Batches
  BY InHand DEF DropTagged, Tagged
<1>3. Sound(next(x))
  BY InHand, LeftSound
<1>4. next(x).phase = "apply" /\ (x \in Devices => next(x).kind = "devices")
  BY <1>2, InHand, MineDevices DEF Batches
<1> HIDE DEF next
<1>5. Sound(Untagged(next(x), x))
  BY <1>3, <1>4, UntaggedSound
<1>6. monitor' \in Kuma /\ BatchesInv' /\ faults' \in 0..MaxFaults
  <2>1. ASSUME Works, UNCHANGED monitor, Goto(t, next(x))
        PROVE  monitor' \in Kuma /\ BatchesInv' /\ faults' \in 0..MaxFaults
    BY <1>3, <2>1, GotoSound DEF TypeInv, Works
  <2>2. ASSUME NEW i \in Existing(s, x), Call(t, Without(monitor, i), Untagged(next(x), x), next(x))
        PROVE  monitor' \in Kuma /\ BatchesInv' /\ faults' \in 0..MaxFaults
    <3>1. Without(monitor, i) \in Kuma
      BY WithoutKept DEF TypeInv
    <3> QED
      BY <1>3, <1>5, <2>2, <3>1, CallSound
  <2> QED
    BY <1>1, <2>1, <2>2
<1> QED
  BY <1>6 DEF TypeInv, DropTagged

LEMMA AddSiteGroupSound ==
  ASSUME TypeInv, NEW t \in Threads, AddSiteGroup(t)
  PROVE  TypeInv'
<1> DEFINE s       == batch[t]
           site(d) == s.want[d].group
           a(i, d) == [s EXCEPT !.found[site(d)] = {i}]
           b(d)    == [s EXCEPT !.bare = @ \cup {d}]
<1>1. PICK d \in s.left \cap Devices : \E i \in Ids :
        Providing(s, d) /\ Call(t, Add(monitor, i, site(d), NoAddress, {}), a(i, d), b(d))
  BY DEF AddSiteGroup
<1>2. PICK i \in Ids : Call(t, Add(monitor, i, site(d), NoAddress, {}), a(i, d), b(d))
  BY <1>1
<1>3. s \in Batches /\ Sound(s) /\ s.found \in [Keys -> SUBSET Ids] /\ site(d) \in Groups /\ d \in Things
  BY <1>1, InHand, GroupOfFacts DEF Providing
<1>4. Add(monitor, i, site(d), NoAddress, {}) \in Kuma
  BY <1>3, AddKept DEF TypeInv
<1>5. Sound(a(i, d)) /\ Sound(b(d))
  <2>1. [s.found EXCEPT ![site(d)] = {i}] \in [Keys -> SUBSET Ids] /\ s.bare \cup {d} \in SUBSET Things
    BY <1>3 DEF Batches
  <2>2. a(i, d) = [s EXCEPT !.found = [s.found EXCEPT ![site(d)] = {i}]]
    OBVIOUS
  <2> HIDE DEF site
  <2> QED
    BY <1>3, <2>1, <2>2, FindsSound
<1> HIDE DEF a, b
<1>6. monitor' \in Kuma /\ BatchesInv' /\ faults' \in 0..MaxFaults
  BY <1>2, <1>4, <1>5, CallSound
<1> QED
  BY <1>6 DEF TypeInv, AddSiteGroup

LEMMA ProvidedSound ==
  ASSUME NEW s, Sound(s), s.phase = "apply", NEW x \in s.left, Tagged(s) = {}, NEW i \in Ids
  PROVE  Sound(Provided(s, x, i)) /\ Provided(s, x, i).found = s.found /\ Provided(s, x, i).known = s.known
<1> DEFINE q == [s EXCEPT !.left = @ \ {x}, !.spared = IF x \in Devices THEN @ \cup GroupOf(s, x) ELSE @]
           p == IF x \in Devices /\ s.links[x] # i THEN [s.patch EXCEPT ![x] = i] ELSE s.patch
<1>1. s \in Batches
  BY DEF Sound
<1>2. Sound(q)
  BY GroupOfFacts, SpareSound
<1>3. x \in Devices => s.kind = "devices"
  BY MineDevices
<1>4. p \in [Devices -> Links \cup {NoPatch}] /\ (p = s.patch \/ s.kind = "devices")
  BY <1>1, <1>3 DEF Batches, Links
<1>5. Provided(s, x, i) = [q EXCEPT !.patch = p]
  BY <1>1 DEF Provided, Batches
<1>6. q.kind = s.kind /\ q.patch = s.patch /\ q.phase = "apply" /\ q.found = s.found /\ q.known = s.known
  BY <1>1 DEF Batches
<1> HIDE DEF p, q
<1>7. Sound([q EXCEPT !.patch = p])
  BY <1>2, <1>4, <1>6, LinkSound
<1>8. [q EXCEPT !.patch = p].found = q.found /\ [q EXCEPT !.patch = p].known = q.known
  BY <1>2 DEF Sound, Batches
<1> QED
  BY <1>5, <1>6, <1>7, <1>8

LEMMA KnownSound ==
  ASSUME NEW s, Sound(s), NEW m \in Kuma
  PROVE  Sound([s EXCEPT !.known = m])
<1> DEFINE r == [s EXCEPT !.known = m]
<1>1. r \in Batches /\ s \in Batches
  BY DEF Sound, Batches, Kuma
<1>2. r.kind = s.kind /\ r.want = s.want /\ r.left = s.left /\ r.patch = s.patch /\ r.phase = s.phase
  BY <1>1 DEF Batches
<1> HIDE DEF r
<1>3. Sound(r)
  BY <1>1, <1>2, GoesOn
<1> QED
  BY <1>3 DEF r

LEMMA AddMonitorSound ==
  ASSUME TypeInv, NEW t \in Threads, AddMonitor(t)
  PROVE  TypeInv'
<1> DEFINE s       == batch[t]
           e(x)    == s.want[x]
           g(x)    == GroupOf(s, x)
           left(x) == [s EXCEPT !.left = @ \ {x}, !.spared = IF x \in Devices THEN @ \cup g(x) ELSE @]
           a(x, i) == [Provided(s, x, i) EXCEPT !.found = [@ EXCEPT ![e(x).at] = {i}, ![e(x).name] = {i}]]
           m(x, i) == Add(monitor, i, e(x).name, e(x).at, g(x))
<1>1. PICK x \in s.left :
        /\ Ready(s, x)
        /\ \/ Works /\ UNCHANGED monitor /\ Goto(t, left(x))
           \/ \E i \in Ids : Call(t, m(x, i), a(x, i), left(x))
  BY DEF AddMonitor
<1>2. s.phase = "apply" /\ Tagged(s) = {} /\ Sound(s)
  BY <1>1, InHand DEF Ready, Providing
<1>3. x \in Things /\ e(x) \in EntriesOf[x] /\ g(x) \in SUBSET Ids
  BY <1>2, GroupOfFacts
<1>4. Sound(left(x))
  BY <1>2, <1>3, SpareSound
<1>5. ASSUME NEW i \in Ids PROVE m(x, i) \in Kuma /\ Sound(a(x, i))
  <2> DEFINE n == Provided(s, x, i)
             f == [s.found EXCEPT ![e(x).at] = {i}, ![e(x).name] = {i}]
  <2>1. Sound(n) /\ n.found = s.found
    BY <1>2, ProvidedSound
  <2>2. f \in [Keys -> SUBSET Ids]
    BY InHand, RefoundKept
  <2>3. a(x, i) = [n EXCEPT !.found = f]
    BY <2>1 DEF Sound, Batches
  <2>4. e(x).name \in Names \cup Groups /\ e(x).at \in Hosts \cup Urls \cup {NoAddress}
    BY <1>3, EntryFacts, EntryKeys
  <2>5. m(x, i) \in Kuma
    <3> HIDE DEF e, g
    <3> QED
      BY <1>3, <2>4, AddKept DEF TypeInv
  <2>6. {} \in SUBSET Things
    OBVIOUS
  <2> HIDE DEF n, f, a
  <2>7. Sound([n EXCEPT !.found = f])
    BY <2>1, <2>2, <2>6, FindsSound
  <2> QED
    BY <2>3, <2>5, <2>7
<1> HIDE DEF left, a, m
<1>6. monitor' \in Kuma /\ BatchesInv' /\ faults' \in 0..MaxFaults
  <2>1. ASSUME Works, UNCHANGED monitor, Goto(t, left(x))
        PROVE  monitor' \in Kuma /\ BatchesInv' /\ faults' \in 0..MaxFaults
    BY <1>4, <2>1, GotoSound DEF TypeInv, Works
  <2>2. ASSUME NEW i \in Ids, Call(t, m(x, i), a(x, i), left(x))
        PROVE  monitor' \in Kuma /\ BatchesInv' /\ faults' \in 0..MaxFaults
    BY <1>4, <1>5, <2>2, CallSound
  <2> QED
    BY <1>1, <2>1, <2>2
<1> QED
  BY <1>6 DEF TypeInv, AddMonitor

LEMMA MoveMonitorSound ==
  ASSUME TypeInv, NEW t \in Threads, MoveMonitor(t)
  PROVE  TypeInv'
<1> DEFINE s       == batch[t]
           g(x)    == GroupOf(s, x)
           n(x, i) == Provided(s, x, i)
           a(x, i) == [n(x, i) EXCEPT !.known[i].parent = g(x)]
<1>1. PICK x \in {y \in s.left : Ready(s, y)} : \E i \in Existing(s, x) :
        \/ Works /\ UNCHANGED monitor /\ Goto(t, n(x, i))
        \/ /\ monitor[i] # NoMonitor /\ s.known[i] # NoMonitor
           /\ Call(t, [monitor EXCEPT ![i].parent = g(x)], a(x, i), n(x, i))
  BY DEF MoveMonitor
<1>2. PICK i \in Existing(s, x) :
        \/ Works /\ UNCHANGED monitor /\ Goto(t, n(x, i))
        \/ /\ monitor[i] # NoMonitor /\ s.known[i] # NoMonitor
           /\ Call(t, [monitor EXCEPT ![i].parent = g(x)], a(x, i), n(x, i))
  BY <1>1
<1>3. s.phase = "apply" /\ Tagged(s) = {} /\ Sound(s) /\ x \in s.left
  BY <1>1, InHand DEF Ready, Providing
<1>4. x \in Things /\ s.want[x] # Absent /\ g(x) \in SUBSET Ids
  BY <1>3, GroupOfFacts
<1>5. i \in Ids
  BY <1>3, <1>4, ExistingFacts
<1>6. Sound(n(x, i)) /\ n(x, i).known = s.known
  BY <1>3, <1>5, ProvidedSound
<1>7. ASSUME s.known[i] # NoMonitor PROVE Sound(a(x, i))
  <2>1. [s.known EXCEPT ![i].parent = g(x)] \in Kuma
    BY <1>3, <1>4, <1>5, <1>7, MovedKept DEF Sound, Batches, Kuma
  <2>2. a(x, i) = [n(x, i) EXCEPT !.known = [s.known EXCEPT ![i].parent = g(x)]]
    BY <1>6 DEF Sound, Batches
  <2> HIDE DEF n
  <2> QED
    BY <1>6, <2>1, <2>2, KnownSound
<1> HIDE DEF n, a
<1>8. monitor' \in Kuma /\ BatchesInv' /\ faults' \in 0..MaxFaults
  <2>1. ASSUME Works, UNCHANGED monitor, Goto(t, n(x, i))
        PROVE  monitor' \in Kuma /\ BatchesInv' /\ faults' \in 0..MaxFaults
    BY <1>6, <2>1, GotoSound DEF TypeInv, Works
  <2>2. ASSUME monitor[i] # NoMonitor, s.known[i] # NoMonitor,
               Call(t, [monitor EXCEPT ![i].parent = g(x)], a(x, i), n(x, i))
        PROVE  monitor' \in Kuma /\ BatchesInv' /\ faults' \in 0..MaxFaults
    <3>1. [monitor EXCEPT ![i].parent = g(x)] \in Kuma
      BY <1>4, <1>5, <2>2, MovedKept DEF TypeInv
    <3> QED
      BY <1>6, <1>7, <2>2, <3>1, CallSound
  <2> QED
    BY <1>2, <2>1, <2>2
<1> QED
  BY <1>8 DEF TypeInv, MoveMonitor

\* A devices' batch that has dealt with everything and goes on to the empty groups.
LEMMA SweepSound ==
  ASSUME NEW s, Sound(s), s.kind = "devices", s.left = {}, NEW e \in SUBSET Ids
  PROVE  Sound([s EXCEPT !.phase = "sweep", !.known = Empty, !.found = Nothing, !.spared = {}, !.bare = {},
                         !.want = Idle.want, !.links = Idle.links, !.doomed = e])
<1> DEFINE q == [s EXCEPT !.phase = "sweep", !.known = Empty, !.found = Nothing, !.spared = {}, !.bare = {},
                          !.want = Idle.want, !.links = Idle.links, !.doomed = e]
<1>1. s \in Batches /\ Idle \in Batches
  BY IdleSound DEF Sound
<1>2. Idle.want \in [Things -> (UNION {EntriesOf[x] : x \in Things}) \cup {Absent}]
      /\ Idle.links \in [Devices -> Links]
  BY <1>1 DEF Batches
<1>3. q \in Batches
  <2>1. [s EXCEPT !.phase = "sweep", !.known = Empty, !.found = Nothing] \in Batches
    BY <1>1, EmptyKept DEF Batches, Kuma, Nothing
  <2>2. [s EXCEPT !.phase = "sweep", !.known = Empty, !.found = Nothing, !.spared = {}, !.bare = {}] \in Batches
    BY <2>1 DEF Batches
  <2>3. [s EXCEPT !.phase = "sweep", !.known = Empty, !.found = Nothing, !.spared = {}, !.bare = {},
                  !.want = Idle.want, !.links = Idle.links] \in Batches
    BY <1>2, <2>2 DEF Batches
  <2> QED
    BY <2>3 DEF Batches
<1>4. q.phase = "sweep" /\ q.kind = "devices" /\ q.left = {} /\ q.want = Idle.want
  BY <1>1 DEF Batches
<1>5. Said(Idle.want)
  BY IdleSound DEF Sound
<1> HIDE DEF q
<1>6. Sound(q)
  BY <1>3, <1>4, <1>5 DEF Sound
<1> QED
  BY <1>6 DEF q

LEMMA RelistSound ==
  ASSUME TypeInv, NEW t \in Threads, Relist(t)
  PROVE  TypeInv'
<1> DEFINE s == batch[t]
           e == {i \in Listed(monitor) \ s.spared : IsGroup(monitor[i]) /\ Children(monitor, i) = {}}
           q == [s EXCEPT !.phase = "sweep", !.known = Empty, !.found = Nothing, !.spared = {}, !.bare = {},
                          !.want = Idle.want, !.links = Idle.links, !.doomed = e]
<1>1. s.kind = "devices" /\ s.left = {} /\ UNCHANGED <<declared, link, monitor, edits>>
  BY DEF Relist
<1>2. (Works /\ Goto(t, q)) \/ (Fails /\ Goto(t, Returned(s)))
  BY DEF Relist
<1>3. Sound(q)
  <2>1. e \in SUBSET Ids
    BY DEF Listed
  <2> HIDE DEF e
  <2> QED
    BY <1>1, <2>1, InHand, SweepSound
<1>4. Sound(Returned(s))
  BY InHand, ReturnedSound
<1> HIDE DEF q
<1>5. BatchesInv' /\ faults' \in 0..MaxFaults
  BY <1>2, <1>3, <1>4, GotoSound, FailsCounted
<1> QED
  BY <1>1, <1>5 DEF TypeInv

LEMMA DropGroupSound ==
  ASSUME TypeInv, NEW t \in Threads, DropGroup(t)
  PROVE  TypeInv'
<1> DEFINE s    == batch[t]
           a(i) == [s EXCEPT !.doomed = @ \ {i}]
<1>1. PICK i \in s.doomed : Call(t, Without(monitor, i), a(i), Returned(s))
  BY DEF DropGroup
<1>2. Sound(a(i))
  BY InHand, FewerDoomed
<1>3. Sound(Returned(s)) /\ Without(monitor, i) \in Kuma
  BY InHand, ReturnedSound, WithoutKept DEF TypeInv
<1> HIDE DEF a
<1>4. monitor' \in Kuma /\ BatchesInv' /\ faults' \in 0..MaxFaults
  BY <1>1, <1>2, <1>3, CallSound
<1> QED
  BY <1>4 DEF TypeInv, DropGroup

LEMMA PatchLinkSound ==
  ASSUME TypeInv, NEW t \in Threads, PatchLink(t)
  PROVE  TypeInv'
<1> DEFINE s    == batch[t]
           r(d) == [s EXCEPT !.patch[d] = NoPatch]
           done(d) == IF declared[d] = Absent THEN link ELSE [link EXCEPT ![d] = s.patch[d]]
<1>1. PICK d \in Devices :
        /\ s.phase = "link" /\ s.patch[d] # NoPatch /\ Goto(t, Returned(r(d)))
        /\ (Works /\ link' = done(d)) \/ (Fails /\ link' \in {link, done(d)})
  BY DEF PatchLink
<1>2. s \in Batches /\ Sound(s) /\ s.kind = "devices"
  BY <1>1, InHand DEF Sound
<1>3. Sound(Returned(r(d)))
  <2>1. r(d) \in Batches
    BY <1>2 DEF Batches
  <2> HIDE DEF r
  <2> QED
    BY <2>1, ReturnedSound
<1>4. link' \in [Devices -> Links]
  <2>1. s.patch[d] \in Links
    BY <1>1, <1>2 DEF Batches
  <2> QED
    BY <1>1, <2>1 DEF TypeInv
<1> HIDE DEF r
<1>5. BatchesInv'
  BY <1>1, <1>3, GotoSound
<1>6. faults' \in 0..MaxFaults
  BY <1>1, FailsCounted
<1> QED
  BY <1>4, <1>5, <1>6 DEF TypeInv, PatchLink

LEMMA AbandonSound ==
  ASSUME TypeInv, NEW t \in Threads, Abandon(t)
  PROVE  TypeInv'
<1> DEFINE r == [batch[t] EXCEPT !.by = "nobody"]
<1>1. Sound(r)
  <2>1. r \in Batches
    BY InHand DEF Batches
  <2>2. r.phase = batch[t].phase /\ r.kind = batch[t].kind /\ r.want = batch[t].want
        /\ r.left = batch[t].left /\ r.patch = batch[t].patch
    BY InHand DEF Batches
  <2> HIDE DEF r
  <2> QED
    BY <2>1, <2>2, InHand, GoesOn
<1>2. BatchesInv'
  <2>1. Goto(t, IF batch[t].phase = "link" THEN Idle ELSE r)
    BY DEF Abandon
  <2> HIDE DEF r
  <2> QED
    BY <1>1, <2>1, IdleSound, GotoSound
<1> QED
  BY <1>2, FailsCounted DEF Abandon, TypeInv

LEMMA AbortSound ==
  ASSUME TypeInv, NEW t \in Threads, Abort(t)
  PROVE  TypeInv'
<1>1. BatchesInv'
  BY IdleSound, GotoSound DEF Abort
<1> QED
  BY <1>1, FailsCounted DEF Abort, TypeInv

-----------------------------------------------------------------------------

LEMMA StepSound ==
  ASSUME TypeInv, NEW t \in Threads, Step(t)
  PROVE  TypeInv'
BY ListSound, AddWebGroupSound, DeleteSound, DropTaggedSound, AddSiteGroupSound, AddMonitorSound,
   MoveMonitorSound, RelistSound, DropGroupSound, PatchLinkSound DEF Step

LEMMA NextTyped ==
  ASSUME TypeInv, [Next]_vars
  PROVE  TypeInv'
<1>1. CASE \E x \in Things : Declare(x)
  BY <1>1, DeclareTyped
<1>2. ASSUME NEW kind \in Kinds, Schedule(kind) PROVE TypeInv'
  BY <1>2, FetchSound DEF Schedule, env, TypeInv
<1>3. ASSUME NEW t \in Threads, NEW kind \in Kinds, Ask(t, kind) PROVE TypeInv'
  BY <1>3, FetchSound, EditKept DEF Ask, TypeInv
<1>4. ASSUME NEW t \in Threads, Step(t) \/ Abandon(t) \/ Abort(t) PROVE TypeInv'
  BY <1>4, StepSound, AbandonSound, AbortSound
<1>5. CASE UNCHANGED vars
  BY <1>5 DEF vars, TypeInv, BatchesInv
<1> QED
  BY <1>1, <1>2, <1>3, <1>4, <1>5 DEF Next

LEMMA InitTyped == Init => TypeInv
<1> SUFFICES ASSUME Init PROVE TypeInv
  OBVIOUS
<1>1. BatchesInv
  BY IdleSound DEF Init, BatchesInv
<1>2. Said(declared)
  <2> DEFINE E == UNION {EntriesOf[x] : x \in Things}
  <2>1. \A x \in Things : Home[x] \in EntriesOf[x] /\ Home[x] \in E
    BY NamesAssumption
  <2>2. declared \in [Things -> E \cup {Absent}]
    <3> HIDE DEF E
    <3> QED
      BY <2>1 DEF Init
  <2>3. \A x \in Things : declared[x] \in EntriesOf[x] \cup {Absent}
    BY <2>1 DEF Init
  <2> QED
    BY <2>2, <2>3 DEF Said
<1> QED
  BY <1>1, <1>2, EmptyKept, BoundsAssumption DEF Init, TypeInv, Links, Kuma

\* Every variable has its type, only a devices' batch writes links, and it is over
\* when there are none to write (TypeOK): however many threads there are, in
\* whatever order their calls are answered, fail, are given up or cut off.
THEOREM TypeCorrect == Spec => []TypeOK
<1>1. Init => TypeInv
  BY InitTyped
<1>2. TypeInv /\ [Next]_vars => TypeInv'
  BY NextTyped
<1>3. TypeInv => TypeOK
  BY TypeFollows
<1> QED
  BY <1>1, <1>2, <1>3, PTL DEF Spec

-----------------------------------------------------------------------------
(* What the threads remember of Kuma *)

\* No two things of NetBox share a name or an address, at once or in turn.
Apart ==
  \A x, y \in Things : x # y =>
    NamesOf(x) \cap NamesOf(y) = {} /\ AddressesOf(x) \cap AddressesOf(y) = {}

\* Monitor n bears a name or an address of thing x.
OwnOf(x, n) == n.name \in NamesOf(x) \/ n.at \in AddressesOf(x)

\* Batch s may delete monitor n.
Doom(s, n) ==
  IF s.phase = "sweep" THEN IsGroup(n)
  ELSE /\ Apart => n.at \in UNION {AddressesOf(x) : x \in Mine(s)}
       /\ \A x \in Mine(s) : s.want[x] # Absent => ~Bears(n, s.want[x])

\* Kuma never gives an id out twice and never renames a monitor, so that what a batch
\* remembers of an id is true of it for as long as the monitor exists: what it is found
\* by, whom it is to be linked to, and why it is to be deleted.
Recalls(s, m) ==
  /\ \A k \in Keys : \A i \in s.found[k] : m[i] # NoMonitor => k \in {m[i].name, m[i].at}
  /\ \A d \in Devices : s.patch[d] \in Listed(m) => OwnOf(d, m[s.patch[d]])
  /\ \A i \in s.doomed : m[i] # NoMonitor => Doom(s, m[i])

\* Every monitor but the groups bears the name and the address of one thing, and is in the
\* services' group only if that is a service; no parent is missing.
Placed(m) ==
  \A i \in Listed(m) :
    /\ m[i].parent \subseteq Listed(m)
    /\ IsGroup(m[i]) => m[i].at = NoAddress
    /\ ~IsGroup(m[i]) => \E x \in Things :
         /\ m[i].name \in NamesOf(x) /\ m[i].at \in AddressesOf(x)
         /\ \A p \in m[i].parent : m[p].name = Web => x \notin Devices

MemInv ==
  /\ LinkedToOwn
  /\ Apart => Placed(monitor)
  /\ \A t \in Threads : Recalls(batch[t], monitor)

\* In n some monitors are gone, and those that have come have fresh ids.
Succeeds(n) ==
  \A i \in Ids : n[i] # NoMonitor =>
    \/ monitor[i] # NoMonitor /\ n[i].name = monitor[i].name /\ n[i].at = monitor[i].at
    \/ Fresh(i)

LEMMA FreshFacts ==
  ASSUME NEW i \in Ids, Fresh(i)
  PROVE  /\ \A d \in Devices : link[d] # i
         /\ \A t \in Threads :
              /\ i \notin batch[t].doomed
              /\ \A k \in Keys : i \notin batch[t].found[k]
              /\ \A d \in Devices : batch[t].patch[d] # i
BY DEF Fresh, Remembered

\* Why a monitor is to be deleted is a matter of its name and its address.
LEMMA DoomAgain ==
  ASSUME NEW s, NEW r, r.kind = s.kind, r.want = s.want, r.phase = "sweep" <=> s.phase = "sweep",
         NEW n, NEW o, n.name = o.name, n.at = o.at, Doom(s, o)
  PROVE  Doom(r, n)
<1>1. Mine(r) = Mine(s)
  BY DEF Mine
<1>2. IsGroup(n) = IsGroup(o) /\ \A e : Bears(n, e) = Bears(o, e)
  BY DEF IsGroup, Bears
<1> QED
  BY <1>1, <1>2 DEF Doom

\* What is remembered of fewer monitors is true as well, and what is learned of others
\* may be added.
LEMMA RecallsOf ==
  ASSUME NEW s, NEW m, Recalls(s, m), NEW r, r.kind = s.kind, r.want = s.want,
         r.phase = "sweep" <=> s.phase = "sweep", r.doomed \subseteq s.doomed,
         \A k \in Keys : \A i \in r.found[k] :
            i \in s.found[k] \/ (m[i] # NoMonitor => k \in {m[i].name, m[i].at}),
         \A d \in Devices :
            \/ r.patch[d] \in {s.patch[d], NoPatch, NoLink}
            \/ r.patch[d] \in Listed(m) => OwnOf(d, m[r.patch[d]])
  PROVE  Recalls(r, m)
<1>1. NoPatch \notin Ids /\ NoLink \notin Ids
  BY NamesAssumption DEF Links
<1>2. \A d \in Devices : r.patch[d] \in Listed(m) => OwnOf(d, m[r.patch[d]])
  BY <1>1 DEF Listed, Recalls
<1>3. \A i \in r.doomed : m[i] # NoMonitor => Doom(r, m[i])
  BY DoomAgain DEF Recalls
<1> QED
  BY <1>2, <1>3 DEF Recalls

LEMMA RecallsOn ==
  ASSUME NEW t \in Threads, Recalls(batch[t], monitor), batch[t] \in Batches,
         NEW n, Succeeds(n)
  PROVE  Recalls(batch[t], n)
<1> DEFINE s == batch[t]
<1>1. ASSUME NEW i \in Ids, n[i] # NoMonitor,
             i \in s.doomed \/ (\E k \in Keys : i \in s.found[k]) \/ \E d \in Devices : s.patch[d] = i
      PROVE  monitor[i] # NoMonitor /\ n[i].name = monitor[i].name /\ n[i].at = monitor[i].at
  <2>1. ~Fresh(i)
    <3> SUFFICES ASSUME Fresh(i) PROVE FALSE
      OBVIOUS
    <3>1. /\ i \notin batch[t].doomed /\ \A k \in Keys : i \notin batch[t].found[k]
          /\ \A d \in Devices : batch[t].patch[d] # i
      BY FreshFacts
    <3> QED
      BY <1>1, <3>1
  <2> QED
    BY <1>1, <2>1 DEF Succeeds
<1>2. ASSUME NEW k \in Keys, NEW i \in s.found[k], n[i] # NoMonitor PROVE k \in {n[i].name, n[i].at}
  <2>1. i \in Ids
    BY DEF Batches
  <2> QED
    BY <1>1, <1>2, <2>1 DEF Recalls
<1>3. ASSUME NEW d \in Devices, s.patch[d] \in Listed(n) PROVE OwnOf(d, n[s.patch[d]])
  BY <1>1, <1>3 DEF Recalls, Listed, OwnOf
<1>4. ASSUME NEW i \in s.doomed, n[i] # NoMonitor PROVE Doom(s, n[i])
  <2>1. i \in Ids
    BY DEF Batches
  <2>2. monitor[i] # NoMonitor /\ n[i].name = monitor[i].name /\ n[i].at = monitor[i].at
    BY <1>1, <1>4, <2>1
  <2> QED
    BY <2>2, DoomAgain DEF Recalls
<1> QED
  BY <1>2, <1>3, <1>4 DEF Recalls

LEMMA IdleRecalls == ASSUME NEW m PROVE Recalls(Idle, m)
BY NamesAssumption DEF Recalls, Idle, Nothing, Listed, Links

LEMMA ReturnedRecalls ==
  ASSUME NEW s \in Batches, NEW m, Recalls(s, m)
  PROVE  Recalls(Returned(s), m)
<1>1. CASE Returned(s) = Idle
  BY <1>1, IdleRecalls
<1>2. CASE Returned(s) = [Idle EXCEPT !.phase = "link", !.by = s.by, !.patch = s.patch]
  <2> DEFINE r == [Idle EXCEPT !.phase = "link", !.by = s.by, !.patch = s.patch]
  <2>1. r.found = Nothing /\ r.doomed = {} /\ r.patch = s.patch
    BY DEF Idle
  <2> HIDE DEF r
  <2>2. Recalls(r, m)
    BY <2>1 DEF Recalls, Nothing
  <2> QED
    BY <1>2, <2>2 DEF r
<1> QED
  BY <1>1, <1>2 DEF Returned

\* What keeps the memory true: the thread goes on with what is true, and so do the
\* others, as the ids they remember are not given out.
LEMMA GotoRecalls ==
  ASSUME TypeInv, MemInv, NEW t \in Threads, NEW s \in Batches, Goto(t, s), Recalls(s, monitor'),
         Succeeds(monitor')
  PROVE  \A u \in Threads : Recalls(batch'[u], monitor')
<1>1. Recalls(Idle, monitor') /\ Recalls(Returned(s), monitor')
  BY IdleRecalls, ReturnedRecalls
<1>2. batch' = [batch EXCEPT ![t] = Idle] \/ batch' = [batch EXCEPT ![t] = Returned(s)]
      \/ batch' = [batch EXCEPT ![t] = s]
  BY DEF Goto
<1>3. PICK k : Recalls(k, monitor') /\ batch' = [batch EXCEPT ![t] = k]
  BY <1>1, <1>2
<1>4. ASSUME NEW u \in Threads, u # t PROVE Recalls(batch'[u], monitor')
  <2>1. batch'[u] = batch[u]
    BY <1>3, <1>4 DEF TypeInv, BatchesInv
  <2>2. Recalls(batch[u], monitor')
    BY InHand, RecallsOn DEF MemInv
  <2> QED
    BY <2>1, <2>2
<1>5. batch'[t] = k
  BY <1>3 DEF TypeInv, BatchesInv
<1> QED
  BY <1>3, <1>4, <1>5

\* LinkedToOwn in short.
LEMMA LinkedFacts == LinkedToOwn <=> \A d \in Devices : link[d] \in Listed(monitor) => OwnOf(d, monitor[link[d]])
BY DEF LinkedToOwn, OwnOf

\* The links stay true too.
LEMMA LinksOn ==
  ASSUME TypeInv, MemInv, Succeeds(monitor'), link' = link
  PROVE  LinkedToOwn'
<1>1. ASSUME NEW d \in Devices, link[d] \in Ids, monitor'[link[d]] # NoMonitor
      PROVE  OwnOf(d, monitor'[link[d]])
  <2>1. /\ monitor[link[d]] # NoMonitor /\ monitor'[link[d]].name = monitor[link[d]].name
        /\ monitor'[link[d]].at = monitor[link[d]].at
    BY <1>1, FreshFacts DEF Succeeds
  <2>2. OwnOf(d, monitor[link[d]])
    BY <1>1, <2>1, LinkedFacts DEF MemInv, Listed
  <2> QED
    BY <2>1, <2>2 DEF OwnOf
<1> QED
  BY <1>1 DEF LinkedToOwn, Listed, OwnOf

LEMMA CallRecalls ==
  ASSUME TypeInv, MemInv, NEW t \in Threads, NEW m, NEW a \in Batches, NEW f \in Batches, Call(t, m, a, f),
         link' = link, Succeeds(m), Apart => Placed(m), Recalls(a, m), Recalls(f, m), Recalls(f, monitor)
  PROVE  MemInv'
<1>1. Succeeds(monitor) /\ (Apart => Placed(monitor))
  BY DEF Succeeds, MemInv
<1>2. PICK n \in {m, monitor}, s \in {a, f} : monitor' = n /\ Goto(t, s) /\ Recalls(s, n)
  BY DEF Call
<1>3. Succeeds(monitor') /\ Recalls(s, monitor') /\ s \in Batches /\ (Apart => Placed(monitor'))
  BY <1>1, <1>2
<1>4. \A u \in Threads : Recalls(batch'[u], monitor')
  BY <1>2, <1>3, GotoRecalls
<1>5. LinkedToOwn'
  BY <1>3, LinksOn
<1>6. (Apart => Placed(monitor))'
  BY <1>3 DEF Apart, NamesOf, AddressesOf, Placed, Listed, IsGroup
<1> QED
  BY <1>4, <1>5, <1>6 DEF MemInv

\* The same for a step that leaves Kuma as it is.
LEMMA LooksRecalls ==
  ASSUME TypeInv, MemInv, NEW t \in Threads, NEW s \in Batches, Goto(t, s), Recalls(s, monitor),
         UNCHANGED <<link, monitor>>
  PROVE  MemInv'
<1>1. Succeeds(monitor') /\ Recalls(s, monitor')
  BY DEF Succeeds
<1>2. LinkedToOwn'
  BY <1>1, LinksOn
<1>3. (Apart => Placed(monitor))'
  BY DEF MemInv, Apart, NamesOf, AddressesOf, Placed, Listed, IsGroup
<1> QED
  BY <1>1, <1>2, <1>3, GotoRecalls DEF MemInv

-----------------------------------------------------------------------------
(* What becomes of the monitors *)

LEMMA AddSucceeds ==
  ASSUME NEW i \in Ids, Fresh(i), monitor \in Kuma, NEW name, NEW at, NEW g
  PROVE  /\ Succeeds(Add(monitor, i, name, at, g))
         /\ Add(monitor, i, name, at, g)[i] = [name |-> name, at |-> at, parent |-> g]
         /\ \A k \in Ids : k # i => Add(monitor, i, name, at, g)[k] = monitor[k]
BY DEF Succeeds, Add, Kuma

LEMMA WithoutFacts ==
  ASSUME NEW m \in Kuma, NEW i, NEW k \in Ids, Without(m, i)[k] # NoMonitor
  PROVE  /\ k # i /\ m[k] # NoMonitor
         /\ Without(m, i)[k].name = m[k].name /\ Without(m, i)[k].at = m[k].at
         /\ Without(m, i)[k].parent \subseteq m[k].parent \ {i}
<1>1. k # i
  BY DEF Without
<1>2. ASSUME k \in Children(m, i)
      PROVE  /\ m[k] # NoMonitor
             /\ Without(m, i)[k].name = m[k].name /\ Without(m, i)[k].at = m[k].at
             /\ Without(m, i)[k].parent \subseteq m[k].parent \ {i}
  <2>1. m[k] # NoMonitor /\ m[k] \in Monitors
    BY <1>2 DEF Children, Listed, Kuma
  <2>2. Without(m, i)[k] = [m[k] EXCEPT !.parent = {}]
    BY <1>1, <1>2 DEF Without
  <2> QED
    BY <2>1, <2>2 DEF Monitors
<1>3. ASSUME k \notin Children(m, i)
      PROVE  /\ m[k] # NoMonitor /\ Without(m, i)[k] = m[k]
             /\ Without(m, i)[k].parent \subseteq m[k].parent \ {i}
  <2>1. Without(m, i)[k] = m[k]
    BY <1>1, <1>3 DEF Without
  <2>2. m[k] # NoMonitor /\ i \notin m[k].parent
    BY <1>3, <2>1 DEF Children, Listed
  <2> QED
    BY <2>1, <2>2
<1> QED
  BY <1>1, <1>2, <1>3

LEMMA WithoutSucceeds ==
  ASSUME monitor \in Kuma, NEW i
  PROVE  Succeeds(Without(monitor, i))
BY WithoutFacts DEF Succeeds

LEMMA MovedFacts ==
  ASSUME NEW m \in Kuma, NEW i \in Ids, m[i] # NoMonitor, NEW g \in SUBSET Ids, NEW n, n = [m EXCEPT ![i].parent = g]
  PROVE  /\ n[i] # NoMonitor /\ n[i].name = m[i].name /\ n[i].at = m[i].at /\ n[i].parent = g
         /\ \A k \in Ids : k # i => n[k] = m[k]
<1>1. m[i] \in Monitors
  BY DEF Kuma
<1>2. n[i] = [m[i] EXCEPT !.parent = g]
  BY DEF Kuma
<1>3. n[i].name = m[i].name /\ n[i].at = m[i].at /\ n[i].parent = g
  BY <1>1, <1>2 DEF Monitors
<1>4. n[i] # NoMonitor
  <2>1. n[i] \in Monitors
    BY <1>1, <1>2 DEF Monitors
  <2> QED
    BY <2>1, NamesAssumption
<1> QED
  BY <1>3, <1>4 DEF Kuma

LEMMA MovedSucceeds ==
  ASSUME monitor \in Kuma, NEW i \in Ids, monitor[i] # NoMonitor, NEW g \in SUBSET Ids
  PROVE  Succeeds([monitor EXCEPT ![i].parent = g])
<1> DEFINE n == [monitor EXCEPT ![i].parent = g]
<1>0. n = [monitor EXCEPT ![i].parent = g]
  OBVIOUS
<1> HIDE DEF n
<1>1. /\ n[i] # NoMonitor /\ n[i].name = monitor[i].name /\ n[i].at = monitor[i].at
      /\ \A k \in Ids : k # i => n[k] = monitor[k]
  BY <1>0, MovedFacts
<1>2. Succeeds(n)
  BY <1>1 DEF Succeeds
<1> QED
  BY <1>2 DEF n

\* A monitor that is made or moved is in its place if it is of one thing and its group is
\* that thing's.
Placing(m, name, at, g) ==
  /\ g \subseteq Listed(m)
  /\ name \in Groups => at = NoAddress
  /\ name \notin Groups => \E x \in Things :
       name \in NamesOf(x) /\ at \in AddressesOf(x) /\ \A p \in g : m[p].name = Web => x \notin Devices

LEMMA AddPlaced ==
  ASSUME NEW m \in Kuma, Placed(m), NEW i \in Ids, m[i] = NoMonitor, NEW name, NEW at, NEW g \in SUBSET Ids,
         Placing(m, name, at, g)
  PROVE  Placed(Add(m, i, name, at, g))
<1> DEFINE n == Add(m, i, name, at, g)
<1>1. n[i] = [name |-> name, at |-> at, parent |-> g] /\ \A k \in Ids : k # i => n[k] = m[k]
  BY DEF Add, Kuma
<1>2. i \notin Listed(m) /\ \A k \in Listed(m) : k # i /\ k \in Listed(n)
  BY <1>1 DEF Listed
<1> HIDE DEF n
<1>3. ASSUME NEW k \in Listed(n)
      PROVE  /\ n[k].parent \subseteq Listed(n)
             /\ IsGroup(n[k]) => n[k].at = NoAddress
             /\ ~IsGroup(n[k]) => \E x \in Things :
                  /\ n[k].name \in NamesOf(x) /\ n[k].at \in AddressesOf(x)
                  /\ \A p \in n[k].parent : n[p].name = Web => x \notin Devices
  <2>1. CASE k = i
    <3>1. n[k].name = name /\ n[k].at = at /\ n[k].parent = g
      BY <1>1, <2>1
    <3>2. \A p \in g : p \in Listed(m) /\ p \in Listed(n) /\ n[p] = m[p]
      BY <1>1, <1>2 DEF Placing
    <3> QED
      BY <3>1, <3>2 DEF Placing, IsGroup
  <2>2. CASE k # i
    <3>1. k \in Listed(m) /\ n[k] = m[k]
      BY <1>1, <2>2 DEF Listed
    <3>2. \A p \in m[k].parent : p \in Listed(m) /\ p \in Listed(n) /\ n[p] = m[p]
      BY <1>1, <1>2, <3>1 DEF Placed, Listed
    <3> QED
      BY <3>1, <3>2 DEF Placed
  <2> QED
    BY <2>1, <2>2
<1>4. Placed(n)
  BY <1>3 DEF Placed
<1> QED
  BY <1>4 DEF n

LEMMA WithoutPlaced ==
  ASSUME NEW m \in Kuma, Placed(m), NEW i
  PROVE  Placed(Without(m, i))
<1> DEFINE n == Without(m, i)
<1>1. \A k \in Listed(n) : /\ k # i /\ k \in Listed(m)
                           /\ n[k].name = m[k].name /\ n[k].at = m[k].at
                           /\ n[k].parent \subseteq m[k].parent \ {i}
  BY WithoutFacts DEF Listed
<1>2. \A k \in Listed(m) : k # i => k \in Listed(n)
  <2>1. ASSUME NEW k \in Listed(m), k # i PROVE n[k] # NoMonitor
    <3>1. m[k] \in Monitors /\ k \in Ids
      BY DEF Listed, Kuma
    <3>2. [m[k] EXCEPT !.parent = {}] \in Monitors
      BY <3>1 DEF Monitors
    <3>3. n[k] = [m[k] EXCEPT !.parent = {}] \/ n[k] = m[k]
      BY <2>1, <3>1 DEF Without
    <3> QED
      BY <3>1, <3>2, <3>3, NamesAssumption
  <2> QED
    BY <2>1 DEF Listed
<1> HIDE DEF n
<1>3. ASSUME NEW k \in Listed(n)
      PROVE  /\ n[k].parent \subseteq Listed(n)
             /\ IsGroup(n[k]) => n[k].at = NoAddress
             /\ ~IsGroup(n[k]) => \E x \in Things :
                  /\ n[k].name \in NamesOf(x) /\ n[k].at \in AddressesOf(x)
                  /\ \A p \in n[k].parent : n[p].name = Web => x \notin Devices
  <2>1. k \in Listed(m) /\ m[k].parent \subseteq Listed(m)
    BY <1>1 DEF Placed
  <2>2. \A p \in n[k].parent : p \in m[k].parent /\ p \in Listed(m) /\ p # i /\ p \in Listed(n) /\ n[p].name = m[p].name
    BY <1>1, <1>2, <2>1
  <2>3. n[k].parent \subseteq Listed(n)
    BY <2>2
  <2>4. IsGroup(n[k]) = IsGroup(m[k]) /\ n[k].name = m[k].name /\ n[k].at = m[k].at
    BY <1>1 DEF IsGroup
  <2> QED
    BY <2>1, <2>2, <2>3, <2>4 DEF Placed
<1>4. Placed(n)
  BY <1>3 DEF Placed
<1> QED
  BY <1>4 DEF n

LEMMA MovedPlaced ==
  ASSUME NEW m \in Kuma, Placed(m), NEW i \in Ids, m[i] # NoMonitor, NEW g \in SUBSET Ids,
         Placing(m, m[i].name, m[i].at, g), NEW n,
         n[i] # NoMonitor, n[i].name = m[i].name, n[i].at = m[i].at, n[i].parent = g,
         \A k \in Ids : k # i => n[k] = m[k]
  PROVE  Placed(n)
<1>1. Listed(n) = Listed(m) /\ \A k \in Listed(m) : n[k].name = m[k].name /\ n[k].at = m[k].at
  BY DEF Listed
<1>2. ASSUME NEW k \in Listed(n)
      PROVE  /\ n[k].parent \subseteq Listed(n)
             /\ IsGroup(n[k]) => n[k].at = NoAddress
             /\ ~IsGroup(n[k]) => \E x \in Things :
                  /\ n[k].name \in NamesOf(x) /\ n[k].at \in AddressesOf(x)
                  /\ \A p \in n[k].parent : n[p].name = Web => x \notin Devices
  <2>0. k \in Listed(m) /\ IsGroup(n[k]) = IsGroup(m[k])
    BY <1>1 DEF IsGroup
  <2>1. CASE k = i
    <3>1. \A p \in g : p \in Listed(m) /\ n[p].name = m[p].name
      BY <1>1 DEF Placing
    <3> QED
      BY <1>1, <2>1, <3>1 DEF Placing, IsGroup
  <2>2. CASE k # i
    <3>1. n[k] = m[k]
      BY <2>2 DEF Listed
    <3>2. \A p \in m[k].parent : p \in Listed(m) /\ n[p].name = m[p].name
      BY <1>1, <2>0 DEF Placed
    <3> QED
      BY <1>1, <2>0, <3>1, <3>2 DEF Placed
  <2> QED
    BY <2>1, <2>2
<1> QED
  BY <1>2 DEF Placed

\* What is found by a key of a thing bears that thing's name or address.
LEMMA KeyFacts ==
  ASSUME NEW n \in Monitors, NEW x \in Things, NEW e \in EntriesOf[x],
         e.at \in {n.name, n.at} \/ e.name \in {n.name, n.at}
  PROVE  Bears(n, e) /\ OwnOf(x, n) /\ (n.at = NoAddress => ~IsGroup(n))
<1>1. e.name \in Names /\ e.at \in Hosts \cup Urls /\ e.name \in NamesOf(x) /\ e.at \in AddressesOf(x)
  BY EntryFacts, EntryKeys DEF NamesOf, AddressesOf
<1>2. n.name \in Names \cup Groups /\ n.at \in Hosts \cup Urls \cup {NoAddress}
  BY DEF Monitors
<1>3. e.at # n.name /\ e.name # n.at /\ e.at # NoAddress /\ (n.name = e.name => n.name \notin Groups)
  BY <1>1, <1>2, NamesAssumption DEF Keys
<1> QED
  BY <1>1, <1>3 DEF Bears, OwnOf, IsGroup

\* What a batch finds for a thing, if it is still there, is that thing's.
LEMMA FoundOwn ==
  ASSUME NEW s, Sound(s), NEW m \in Kuma, Recalls(s, m), NEW x \in Things, s.want[x] # Absent,
         NEW i \in Existing(s, x), m[i] # NoMonitor
  PROVE  /\ i \in Ids /\ i \in Listed(m) /\ m[i] \in Monitors
         /\ Bears(m[i], s.want[x]) /\ OwnOf(x, m[i]) /\ (m[i].at = NoAddress => ~IsGroup(m[i]))
<1>1. s.want[x] \in EntriesOf[x] /\ s.want[x].at \in Keys /\ s.want[x].name \in Keys
      /\ i \in Ids /\ (i \in s.found[s.want[x].at] \cup s.found[s.want[x].name])
  BY ExistingFacts
<1>2. m[i] \in Monitors
  BY <1>1 DEF Kuma
<1>3. s.want[x].at \in {m[i].name, m[i].at} \/ s.want[x].name \in {m[i].name, m[i].at}
  BY <1>1 DEF Recalls
<1> QED
  BY <1>1, <1>2, <1>3, KeyFacts DEF Listed

\* The group of a thing, if it is still there, is the services' one for services only.
LEMMA GroupOwn ==
  ASSUME NEW s, Sound(s), NEW m \in Kuma, Recalls(s, m), NEW x \in s.left, Tagged(s) = {},
         NEW p \in GroupOf(s, x), m[p] # NoMonitor, m[p].name = Web
  PROVE  x \notin Devices
<1>1. s.want[x] \in EntriesOf[x] /\ s.want[x].group \in Groups /\ x \in Things /\ p \in Ids
  BY GroupOfFacts
<1>2. p \in s.found[s.want[x].group] /\ s.want[x].group \in Keys
  BY <1>1 DEF GroupOf, Keys
<1>3. s.want[x].group \in {m[p].name, m[p].at}
  BY <1>2 DEF Recalls
<1>4. m[p].at \in Hosts \cup Urls \cup {NoAddress}
  BY <1>1 DEF Kuma, Monitors
<1>5. s.want[x].group = Web
  BY <1>1, <1>3, <1>4, NamesAssumption DEF Keys
<1> QED
  BY <1>1, <1>5, EntryFacts, NamesAssumption DEF Groups

-----------------------------------------------------------------------------
(* The steps remember *)

LEMMA OrphanDoomed ==
  ASSUME TypeInv, MemInv, NEW t \in Threads, NEW i \in Orphans(batch[t], Found(monitor)[Web])
  PROVE  /\ Apart => monitor[i].at \in UNION {AddressesOf(x) : x \in Mine(batch[t])}
         /\ \A x \in Mine(batch[t]) : batch[t].want[x] # Absent => ~Bears(monitor[i], batch[t].want[x])
<1> DEFINE s   == batch[t]
           web == Found(monitor)[Web]
<1>1. /\ i \in Listed(monitor) /\ ~IsGroup(monitor[i])
      /\ \A x \in Things : s.want[x] # Absent => ~Bears(monitor[i], s.want[x])
      /\ IF s.kind = "services" THEN web # {} /\ monitor[i].parent = web ELSE monitor[i].at \in Hosts
  BY DEF Orphans
<1>2. Mine(s) \subseteq Things
  BY DEF Mine, Things
<1>3. monitor \in Kuma
  BY DEF TypeInv
<1>4. ASSUME Apart PROVE monitor[i].at \in UNION {AddressesOf(x) : x \in Mine(s)}
  <2>1. PICK x \in Things : /\ monitor[i].at \in AddressesOf(x)
                            /\ \A p \in monitor[i].parent : monitor[p].name = Web => x \notin Devices
    BY <1>1, <1>4 DEF MemInv, Placed
  <2>2. x \in Mine(s)
    <3>1. CASE s.kind = "services"
      <4>1. PICK p \in web : p \in monitor[i].parent
        BY <1>1, <3>1
      <4>2. p \in Ids /\ monitor[p] # NoMonitor /\ Web \in {monitor[p].name, monitor[p].at}
        BY <1>3, FoundFacts DEF Keys, Groups, Listed
      <4>3. monitor[p].at \in Hosts \cup Urls \cup {NoAddress}
        BY <1>3, <4>2 DEF Kuma, Monitors
      <4>4. monitor[p].name = Web
        BY <4>2, <4>3, NamesAssumption DEF Groups, Keys
      <4> QED
        BY <2>1, <3>1, <4>1, <4>4 DEF Mine, Things
    <3>2. CASE s.kind # "services"
      <4>1. s.kind = "devices" /\ monitor[i].at \in Hosts
        BY <1>1, <3>2, InHand DEF Batches, Kinds
      <4>2. x \notin Devices => monitor[i].at \in Urls
        BY <2>1, EntryFacts DEF AddressesOf
      <4> QED
        BY <4>1, <4>2, NamesAssumption DEF Mine
    <3> QED
      BY <3>1, <3>2
  <2> QED
    BY <2>1, <2>2
<1> QED
  BY <1>1, <1>2, <1>4

LEMMA ListRecalls ==
  ASSUME TypeInv, MemInv, NEW t \in Threads, List(t)
  PROVE  MemInv'
<1> DEFINE s   == batch[t]
           web == Found(monitor)[Web]
           r   == [s EXCEPT !.phase = IF s.kind = "services" /\ web = {} THEN "group" ELSE "apply",
                            !.known = monitor, !.found = Found(monitor),
                            !.doomed = Orphans(s, web),
                            !.spared = IF s.kind = "devices" THEN web ELSE {}]
<1>1. Goto(t, r) /\ UNCHANGED <<link, monitor>>
  BY DEF List
<1>2. s \in Batches /\ Recalls(s, monitor) /\ monitor \in Kuma /\ Sound(s)
  BY InHand DEF MemInv, TypeInv
<1>3. /\ r.found = Found(monitor) /\ r.patch = s.patch /\ r.kind = s.kind /\ r.want = s.want
      /\ r.phase # "sweep" /\ r.doomed = Orphans(s, web)
  BY <1>2 DEF Batches
<1>4. Mine(r) = Mine(s)
  BY <1>3 DEF Mine
<1>5. r \in Batches
  <2>1. Orphans(s, web) \in SUBSET Ids /\ (IF s.kind = "devices" THEN web ELSE {}) \in SUBSET Ids
        /\ Found(monitor) \in [Keys -> SUBSET Ids]
    BY <1>2, FoundFacts DEF Orphans, Listed, Keys, Groups
  <2>2. Sound(r)
    <3> HIDE DEF web
    <3> QED
      BY <1>2, <2>1, ListedSound
  <2> HIDE DEF r
  <2> QED
    BY <2>2 DEF Sound
<1>6. \A i \in Orphans(s, web) : Doom(r, monitor[i])
  <2> HIDE DEF r
  <2> QED
    BY <1>3, <1>4, OrphanDoomed DEF Doom
<1>7. \A k \in Keys : \A i \in Found(monitor)[k] : k \in {monitor[i].name, monitor[i].at}
  BY <1>2, FoundFacts
<1> HIDE DEF r, web
<1>8. Recalls(r, monitor)
  BY <1>2, <1>3, <1>6, <1>7 DEF Recalls
<1> QED
  BY <1>1, <1>5, <1>8, LooksRecalls

\* What follows for a group that is made: a batch that finds it by its name.
LEMMA GroupRecalls ==
  ASSUME NEW s \in Batches, NEW m, Recalls(s, m), NEW i \in Ids, NEW k \in Groups, m[i].name = k
  PROVE  Recalls([s EXCEPT !.found[k] = {i}], m)
<1> DEFINE f == [s.found EXCEPT ![k] = {i}]
           r == [s EXCEPT !.found = f]
<1>1. \A l \in Keys : \A j \in f[l] : j \in s.found[l] \/ (l = k /\ j = i)
  BY DEF Batches
<1>2. /\ r.kind = s.kind /\ r.want = s.want /\ r.phase = s.phase /\ r.doomed = s.doomed
      /\ r.patch = s.patch /\ r.found = f
  BY DEF Batches
<1>3. [s EXCEPT !.found[k] = {i}] = r
  OBVIOUS
<1> HIDE DEF r, f
<1>4. Recalls(r, m)
  BY <1>1, <1>2, RecallsOf
<1> QED
  BY <1>3, <1>4

\* What a batch remembers is not what has no group, what is left, or is to be spared.
LEMMA RecallsAsMuch ==
  ASSUME NEW s, NEW m, Recalls(s, m), NEW r, r.kind = s.kind, r.want = s.want,
         r.phase = "sweep" <=> s.phase = "sweep", r.doomed \subseteq s.doomed,
         r.found = s.found, r.patch = s.patch
  PROVE  Recalls(r, m)
BY RecallsOf

LEMMA AddWebGroupRecalls ==
  ASSUME TypeInv, MemInv, NEW t \in Threads, AddWebGroup(t)
  PROVE  MemInv'
<1> DEFINE s == [batch[t] EXCEPT !.phase = "apply"]
           b == [s EXCEPT !.bare = Services]
           a(i) == [s EXCEPT !.found[Web] = {i}]
<1>1. PICK i \in Ids : Fresh(i) /\ Call(t, Add(monitor, i, Web, NoAddress, {}), a(i), b)
  BY DEF AddWebGroup, NextId
<1>2. batch[t].phase = "group" /\ batch[t] \in Batches /\ Recalls(batch[t], monitor) /\ monitor \in Kuma
  BY InHand DEF AddWebGroup, MemInv, TypeInv
<1> DEFINE m == Add(monitor, i, Web, NoAddress, {})
<1>3. Succeeds(m) /\ m[i].name = Web /\ (Apart => Placed(m))
  <2>1. monitor[i] = NoMonitor /\ Placing(monitor, Web, NoAddress, {})
    BY <1>1, NamesAssumption DEF Fresh, Placing, Groups
  <2>2. Succeeds(m) /\ m[i].name = Web
    <3>1. Succeeds(m)
      BY <1>1, <1>2, AddSucceeds
    <3>2. m[i] = [name |-> Web, at |-> NoAddress, parent |-> {}]
      BY <1>2 DEF Add, Kuma
    <3> QED
      BY <3>1, <3>2
  <2>3. ASSUME Apart PROVE Placed(m)
    BY <1>2, <2>1, <2>3, AddPlaced DEF MemInv
  <2> QED
    BY <2>2, <2>3
<1>4. Recalls(batch[t], m)
  BY <1>2, <1>3, RecallsOn
<1> HIDE DEF m
<1>5. s \in Batches /\ Recalls(s, m) /\ Recalls(s, monitor)
  <2>1. s \in Batches
    BY <1>2 DEF Batches
  <2>2. /\ s.kind = batch[t].kind /\ s.want = batch[t].want /\ s.phase = "apply"
        /\ s.doomed = batch[t].doomed /\ s.patch = batch[t].patch /\ s.found = batch[t].found
    BY <1>2 DEF Batches
  <2> HIDE DEF s
  <2> QED
    BY <1>2, <1>4, <2>1, <2>2, RecallsAsMuch
<1> HIDE DEF s
<1>6. b \in Batches /\ Recalls(b, m) /\ Recalls(b, monitor)
  <2>1. b \in Batches
    BY <1>5 DEF Batches, Things
  <2>2. /\ b.kind = s.kind /\ b.want = s.want /\ b.phase = s.phase
        /\ b.doomed = s.doomed /\ b.patch = s.patch /\ b.found = s.found
    BY <1>5 DEF Batches
  <2> HIDE DEF b
  <2> QED
    BY <1>5, <2>1, <2>2, RecallsAsMuch
<1>7. a(i) \in Batches /\ Recalls(a(i), m)
  <2>1. a(i) \in Batches
    BY <1>5 DEF Batches
  <2> QED
    BY <1>3, <1>5, <2>1, GroupRecalls DEF Groups
<1>8. link' = link /\ Call(t, m, a(i), b)
  BY <1>1 DEF AddWebGroup, m
<1> HIDE DEF a, b
<1> QED
  BY <1>3, <1>6, <1>7, <1>8, CallRecalls

LEMMA FewerRecalls ==
  ASSUME NEW s \in Batches, NEW m, Recalls(s, m), NEW i
  PROVE  /\ [s EXCEPT !.doomed = @ \ {i}] \in Batches
         /\ Recalls([s EXCEPT !.doomed = @ \ {i}], m)
<1> DEFINE r == [s EXCEPT !.doomed = @ \ {i}]
<1>1. r \in Batches
  BY DEF Batches
<1>2. /\ r.kind = s.kind /\ r.want = s.want /\ r.phase = s.phase /\ r.doomed \subseteq s.doomed
      /\ r.patch = s.patch /\ r.found = s.found
  BY DEF Batches
<1> HIDE DEF r
<1>3. Recalls(r, m)
  BY <1>2, RecallsAsMuch
<1> QED
  BY <1>1, <1>3 DEF r

LEMMA WithoutOn ==
  ASSUME TypeInv, MemInv, NEW t \in Threads, NEW i
  PROVE  /\ Succeeds(Without(monitor, i)) /\ (Apart => Placed(Without(monitor, i)))
         /\ Recalls(batch[t], Without(monitor, i)) /\ Recalls(batch[t], monitor)
<1>1. monitor \in Kuma /\ batch[t] \in Batches /\ Recalls(batch[t], monitor)
  BY InHand DEF TypeInv, MemInv
<1>2. Succeeds(Without(monitor, i)) /\ (Apart => Placed(Without(monitor, i)))
  BY <1>1, WithoutSucceeds, WithoutPlaced DEF MemInv
<1> QED
  BY <1>1, <1>2, RecallsOn

LEMMA DeleteRecalls ==
  ASSUME TypeInv, MemInv, NEW t \in Threads, Delete(t)
  PROVE  MemInv'
<1> DEFINE s       == batch[t]
           next(i) == [s EXCEPT !.doomed = @ \ {i}]
<1>1. PICK i \in s.doomed : Call(t, Without(monitor, i), next(i), next(i))
  BY DEF Delete
<1> DEFINE m == Without(monitor, i)
<1>2. Succeeds(m) /\ (Apart => Placed(m)) /\ Recalls(s, m) /\ Recalls(s, monitor)
  BY WithoutOn
<1> HIDE DEF m
<1>3. next(i) \in Batches /\ Recalls(next(i), m) /\ Recalls(next(i), monitor)
  BY <1>2, InHand, FewerRecalls
<1>4. link' = link /\ Call(t, m, next(i), next(i))
  BY <1>1 DEF Delete, m
<1> HIDE DEF next
<1> QED
  BY <1>2, <1>3, <1>4, CallRecalls

\* Dealing with a thing loses nothing of what is remembered.
LEMMA LeftRecalls ==
  ASSUME NEW s \in Batches, NEW m, Recalls(s, m), NEW x, NEW g
  PROVE  /\ Recalls([s EXCEPT !.left = @ \ {x}], m)
         /\ Recalls([s EXCEPT !.left = @ \ {x}, !.spared = IF x \in Devices THEN @ \cup g ELSE @], m)
<1> DEFINE r == [s EXCEPT !.left = @ \ {x}]
           q == [s EXCEPT !.left = @ \ {x}, !.spared = IF x \in Devices THEN @ \cup g ELSE @]
<1>1. /\ r.kind = s.kind /\ r.want = s.want /\ r.phase = s.phase
      /\ r.doomed = s.doomed /\ r.patch = s.patch /\ r.found = s.found
      /\ q.kind = s.kind /\ q.want = s.want /\ q.phase = s.phase
      /\ q.doomed = s.doomed /\ q.patch = s.patch /\ q.found = s.found
  BY DEF Batches
<1> HIDE DEF r, q
<1>2. Recalls(r, m) /\ Recalls(q, m)
  BY <1>1, RecallsAsMuch
<1> QED
  BY <1>2 DEF r, q

LEMMA UntaggedRecalls ==
  ASSUME NEW s \in Batches, NEW m, Recalls(s, m), NEW x
  PROVE  Recalls(Untagged(s, x), m)
<1> DEFINE f == [s.found EXCEPT ![s.want[x].at] = {}, ![s.want[x].name] = {}]
           p == IF x \in Devices /\ s.links[x] # NoLink THEN [s.patch EXCEPT ![x] = NoLink] ELSE s.patch
           r == [s EXCEPT !.found = f, !.patch = p]
<1>1. Untagged(s, x) = r
  BY DEF Untagged
<1>2. /\ r.kind = s.kind /\ r.want = s.want /\ r.phase = s.phase /\ r.doomed = s.doomed
      /\ r.patch = p /\ r.found = f
  BY DEF Batches
<1>3. \A k \in Keys : \A j \in f[k] : j \in s.found[k]
  BY DEF Batches
<1>4. \A d \in Devices : p[d] \in {s.patch[d], NoPatch, NoLink}
  BY DEF Batches
<1> HIDE DEF r, p, f
<1>5. Recalls(r, m)
  BY <1>2, <1>3, <1>4, RecallsOf
<1> QED
  BY <1>1, <1>5

LEMMA DropTaggedRecalls ==
  ASSUME TypeInv, MemInv, NEW t \in Threads, DropTagged(t)
  PROVE  MemInv'
<1> DEFINE s       == batch[t]
           next(x) == [s EXCEPT !.left = @ \ {x}]
<1>1. PICK x \in Tagged(s) :
        \/ UNCHANGED monitor /\ Goto(t, next(x))
        \/ \E i \in Existing(s, x) : Call(t, Without(monitor, i), Untagged(next(x), x), next(x))
  BY DEF DropTagged
<1>2. s.phase = "apply" /\ x \in s.left /\ s \in Batches /\ link' = link
  BY InHand DEF DropTagged, Tagged
<1>3. Sound(next(x)) /\ next(x) \in Batches
  <2>1. Sound(next(x))
    BY InHand, LeftSound
  <2> QED
    BY <2>1 DEF Sound
<1>4. next(x).phase = "apply" /\ (x \in Devices => next(x).kind = "devices")
  BY <1>2, InHand, MineDevices DEF Batches
<1>5. ASSUME NEW m, Recalls(s, m) PROVE Recalls(next(x), m)
  BY <1>2, <1>5, LeftRecalls
<1> HIDE DEF next
<1>6. Untagged(next(x), x) \in Batches
  BY <1>3, <1>4, UntaggedSound DEF Sound
<1>7. ASSUME UNCHANGED monitor, Goto(t, next(x)) PROVE MemInv'
  BY <1>2, <1>3, <1>5, <1>7, LooksRecalls DEF MemInv
<1>8. ASSUME NEW i \in Existing(s, x), Call(t, Without(monitor, i), Untagged(next(x), x), next(x))
      PROVE  MemInv'
  <2> DEFINE m == Without(monitor, i)
  <2>1. Succeeds(m) /\ (Apart => Placed(m)) /\ Recalls(s, m) /\ Recalls(s, monitor)
    BY WithoutOn
  <2>2. Call(t, m, Untagged(next(x), x), next(x))
    BY <1>8
  <2> HIDE DEF m
  <2>3. Recalls(next(x), m) /\ Recalls(next(x), monitor)
    BY <1>5, <2>1
  <2>4. Recalls(Untagged(next(x), x), m)
    BY <1>3, <2>3, UntaggedRecalls
  <2> QED
    BY <1>2, <1>3, <1>6, <2>1, <2>2, <2>3, <2>4, CallRecalls
<1> QED
  BY <1>1, <1>7, <1>8

LEMMA AddOn ==
  ASSUME TypeInv, MemInv, NEW t \in Threads, NEW i \in Ids, Fresh(i), NEW name, NEW at, NEW g \in SUBSET Ids,
         Apart => Placing(monitor, name, at, g), NEW m, m = Add(monitor, i, name, at, g)
  PROVE  /\ m[i] = [name |-> name, at |-> at, parent |-> g]
         /\ Succeeds(m) /\ (Apart => Placed(m)) /\ Recalls(batch[t], m) /\ Recalls(batch[t], monitor)
<1>1. monitor \in Kuma /\ batch[t] \in Batches /\ Recalls(batch[t], monitor) /\ monitor[i] = NoMonitor
  BY InHand DEF TypeInv, MemInv, Fresh
<1>2. Succeeds(m)
  BY <1>1, AddSucceeds
<1>3. m[i] = [name |-> name, at |-> at, parent |-> g]
  BY <1>1 DEF Add, Kuma
<1>4. ASSUME Apart PROVE Placed(m)
  BY <1>1, <1>4, AddPlaced DEF MemInv
<1> QED
  BY <1>1, <1>2, <1>3, <1>4, RecallsOn

LEMMA AddSiteGroupRecalls ==
  ASSUME TypeInv, MemInv, NEW t \in Threads, AddSiteGroup(t)
  PROVE  MemInv'
<1> DEFINE s       == batch[t]
           site(d) == s.want[d].group
           a(i, d) == [s EXCEPT !.found[site(d)] = {i}]
           b(d)    == [s EXCEPT !.bare = @ \cup {d}]
<1>1. PICK d \in s.left \cap Devices : \E i \in Ids :
        Providing(s, d) /\ Fresh(i) /\ Call(t, Add(monitor, i, site(d), NoAddress, {}), a(i, d), b(d))
  BY DEF AddSiteGroup, NextId
<1>2. PICK i \in Ids : Fresh(i) /\ Call(t, Add(monitor, i, site(d), NoAddress, {}), a(i, d), b(d))
  BY <1>1
<1>3. s \in Batches /\ site(d) \in Groups /\ d \in Things
  BY <1>1, InHand, GroupOfFacts DEF Providing
<1> DEFINE m == Add(monitor, i, site(d), NoAddress, {})
<1>4. Call(t, m, a(i, d), b(d)) /\ link' = link
  BY <1>2 DEF AddSiteGroup
<1>5. /\ m[i] = [name |-> site(d), at |-> NoAddress, parent |-> {}]
      /\ Succeeds(m) /\ (Apart => Placed(m)) /\ Recalls(s, m) /\ Recalls(s, monitor)
  <2>1. Placing(monitor, site(d), NoAddress, {})
    BY <1>3 DEF Placing
  <2> HIDE DEF site, s
  <2> QED
    BY <1>2, <2>1, AddOn DEF s
<1> HIDE DEF m
<1>6. a(i, d) \in Batches /\ Recalls(a(i, d), m)
  <2>1. a(i, d) \in Batches
    BY <1>3 DEF Batches
  <2>2. m[i].name = site(d)
    BY <1>5
  <2> HIDE DEF site, s
  <2> QED
    BY <1>3, <1>5, <2>1, <2>2, GroupRecalls
<1>7. b(d) \in Batches /\ Recalls(b(d), m) /\ Recalls(b(d), monitor)
  <2>1. b(d) \in Batches
    BY <1>3 DEF Batches
  <2>2. /\ b(d).kind = s.kind /\ b(d).want = s.want /\ b(d).phase = s.phase
        /\ b(d).doomed = s.doomed /\ b(d).patch = s.patch /\ b(d).found = s.found
    BY <1>3 DEF Batches
  <2> HIDE DEF b
  <2> QED
    BY <1>5, <2>1, <2>2, RecallsAsMuch
<1> HIDE DEF a, b
<1> QED
  BY <1>4, <1>5, <1>6, <1>7, CallRecalls

\* A thing that has been provided for is linked to a monitor of its own.
LEMMA ProvidedRecalls ==
  ASSUME NEW s \in Batches, NEW m, Recalls(s, m), NEW x, NEW i \in Ids,
         m[i] # NoMonitor => OwnOf(x, m[i])
  PROVE  LET r == Provided(s, x, i) IN
         /\ Recalls(r, m)
         /\ r.kind = s.kind /\ r.want = s.want /\ r.phase = s.phase /\ r.doomed = s.doomed
<1> DEFINE q == [s EXCEPT !.left = @ \ {x}, !.spared = IF x \in Devices THEN @ \cup GroupOf(s, x) ELSE @]
           p == IF x \in Devices /\ s.links[x] # i THEN [s.patch EXCEPT ![x] = i] ELSE s.patch
           r == [q EXCEPT !.patch = p]
<1>1. Provided(s, x, i) = r
  BY DEF Provided, Batches
<1>2. /\ q.kind = s.kind /\ q.want = s.want /\ q.phase = s.phase
      /\ q.doomed = s.doomed /\ q.found = s.found
  BY DEF Batches
<1>3. r.patch = p /\ r.kind = q.kind /\ r.want = q.want /\ r.phase = q.phase
      /\ r.doomed = q.doomed /\ r.found = q.found
  BY DEF Batches
<1>4. \A d \in Devices : p[d] = s.patch[d] \/ (d = x /\ p[d] = i)
  BY DEF Batches
<1> HIDE DEF p, q, r
<1>5. \A d \in Devices :
        r.patch[d] \in {s.patch[d], NoPatch, NoLink} \/ (r.patch[d] \in Listed(m) => OwnOf(d, m[r.patch[d]]))
  BY <1>3, <1>4 DEF Listed
<1>6. Recalls(r, m)
  BY <1>2, <1>3, <1>5, RecallsOf
<1> QED
  BY <1>1, <1>2, <1>3, <1>6

\* A batch that has made a monitor finds it by its name and its address.
LEMMA MadeRecalls ==
  ASSUME NEW s \in Batches, NEW m, Recalls(s, m), NEW i \in Ids, NEW e,
         m[i].name = e.name, m[i].at = e.at
  PROVE  Recalls([s EXCEPT !.found = [@ EXCEPT ![e.at] = {i}, ![e.name] = {i}]], m)
<1> DEFINE f == [s.found EXCEPT ![e.at] = {i}, ![e.name] = {i}]
           r == [s EXCEPT !.found = f]
<1>1. \A l \in Keys : \A j \in f[l] : j \in s.found[l] \/ (l \in {e.at, e.name} /\ j = i)
  BY DEF Batches
<1>2. /\ r.kind = s.kind /\ r.want = s.want /\ r.phase = s.phase /\ r.doomed = s.doomed
      /\ r.patch = s.patch /\ r.found = f
  BY DEF Batches
<1>3. [s EXCEPT !.found = [@ EXCEPT ![e.at] = {i}, ![e.name] = {i}]] = r
  OBVIOUS
<1> HIDE DEF r, f
<1>4. Recalls(r, m)
  BY <1>1, <1>2, RecallsOf
<1> QED
  BY <1>3, <1>4

LEMMA AddMonitorRecalls ==
  ASSUME TypeInv, MemInv, NEW t \in Threads, AddMonitor(t)
  PROVE  MemInv'
<1> DEFINE s       == batch[t]
           e(x)    == s.want[x]
           g(x)    == GroupOf(s, x)
           left(x) == [s EXCEPT !.left = @ \ {x}, !.spared = IF x \in Devices THEN @ \cup g(x) ELSE @]
           a(x, i) == [Provided(s, x, i) EXCEPT !.found = [@ EXCEPT ![e(x).at] = {i}, ![e(x).name] = {i}]]
           m(x, i) == Add(monitor, i, e(x).name, e(x).at, g(x))
<1>1. PICK x \in s.left :
        /\ Ready(s, x)
        /\ \/ UNCHANGED monitor /\ Goto(t, left(x))
           \/ Accepts(g(x)) /\ \E i \in Ids : Fresh(i) /\ Call(t, m(x, i), a(x, i), left(x))
  BY DEF AddMonitor, NextId
<1>2. s.phase = "apply" /\ Tagged(s) = {} /\ Sound(s) /\ s \in Batches /\ Recalls(s, monitor) /\ link' = link
  BY <1>1, InHand DEF Ready, Providing, MemInv, AddMonitor
<1>3. x \in Things /\ e(x) \in EntriesOf[x] /\ g(x) \in SUBSET Ids
  BY <1>2, GroupOfFacts
<1>4. left(x) \in Batches
  <2>1. Sound(left(x))
    BY <1>2, <1>3, SpareSound
  <2> QED
    BY <2>1 DEF Sound
<1>5. ASSUME NEW n, Recalls(s, n) PROVE Recalls(left(x), n)
  BY <1>2, <1>5, LeftRecalls
<1>6. ASSUME NEW i \in Ids PROVE a(x, i) \in Batches
  <2> DEFINE n == Provided(s, x, i)
             f == [s.found EXCEPT ![e(x).at] = {i}, ![e(x).name] = {i}]
  <2>1. Sound(n) /\ n.found = s.found
    BY <1>2, ProvidedSound
  <2>2. f \in [Keys -> SUBSET Ids]
    BY InHand, RefoundKept
  <2>3. a(x, i) = [n EXCEPT !.found = f]
    BY <2>1 DEF Sound, Batches
  <2> HIDE DEF n, f, a
  <2> QED
    BY <2>1, <2>2, <2>3 DEF Sound, Batches
<1>7. ASSUME UNCHANGED monitor, Goto(t, left(x)) PROVE MemInv'
  <2> HIDE DEF left
  <2> QED
    BY <1>2, <1>4, <1>5, <1>7, LooksRecalls
<1>8. ASSUME Accepts(g(x)), NEW i \in Ids, Fresh(i), Call(t, m(x, i), a(x, i), left(x)) PROVE MemInv'
  <2> DEFINE k == m(x, i)
             n == Provided(s, x, i)
  <2>1. Placing(monitor, e(x).name, e(x).at, g(x))
    <3>1. g(x) \subseteq Listed(monitor) /\ e(x).name \notin Groups
      BY <1>3, <1>8, EntryKeys DEF Accepts
    <3>2. e(x).name \in NamesOf(x) /\ e(x).at \in AddressesOf(x)
      BY <1>3 DEF NamesOf, AddressesOf
    <3>3. \A p \in g(x) : monitor[p].name = Web => x \notin Devices
      BY <1>2, <1>3, <3>1, GroupOwn DEF Listed, TypeInv
    <3> QED
      BY <1>3, <3>1, <3>2, <3>3 DEF Placing
  <2>2. /\ k[i] = [name |-> e(x).name, at |-> e(x).at, parent |-> g(x)]
        /\ Succeeds(k) /\ (Apart => Placed(k)) /\ Recalls(s, k)
    <3> HIDE DEF e, g, s
    <3> QED
      BY <1>3, <1>8, <2>1, AddOn DEF s
  <2>3. Call(t, k, a(x, i), left(x))
    BY <1>8
  <2> HIDE DEF m, k
  <2>4. k[i].name = e(x).name /\ k[i].at = e(x).at
    BY <2>2
  <2>5. OwnOf(x, k[i])
    BY <1>3, <2>4 DEF OwnOf, NamesOf
  <2>6. Recalls(n, k)
    BY <1>2, <2>2, <2>5, ProvidedRecalls
  <2>7. n \in Batches
    BY <1>2, ProvidedSound DEF Sound
  <2> HIDE DEF n
  <2>8. Recalls(a(x, i), k)
    <3> HIDE DEF e
    <3> QED
      BY <2>4, <2>6, <2>7, MadeRecalls DEF n
  <2>9. Recalls(left(x), k) /\ Recalls(left(x), monitor)
    BY <1>2, <1>5, <2>2
  <2> HIDE DEF a, left
  <2> QED
    BY <1>2, <1>4, <1>6, <2>2, <2>3, <2>8, <2>9, CallRecalls
<1> QED
  BY <1>1, <1>7, <1>8

LEMMA MoveMonitorRecalls ==
  ASSUME TypeInv, MemInv, NEW t \in Threads, MoveMonitor(t)
  PROVE  MemInv'
<1> DEFINE s       == batch[t]
           g(x)    == GroupOf(s, x)
           n(x, i) == Provided(s, x, i)
           a(x, i) == [n(x, i) EXCEPT !.known[i].parent = g(x)]
<1>1. PICK x \in {y \in s.left : Ready(s, y)} : \E i \in Existing(s, x) :
        \/ UNCHANGED monitor /\ Goto(t, n(x, i))
        \/ /\ monitor[i] # NoMonitor /\ s.known[i] # NoMonitor /\ Accepts(g(x))
           /\ Call(t, [monitor EXCEPT ![i].parent = g(x)], a(x, i), n(x, i))
  BY DEF MoveMonitor
<1>2. PICK i \in Existing(s, x) :
        \/ UNCHANGED monitor /\ Goto(t, n(x, i))
        \/ /\ monitor[i] # NoMonitor /\ s.known[i] # NoMonitor /\ Accepts(g(x))
           /\ Call(t, [monitor EXCEPT ![i].parent = g(x)], a(x, i), n(x, i))
  BY <1>1
<1>3. /\ s.phase = "apply" /\ Tagged(s) = {} /\ Sound(s) /\ x \in s.left /\ s \in Batches
      /\ Recalls(s, monitor) /\ monitor \in Kuma /\ link' = link
  BY <1>1, InHand DEF Ready, Providing, MemInv, TypeInv, MoveMonitor
<1>4. x \in Things /\ s.want[x] # Absent /\ s.want[x] \in EntriesOf[x] /\ g(x) \in SUBSET Ids
  BY <1>3, GroupOfFacts
<1>5. i \in Ids
  BY <1>3, <1>4, ExistingFacts
<1>6. Sound(n(x, i)) /\ n(x, i).known = s.known /\ n(x, i) \in Batches
  <2>1. Sound(n(x, i)) /\ n(x, i).known = s.known
    BY <1>3, <1>5, ProvidedSound
  <2> QED
    BY <2>1 DEF Sound
<1>7. ASSUME NEW m \in Kuma, Recalls(s, m) PROVE Recalls(n(x, i), m)
  <2>1. m[i] # NoMonitor => OwnOf(x, m[i])
    BY <1>3, <1>4, <1>7, FoundOwn
  <2> QED
    BY <1>3, <1>5, <1>7, <2>1, ProvidedRecalls
<1>8. ASSUME UNCHANGED monitor, Goto(t, n(x, i)) PROVE MemInv'
  <2>1. Recalls(n(x, i), monitor)
    BY <1>3, <1>7
  <2> HIDE DEF n
  <2> QED
    BY <1>3, <1>6, <1>8, <2>1, LooksRecalls
<1>9. ASSUME monitor[i] # NoMonitor, s.known[i] # NoMonitor, Accepts(g(x)),
             Call(t, [monitor EXCEPT ![i].parent = g(x)], a(x, i), n(x, i))
      PROVE  MemInv'
  <2> DEFINE m == [monitor EXCEPT ![i].parent = g(x)]
             k == [s.known EXCEPT ![i].parent = g(x)]
  <2>1. Succeeds(m) /\ m \in Kuma
    BY <1>3, <1>4, <1>5, <1>9, MovedSucceeds, MovedKept
  <2>2. ASSUME Apart PROVE Placed(m)
    <3>1. /\ Bears(monitor[i], s.want[x]) /\ OwnOf(x, monitor[i]) /\ i \in Listed(monitor)
          /\ monitor[i].at = NoAddress => ~IsGroup(monitor[i])
      BY <1>3, <1>4, <1>9, FoundOwn
    <3>2. ~IsGroup(monitor[i])
      BY <2>2, <3>1 DEF MemInv, Placed
    <3>3. PICK y \in Things : monitor[i].name \in NamesOf(y) /\ monitor[i].at \in AddressesOf(y)
      BY <2>2, <3>1, <3>2 DEF MemInv, Placed
    <3>4. y = x
      BY <1>4, <2>2, <3>1, <3>3 DEF Apart, OwnOf
    <3>5. g(x) \subseteq Listed(monitor) /\ \A p \in g(x) : monitor[p].name = Web => x \notin Devices
      BY <1>3, <1>9, GroupOwn DEF Accepts, Listed
    <3>6. Placing(monitor, monitor[i].name, monitor[i].at, g(x))
      BY <3>2, <3>3, <3>4, <3>5 DEF Placing, IsGroup
    <3>7. /\ m[i] # NoMonitor /\ m[i].name = monitor[i].name /\ m[i].at = monitor[i].at /\ m[i].parent = g(x)
          /\ \A j \in Ids : j # i => m[j] = monitor[j]
      <4>1. monitor \in Kuma /\ i \in Ids /\ monitor[i] # NoMonitor /\ g(x) \in SUBSET Ids
        BY <1>3, <1>4, <1>5, <1>9
      <4>2. monitor[i] \in Monitors /\ m[i] = [monitor[i] EXCEPT !.parent = g(x)]
        BY <4>1 DEF Kuma
      <4>3. m[i].name = monitor[i].name /\ m[i].at = monitor[i].at /\ m[i].parent = g(x) /\ m[i] \in Monitors
        BY <4>1, <4>2 DEF Monitors
      <4>4. \A j \in Ids : j # i => m[j] = monitor[j]
        BY <4>1 DEF Kuma
      <4> HIDE DEF m, g
      <4> QED
        BY <4>3, <4>4, NamesAssumption
    <3> HIDE DEF m, g
    <3> QED
      BY <1>3, <1>4, <1>5, <1>9, <2>2, <3>6, <3>7, MovedPlaced DEF MemInv
  <2>3. Recalls(s, m)
    BY <1>3, <2>1, RecallsOn
  <2>4. k \in Kuma
    BY <1>3, <1>4, <1>5, <1>9, MovedKept DEF Batches, Kuma
  <2>5. a(x, i) = [n(x, i) EXCEPT !.known = k]
    BY <1>6 DEF Batches
  <2>6. Recalls(n(x, i), m) /\ Recalls(n(x, i), monitor)
    BY <1>3, <1>7, <2>1, <2>3
  <2>7. Call(t, m, a(x, i), n(x, i))
    BY <1>9
  <2> HIDE DEF a, n, m, k
  <2>8. a(x, i) \in Batches
    BY <1>6, <2>4, <2>5 DEF Batches, Kuma
  <2>9. /\ a(x, i).kind = n(x, i).kind /\ a(x, i).want = n(x, i).want /\ a(x, i).phase = n(x, i).phase
        /\ a(x, i).doomed = n(x, i).doomed /\ a(x, i).patch = n(x, i).patch /\ a(x, i).found = n(x, i).found
    BY <1>6, <2>5 DEF Batches
  <2>10. Recalls(a(x, i), m)
    BY <2>6, <2>9, RecallsAsMuch
  <2> QED
    BY <1>3, <1>6, <2>1, <2>2, <2>6, <2>7, <2>8, <2>10, CallRecalls
<1> QED
  BY <1>2, <1>8, <1>9

LEMMA RelistRecalls ==
  ASSUME TypeInv, MemInv, NEW t \in Threads, Relist(t)
  PROVE  MemInv'
<1> DEFINE s == batch[t]
           e == {i \in Listed(monitor) \ s.spared : IsGroup(monitor[i]) /\ Children(monitor, i) = {}}
           q == [s EXCEPT !.phase = "sweep", !.known = Empty, !.found = Nothing, !.spared = {}, !.bare = {},
                          !.want = Idle.want, !.links = Idle.links, !.doomed = e]
<1>1. UNCHANGED <<link, monitor>> /\ (Goto(t, q) \/ Goto(t, Returned(s))) /\ s.kind = "devices" /\ s.left = {}
  BY DEF Relist
<1>2. s \in Batches /\ Recalls(s, monitor) /\ Returned(s) \in Batches /\ Sound(s)
  BY InHand, ReturnedSound DEF MemInv, Sound
<1>3. Recalls(Returned(s), monitor)
  BY <1>2, ReturnedRecalls
<1>4. q \in Batches
  <2>1. e \in SUBSET Ids
    BY DEF Listed
  <2> HIDE DEF e
  <2> QED
    BY <1>1, <1>2, <2>1, SweepSound DEF Sound
<1>5. Recalls(q, monitor)
  <2>1. q.phase = "sweep" /\ q.found = Nothing /\ q.patch = s.patch /\ q.doomed = e
    BY <1>2 DEF Batches
  <2>2. \A i \in e : IsGroup(monitor[i])
    OBVIOUS
  <2> HIDE DEF q, e
  <2> QED
    BY <1>2, <2>1, <2>2 DEF Recalls, Nothing, Doom
<1> HIDE DEF q
<1> QED
  BY <1>1, <1>2, <1>3, <1>4, <1>5, LooksRecalls

LEMMA DropGroupRecalls ==
  ASSUME TypeInv, MemInv, NEW t \in Threads, DropGroup(t)
  PROVE  MemInv'
<1> DEFINE s    == batch[t]
           a(i) == [s EXCEPT !.doomed = @ \ {i}]
<1>1. PICK i \in s.doomed : Call(t, Without(monitor, i), a(i), Returned(s))
  BY DEF DropGroup
<1>2. s \in Batches /\ Returned(s) \in Batches /\ link' = link
  BY InHand, ReturnedSound DEF Sound, DropGroup
<1> DEFINE m == Without(monitor, i)
<1>3. Succeeds(m) /\ (Apart => Placed(m)) /\ Recalls(s, m) /\ Recalls(s, monitor)
  BY WithoutOn
<1>4. Call(t, m, a(i), Returned(s))
  BY <1>1
<1> HIDE DEF m
<1>5. Recalls(Returned(s), m) /\ Recalls(Returned(s), monitor)
  BY <1>2, <1>3, ReturnedRecalls
<1>6. a(i) \in Batches /\ Recalls(a(i), m)
  BY <1>2, <1>3, FewerRecalls
<1> HIDE DEF a
<1> QED
  BY <1>2, <1>3, <1>4, <1>5, <1>6, CallRecalls

\* A link is written that the batch is sure of.
LEMMA PatchLinkRecalls ==
  ASSUME TypeInv, MemInv, NEW t \in Threads, PatchLink(t)
  PROVE  MemInv'
<1> DEFINE s    == batch[t]
           r(d) == [s EXCEPT !.patch[d] = NoPatch]
           done(d) == IF declared[d] = Absent THEN link ELSE [link EXCEPT ![d] = s.patch[d]]
<1>1. PICK d \in Devices : Goto(t, Returned(r(d))) /\ link' \in {link, done(d)} /\ monitor' = monitor
  BY DEF PatchLink
<1>2. s \in Batches /\ Recalls(s, monitor) /\ link \in [Devices -> Links]
  BY InHand DEF MemInv, TypeInv
<1>3. r(d) \in Batches /\ Recalls(r(d), monitor)
  <2>1. r(d) \in Batches
    BY <1>2 DEF Batches
  <2>2. /\ r(d).kind = s.kind /\ r(d).want = s.want /\ r(d).phase = s.phase /\ r(d).doomed = s.doomed
        /\ r(d).found = s.found /\ \A e \in Devices : r(d).patch[e] \in {s.patch[e], NoPatch}
    BY <1>2 DEF Batches
  <2> HIDE DEF r
  <2> QED
    BY <1>2, <2>1, <2>2, RecallsOf
<1>4. Returned(r(d)) \in Batches /\ Recalls(Returned(r(d)), monitor')
  <2> HIDE DEF r
  <2> QED
    BY <1>1, <1>3, ReturnedSound, ReturnedRecalls DEF Sound
<1>5. \A e \in Devices : link'[e] = link[e] \/ link'[e] = s.patch[e]
  BY <1>1, <1>2
<1>6. LinkedToOwn'
  <2>1. ASSUME NEW e \in Devices, link'[e] \in Listed(monitor) PROVE OwnOf(e, monitor[link'[e]])
    BY <1>2, <1>5, <2>1, LinkedFacts DEF MemInv, Recalls
  <2> QED
    BY <1>1, <2>1 DEF LinkedToOwn, Listed, OwnOf
<1>7. Succeeds(monitor') /\ (Apart => Placed(monitor))'
  BY <1>1 DEF Succeeds, MemInv, Apart, NamesOf, AddressesOf, Placed, Listed, IsGroup
<1> HIDE DEF r
<1> QED
  BY <1>1, <1>4, <1>6, <1>7, GotoRecalls DEF MemInv

LEMMA AbandonRecalls ==
  ASSUME TypeInv, MemInv, NEW t \in Threads, Abandon(t)
  PROVE  MemInv'
<1> DEFINE r == [batch[t] EXCEPT !.by = "nobody"]
<1>1. UNCHANGED <<link, monitor>> /\ (Goto(t, Idle) \/ Goto(t, r))
  BY DEF Abandon
<1>2. batch[t] \in Batches /\ Recalls(batch[t], monitor)
  BY InHand DEF MemInv
<1>3. r \in Batches /\ Recalls(r, monitor)
  <2>1. r \in Batches
    BY <1>2 DEF Batches
  <2>2. /\ r.kind = batch[t].kind /\ r.want = batch[t].want /\ r.phase = batch[t].phase
        /\ r.doomed = batch[t].doomed /\ r.patch = batch[t].patch /\ r.found = batch[t].found
    BY <1>2 DEF Batches
  <2> HIDE DEF r
  <2> QED
    BY <1>2, <2>1, <2>2, RecallsAsMuch
<1>4. Idle \in Batches /\ Recalls(Idle, monitor)
  BY IdleSound, IdleRecalls DEF Sound
<1> HIDE DEF r
<1> QED
  BY <1>1, <1>3, <1>4, LooksRecalls

LEMMA AbortRecalls ==
  ASSUME TypeInv, MemInv, NEW t \in Threads, Abort(t)
  PROVE  MemInv'
<1>1. Idle \in Batches /\ Recalls(Idle, monitor)
  BY IdleSound, IdleRecalls DEF Sound
<1> QED
  BY <1>1, LooksRecalls DEF Abort

LEMMA FetchRecalls ==
  ASSUME TypeInv, MemInv, NEW t \in Threads, NEW kind \in Kinds, NEW by, Fetch(t, kind, by)
  PROVE  MemInv'
<1> DEFINE new   == [Idle EXCEPT !.phase = "list", !.kind = kind, !.by = by]
           want  == [x \in Things |-> IF x \in Mine(new) THEN declared[x] ELSE Absent]
           alone == kind = "services" /\ \A u \in Threads : batch[u].phase = "idle"
           begun == [new EXCEPT !.want = want, !.links = IF kind = "devices" THEN link ELSE @,
                                !.left = {x \in Mine(new) : want[x] # Absent},
                                !.alone = alone]
<1>1. batch' = [u \in Threads |-> IF u = t THEN begun ELSE [batch[u] EXCEPT !.alone = FALSE]]
  BY DEF Fetch
<1>2. UNCHANGED <<link, monitor>>
  BY DEF Fetch
<1>3. Recalls(begun, monitor)
  <2>1. begun.found = Idle.found /\ begun.patch = Idle.patch /\ begun.doomed = Idle.doomed
    BY DEF Idle
  <2> HIDE DEF begun
  <2>2. begun.found = Nothing /\ begun.doomed = {} /\ \A d \in Devices : begun.patch[d] = NoPatch
    BY <2>1 DEF Idle
  <2> QED
    BY <2>2, NamesAssumption DEF Recalls, Nothing, Listed, Links
<1>4. ASSUME NEW u \in Threads PROVE Recalls([batch[u] EXCEPT !.alone = FALSE], monitor)
  <2> DEFINE r == [batch[u] EXCEPT !.alone = FALSE]
  <2>1. batch[u] \in Batches /\ Recalls(batch[u], monitor)
    BY InHand DEF MemInv
  <2>2. /\ r.kind = batch[u].kind /\ r.want = batch[u].want /\ r.phase = batch[u].phase
        /\ r.doomed = batch[u].doomed /\ r.patch = batch[u].patch /\ r.found = batch[u].found
    BY <2>1 DEF Batches
  <2> HIDE DEF r
  <2>3. Recalls(r, monitor)
    BY <2>1, <2>2, RecallsAsMuch
  <2> QED
    BY <2>3 DEF r
<1> HIDE DEF begun
<1>5. \A u \in Threads : Recalls(batch'[u], monitor')
  BY <1>1, <1>2, <1>3, <1>4
<1>6. LinkedToOwn' /\ (Apart => Placed(monitor))'
  BY <1>2 DEF MemInv, LinkedToOwn, Listed, Apart, NamesOf, AddressesOf, Placed, IsGroup
<1> QED
  BY <1>5, <1>6 DEF MemInv

LEMMA DeclareRecalls ==
  ASSUME TypeInv, MemInv, NEW x \in Things, Declare(x)
  PROVE  MemInv'
<1>1. UNCHANGED <<monitor, batch>> /\ link' \in {link, [link EXCEPT ![x] = NoLink]}
  BY DEF Declare
<1>2. \A d \in Devices : link'[d] \in {link[d], NoLink}
  BY <1>1 DEF TypeInv
<1>3. LinkedToOwn'
  <2>1. ASSUME NEW d \in Devices, link'[d] \in Listed(monitor) PROVE OwnOf(d, monitor[link'[d]])
    BY <1>2, <2>1, NamesAssumption, LinkedFacts DEF MemInv, Listed
  <2> QED
    BY <1>1, <2>1 DEF LinkedToOwn, Listed, OwnOf
<1>4. (Apart => Placed(monitor))' /\ (\A t \in Threads : Recalls(batch[t], monitor))'
  BY <1>1 DEF MemInv, Apart, NamesOf, AddressesOf, Placed, Listed, IsGroup
<1> QED
  BY <1>3, <1>4 DEF MemInv

LEMMA StepRecalls ==
  ASSUME TypeInv, MemInv, NEW t \in Threads, Step(t)
  PROVE  MemInv'
BY ListRecalls, AddWebGroupRecalls, DeleteRecalls, DropTaggedRecalls, AddSiteGroupRecalls, AddMonitorRecalls,
   MoveMonitorRecalls, RelistRecalls, DropGroupRecalls, PatchLinkRecalls DEF Step

LEMMA NextRecalls ==
  ASSUME TypeInv, MemInv, [Next]_vars
  PROVE  MemInv'
<1>1. CASE \E x \in Things : Declare(x)
  BY <1>1, DeclareRecalls
<1>2. ASSUME NEW kind \in Kinds, Schedule(kind) PROVE MemInv'
  BY <1>2, FetchRecalls DEF Schedule
<1>3. ASSUME NEW t \in Threads, NEW kind \in Kinds, Ask(t, kind) PROVE MemInv'
  BY <1>3, FetchRecalls DEF Ask
<1>4. ASSUME NEW t \in Threads, Step(t) \/ Abandon(t) \/ Abort(t) PROVE MemInv'
  BY <1>4, StepRecalls, AbandonRecalls, AbortRecalls
<1>5. CASE UNCHANGED vars
  <2>1. monitor' = monitor /\ batch' = batch /\ link' = link
    BY <1>5 DEF vars
  <2>2. LinkedToOwn' /\ (Apart => Placed(monitor))'
    BY <2>1 DEF MemInv, LinkedToOwn, Listed, Apart, NamesOf, AddressesOf, Placed, IsGroup
  <2>3. (\A t \in Threads : Recalls(batch[t], monitor))'
    BY <2>1 DEF MemInv
  <2> QED
    BY <2>2, <2>3 DEF MemInv
<1> QED
  BY <1>1, <1>2, <1>3, <1>4, <1>5 DEF Next

LEMMA InitRecalls == Init => MemInv
<1> SUFFICES ASSUME Init PROVE MemInv
  OBVIOUS
<1>1. LinkedToOwn
  BY NamesAssumption DEF Init, LinkedToOwn, Listed
<1>2. \A t \in Threads : batch[t] = Idle
  BY DEF Init
<1>3. Placed(monitor)
  BY DEF Init, Placed, Listed, Empty
<1> QED
  BY <1>1, <1>2, <1>3, IdleRecalls DEF MemInv

\* However the batches of any number of threads overlap, fail, are given up or cut
\* off, however late a link is written, and whatever names and addresses things change
\* or share, a device is linked to a monitor of a name or an address of its own or to one
\* that is gone (LinkedToOwn).
THEOREM OwnLinks == Spec => []LinkedToOwn
<1>1. Init => TypeInv /\ MemInv
  BY InitTyped, InitRecalls
<1>2. TypeInv /\ MemInv /\ [Next]_vars => (TypeInv /\ MemInv)'
  BY NextTyped, NextRecalls
<1>3. TypeInv /\ MemInv => LinkedToOwn
  BY DEF MemInv
<1> QED
  BY <1>1, <1>2, <1>3, PTL DEF Spec

-----------------------------------------------------------------------------
(* What is deleted *)

\* Batch s deletes monitor n for a good reason.
Reason(s, n) ==
  IF s.phase = "sweep" THEN IsGroup(n)
  ELSE /\ n.at \in UNION {AddressesOf(x) : x \in Mine(s)}
       /\ \A x \in Mine(s) : Monitored(s.want[x]) => ~Bears(n, s.want[x])

\* The body of SparesWanted.
Spares ==
  \A i \in Ids : monitor[i] # NoMonitor /\ monitor'[i] = NoMonitor =>
    \E t \in Threads :
      LET s == batch[t] IN
      /\ batch'[t] # s
      /\ IF s.phase = "sweep" THEN IsGroup(monitor[i])
         ELSE /\ monitor[i].at \in UNION {AddressesOf(x) : x \in Mine(s)}
              /\ \A x \in Mine(s) : Monitored(s.want[x]) => ~Bears(monitor[i], s.want[x])

LEMMA KeptSpares ==
  ASSUME \A i \in Ids : monitor[i] # NoMonitor => monitor'[i] # NoMonitor
  PROVE  Spares
BY DEF Spares

LEMMA OnlyWithout ==
  ASSUME monitor \in Kuma, NEW i, NEW k \in Ids, monitor[k] # NoMonitor, Without(monitor, i)[k] = NoMonitor
  PROVE  k = i
<1>1. ASSUME k \in Children(monitor, i), k # i PROVE FALSE
  <2>1. monitor[k] \in Monitors
    BY DEF Kuma
  <2>2. [monitor[k] EXCEPT !.parent = {}] \in Monitors
    BY <2>1 DEF Monitors
  <2>3. Without(monitor, i)[k] = [monitor[k] EXCEPT !.parent = {}]
    BY <1>1 DEF Without
  <2> QED
    BY <2>2, <2>3, NamesAssumption
<1> QED
  BY <1>1 DEF Without

\* Of the steps that delete, each deletes one monitor and goes on.
LEMMA OneSpares ==
  ASSUME TypeInv, NEW t \in Threads, NEW i, monitor' \in {monitor, Without(monitor, i)},
         batch'[t] # batch[t], i \in Ids /\ monitor[i] # NoMonitor => Reason(batch[t], monitor[i])
  PROVE  Spares
<1>1. \A k \in Ids : monitor[k] # NoMonitor /\ monitor'[k] = NoMonitor => k = i
  BY OnlyWithout DEF TypeInv
<1>2. \A k \in Ids : monitor[k] # NoMonitor /\ monitor'[k] = NoMonitor =>
        batch'[t] # batch[t] /\ Reason(batch[t], monitor[k])
  BY <1>1
<1> QED
  BY <1>2 DEF Spares, Reason

LEMMA GotoForgets ==
  ASSUME TypeInv, NEW t \in Threads, NEW s, Goto(t, s), NEW i
  PROVE  /\ i \notin s.doomed => i \notin batch'[t].doomed
         /\ i \notin s.left => i \notin batch'[t].left
<1>1. Idle.doomed = {} /\ Returned(s).doomed = {} /\ Idle.left = {} /\ Returned(s).left = {}
  BY DEF Returned, Idle
<1>2. batch'[t] \in {Idle, Returned(s), s}
  BY DEF Goto, TypeInv, BatchesInv
<1> QED
  BY <1>1, <1>2

LEMMA DoomReason ==
  ASSUME TypeInv, MemInv, Apart, NEW t \in Threads, NEW i \in batch[t].doomed, monitor[i] # NoMonitor
  PROVE  Reason(batch[t], monitor[i])
<1>1. Doom(batch[t], monitor[i])
  BY DEF MemInv, Recalls
<1> QED
  BY <1>1 DEF Doom, Reason, Monitored

LEMMA DeleteSpares ==
  ASSUME TypeInv, MemInv, Apart, NEW t \in Threads, Delete(t)
  PROVE  Spares
<1> DEFINE s       == batch[t]
           next(i) == [s EXCEPT !.doomed = @ \ {i}]
<1>1. PICK i \in s.doomed : Call(t, Without(monitor, i), next(i), next(i))
  BY DEF Delete
<1>2. i \notin next(i).doomed
  BY InHand DEF Batches
<1> HIDE DEF next
<1>3. Goto(t, next(i)) /\ monitor' \in {monitor, Without(monitor, i)}
  BY <1>1 DEF Call
<1>4. batch'[t] # s
  BY <1>2, <1>3, GotoForgets
<1> QED
  BY <1>3, <1>4, DoomReason, OneSpares

LEMMA DropGroupSpares ==
  ASSUME TypeInv, MemInv, Apart, NEW t \in Threads, DropGroup(t)
  PROVE  Spares
<1> DEFINE s    == batch[t]
           a(i) == [s EXCEPT !.doomed = @ \ {i}]
<1>1. PICK i \in s.doomed : Call(t, Without(monitor, i), a(i), Returned(s))
  BY DEF DropGroup
<1>2. i \notin Returned(s).doomed /\ i \notin a(i).doomed
  BY InHand DEF Batches, Returned, Idle
<1> HIDE DEF a
<1>3. (Goto(t, a(i)) \/ Goto(t, Returned(s))) /\ monitor' \in {monitor, Without(monitor, i)}
  BY <1>1 DEF Call
<1>4. batch'[t] # s
  BY <1>2, <1>3, GotoForgets
<1> QED
  BY <1>3, <1>4, DoomReason, OneSpares

\* What a batch finds for a tagged thing is that thing's and nobody else's.
LEMMA TaggedReason ==
  ASSUME TypeInv, MemInv, Apart, NEW t \in Threads, batch[t].phase = "apply",
         NEW x \in Tagged(batch[t]), NEW i \in Existing(batch[t], x), monitor[i] # NoMonitor
  PROVE  Reason(batch[t], monitor[i])
<1> DEFINE s == batch[t]
<1>1. x \in s.left /\ s.want[x].group = Excluded /\ Sound(s) /\ Recalls(s, monitor) /\ monitor \in Kuma
  BY InHand DEF Tagged, MemInv, TypeInv
<1>2. x \in Things /\ x \in Mine(s) /\ s.want[x] # Absent
  BY <1>1 DEF Sound, Batches
<1>3. /\ OwnOf(x, monitor[i]) /\ i \in Listed(monitor)
      /\ monitor[i].at = NoAddress => ~IsGroup(monitor[i])
  BY <1>1, <1>2, FoundOwn
<1>4. ~IsGroup(monitor[i])
  BY <1>3 DEF MemInv, Placed
<1>5. PICK y \in Things : monitor[i].name \in NamesOf(y) /\ monitor[i].at \in AddressesOf(y)
  BY <1>3, <1>4 DEF MemInv, Placed
<1>6. y = x
  BY <1>2, <1>3, <1>5 DEF Apart, OwnOf
<1>7. ASSUME NEW z \in Mine(s), Monitored(s.want[z]), Bears(monitor[i], s.want[z]) PROVE FALSE
  <2>1. z \in Things /\ s.want[z] \in EntriesOf[z] /\ z # x
    BY <1>1, <1>7, NamesAssumption DEF Sound, Said, Mine, Things, Monitored
  <2>2. s.want[z].name \in NamesOf(z) /\ s.want[z].at \in AddressesOf(z)
    BY <2>1 DEF NamesOf, AddressesOf
  <2> QED
    BY <1>2, <1>5, <1>6, <1>7, <2>1, <2>2 DEF Bears, Apart
<1> QED
  BY <1>2, <1>5, <1>6, <1>7 DEF Reason

LEMMA DropTaggedSpares ==
  ASSUME TypeInv, MemInv, Apart, NEW t \in Threads, DropTagged(t)
  PROVE  Spares
<1> DEFINE s       == batch[t]
           next(x) == [s EXCEPT !.left = @ \ {x}]
<1>1. PICK x \in Tagged(s) :
        \/ UNCHANGED monitor
        \/ \E i \in Existing(s, x) : Call(t, Without(monitor, i), Untagged(next(x), x), next(x))
  BY DEF DropTagged
<1>2. s.phase = "apply" /\ x \in s.left /\ x \notin next(x).left /\ x \notin Untagged(next(x), x).left
  BY InHand DEF DropTagged, Tagged, Batches, Untagged
<1> HIDE DEF next
<1>3. CASE UNCHANGED monitor
  BY <1>3, KeptSpares
<1>4. ASSUME NEW i \in Existing(s, x), Call(t, Without(monitor, i), Untagged(next(x), x), next(x))
      PROVE  Spares
  <2>1. (Goto(t, Untagged(next(x), x)) \/ Goto(t, next(x))) /\ monitor' \in {monitor, Without(monitor, i)}
    BY <1>4 DEF Call
  <2>2. batch'[t] # s
    BY <1>2, <2>1, GotoForgets
  <2>3. monitor[i] # NoMonitor => Reason(s, monitor[i])
    BY <1>2, TaggedReason
  <2> QED
    BY <2>1, <2>2, <2>3, OneSpares
<1> QED
  BY <1>1, <1>3, <1>4

LEMMA AddedSpares ==
  ASSUME TypeInv, NEW i \in Ids, Fresh(i), NEW name, NEW at, NEW g,
         monitor' \in {monitor, Add(monitor, i, name, at, g)}
  PROVE  Spares
<1>1. ASSUME NEW k \in Ids, monitor[k] # NoMonitor PROVE monitor'[k] # NoMonitor
  BY <1>1 DEF Add, Fresh, TypeInv, Kuma
<1> QED
  BY <1>1, KeptSpares

LEMMA MovedSpares ==
  ASSUME TypeInv, NEW i \in Ids, monitor[i] # NoMonitor, NEW g \in SUBSET Ids,
         monitor' \in {monitor, [monitor EXCEPT ![i].parent = g]}
  PROVE  Spares
<1>1. [monitor[i] EXCEPT !.parent = g] # NoMonitor
  <2>1. monitor[i] \in Monitors
    BY DEF TypeInv, Kuma
  <2>2. [monitor[i] EXCEPT !.parent = g] \in Monitors
    BY <2>1 DEF Monitors
  <2> QED
    BY <2>2, NamesAssumption
<1>2. ASSUME NEW k \in Ids, monitor[k] # NoMonitor PROVE monitor'[k] # NoMonitor
  BY <1>1, <1>2 DEF TypeInv, Kuma
<1> QED
  BY <1>2, KeptSpares

LEMMA AddMonitorSpares ==
  ASSUME TypeInv, NEW t \in Threads, AddMonitor(t)
  PROVE  Spares
<1> DEFINE s    == batch[t]
           g(x) == GroupOf(s, x)
<1>1. PICK x \in s.left :
        \/ monitor' = monitor
        \/ \E i \in Ids : Fresh(i) /\ monitor' \in {monitor, Add(monitor, i, s.want[x].name, s.want[x].at, g(x))}
  BY DEF AddMonitor, NextId, Call
<1> QED
  BY <1>1, KeptSpares, AddedSpares

LEMMA MoveMonitorSpares ==
  ASSUME TypeInv, NEW t \in Threads, MoveMonitor(t)
  PROVE  Spares
<1> DEFINE s    == batch[t]
           g(x) == GroupOf(s, x)
<1>1. PICK x \in {y \in s.left : Ready(s, y)} : \E i \in Existing(s, x) :
        \/ monitor' = monitor
        \/ monitor[i] # NoMonitor /\ monitor' \in {monitor, [monitor EXCEPT ![i].parent = g(x)]}
  BY DEF MoveMonitor, Call
<1>2. PICK i \in Existing(s, x) :
        \/ monitor' = monitor
        \/ monitor[i] # NoMonitor /\ monitor' \in {monitor, [monitor EXCEPT ![i].parent = g(x)]}
  BY <1>1
<1>3. Sound(s) /\ x \in s.left /\ Tagged(s) = {}
  BY <1>1, InHand DEF Ready, Providing
<1>4. g(x) \in SUBSET Ids /\ x \in Things /\ s.want[x] # Absent
  BY <1>3, GroupOfFacts
<1>5. i \in Ids
  BY <1>3, <1>4, ExistingFacts
<1> QED
  BY <1>2, <1>4, <1>5, KeptSpares, MovedSpares

LEMMA StepSpares ==
  ASSUME TypeInv, MemInv, Apart, NEW t \in Threads, Step(t)
  PROVE  Spares
<1>1. ASSUME monitor' = monitor PROVE Spares
  BY <1>1, KeptSpares
<1>2. CASE List(t) \/ Relist(t) \/ PatchLink(t)
  BY <1>1, <1>2 DEF List, Relist, PatchLink
<1>3. CASE AddWebGroup(t)
  <2>1. PICK i \in Ids : Fresh(i) /\ monitor' \in {monitor, Add(monitor, i, Web, NoAddress, {})}
    BY <1>3 DEF AddWebGroup, NextId, Call
  <2> QED
    BY <2>1, AddedSpares
<1>4. CASE AddSiteGroup(t)
  <2>1. PICK d \in Devices, i \in Ids :
          Fresh(i) /\ monitor' \in {monitor, Add(monitor, i, batch[t].want[d].group, NoAddress, {})}
    BY <1>4 DEF AddSiteGroup, NextId, Call
  <2> QED
    BY <2>1, AddedSpares
<1>5. CASE Delete(t) \/ DropGroup(t) \/ DropTagged(t)
  BY <1>5, DeleteSpares, DropGroupSpares, DropTaggedSpares
<1>6. CASE AddMonitor(t) \/ MoveMonitor(t)
  BY <1>6, AddMonitorSpares, MoveMonitorSpares
<1> QED
  BY <1>2, <1>3, <1>4, <1>5, <1>6 DEF Step

LEMMA NextSpares ==
  ASSUME TypeInv, MemInv, Apart, Next
  PROVE  Spares
<1>1. ASSUME monitor' = monitor PROVE Spares
  BY <1>1, KeptSpares
<1>2. CASE \E x \in Things : Declare(x)
  BY <1>1, <1>2 DEF Declare
<1>3. CASE \E kind \in Kinds : Schedule(kind)
  BY <1>1, <1>3 DEF Schedule, Fetch
<1>4. CASE \E t \in Threads, kind \in Kinds : Ask(t, kind)
  BY <1>1, <1>4 DEF Ask, Fetch
<1>5. ASSUME NEW t \in Threads, Step(t) \/ Abandon(t) \/ Abort(t) PROVE Spares
  BY <1>1, <1>5, StepSpares DEF Abandon, Abort
<1> QED
  BY <1>2, <1>3, <1>4, <1>5 DEF Next

\* As long as no two things share a name or an address: whatever a batch found,
\* remembered and was told by Kuma, it deletes only what is of its own kind and what its
\* own listing of NetBox does not call for (SparesWanted).
THEOREM WantedSpared ==
  ASSUME Apart
  PROVE  Spec => SparesWanted
<1>1. Init => TypeInv /\ MemInv
  BY InitTyped, InitRecalls
<1>2. TypeInv /\ MemInv /\ [Next]_vars => (TypeInv /\ MemInv)'
  BY NextTyped, NextRecalls
<1>3. TypeInv /\ MemInv /\ [Next]_vars => [Spares]_vars
  BY NextSpares
<1> QED
  BY <1>1, <1>2, <1>3, PTL DEF Spec, SparesWanted, Spares
=============================================================================
