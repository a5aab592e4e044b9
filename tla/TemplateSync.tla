----------------------------- MODULE TemplateSync -----------------------------
(***************************************************************************)
(* app/drivers/template_sync.py, sync_all_templates: Proxmox's templates   *)
(* are mirrored as platforms in NetBox, and a platform whose template is   *)
(* gone is deleted, or marked while machines use it.  The periodic task,   *)
(* the pass at startup and POST /sync/platforms all run it, and nothing    *)
(* keeps them apart; each await is a step.                                 *)
(***************************************************************************)
EXTENDS Naturals, FiniteSets

CONSTANTS
  Machines,    \* templates that are virtual machines
  Containers,  \* templates that are archives for containers
  TitleOf,     \* what a template's platform is called: its name, and its slug
  Nodes,       \* Proxmox's nodes
  On,          \* the templates each of them shows; an archive on shared storage, several
  Home,        \* the node taken when none is asked for (resolve_node)
  NoNode,      \* a pass that is about no node in particular
  Scheduler,   \* the periodic task
  Requests,    \* handlers of POST /sync/platforms, and the pass at startup
  LastId,      \* NetBox's platform ids are 1..LastId
  NoPlatform,
  ByHand,      \* in place of the template: people made it
  HandTitles,  \* what people may call a platform they make
  MaxEdits,    \* changes and requests made by people
  MaxFaults    \* requests that fail, and interruptions

Templates == Machines \cup Containers
Callers   == Requests \cup {Scheduler}
Ids       == 1..LastId
Titles    == {TitleOf[t] : t \in Templates} \cup HandTitles

\* of: the template named in the description; a deprecated platform's name and
\* description say so, which is undone when the template returns; used: machines
\* refer to it.
Platforms == [slug : Titles, name : Titles, of : Templates \cup {ByHand}, deprecated : BOOLEAN, used : BOOLEAN]

ASSUME BoundsAssumption == LastId \in Nat /\ MaxEdits \in Nat /\ MaxFaults \in Nat
ASSUME NamesAssumption ==
  /\ Machines \cap Containers = {} /\ DOMAIN TitleOf = Templates
  /\ On \in [Nodes -> SUBSET Templates] /\ Home \in Nodes /\ NoNode \notin Nodes
  /\ Scheduler \notin Requests /\ ByHand \notin Templates /\ NoPlatform \notin Platforms

VARIABLES
  present,   \* Proxmox: the templates there are
  platform,  \* NetBox
  sync,      \* the passes
  edits, faults

vars == <<present, platform, sync, edits, faults>>

Empty == [i \in Ids |-> NoPlatform]

\* A pass: the node it is about, the templates it found and those it has still to
\* write, and the platforms it listed, less those it has dealt with.
Idle == [phase |-> "idle", node |-> NoNode, found |-> {}, todo |-> {}, listing |-> Empty]

Init ==
  /\ present \in SUBSET Templates
  /\ platform = Empty
  /\ sync = [c \in Callers |-> Idle]
  /\ edits = 0 /\ faults = 0

Works == UNCHANGED faults
Fails == faults < MaxFaults /\ faults' = faults + 1

\* NetBox never hands an id out twice: one that no pass remembers.
Fresh(i)  == platform[i] = NoPlatform /\ \A c \in Callers : sync[c].listing[i] = NoPlatform
NextId(i) == Fresh(i) /\ \A k \in 1..(i - 1) : ~Fresh(k)

\* Slugs and names are unique in NetBox; a deprecated platform has another name.
Holds(i, title) == platform[i] # NoPlatform /\ platform[i].name = title /\ ~platform[i].deprecated
Taken(title) == \E i \in Ids : Holds(i, title) \/ (platform[i] # NoPlatform /\ platform[i].slug = title)

-----------------------------------------------------------------------------
(* People *)

EditCounted == edits < MaxEdits /\ edits' = edits + 1

\* A template is added to Proxmox or removed.
EditTemplate(t) ==
  /\ EditCounted
  /\ present' = IF t \in present THEN present \ {t} ELSE present \cup {t}
  /\ UNCHANGED <<platform, sync, faults>>

CreateByHand(i) ==
  /\ EditCounted /\ NextId(i)
  /\ \E title \in HandTitles :
       /\ ~Taken(title)
       /\ platform' = [platform EXCEPT ![i] =
            [slug |-> title, name |-> title, of |-> ByHand, deprecated |-> FALSE, used |-> FALSE]]
  /\ UNCHANGED <<present, sync, faults>>

\* A machine takes a platform, or the last one leaves it.
Use(i) ==
  /\ EditCounted /\ platform[i] # NoPlatform
  /\ platform' = [platform EXCEPT ![i].used = ~@]
  /\ UNCHANGED <<present, sync, faults>>

People == (\E t \in Templates : EditTemplate(t)) \/ (\E i \in Ids : CreateByHand(i) \/ Use(i))

-----------------------------------------------------------------------------
(* A pass *)

Goto(c, s) == sync' = [sync EXCEPT ![c] = s]

\* Machines are looked for on every node, archives on the default one, unless the pass
\* is about one node (list_templates, discover_ct_templates).
Visible(kind, node) ==
  present \cap kind \cap (IF node # NoNode THEN On[node]
                         ELSE IF kind = Machines THEN Templates ELSE On[Home])

\* A node or a storage that does not answer is left out; for one that is off line
\* resolve_node takes another.
Answers(kind, node, seen) ==
  \/ Works /\ seen = Visible(kind, node)
  \/ Fails /\ seen \subseteq Visible(kind, node)
  \/ Fails /\ \E other \in Nodes : seen = Visible(kind, other)

\* A pass is about no node, or by request about one; the machines come first.
Begin(c) ==
  /\ sync[c].phase = "idle"
  /\ IF c = Scheduler THEN UNCHANGED edits ELSE EditCounted
  /\ \E node \in {NoNode} \cup (IF c = Scheduler THEN {} ELSE Nodes), seen \in SUBSET Machines :
       /\ Answers(Machines, node, seen)
       /\ Goto(c, [Idle EXCEPT !.phase = "containers", !.node = node, !.found = seen])
  /\ UNCHANGED <<present, platform>>

DiscoverContainers(c) ==
  LET s == sync[c] IN
  /\ s.phase = "containers"
  /\ \E seen \in SUBSET Containers :
       /\ Answers(Containers, s.node, seen)
       /\ Goto(c, [s EXCEPT !.phase = "list", !.node = NoNode, !.found = @ \cup seen])
  /\ UNCHANGED <<present, platform, edits>>

\* get_platforms: a request that fails counts as no platforms at all.
GetPlatforms(listing) ==
  \/ Works /\ listing = platform
  \/ Fails /\ listing = Empty

List(c) ==
  LET s == sync[c] IN
  /\ s.phase = "list"
  /\ \E listing \in {platform, Empty} :
       /\ GetPlatforms(listing)
       /\ Goto(c, [s EXCEPT !.phase = "apply", !.todo = s.found, !.listing = listing])
  /\ UNCHANGED <<present, platform, edits>>

Listed(s) == {i \in Ids : s.listing[i] # NoPlatform}

\* Mutant: only the template in the description counts.
ExistingDescribed(s, t) == {i \in Listed(s) : s.listing[i].of = t}

\* By the template in the description, or else by slug, or else by name.
Existing(s, t) ==
  LET byTemplate == {i \in Listed(s) : s.listing[i].of = t}
      bySlug     == {i \in Listed(s) : s.listing[i].slug = TitleOf[t]}
      byName     == {i \in Listed(s) : s.listing[i].name = TitleOf[t]}
  IN  IF byTemplate # {} THEN byTemplate ELSE IF bySlug # {} THEN bySlug ELSE byName

\* The machines are written before the containers.
Due(s) == IF s.todo \cap Machines # {} THEN s.todo \cap Machines ELSE s.todo

\* A request that makes the platforms become v: it is answered, it fails (which is
\* only logged), or it is cut off together with the pass, carried out or not.
Request(c, v, next) ==
  \/ Works /\ platform' = v /\ Goto(c, next)
  \/ Fails /\ UNCHANGED platform /\ Goto(c, next)
  \/ Fails /\ platform' \in {platform, v} /\ Goto(c, Idle)

\* NetBox answers 400 or 404, or there is nothing to ask.
Refused(c, next) == Works /\ UNCHANGED platform /\ Goto(c, next)

Create(c) ==
  LET s == sync[c] IN
  /\ s.phase = "apply"
  /\ \E t \in Due(s), i \in Ids :
       LET next == [s EXCEPT !.todo = @ \ {t}]
           new  == [slug |-> TitleOf[t], name |-> TitleOf[t], of |-> t, deprecated |-> FALSE, used |-> FALSE]
       IN  /\ Existing(s, t) = {} /\ NextId(i)
           /\ IF Taken(TitleOf[t]) THEN Refused(c, next)
              ELSE Request(c, [platform EXCEPT ![i] = new], next)
  /\ UNCHANGED <<present, edits>>

\* What the PATCH of a template that is there makes of a platform; the slug stays.
Restored(p, t) == [p EXCEPT !.name = TitleOf[t], !.of = t, !.deprecated = FALSE]

Update(c) ==
  LET s == sync[c] IN
  /\ s.phase = "apply"
  /\ \E t \in Due(s) : \E i \in Existing(s, t) :
       LET next == [s EXCEPT !.todo = @ \ {t}]
           as   == Restored(platform[i], t)
       IN  IF \/ s.listing[i] = Restored(s.listing[i], t) \/ platform[i] = NoPlatform
              \/ \E k \in Ids \ {i} : Holds(k, TitleOf[t])
           THEN Refused(c, next)
           ELSE Request(c, [platform EXCEPT ![i] = as], next)
  /\ UNCHANGED <<present, edits>>

\* The platforms are listed again before the ones without a template are dealt with.
Relist(c) ==
  LET s == sync[c] IN
  /\ s.phase = "apply" /\ s.todo = {}
  /\ \E listing \in {platform, Empty} :
       /\ GetPlatforms(listing)
       /\ Goto(c, [s EXCEPT !.phase = "prune", !.listing = listing])
  /\ UNCHANGED <<present, platform, edits>>

\* Mutant: whatever has no template that was found.
OrphansOfAny(s) == {i \in Listed(s) : s.listing[i].of \notin s.found}

\* Platforms whose template was not found, but for those that say so already.
Orphans(s) ==
  {i \in Listed(s) : /\ s.listing[i].of \in Templates \ s.found
                     /\ s.listing[i].deprecated => ~s.listing[i].used}

\* The name is written as it was listed, with the mark.
Deprecated(p, was) == [p EXCEPT !.name = was.name, !.of = was.of, !.deprecated = TRUE]

\* Whether a platform is used was decided by the listing.
Prune(c) ==
  LET s == sync[c] IN
  /\ s.phase = "prune"
  /\ \E i \in Orphans(s) :
       LET next == [s EXCEPT !.listing[i] = NoPlatform]
           was  == s.listing[i]
       IN  IF platform[i] = NoPlatform THEN Refused(c, next)
           ELSE IF ~was.used THEN Request(c, [platform EXCEPT ![i] = NoPlatform], next)
           ELSE IF \E k \in Ids \ {i} : /\ platform[k] # NoPlatform
                                        /\ platform[k].name = was.name /\ platform[k].deprecated
                THEN Refused(c, next)
           ELSE Request(c, [platform EXCEPT ![i] = Deprecated(platform[i], was)], next)
  /\ UNCHANGED <<present, edits>>

\* Mutant: what a pass found outlives it.
FinishKeeps(c) ==
  /\ sync[c].phase = "prune" /\ Orphans(sync[c]) = {}
  /\ Works /\ Goto(c, [sync[c] EXCEPT !.phase = "idle"])
  /\ UNCHANGED <<present, platform, edits>>

Finish(c) ==
  /\ sync[c].phase = "prune" /\ Orphans(sync[c]) = {}
  /\ Works /\ Goto(c, Idle)
  /\ UNCHANGED <<present, platform, edits>>

\* No Proxmox node answers at all, or wait_for cancels the pass after 180 s.
Abort(c) ==
  /\ sync[c].phase # "idle" /\ Fails
  /\ Goto(c, Idle)
  /\ UNCHANGED <<present, platform, edits>>

-----------------------------------------------------------------------------

Pass(c) == DiscoverContainers(c) \/ List(c) \/ Create(c) \/ Update(c) \/ Relist(c) \/ Prune(c) \/ Finish(c)

Next ==
  \/ People
  \/ \E c \in Callers : Begin(c) \/ Pass(c) \/ Abort(c)

\* A pass that has begun goes on, its requests being answered or timing out,
\* and the scheduler begins another one.
Fairness == WF_vars(Begin(Scheduler)) /\ \A c \in Callers : WF_vars(Pass(c))

Spec == Init /\ [][Next]_vars /\ Fairness

-----------------------------------------------------------------------------

Passes == [phase : {"idle", "containers", "list", "apply", "prune"}, node : Nodes \cup {NoNode},
           found : SUBSET Templates, todo : SUBSET Templates, listing : [Ids -> Platforms \cup {NoPlatform}]]

\* Every variable has its type; a pass writes only templates it found itself, and
\* leaves nothing to the next one (sync_all_templates' local variables).
TypeOK ==
  /\ present \subseteq Templates
  /\ platform \in [Ids -> Platforms \cup {NoPlatform}]
  /\ sync \in [Callers -> Passes]
  /\ \A c \in Callers :
       /\ sync[c].todo \subseteq sync[c].found
       /\ sync[c].phase = "idle" => sync[c] = Idle
  /\ edits \in 0..MaxEdits /\ faults \in 0..MaxFaults

\* No pass deletes or marks a platform that people made and that none has taken over
\* for a template of the same title, however old its listing is (sync_all_templates,
\* which goes by the description).
HandMadeKept ==
  [][\A i \in Ids : platform[i] # NoPlatform /\ platform[i].of = ByHand =>
       platform'[i] # NoPlatform /\ ~platform'[i].deprecated]_vars

\* What a pass about no node looks for: the archives of other nodes are left out.
Scheduled == present \cap (Machines \cup On[Home])

\* Each template the schedule looks for has a platform of its title (shared with the
\* other archives of the same title), and a platform that names any other template,
\* gone or on another node, is marked and in use.
Mirrored ==
  /\ \A t \in Scheduled : \E i \in Ids :
       Holds(i, TitleOf[t]) /\ platform[i].of \in Scheduled /\ TitleOf[platform[i].of] = TitleOf[t]
  /\ \A i \in Ids : platform[i] # NoPlatform /\ platform[i].of \in Templates \ Scheduled =>
       platform[i].deprecated /\ platform[i].used

\* However passes overlap, are about one node only, fail or are cut off, the
\* platforms end up as the templates the schedule looks for and stay so
\* (sync_all_templates: registers or updates, deletes if no machine uses it, marks if
\* one does).
Converges == <>[]Mirrored
=============================================================================
