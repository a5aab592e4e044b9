------------------------- MODULE TemplateSync_proofs -------------------------
(***************************************************************************)
(* Type correctness of the platforms' synchronisation: NetBox holds only   *)
(* platforms that people or templates account for, and a pass writes only  *)
(* what it found itself and leaves nothing to the next one; and the        *)
(* platforms that people made stand.                                       *)
(***************************************************************************)
EXTENDS TemplateSync, TLAPS

USE DEF Works, Fails

\* What TypeOK says of one pass.
WellFormed(s) ==
  /\ s \in Passes /\ s.todo \subseteq s.found
  /\ s.phase = "idle" => s = Idle

Stores == [Ids -> Platforms \cup {NoPlatform}]

LEMMA IdleIsWellFormed == WellFormed(Idle)
BY DEF WellFormed, Idle, Passes, Empty

LEMMA TitleOfTemplate ==
  ASSUME NEW t \in Templates PROVE TitleOf[t] \in Titles
BY DEF Titles

LEMMA FaultsBounded ==
  ASSUME TypeOK, Works \/ Fails PROVE faults' \in 0..MaxFaults
BY BoundsAssumption DEF TypeOK

LEMMA EditsBounded ==
  ASSUME TypeOK, UNCHANGED edits \/ EditCounted PROVE edits' \in 0..MaxEdits
<1>1. edits \in 0..MaxEdits /\ MaxEdits \in Nat
  BY BoundsAssumption DEF TypeOK
<1>2. UNCHANGED edits \/ (edits < MaxEdits /\ edits' = edits + 1)
  BY DEF EditCounted
<1> QED BY <1>1, <1>2

\* What keeps TypeOK: a pass goes on well formed.
LEMMA PassTyped ==
  ASSUME TypeOK, NEW c \in Callers, NEW s, WellFormed(s), Goto(c, s),
         Works \/ Fails, UNCHANGED edits \/ EditCounted,
         platform' \in Stores, UNCHANGED present
  PROVE  TypeOK'
<1>1. sync' \in [Callers -> Passes]
  BY DEF TypeOK, Goto, WellFormed
<1>2. ASSUME NEW d \in Callers
      PROVE  /\ sync'[d].todo \subseteq sync'[d].found
             /\ sync'[d].phase = "idle" => sync'[d] = Idle
  <2>1. sync'[d] = IF d = c THEN s ELSE sync[d]
    BY DEF TypeOK, Goto
  <2> QED BY <2>1 DEF TypeOK, WellFormed
<1>3. faults' \in 0..MaxFaults /\ edits' \in 0..MaxEdits
  BY FaultsBounded, EditsBounded
<1> QED BY <1>1, <1>2, <1>3 DEF TypeOK, Stores

LEMMA RequestTyped ==
  ASSUME TypeOK, NEW c \in Callers, NEW v \in Stores, NEW s, WellFormed(s),
         Request(c, v, s) \/ Refused(c, s), UNCHANGED <<present, edits>>
  PROVE  TypeOK'
<1>1. PICK n \in {s, Idle} : Goto(c, n)
  BY DEF Request, Refused
<1>2. platform' \in {platform, v} /\ (Works \/ Fails)
  BY DEF Request, Refused
<1>3. WellFormed(n)
  BY <1>1, IdleIsWellFormed
<1>4. platform' \in Stores
  BY <1>2 DEF TypeOK, Stores
<1> QED BY <1>1, <1>2, <1>3, <1>4, PassTyped

\* A pass that is over with one template, or with one platform.
LEMMA StepsOn ==
  ASSUME NEW s, WellFormed(s)
  PROVE  /\ s.phase = "apply" => \A t \in Templates : WellFormed([s EXCEPT !.todo = @ \ {t}])
         /\ s.phase = "prune" => \A i \in Ids : WellFormed([s EXCEPT !.listing[i] = NoPlatform])
<1>1. s \in Passes /\ s.todo \subseteq s.found
  BY DEF WellFormed
<1>2. ASSUME s.phase = "apply", NEW t \in Templates PROVE WellFormed([s EXCEPT !.todo = @ \ {t}])
  BY <1>1, <1>2 DEF WellFormed, Passes
<1>3. ASSUME s.phase = "prune", NEW i \in Ids PROVE WellFormed([s EXCEPT !.listing[i] = NoPlatform])
  <2>1. [s.listing EXCEPT ![i] = NoPlatform] \in [Ids -> Platforms \cup {NoPlatform}]
    BY <1>1 DEF Passes
  <2> QED BY <1>1, <1>3, <2>1 DEF WellFormed, Passes
<1> QED BY <1>2, <1>3

LEMMA ReadTyped ==
  ASSUME TypeOK, NEW c \in Callers, DiscoverContainers(c) \/ List(c) \/ Relist(c)
  PROVE  TypeOK'
<1> DEFINE s == sync[c]
<1>1. s \in Passes /\ s.todo \subseteq s.found /\ platform \in Stores /\ UNCHANGED <<present, platform, edits>>
  BY DEF TypeOK, Stores, DiscoverContainers, List, Relist
<1>2. CASE DiscoverContainers(c)
  <2>1. PICK seen \in SUBSET Containers :
          /\ Answers(Containers, s.node, seen)
          /\ Goto(c, [s EXCEPT !.phase = "list", !.node = NoNode, !.found = @ \cup seen])
    BY <1>2 DEF DiscoverContainers
  <2> DEFINE n == [s EXCEPT !.phase = "list", !.node = NoNode, !.found = @ \cup seen]
  <2>2. WellFormed(n)
    BY <1>1 DEF WellFormed, Passes, Templates
  <2>3. Goto(c, n) /\ (Works \/ Fails)
    BY <2>1 DEF Answers
  <2> HIDE DEF n
  <2> QED BY <1>1, <2>2, <2>3, PassTyped
<1>3. CASE List(c)
  <2>1. PICK listing \in {platform, Empty} :
          /\ GetPlatforms(listing)
          /\ Goto(c, [s EXCEPT !.phase = "apply", !.todo = s.found, !.listing = listing])
    BY <1>3 DEF List
  <2> DEFINE n == [s EXCEPT !.phase = "apply", !.todo = s.found, !.listing = listing]
  <2>2. WellFormed(n)
    BY <1>1 DEF WellFormed, Passes, Stores, Empty
  <2>3. Goto(c, n) /\ (Works \/ Fails)
    BY <2>1 DEF GetPlatforms
  <2> HIDE DEF n
  <2> QED BY <1>1, <2>2, <2>3, PassTyped
<1>4. CASE Relist(c)
  <2>1. PICK listing \in {platform, Empty} :
          /\ GetPlatforms(listing)
          /\ Goto(c, [s EXCEPT !.phase = "prune", !.listing = listing])
    BY <1>4 DEF Relist
  <2> DEFINE n == [s EXCEPT !.phase = "prune", !.listing = listing]
  <2>2. WellFormed(n)
    BY <1>1 DEF WellFormed, Passes, Stores, Empty
  <2>3. Goto(c, n) /\ (Works \/ Fails)
    BY <2>1 DEF GetPlatforms
  <2> HIDE DEF n
  <2> QED BY <1>1, <2>2, <2>3, PassTyped
<1> QED BY <1>2, <1>3, <1>4

LEMMA DueIsTemplate ==
  ASSUME NEW s \in Passes, NEW t \in Due(s) PROVE t \in Templates
BY DEF Due, Passes

LEMMA WriteTyped ==
  ASSUME TypeOK, NEW c \in Callers, Create(c) \/ Update(c) \/ Prune(c)
  PROVE  TypeOK'
<1> DEFINE s == sync[c]
<1>1. WellFormed(s) /\ s \in Passes /\ platform \in Stores /\ UNCHANGED <<present, edits>>
  BY DEF TypeOK, WellFormed, Stores, Create, Update, Prune
<1>2. ASSUME NEW i \in Ids, NEW v \in Platforms \cup {NoPlatform}
      PROVE  [platform EXCEPT ![i] = v] \in Stores
  BY <1>1 DEF Stores
<1>3. CASE Create(c)
  <2>1. PICK t \in Due(s), i \in Ids :
          LET next == [s EXCEPT !.todo = @ \ {t}]
              new  == [slug |-> TitleOf[t], name |-> TitleOf[t], of |-> t,
                       deprecated |-> FALSE, used |-> FALSE]
          IN  Request(c, [platform EXCEPT ![i] = new], next) \/ Refused(c, next)
    BY <1>3 DEF Create
  <2> DEFINE next == [s EXCEPT !.todo = @ \ {t}]
             new  == [slug |-> TitleOf[t], name |-> TitleOf[t], of |-> t,
                      deprecated |-> FALSE, used |-> FALSE]
  <2>2. t \in Templates /\ s.phase = "apply"
    BY <1>1, <1>3, DueIsTemplate DEF Create
  <2>3. WellFormed(next)
    BY <1>1, <2>2, StepsOn
  <2>4. new \in Platforms
    BY <2>2, TitleOfTemplate DEF Platforms
  <2>5. [platform EXCEPT ![i] = new] \in Stores
    BY <1>2, <2>4
  <2> HIDE DEF next, new
  <2> QED BY <1>1, <2>1, <2>3, <2>5, RequestTyped DEF next, new
<1>4. CASE Update(c)
  <2>1. PICK t \in Due(s) : \E i \in Existing(s, t) :
          LET next == [s EXCEPT !.todo = @ \ {t}]
          IN  \/ Refused(c, next)
              \/ platform[i] # NoPlatform /\ Request(c, [platform EXCEPT ![i] = Restored(platform[i], t)], next)
    BY <1>4 DEF Update
  <2>2. PICK i \in Existing(s, t) :
          LET next == [s EXCEPT !.todo = @ \ {t}]
          IN  \/ Refused(c, next)
              \/ platform[i] # NoPlatform /\ Request(c, [platform EXCEPT ![i] = Restored(platform[i], t)], next)
    BY <2>1
  <2> DEFINE next == [s EXCEPT !.todo = @ \ {t}]
  <2>3. t \in Templates /\ s.phase = "apply" /\ i \in Ids
    BY <1>1, <1>4, DueIsTemplate DEF Update, Existing, Listed
  <2>4. WellFormed(next)
    BY <1>1, <2>3, StepsOn
  <2>5. CASE Refused(c, next)
    <3> HIDE DEF next
    <3> QED BY <1>1, <2>4, <2>5, RequestTyped
  <2>6. CASE platform[i] # NoPlatform /\ Request(c, [platform EXCEPT ![i] = Restored(platform[i], t)], next)
    <3>1. platform[i] \in Platforms
      BY <1>1, <2>3, <2>6 DEF Stores
    <3>2. Restored(platform[i], t) \in Platforms
      BY <2>3, <3>1, TitleOfTemplate DEF Restored, Platforms
    <3>3. [platform EXCEPT ![i] = Restored(platform[i], t)] \in Stores
      BY <1>2, <2>3, <3>2
    <3> HIDE DEF next
    <3> QED BY <1>1, <2>4, <2>6, <3>3, RequestTyped
  <2> QED BY <2>2, <2>5, <2>6
<1>5. CASE Prune(c)
  <2>1. PICK i \in Orphans(s) :
          LET next == [s EXCEPT !.listing[i] = NoPlatform]
          IN  \/ Refused(c, next)
              \/ Request(c, [platform EXCEPT ![i] = NoPlatform], next)
              \/ /\ platform[i] # NoPlatform
                 /\ Request(c, [platform EXCEPT ![i] = Deprecated(platform[i], s.listing[i])], next)
    BY <1>5 DEF Prune
  <2> DEFINE next == [s EXCEPT !.listing[i] = NoPlatform]
  <2>2. i \in Ids /\ s.listing[i] \in Platforms /\ s.phase = "prune"
    BY <1>1, <1>5 DEF Prune, Orphans, Listed, Passes
  <2>3. WellFormed(next)
    BY <1>1, <2>2, StepsOn
  <2>4. platform[i] # NoPlatform => Deprecated(platform[i], s.listing[i]) \in Platforms
    <3>1. SUFFICES ASSUME platform[i] \in Platforms
                   PROVE  Deprecated(platform[i], s.listing[i]) \in Platforms
      BY <1>1, <2>2 DEF Stores
    <3> QED BY <2>2, <3>1 DEF Deprecated, Platforms
  <2>5. /\ [platform EXCEPT ![i] = NoPlatform] \in Stores
        /\ platform[i] # NoPlatform =>
             [platform EXCEPT ![i] = Deprecated(platform[i], s.listing[i])] \in Stores
    BY <1>2, <2>2, <2>4
  <2> HIDE DEF next
  <2> QED BY <1>1, <2>1, <2>3, <2>5, RequestTyped DEF next
<1> QED BY <1>3, <1>4, <1>5

LEMMA EndsTyped ==
  ASSUME TypeOK, NEW c \in Callers, Begin(c) \/ Finish(c) \/ Abort(c)
  PROVE  TypeOK'
<1>1. UNCHANGED <<present, platform>> /\ platform \in Stores
  BY DEF TypeOK, Stores, Begin, Finish, Abort
<1>2. (Works \/ Fails) /\ (UNCHANGED edits \/ EditCounted)
  BY DEF Begin, Answers, Finish, Abort
<1>3. CASE Begin(c)
  <2>1. PICK node \in {NoNode} \cup Nodes, seen \in SUBSET Machines :
          Goto(c, [Idle EXCEPT !.phase = "containers", !.node = node, !.found = seen])
    BY <1>3 DEF Begin
  <2> DEFINE n == [Idle EXCEPT !.phase = "containers", !.node = node, !.found = seen]
  <2>2. node \in Nodes \cup {NoNode} /\ seen \in SUBSET Templates
    BY NamesAssumption DEF Templates
  <2>3. WellFormed(n)
    BY <2>2, IdleIsWellFormed DEF WellFormed, Idle, Passes
  <2>4. Goto(c, n)
    BY <2>1
  <2> HIDE DEF n
  <2> QED BY <1>1, <1>2, <2>3, <2>4, PassTyped
<1>4. CASE Finish(c) \/ Abort(c)
  <2>1. Goto(c, Idle)
    BY <1>4 DEF Finish, Abort
  <2> QED BY <1>1, <1>2, <2>1, IdleIsWellFormed, PassTyped
<1> QED BY <1>3, <1>4

LEMMA PeopleTyped ==
  ASSUME TypeOK, People PROVE TypeOK'
<1>1. edits' \in 0..MaxEdits /\ UNCHANGED <<sync, faults>>
  BY EditsBounded DEF People, EditTemplate, CreateByHand, Use
<1>2. ASSUME NEW t \in Templates, EditTemplate(t)
      PROVE  present' \subseteq Templates /\ UNCHANGED platform
  BY <1>2 DEF EditTemplate, TypeOK
<1>3. ASSUME NEW i \in Ids, CreateByHand(i)
      PROVE  platform' \in Stores /\ UNCHANGED present
  <2>1. PICK title \in HandTitles :
          platform' = [platform EXCEPT ![i] =
            [slug |-> title, name |-> title, of |-> ByHand, deprecated |-> FALSE, used |-> FALSE]]
    BY <1>3 DEF CreateByHand
  <2>2. [slug |-> title, name |-> title, of |-> ByHand, deprecated |-> FALSE, used |-> FALSE] \in Platforms
    BY DEF Platforms, Titles
  <2> QED BY <1>3, <2>1, <2>2 DEF CreateByHand, TypeOK, Stores
<1>4. ASSUME NEW i \in Ids, Use(i) PROVE platform' \in Stores /\ UNCHANGED present
  <2>1. platform[i] \in Platforms /\ platform' = [platform EXCEPT ![i].used = ~@]
    BY <1>4 DEF Use, TypeOK
  <2>2. [platform[i] EXCEPT !.used = ~@] \in Platforms
    BY <2>1 DEF Platforms
  <2> QED BY <1>4, <2>1, <2>2 DEF Use, TypeOK, Stores
<1> QED BY <1>1, <1>2, <1>3, <1>4 DEF People, TypeOK, Stores

LEMMA InitTyped == Init => TypeOK
<1> SUFFICES ASSUME Init PROVE TypeOK
  OBVIOUS
<1>1. \A c \in Callers : sync[c] = Idle
  BY DEF Init
<1>2. sync \in [Callers -> Passes]
  BY IdleIsWellFormed DEF Init, WellFormed
<1> QED BY <1>1, <1>2, IdleIsWellFormed, BoundsAssumption DEF Init, TypeOK, WellFormed, Empty

LEMMA NextTyped == TypeOK /\ [Next]_vars => TypeOK'
<1> SUFFICES ASSUME TypeOK, [Next]_vars PROVE TypeOK'
  OBVIOUS
<1>1. CASE UNCHANGED vars
  BY <1>1 DEF vars, TypeOK
<1>2. CASE People
  BY <1>2, PeopleTyped
<1>3. ASSUME NEW c \in Callers, Begin(c) \/ Pass(c) \/ Abort(c) PROVE TypeOK'
  BY <1>3, EndsTyped, ReadTyped, WriteTyped DEF Pass
<1> QED BY <1>1, <1>2, <1>3 DEF Next

\* Every variable has its type, for any templates, titles, callers and bounds: a
\* pass writes only templates it found itself and leaves nothing to the next one
\* (sync_all_templates keeps everything in local variables).
THEOREM TypeCorrect == Spec => []TypeOK
BY NextTyped, InitTyped, PTL DEF Spec

-----------------------------------------------------------------------------
(* What people made *)

\* A listing may be old, but a platform that was a template's in it is no one
\* else's by now, as ids are not given out twice and nothing becomes people's again;
\* and what is people's is not marked.
HandInv ==
  \A i \in Ids : platform[i] # NoPlatform =>
    /\ platform[i].of = ByHand => ~platform[i].deprecated
    /\ \A c \in Callers :
         sync[c].listing[i] # NoPlatform /\ sync[c].listing[i].of \in Templates => platform[i].of \in Templates

\* Of the platforms v, each is new or was there, and remains a template's if it was.
Follows(v) ==
  \A i \in Ids : v[i] # NoPlatform =>
    /\ v[i].of = ByHand => ~v[i].deprecated
    /\ Fresh(i) \/ (platform[i] # NoPlatform /\ (platform[i].of \in Templates => v[i].of \in Templates))

\* In v everything stands that people made.
Spared(v) ==
  \A i \in Ids : platform[i] # NoPlatform /\ platform[i].of = ByHand => v[i] # NoPlatform /\ ~v[i].deprecated

LEMMA SameFollows ==
  ASSUME HandInv PROVE Follows(platform) /\ Spared(platform)
BY DEF HandInv, Follows, Spared

\* A pass that goes on with what it listed, or has just listed, or less.
LEMMA PassFollows ==
  ASSUME TypeOK, HandInv, NEW c \in Callers, NEW n, Goto(c, n),
         \A i \in Ids : n.listing[i] \in {NoPlatform, sync[c].listing[i], platform[i]},
         Follows(platform')
  PROVE  HandInv'
<1>1. \A d \in Callers : sync'[d] = IF d = c THEN n ELSE sync[d]
  BY DEF TypeOK, Goto
<1>2. ASSUME NEW i \in Ids, platform'[i] # NoPlatform, NEW d \in Callers,
             sync'[d].listing[i] # NoPlatform, sync'[d].listing[i].of \in Templates
      PROVE  platform'[i].of \in Templates
  <2>1. sync'[d].listing[i] = sync[d].listing[i] \/ sync'[d].listing[i] = platform[i]
    BY <1>1, <1>2
  <2>2. platform[i] # NoPlatform /\ (platform[i].of \in Templates => platform'[i].of \in Templates)
    BY <1>2, <2>1 DEF Follows, Fresh
  <2> QED BY <1>2, <2>1, <2>2 DEF HandInv
<1> QED BY <1>2 DEF HandInv, Follows

\* What a step of a pass does to what people made, and to what is known of it.
HandSafe == HandInv' /\ Spared(platform')

LEMMA RequestSafe ==
  ASSUME TypeOK, HandInv, NEW c \in Callers, NEW v, NEW s, Request(c, v, s) \/ Refused(c, s),
         \A i \in Ids : s.listing[i] \in {NoPlatform, sync[c].listing[i]},
         Follows(v), Spared(v)
  PROVE  HandSafe
<1>1. PICK n \in {s, Idle} : Goto(c, n)
  BY DEF Request, Refused
<1>2. platform' \in {platform, v}
  BY DEF Request, Refused
<1>3. Follows(platform') /\ Spared(platform')
  BY <1>2, SameFollows
<1>4. \A i \in Ids : n.listing[i] \in {NoPlatform, sync[c].listing[i], platform[i]}
  BY DEF Idle, Empty
<1> QED BY <1>1, <1>3, <1>4, PassFollows DEF HandSafe

\* The platforms with one of them changed.
LEMMA ChangeSafe ==
  ASSUME TypeOK, HandInv, NEW i \in Ids, NEW p, NEW v, v = [platform EXCEPT ![i] = p],
         p # NoPlatform => p.of \in Templates /\ (Fresh(i) \/ platform[i] # NoPlatform),
         platform[i] # NoPlatform /\ platform[i].of = ByHand => p # NoPlatform /\ ~p.deprecated
  PROVE  Follows(v) /\ Spared(v)
<1>1. \A k \in Ids : v[k] = IF k = i THEN p ELSE platform[k]
  BY DEF TypeOK
<1>2. Follows(v)
  BY <1>1, NamesAssumption DEF HandInv, Follows
<1> QED BY <1>1, <1>2 DEF HandInv, Spared

LEMMA CreateSafe ==
  ASSUME TypeOK, HandInv, NEW c \in Callers, Create(c) PROVE HandSafe
<1> DEFINE s       == sync[c]
           next(t) == [s EXCEPT !.todo = @ \ {t}]
           new(t)  == [slug |-> TitleOf[t], name |-> TitleOf[t], of |-> t, deprecated |-> FALSE, used |-> FALSE]
<1>1. PICK t \in Due(s), i \in Ids :
        Fresh(i) /\ (Request(c, [platform EXCEPT ![i] = new(t)], next(t)) \/ Refused(c, next(t)))
  BY DEF Create, NextId
<1>2. t \in Templates /\ next(t).listing = s.listing
  BY DueIsTemplate DEF TypeOK, Passes
<1>3. platform[i] = NoPlatform
  BY <1>1 DEF Fresh
<1>4. new(t).of = t
  OBVIOUS
<1> DEFINE v == [platform EXCEPT ![i] = new(t)]
<1> HIDE DEF new, next
<1>5. Follows(v) /\ Spared(v)
  BY <1>1, <1>2, <1>3, <1>4, ChangeSafe
<1> HIDE DEF v
<1> QED BY <1>1, <1>2, <1>5, RequestSafe DEF v

LEMMA UpdateSafe ==
  ASSUME TypeOK, HandInv, NEW c \in Callers, Update(c) PROVE HandSafe
<1> DEFINE s       == sync[c]
           next(t) == [s EXCEPT !.todo = @ \ {t}]
           v(t, i) == [platform EXCEPT ![i] = Restored(platform[i], t)]
<1>1. PICK t \in Due(s) : \E i \in Existing(s, t) :
        Refused(c, next(t)) \/ (platform[i] # NoPlatform /\ Request(c, v(t, i), next(t)))
  BY DEF Update
<1>2. PICK i \in Existing(s, t) :
        Refused(c, next(t)) \/ (platform[i] # NoPlatform /\ Request(c, v(t, i), next(t)))
  BY <1>1
<1>3. t \in Templates /\ next(t).listing = s.listing /\ i \in Ids
  BY DueIsTemplate DEF TypeOK, Passes, Existing, Listed
<1> HIDE DEF next
<1>4. CASE Refused(c, next(t))
  BY <1>3, <1>4, SameFollows, RequestSafe
<1>5. CASE platform[i] # NoPlatform /\ Request(c, v(t, i), next(t))
  <2>1. platform[i] \in Platforms
    BY <1>3, <1>5 DEF TypeOK
  <2>2. Restored(platform[i], t).of = t /\ Restored(platform[i], t).deprecated = FALSE
    BY <2>1 DEF Restored, Platforms
  <2>3. Restored(platform[i], t) # NoPlatform
    <3>1. Restored(platform[i], t) \in Platforms
      BY <1>3, <2>1, TitleOfTemplate DEF Restored, Platforms
    <3> QED BY <3>1, NamesAssumption
  <2>4. Follows(v(t, i)) /\ Spared(v(t, i))
    BY <1>3, <1>5, <2>2, <2>3, ChangeSafe
  <2> HIDE DEF v
  <2> QED BY <1>3, <1>5, <2>4, RequestSafe
<1> QED BY <1>2, <1>4, <1>5

\* The heart of it: whatever a pass prunes is still a template's.
LEMMA PruneSafe ==
  ASSUME TypeOK, HandInv, NEW c \in Callers, Prune(c) PROVE HandSafe
<1> DEFINE s       == sync[c]
           next(i) == [s EXCEPT !.listing[i] = NoPlatform]
           w(i)    == Deprecated(platform[i], s.listing[i])
<1>1. PICK i \in Orphans(s) :
        \/ Refused(c, next(i))
        \/ platform[i] # NoPlatform /\ Request(c, [platform EXCEPT ![i] = NoPlatform], next(i))
        \/ platform[i] # NoPlatform /\ Request(c, [platform EXCEPT ![i] = w(i)], next(i))
  BY DEF Prune
<1>2. i \in Ids /\ s.listing[i] # NoPlatform /\ s.listing[i].of \in Templates
  BY DEF Orphans, Listed
<1>3. \A k \in Ids : next(i).listing[k] \in {NoPlatform, s.listing[k]}
  BY DEF TypeOK, Passes
<1>4. platform[i] # NoPlatform => platform[i].of \in Templates /\ platform[i].of # ByHand
  BY <1>2, NamesAssumption DEF HandInv
<1> HIDE DEF next
<1>5. CASE Refused(c, next(i))
  BY <1>3, <1>5, SameFollows, RequestSafe
<1>6. CASE platform[i] # NoPlatform /\ Request(c, [platform EXCEPT ![i] = NoPlatform], next(i))
  <2> DEFINE v == [platform EXCEPT ![i] = NoPlatform]
  <2>1. Follows(v) /\ Spared(v)
    BY <1>2, <1>4, ChangeSafe
  <2> HIDE DEF v
  <2> QED BY <1>3, <1>6, <2>1, RequestSafe DEF v
<1>7. CASE platform[i] # NoPlatform /\ Request(c, [platform EXCEPT ![i] = w(i)], next(i))
  <2> DEFINE v == [platform EXCEPT ![i] = w(i)]
  <2>1. platform[i] \in Platforms
    BY <1>2, <1>7 DEF TypeOK
  <2>2. w(i).of \in Templates
    BY <1>2, <2>1 DEF Deprecated, Platforms
  <2> HIDE DEF w
  <2>3. Follows(v) /\ Spared(v)
    BY <1>2, <1>4, <1>7, <2>2, ChangeSafe
  <2> HIDE DEF v
  <2> QED BY <1>3, <1>7, <2>3, RequestSafe DEF v
<1> QED BY <1>1, <1>5, <1>6, <1>7

LEMMA ReadSafe ==
  ASSUME TypeOK, HandInv, NEW c \in Callers,
         Begin(c) \/ DiscoverContainers(c) \/ List(c) \/ Relist(c) \/ Finish(c) \/ Abort(c)
  PROVE  HandSafe
<1>1. platform' = platform
  BY DEF Begin, DiscoverContainers, List, Relist, Finish, Abort
<1>2. Follows(platform') /\ Spared(platform')
  BY <1>1, SameFollows
<1>3. ASSUME NEW n, Goto(c, n), n.listing \in {Empty, sync[c].listing, platform} PROVE HandSafe
  BY <1>2, <1>3, PassFollows DEF HandSafe, Empty
<1>4. sync[c] \in Passes
  BY DEF TypeOK
<1>5. CASE Begin(c)
  <2>1. PICK node, seen : Goto(c, [Idle EXCEPT !.phase = "containers", !.node = node, !.found = seen])
    BY <1>5 DEF Begin
  <2>2. [Idle EXCEPT !.phase = "containers", !.node = node, !.found = seen].listing = Empty
    BY DEF Idle
  <2> QED BY <1>3, <2>1, <2>2
<1>6. CASE DiscoverContainers(c)
  <2>1. PICK seen : Goto(c, [sync[c] EXCEPT !.phase = "list", !.node = NoNode, !.found = @ \cup seen])
    BY <1>6 DEF DiscoverContainers
  <2>2. [sync[c] EXCEPT !.phase = "list", !.node = NoNode, !.found = @ \cup seen].listing = sync[c].listing
    BY <1>4 DEF Passes
  <2> QED BY <1>3, <2>1, <2>2
<1>7. CASE List(c)
  <2>1. PICK listing \in {platform, Empty} :
          Goto(c, [sync[c] EXCEPT !.phase = "apply", !.todo = sync[c].found, !.listing = listing])
    BY <1>7 DEF List
  <2>2. [sync[c] EXCEPT !.phase = "apply", !.todo = sync[c].found, !.listing = listing].listing = listing
    BY <1>4 DEF Passes
  <2> QED BY <1>3, <2>1, <2>2
<1>8. CASE Relist(c)
  <2>1. PICK listing \in {platform, Empty} :
          Goto(c, [sync[c] EXCEPT !.phase = "prune", !.listing = listing])
    BY <1>8 DEF Relist
  <2>2. [sync[c] EXCEPT !.phase = "prune", !.listing = listing].listing = listing
    BY <1>4 DEF Passes
  <2> QED BY <1>3, <2>1, <2>2
<1>9. CASE Finish(c) \/ Abort(c)
  BY <1>3, <1>9 DEF Finish, Abort, Idle
<1> QED BY <1>5, <1>6, <1>7, <1>8, <1>9

LEMMA PeopleSafe ==
  ASSUME TypeOK, HandInv, People PROVE HandSafe
<1>1. sync' = sync
  BY DEF People, EditTemplate, CreateByHand, Use
<1>2. ASSUME Follows(platform'), Spared(platform') PROVE HandSafe
  <2>1. ASSUME NEW i \in Ids, platform'[i] # NoPlatform, NEW c \in Callers,
               sync[c].listing[i] # NoPlatform, sync[c].listing[i].of \in Templates
        PROVE  platform'[i].of \in Templates
    BY <1>2, <2>1 DEF HandInv, Follows, Fresh
  <2>2. \A i \in Ids : platform'[i] # NoPlatform /\ platform'[i].of = ByHand => ~platform'[i].deprecated
    BY <1>2 DEF Follows
  <2>3. HandInv'
    BY <1>1, <2>1, <2>2 DEF HandInv
  <2> QED BY <1>2, <2>3 DEF HandSafe
<1>3. CASE \E t \in Templates : EditTemplate(t)
  BY <1>2, <1>3, SameFollows DEF EditTemplate
<1>4. ASSUME NEW i \in Ids, CreateByHand(i) PROVE HandSafe
  <2> DEFINE made(title) == [slug |-> title, name |-> title, of |-> ByHand, deprecated |-> FALSE, used |-> FALSE]
  <2>1. PICK title \in HandTitles : platform' = [platform EXCEPT ![i] = made(title)]
    BY <1>4 DEF CreateByHand
  <2>2. Fresh(i) /\ platform[i] = NoPlatform
    BY <1>4 DEF CreateByHand, NextId, Fresh
  <2>3. \A k \in Ids : platform'[k] = IF k = i THEN made(title) ELSE platform[k]
    BY <2>1 DEF TypeOK
  <2>4. ~made(title).deprecated
    OBVIOUS
  <2> HIDE DEF made
  <2>5. Follows(platform') /\ Spared(platform')
    BY <2>2, <2>3, <2>4 DEF HandInv, Follows, Spared
  <2> QED BY <1>2, <2>5
<1>5. ASSUME NEW i \in Ids, Use(i) PROVE HandSafe
  <2>1. platform[i] \in Platforms /\ platform' = [platform EXCEPT ![i].used = ~@]
    BY <1>5 DEF Use, TypeOK
  <2> DEFINE p == [platform[i] EXCEPT !.used = ~@]
  <2>2. p \in Platforms /\ p.of = platform[i].of /\ p.deprecated = platform[i].deprecated
    BY <2>1 DEF Platforms
  <2>3. \A k \in Ids : platform'[k] = IF k = i THEN p ELSE platform[k]
    BY <2>1 DEF TypeOK
  <2> HIDE DEF p
  <2>4. Follows(platform') /\ Spared(platform')
    BY <2>1, <2>2, <2>3, NamesAssumption DEF HandInv, Follows, Spared
  <2> QED BY <1>2, <2>4
<1> QED BY <1>3, <1>4, <1>5 DEF People

LEMMA NextSafe ==
  ASSUME TypeOK, HandInv, Next PROVE HandSafe
<1>1. ASSUME NEW c \in Callers, Begin(c) \/ Pass(c) \/ Abort(c) PROVE HandSafe
  BY <1>1, ReadSafe, CreateSafe, UpdateSafe, PruneSafe DEF Pass
<1> QED BY <1>1, PeopleSafe DEF Next

\* However old the listings are that overlapping passes go by, and whatever they
\* were refused, no platform is deleted or marked that people made and no pass has
\* taken over for a template of its title (HandMadeKept).
THEOREM HandMadeSafe == Spec => HandMadeKept
<1>1. Init => TypeOK /\ HandInv
  <2>1. Init => HandInv
    BY DEF Init, HandInv, Empty
  <2> QED BY <2>1, InitTyped
<1>2. TypeOK /\ [Next]_vars => TypeOK'
  BY NextTyped
<1>3. TypeOK /\ HandInv /\ [Next]_vars => HandInv'
  <2>1. HandInv /\ UNCHANGED vars => HandInv'
    BY DEF HandInv, vars
  <2> QED BY <2>1, NextSafe DEF HandSafe
<1>4. TypeOK /\ HandInv /\ [Next]_vars
      => [\A i \in Ids : platform[i] # NoPlatform /\ platform[i].of = ByHand =>
            platform'[i] # NoPlatform /\ ~platform'[i].deprecated]_vars
  BY NextSafe DEF HandSafe, Spared
<1> QED BY <1>1, <1>2, <1>3, <1>4, PTL DEF Spec, HandMadeKept
=============================================================================
