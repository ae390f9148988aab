--------------------------- MODULE ActivityLogProofs ---------------------------
(***************************************************************************)
(* Proofs about the activity log (module ActivityLog).                     *)
(*                                                                         *)
(* Every action is first reduced to what it does to the consumer that      *)
(* takes it, the queue items and the bucket (the kinds of steps).  The     *)
(* debouncer works because an item whose callback has not removed it yet   *)
(* is the one that is scheduled, or the one that Debounce is about to      *)
(* schedule under the mutex (Scheduled); what it is given twice it would   *)
(* write twice, but a walk only goes up (Walking).  The limit is about     *)
(* sums over the batches, which are counted by induction.                  *)
(***************************************************************************)
EXTENDS ActivityLog, TLAPS, WellFoundedInduction, FiniteSetTheorems

Dirs == {Dir, Root, None}

EventStates == [kind : {"changed", "moved", "trashed", "purged", "space"}, dir : Dirs]

ConsumerStates ==
    [pc : {"idle", "resolve", "load", "append", "store", "parent", "ask", "set"},
     ev : Nat, at : Resources \cup {None}, up : Dirs, info : Dirs, item : Nat]

ItemStates ==
    [key : Resources, acts : SUBSET Nat, snap : SUBSET Nat,
     pc : {"armed", "reset", "delete", "mark", "store", "done"}]

TypeOK ==
    /\ where \in Dirs /\ events \in Seq(EventStates)
    /\ taken \in Nat /\ taken <= Len(events)
    /\ consumer \in [Consumers -> ConsumerStates]
    /\ cache \in [Resources -> Dirs] /\ cache[Dir] # Dir
    /\ pending \in [Resources -> Nat] /\ inProgress \subseteq Resources
    /\ item \in Seq(ItemStates)
    /\ put \in [Resources -> Seq(SUBSET Nat)]
    /\ noted \in [Resources -> SUBSET Nat] /\ lost \in [Resources -> SUBSET Nat]
    /\ late \in [Resources -> SUBSET Nat]
    /\ failures \in Nat

\* What the place of a consumer in its walk says about what it carries, when
\* n events are taken.
Walking(c, n) ==
    /\ c.pc # "idle" => c.ev \in 1 .. n /\ c.at \in Resources
    /\ c.pc \in {"parent", "ask", "set"} => c.at # Root
    /\ c.up # None => c.at = File
    /\ c.at = Dir => c.info # Dir
    /\ c.pc = "set" => c.info # None

\* Every consumer is at an event of its own.
Walks ==
    /\ \A w \in Consumers : Walking(consumer[w], taken)
    /\ \A v, w \in Consumers :
          consumer[v].pc # "idle" /\ consumer[w].pc # "idle" /\ consumer[v].ev = consumer[w].ev => v = w
    /\ \A e \in 1 .. Len(events) : events[e].kind = "trashed" => events[e].dir # None

InDebounce(c) == c.pc \in {"append", "store"}

\* The mutex is held from the lookup of an item to its storing, and a callback
\* can only have removed the item meanwhile.
Guarded ==
    \A w \in Consumers :
        /\ InDebounce(consumer[w]) <=> mutex = w
        /\ InDebounce(consumer[w]) =>
              /\ consumer[w].item \in Items
              /\ item[consumer[w].item].key = consumer[w].at
              /\ pending[consumer[w].at] \in {0, consumer[w].item}

\* An item that no callback has removed is the scheduled one, or is just being
\* scheduled.
Scheduled ==
    /\ \A k \in Resources : pending[k] # 0 => pending[k] \in Items /\ item[pending[k]].key = k
    /\ \A i \in Items : item[i].pc \in {"armed", "reset", "delete"} =>
          \/ pending[item[i].key] = i
          \/ \E w \in Consumers : consumer[w].pc = "store" /\ consumer[w].item = i
    /\ \A i \in Items : item[i].pc # "store" => item[i].snap = {}

DebounceInv == TypeOK /\ Walks /\ Guarded /\ Scheduled

-----------------------------------------------------------------------------
(* The kinds of steps.                                                     *)

\* The consumer w goes to the state c.
Becomes(w, c) == c \in ConsumerStates /\ consumer' = [consumer EXCEPT ![w] = c]

\* The activities were put in the bucket, or lost.
Stored(k, acts) ==
    \/ put' = [put EXCEPT ![k] = Append(@, acts)] /\ lost' = lost
    \/ put' = put /\ lost' = [lost EXCEPT ![k] = @ \cup acts]

SameBucket == put' = put /\ lost' = lost

SameDebouncer ==
    /\ mutex' = mutex /\ pending' = pending /\ inProgress' = inProgress /\ item' = item
    /\ noted' = noted /\ late' = late

SameSpace == where' = where /\ events' = events

\* An event is published.
Published ==
    /\ \E e \in EventStates : events' = Append(events, e) /\ (e.kind = "trashed" => e.dir # None)
    /\ where' \in Dirs /\ taken' = taken /\ consumer' = consumer /\ cache' = cache
    /\ SameDebouncer /\ SameBucket

\* An idle consumer takes an event; it may have put it in the bucket already.
Takes(w) ==
    /\ consumer[w].pc = "idle" /\ taken < Len(events) /\ taken' = taken + 1
    /\ cache' \in [Resources -> Dirs] /\ cache'[Dir] = cache[Dir]
    /\ \E c \in ConsumerStates :
          /\ Becomes(w, c) /\ c.pc \in {"idle", "resolve", "load"} /\ Walking(c, taken')
          /\ c.pc # "idle" => c.ev = taken + 1
          /\ \/ SameBucket
             \/ \E k \in Resources :
                   Stored(k, {taken + 1}) /\ (c.pc = "idle" \/ (k = File /\ c.at # File))
    /\ SameSpace /\ SameDebouncer

Below(a, b) == (a = File /\ b \in {Dir, Root}) \/ (a = Dir /\ b = Root)

\* Outside of Debounce a consumer goes on, up, or gives up.
GoesOn(b, c) ==
    \/ c.pc = "idle"
    \/ b.pc = "resolve" /\ c.pc = "load" /\ c.at = b.at
    \/ b.pc = "parent" /\ c.pc \in {"ask", "set"} /\ c.at = b.at
    \/ b.pc = "ask" /\ c.pc = "set" /\ c.at = b.at
    \/ b.pc \in {"parent", "set"} /\ c.pc = "load" /\ Below(b.at, c.at)

Advances(w) ==
    /\ consumer[w].pc \in {"resolve", "parent", "ask", "set"}
    /\ \E c \in ConsumerStates :
          /\ Becomes(w, c) /\ Walking(c, taken)
          /\ GoesOn(consumer[w], c) /\ (c.pc # "idle" => c.ev = consumer[w].ev)
    /\ cache' \in [Resources -> Dirs] /\ cache'[Dir] # Dir
    /\ taken' = taken /\ SameSpace /\ SameDebouncer /\ SameBucket

\* A consumer is done with its resource.
Leaves(w) ==
    \E c \in ConsumerStates :
        /\ Becomes(w, c) /\ Walking(c, taken) /\ c.pc \in {"idle", "parent"}
        /\ c.pc # "idle" => c.ev = consumer[w].ev /\ c.at = consumer[w].at

StoresNow(w) ==
    /\ consumer[w].pc = "load"
    /\ Stored(consumer[w].at, {consumer[w].ev}) /\ Leaves(w)
    /\ taken' = taken /\ cache' = cache /\ SameSpace /\ SameDebouncer

\* A consumer is in Debounce.
Enters(w, pc, i) ==
    \E c \in ConsumerStates :
        /\ Becomes(w, c) /\ Walking(c, taken)
        /\ c.pc = pc /\ c.ev = consumer[w].ev /\ c.at = consumer[w].at /\ c.item = i

NewItem(w) ==
    [key |-> consumer[w].at, acts |-> {consumer[w].ev}, snap |-> {}, pc |-> "armed"]

LooksUp(w) ==
    /\ consumer[w].pc = "load" /\ mutex = None /\ mutex' = w
    /\ noted' = [noted EXCEPT ![consumer[w].at] = @ \cup {consumer[w].ev}]
    /\ \/ /\ pending[consumer[w].at] # 0 /\ Enters(w, "append", pending[consumer[w].at])
          /\ item' = item
       \/ /\ pending[consumer[w].at] = 0 /\ Enters(w, "store", Len(item) + 1)
          /\ item' = Append(item, NewItem(w))
    /\ pending' = pending /\ inProgress' = inProgress /\ late' = late
    /\ taken' = taken /\ cache' = cache /\ SameSpace /\ SameBucket

\* The item i becomes x.
ItemBecomes(i, x) == x \in ItemStates /\ item' = [item EXCEPT ![i] = x]

Adds(w) ==
    LET i == consumer[w].item
        e == consumer[w].ev IN
    /\ consumer[w].pc = "append" /\ Enters(w, "store", i)
    /\ \E x \in ItemStates :
          /\ ItemBecomes(i, x) /\ x.key = item[i].key /\ x.pc = item[i].pc
          /\ x.snap = item[i].snap /\ x.acts = item[i].acts \cup {e}
    /\ late' = IF TooLate(i) THEN [late EXCEPT ![item[i].key] = @ \cup {e}] ELSE late
    /\ mutex' = mutex /\ pending' = pending /\ inProgress' = inProgress /\ noted' = noted
    /\ taken' = taken /\ cache' = cache /\ SameSpace /\ SameBucket

Schedules(w) ==
    /\ consumer[w].pc = "store" /\ Leaves(w)
    /\ pending' = [pending EXCEPT ![consumer[w].at] = consumer[w].item]
    /\ mutex' = None
    /\ inProgress' = inProgress /\ item' = item /\ noted' = noted /\ late' = late
    /\ taken' = taken /\ cache' = cache /\ SameSpace /\ SameBucket

SameWalks ==
    /\ SameSpace /\ taken' = taken /\ consumer' = consumer /\ cache' = cache
    /\ mutex' = mutex /\ noted' = noted /\ late' = late

\* A callback goes from one place to another.
Steps(i, from, to) ==
    /\ item[i].pc = from
    /\ \E x \in ItemStates :
          /\ ItemBecomes(i, x) /\ x.key = item[i].key /\ x.pc = to /\ x.acts = item[i].acts
          /\ x.snap = CASE to = "store" -> item[i].acts
                        [] to = "done" -> {}
                        [] OTHER -> item[i].snap

CallbackStep(i) ==
    /\ SameWalks /\ inProgress' \subseteq Resources
    /\ \/ (Steps(i, "armed", "reset") \/ Steps(i, "armed", "delete")) /\ pending' = pending /\ SameBucket
       \/ Steps(i, "reset", "armed") /\ pending' = pending /\ SameBucket
       \/ /\ Steps(i, "delete", "mark") /\ pending' = [pending EXCEPT ![item[i].key] = 0]
          /\ SameBucket
       \/ Steps(i, "mark", "store") /\ pending' = pending /\ SameBucket
       \/ /\ Steps(i, "store", "done") /\ pending' = pending
          /\ Stored(item[i].key, item[i].snap)

CacheExpires ==
    /\ cache' \in [Resources -> Dirs] /\ cache'[Dir] # Dir
    /\ SameSpace /\ taken' = taken /\ consumer' = consumer /\ SameDebouncer /\ SameBucket

Kinds ==
    \/ Published
    \/ \E w \in Consumers : Takes(w) \/ Advances(w) \/ StoresNow(w) \/ LooksUp(w) \/ Adds(w) \/ Schedules(w)
    \/ \E i \in Items : CallbackStep(i)
    \/ CacheExpires
    \/ UNCHANGED vars

-----------------------------------------------------------------------------
(* Every action is of one of these kinds.                                  *)

\* The resources are different.
LEMMA Distinct ==
    /\ File # Dir /\ File # Root /\ Dir # Root
    /\ File # None /\ Dir # None /\ Root # None /\ None \notin Consumers
BY ActivityAssumption

\* Writing a batch puts it in the bucket or loses it.
LEMMA StoreStores ==
    ASSUME TypeOK, NEW k \in Resources, NEW acts \in SUBSET Nat, StoreActivity(k, acts)
    PROVE  /\ Stored(k, acts)
           /\ lost' # lost => put' = put
           /\ failures' \in Nat
BY DEF StoreActivity, Stored, Fail, TypeOK

\* Whatever users do publishes one event.
LEMMA UsersKind == ASSUME DebounceInv, Users PROVE Published
<1>1. PICK e \in EventStates : events' = Append(events, e) /\ (e.kind = "trashed" => e.dir # None)
      BY Distinct DEF DebounceInv, TypeOK, Users, Change, Move, Trash, Purge, ShareSpace, Publish,
                      EventStates, Dirs
<1>2. where' \in Dirs
      BY Distinct DEF DebounceInv, TypeOK, Users, Change, Move, Trash, Purge, ShareSpace, Publish, Dirs
<1> QED BY <1>1, <1>2 DEF Users, Published, SameDebouncer, SameBucket, debouncerVars, bucketVars

\* The state in which a consumer begins.
LEMMA BeginBecomes ==
    ASSUME DebounceInv, NEW w \in Consumers, NEW kind, NEW walk \in ConsumerStates,
           Begin(w, kind, walk), taken \in Nat,
           walk = Idle \/ (walk.pc \in {"resolve", "load"} /\ walk.at \in Resources
                            /\ (walk.up # None => walk.at = File) /\ walk.info = None)
    PROVE  /\ consumer[w].pc = "idle" /\ taken < Len(events) /\ taken' = taken + 1
           /\ events[taken + 1].kind = kind
           /\ \E c \in ConsumerStates :
                 /\ Becomes(w, c) /\ c.pc \in {"idle", "resolve", "load"} /\ Walking(c, taken + 1)
                 /\ c.pc = walk.pc
                 /\ c.pc # "idle" => c.ev = taken + 1 /\ c.at = walk.at
<1>1. /\ consumer[w].pc = "idle" /\ taken < Len(events) /\ taken' = taken + 1
      /\ events[taken + 1].kind = kind
      BY DEF Begin
<1>2. CASE walk = Idle
  <2>1. Idle \in ConsumerStates /\ Idle.pc = "idle" /\ Walking(Idle, taken + 1)
        BY Distinct DEF Idle, ConsumerStates, Walking, Dirs
  <2>2. Becomes(w, Idle)
        BY <1>2, <2>1 DEF Begin, Becomes
  <2> QED BY <1>1, <1>2, <2>1, <2>2
<1>3. CASE walk # Idle
  <2> DEFINE c == [walk EXCEPT !.ev = taken + 1]
  <2>1. c \in ConsumerStates /\ c.pc = walk.pc /\ c.at = walk.at /\ c.up = walk.up
        /\ c.info = walk.info /\ c.ev = taken + 1
        BY DEF ConsumerStates
  <2>2. Becomes(w, c)
        BY <1>3, <2>1 DEF Begin, Becomes
  <2>3. Walking(c, taken + 1)
    <3> HIDE DEF c
    <3> QED BY <1>3, <2>1, Distinct DEF Walking
  <2> HIDE DEF c
  <2> QED BY <1>1, <1>3, <2>1, <2>2, <2>3
<1> QED BY <1>2, <1>3

\* What is recorded by a consumer that has just taken the event.
LEMMA HandleKind == ASSUME DebounceInv, NEW w \in Consumers, Handle(w) PROVE Takes(w)
<1> USE DEF DebounceInv
<1>0. /\ taken \in Nat /\ SameSpace /\ SameDebouncer /\ TypeOK
      /\ cache \in [Resources -> Dirs] /\ events \in Seq(EventStates)
      BY DEF Handle, SameSpace, SameDebouncer, debouncerVars, TypeOK
<1>i. Idle \in ConsumerStates /\ Idle.pc = "idle"
      BY Distinct DEF Idle, ConsumerStates, Dirs
<1>e. ASSUME taken < Len(events)
      PROVE  /\ events[taken + 1].dir \in Dirs
             /\ events[taken + 1].kind = "trashed" => events[taken + 1].dir # None
  <2>1. taken + 1 \in 1 .. Len(events)
        BY <1>0, <1>e
  <2>2. events[taken + 1] \in EventStates
        BY <1>0, <2>1
  <2>3. events[taken + 1].dir \in Dirs
        BY <2>2 DEF EventStates
  <2>4. events[taken + 1].kind = "trashed" => events[taken + 1].dir # None
        BY <2>1 DEF Walks
  <2> QED BY <2>3, <2>4
<1>1. CASE HandleChanged(w)
  <2> DEFINE walk == [Idle EXCEPT !.pc = "load", !.at = File, !.up = events[taken + 1].dir]
  <2>1. taken < Len(events) /\ Begin(w, "changed", walk) /\ cache' = cache /\ SameBucket
        BY <1>1 DEF HandleChanged, SameBucket, bucketVars
  <2>2. walk \in ConsumerStates /\ walk.pc = "load" /\ walk.at = File /\ walk.info = None
        BY <2>1, <1>e, Distinct DEF Idle, ConsumerStates, Dirs, Resources
  <2> HIDE DEF walk
  <2>3. PICK c \in ConsumerStates :
                 /\ Becomes(w, c) /\ c.pc \in {"idle", "resolve", "load"} /\ Walking(c, taken + 1)
                 /\ c.pc # "idle" => c.ev = taken + 1
        BY <2>1, <2>2, <1>0, BeginBecomes DEF Resources
  <2>4. consumer[w].pc = "idle" /\ taken' = taken + 1
        BY <2>1 DEF Begin
  <2> QED BY <1>0, <2>1, <2>3, <2>4 DEF Takes
<1>2. CASE HandleMoved(w)
  <2> DEFINE walk == [Idle EXCEPT !.pc = "resolve", !.at = File]
  <2>1. taken < Len(events) /\ Begin(w, "moved", walk) /\ SameBucket
        BY <1>2 DEF HandleMoved, SameBucket, bucketVars
  <2>2. walk \in ConsumerStates /\ walk.pc = "resolve" /\ walk.at = File /\ walk.info = None
        /\ walk.up = None
        BY <2>1, Distinct DEF Idle, ConsumerStates, Dirs, Resources
  <2> HIDE DEF walk
  <2>3. PICK c \in ConsumerStates :
                 /\ Becomes(w, c) /\ c.pc \in {"idle", "resolve", "load"} /\ Walking(c, taken + 1)
                 /\ c.pc # "idle" => c.ev = taken + 1
        BY <2>1, <2>2, <1>0, BeginBecomes DEF Resources
  <2>4. consumer[w].pc = "idle" /\ taken' = taken + 1
        BY <2>1 DEF Begin
  <2>5. cache' \in [Resources -> Dirs] /\ cache'[Dir] = cache[Dir]
        BY <1>0, <1>2, Distinct DEF HandleMoved, Dirs, Resources
  <2> QED BY <1>0, <2>1, <2>3, <2>4, <2>5 DEF Takes
<1>3. CASE HandleTrashed(w)
  <2> DEFINE on == [Idle EXCEPT !.pc = "resolve", !.at = events[taken + 1].dir]
             walk == IF lost' # lost THEN Idle ELSE on
  <2>1. /\ taken < Len(events) /\ StoreActivity(File, {taken + 1}) /\ cache' = cache
        /\ Begin(w, "trashed", walk)
        BY <1>3 DEF HandleTrashed
  <2>k. events[taken + 1].kind = "trashed"
        BY <2>1 DEF Begin
  <2>d. events[taken + 1].dir \in {Dir, Root}
        BY <2>1, <2>k, <1>e DEF Dirs
  <2>2. on \in ConsumerStates /\ on.pc = "resolve" /\ on.at \in {Dir, Root} /\ on.info = None
        /\ on.up = None
        BY <2>d, Distinct DEF Idle, ConsumerStates, Dirs, Resources
  <2> HIDE DEF on
  <2>w. walk \in ConsumerStates /\ (walk = Idle \/ (walk.pc = "resolve" /\ walk.at \in {Dir, Root}
           /\ walk.info = None /\ walk.up = None))
        BY <2>2, <1>i
  <2> HIDE DEF walk
  <2>3. PICK c \in ConsumerStates :
                 /\ Becomes(w, c) /\ c.pc \in {"idle", "resolve", "load"} /\ Walking(c, taken + 1)
                 /\ c.pc = walk.pc
                 /\ c.pc # "idle" => c.ev = taken + 1 /\ c.at = walk.at
        BY <2>1, <2>w, <1>0, BeginBecomes DEF Resources
  <2>4. consumer[w].pc = "idle" /\ taken' = taken + 1
        BY <2>1 DEF Begin
  <2>5. Stored(File, {taken + 1})
        BY <1>0, <2>1, StoreStores DEF Resources
  <2>6. c.pc = "idle" \/ c.at # File
        BY <2>3, <2>w, <1>i, Distinct
  <2>7. \E k \in Resources : Stored(k, {taken + 1}) /\ (c.pc = "idle" \/ (k = File /\ c.at # File))
        BY <2>5, <2>6 DEF Resources
  <2> QED BY <1>0, <2>1, <2>3, <2>4, <2>7 DEF Takes
<1>4. CASE HandleSpace(w)
  <2>1. StoreActivity(Root, {taken + 1}) /\ Begin(w, "space", Idle) /\ cache' = cache
        BY <1>4 DEF HandleSpace
  <2>3. PICK c \in ConsumerStates :
                 /\ Becomes(w, c) /\ c.pc \in {"idle", "resolve", "load"} /\ Walking(c, taken + 1)
                 /\ c.pc = "idle"
        BY <2>1, <1>0, <1>i, BeginBecomes
  <2>4. consumer[w].pc = "idle" /\ taken' = taken + 1 /\ taken < Len(events)
        BY <2>1 DEF Begin
  <2>5. Stored(Root, {taken + 1})
        BY <1>0, <2>1, StoreStores DEF Resources
  <2>6. \E k \in Resources : Stored(k, {taken + 1}) /\ (c.pc = "idle" \/ (k = File /\ c.at # File))
        BY <2>3, <2>5 DEF Resources
  <2> QED BY <1>0, <2>1, <2>3, <2>4, <2>6 DEF Takes
<1>5. CASE HandlePurged(w)
  <2>1. Begin(w, "purged", Idle) /\ cache' = cache /\ SameBucket
        BY <1>5 DEF HandlePurged, SameBucket, bucketVars
  <2>3. PICK c \in ConsumerStates :
                 /\ Becomes(w, c) /\ c.pc \in {"idle", "resolve", "load"} /\ Walking(c, taken + 1)
                 /\ c.pc = "idle"
        BY <2>1, <1>0, <1>i, BeginBecomes
  <2>4. consumer[w].pc = "idle" /\ taken' = taken + 1 /\ taken < Len(events)
        BY <2>1 DEF Begin
  <2> QED BY <1>0, <2>1, <2>3, <2>4 DEF Takes
<1> QED BY <1>1, <1>2, <1>3, <1>4, <1>5 DEF Handle

\* A consumer that gives up.
LEMMA IdleBecomes ==
    /\ Idle \in ConsumerStates /\ Idle.pc = "idle"
    /\ \A n \in Nat : Walking(Idle, n)
BY Distinct DEF Idle, ConsumerStates, Walking, Dirs

\* The next resource of a walk.
LEMMA WalkToBecomes ==
    ASSUME TypeOK, NEW w \in Consumers, NEW p \in {Dir, Root},
           consumer[w].ev \in 1 .. taken, Below(consumer[w].at, p),
           consumer[w].pc \in {"parent", "set"}, WalkTo(w, p)
    PROVE  \E c \in ConsumerStates :
              /\ Becomes(w, c) /\ Walking(c, taken)
              /\ GoesOn(consumer[w], c) /\ c.ev = consumer[w].ev
<1> DEFINE c == [Idle EXCEPT !.pc = "load", !.ev = consumer[w].ev, !.at = p]
<1>1. consumer[w].ev \in Nat
      BY DEF TypeOK, ConsumerStates
<1>2. /\ c \in ConsumerStates /\ c.pc = "load" /\ c.ev = consumer[w].ev /\ c.at = p
      /\ c.up = None /\ c.info = None
      BY <1>1, Distinct DEF Idle, ConsumerStates, Dirs, Resources
<1>3. consumer' = [consumer EXCEPT ![w] = c]
      BY DEF WalkTo
<1> HIDE DEF c
<1>4. Walking(c, taken)
      BY <1>2, Distinct DEF Walking, Resources
<1> QED BY <1>2, <1>3, <1>4 DEF Becomes, GoesOn

\* A step of a walk moves one consumer and leaves the debouncer and the bucket alone.
LEMMA WalkKind == ASSUME DebounceInv, NEW w \in Consumers, Walk(w) PROVE Advances(w)
<1> USE DEF DebounceInv
<1>0. /\ taken' = taken /\ SameSpace /\ SameDebouncer /\ SameBucket /\ TypeOK
      /\ taken \in Nat /\ where \in Dirs /\ cache \in [Resources -> Dirs] /\ cache[Dir] # Dir
      /\ consumer[w] \in ConsumerStates /\ consumer \in [Consumers -> ConsumerStates]
      BY DEF Walk, SameSpace, SameDebouncer, SameBucket, debouncerVars, bucketVars, TypeOK
<1>1. Walking(consumer[w], taken)
      BY DEF Walks
<1>2. /\ consumer[w].item \in Nat /\ consumer[w].info \in Dirs /\ consumer[w].up \in Dirs
      /\ consumer[w].ev \in Nat /\ consumer[w].at \in Resources \cup {None}
      BY <1>0 DEF ConsumerStates
<1>b. consumer[w].pc # "idle" => consumer[w].ev \in 1 .. taken /\ consumer[w].at \in Resources
      BY <1>1 DEF Walking
<1>g. ASSUME Becomes(w, Idle) PROVE \E c \in ConsumerStates :
          /\ Becomes(w, c) /\ Walking(c, taken)
          /\ GoesOn(consumer[w], c) /\ (c.pc # "idle" => c.ev = consumer[w].ev)
      BY <1>0, <1>g, IdleBecomes DEF GoesOn
<1>3. CASE Resolve(w)
  <2> DEFINE k == consumer[w].at
             parent == IF k = File THEN where ELSE IF k = Dir THEN Root ELSE None
  <2>1. consumer[w].pc = "resolve" /\ cache' = cache
        BY <1>3 DEF Resolve
  <2>2. parent \in Dirs /\ (k = Dir => parent # Dir)
        BY <1>0, Distinct DEF Dirs
  <2>3. \/ consumer' = [consumer EXCEPT ![w].pc = "load", ![w].info = parent]
        \/ consumer' = [consumer EXCEPT ![w] = Idle]
        BY <1>3 DEF Resolve
  <2> HIDE DEF parent
  <2>4. CASE consumer' = [consumer EXCEPT ![w] = Idle]
    <3>1. Becomes(w, Idle)
          BY <2>4, IdleBecomes DEF Becomes
    <3> QED BY <1>0, <1>g, <2>1, <3>1 DEF Advances
  <2>5. CASE consumer' = [consumer EXCEPT ![w].pc = "load", ![w].info = parent]
    <3>b. PICK b \in ConsumerStates : b = consumer[w]
          BY <1>0
    <3>1. PICK c : c = [b EXCEPT !.pc = "load", !.info = parent]
          OBVIOUS
    <3>2. /\ c \in ConsumerStates /\ c.pc = "load" /\ c.info = parent
          /\ c.at = consumer[w].at /\ c.ev = consumer[w].ev /\ c.up = consumer[w].up
          BY <3>1, <3>b, <2>2 DEF ConsumerStates
    <3>3. consumer' = [consumer EXCEPT ![w] = c]
          BY <3>1, <3>b, <2>5, <1>0
    <3>4. Walking(c, taken)
          BY <3>2, <1>1, <2>1, <2>2 DEF Walking
    <3> QED BY <1>0, <2>1, <3>2, <3>3, <3>4 DEF Advances, Becomes, GoesOn
  <2> QED BY <2>3, <2>4, <2>5
<1>4. ASSUME NEW pc \in {"ask", "set"}, NEW d \in Dirs,
             consumer' = [consumer EXCEPT ![w].pc = pc, ![w].info = d],
             consumer[w].pc \in {"parent", "ask"}, consumer[w].pc = "ask" => pc = "set",
             pc = "set" => d # None, consumer[w].at = Dir => d # Dir
      PROVE  \E c \in ConsumerStates :
          /\ Becomes(w, c) /\ Walking(c, taken)
          /\ GoesOn(consumer[w], c) /\ (c.pc # "idle" => c.ev = consumer[w].ev)
  <2>b. PICK b \in ConsumerStates : b = consumer[w]
        BY <1>0
  <2>1. PICK c : c = [b EXCEPT !.pc = pc, !.info = d]
        OBVIOUS
  <2>2. /\ c \in ConsumerStates /\ c.pc = pc /\ c.info = d
        /\ c.at = consumer[w].at /\ c.ev = consumer[w].ev /\ c.up = consumer[w].up
        BY <2>1, <2>b DEF ConsumerStates
  <2>3. consumer' = [consumer EXCEPT ![w] = c]
        BY <2>1, <2>b, <1>4, <1>0
  <2>4. Walking(c, taken)
        BY <2>2, <1>1, <1>4 DEF Walking
  <2> QED BY <1>4, <2>2, <2>3, <2>4 DEF Becomes, GoesOn
<1>5. CASE FindParent(w)
  <2>1. consumer[w].pc = "parent" /\ cache' = cache /\ consumer[w].at \in {File, Dir}
        BY <1>5, <1>1 DEF FindParent, Walking, Resources
  <2>2. CASE consumer[w].up # None /\ WalkTo(w, consumer[w].up)
    <3>1. consumer[w].up \in {Dir, Root} /\ Below(consumer[w].at, consumer[w].up)
          BY <2>1, <2>2, <1>1, <1>2, Distinct DEF Walking, Below, Dirs
    <3> QED BY <3>1, <2>1, <2>2, <1>0, <1>b, WalkToBecomes DEF Advances
  <2>3. CASE cache[consumer[w].at] # None /\ WalkTo(w, cache[consumer[w].at])
    <3>1. cache[consumer[w].at] \in {Dir, Root} /\ Below(consumer[w].at, cache[consumer[w].at])
          BY <2>1, <2>3, <1>0, Distinct DEF Below, Dirs, Resources
    <3> QED BY <3>1, <2>1, <2>3, <1>0, <1>b, WalkToBecomes DEF Advances
  <2>4. CASE Goto(w, IF consumer[w].info = None THEN "ask" ELSE "set")
    <3> DEFINE pc == IF consumer[w].info = None THEN "ask" ELSE "set"
               d == consumer[w].info
    <3>1. consumer' = [consumer EXCEPT ![w].pc = pc, ![w].info = d]
      <4>1. consumer' = [consumer EXCEPT ![w].pc = pc]
            BY <2>4 DEF Goto
      <4> HIDE DEF pc
      <4> QED BY <4>1, <1>0 DEF ConsumerStates
    <3>2. pc \in {"ask", "set"} /\ d \in Dirs /\ (pc = "set" => d # None) /\ (consumer[w].at = Dir => d # Dir)
          BY <1>1, <1>2 DEF Walking
    <3> HIDE DEF pc
    <3> QED BY <3>1, <3>2, <2>1, <1>4, <1>0 DEF Advances
  <2> QED BY <2>2, <2>3, <2>4, <1>5 DEF FindParent
<1>6. CASE AskParent(w)
  <2> DEFINE parent == IF consumer[w].at = File THEN where ELSE Root
  <2>1. consumer[w].pc = "ask" /\ cache' = cache
        BY <1>6 DEF AskParent
  <2>2. \/ parent # None /\ consumer' = [consumer EXCEPT ![w].pc = "set", ![w].info = parent]
        \/ consumer' = [consumer EXCEPT ![w] = Idle]
        BY <1>6 DEF AskParent
  <2>3. parent \in Dirs /\ (consumer[w].at = Dir => parent # Dir)
        BY <1>0, Distinct DEF Dirs
  <2> HIDE DEF parent
  <2>4. CASE consumer' = [consumer EXCEPT ![w] = Idle]
    <3>1. Becomes(w, Idle)
          BY <2>4, IdleBecomes DEF Becomes
    <3> QED BY <1>0, <1>g, <2>1, <3>1 DEF Advances
  <2>5. CASE parent # None /\ consumer' = [consumer EXCEPT ![w].pc = "set", ![w].info = parent]
        BY <2>1, <2>3, <2>5, <1>4, <1>0 DEF Advances
  <2> QED BY <2>2, <2>4, <2>5
<1>7. CASE CacheParent(w)
  <2>1. /\ consumer[w].pc = "set" /\ cache' = [cache EXCEPT ![consumer[w].at] = consumer[w].info]
        /\ WalkTo(w, consumer[w].info)
        BY <1>7 DEF CacheParent
  <2>2. consumer[w].at \in {File, Dir} /\ consumer[w].info \in Dirs /\ consumer[w].info # None
        /\ (consumer[w].at = Dir => consumer[w].info # Dir)
        BY <2>1, <1>1, <1>2 DEF Walking, Resources
  <2>3. cache' \in [Resources -> Dirs] /\ cache'[Dir] # Dir
        BY <2>1, <2>2, <1>0 DEF Resources
  <2>4. consumer[w].info \in {Dir, Root} /\ Below(consumer[w].at, consumer[w].info)
        BY <2>2, Distinct DEF Below, Dirs
  <2> QED BY <2>1, <2>3, <2>4, <1>0, <1>b, WalkToBecomes DEF Advances
<1> QED BY <1>3, <1>5, <1>6, <1>7 DEF Walk

\* A consumer that is done with its resource.
LEMMA AscendLeaves ==
    ASSUME DebounceInv, NEW w \in Consumers, consumer[w].pc \in {"load", "store"}, Ascend(w)
    PROVE  Leaves(w)
<1> USE DEF DebounceInv
<1>0. /\ consumer \in [Consumers -> ConsumerStates] /\ consumer[w] \in ConsumerStates
      /\ taken \in Nat /\ Walking(consumer[w], taken)
      BY DEF TypeOK, Walks
<1>1. CASE consumer[w].at = Root
  <2>1. consumer' = [consumer EXCEPT ![w] = Idle]
        BY <1>0, <1>1 DEF Ascend
  <2> QED BY <1>0, <2>1, IdleBecomes DEF Leaves, Becomes
<1>2. CASE consumer[w].at # Root
  <2>b. PICK b \in ConsumerStates : b = consumer[w]
        BY <1>0
  <2>1. PICK c : c = [b EXCEPT !.pc = "parent", !.item = 0]
        OBVIOUS
  <2>2. /\ c \in ConsumerStates /\ c.pc = "parent" /\ c.info = b.info
        /\ c.at = b.at /\ c.ev = b.ev /\ c.up = b.up
        BY <2>1 DEF ConsumerStates
  <2>3. consumer' = [consumer EXCEPT ![w] = c]
        BY <1>0, <1>2, <2>1, <2>b DEF Ascend
  <2>4. Walking(c, taken)
        BY <1>0, <1>2, <2>2, <2>b DEF Walking
  <2> QED BY <2>b, <2>2, <2>3, <2>4 DEF Leaves, Becomes
<1> QED BY <1>1, <1>2

\* A consumer that goes on within Debounce.
LEMMA DebounceEnters ==
    ASSUME DebounceInv, NEW w \in Consumers, consumer[w].pc # "idle",
           NEW pc \in {"append", "store"}, NEW i \in Nat,
           consumer' = [consumer EXCEPT ![w].pc = pc, ![w].item = i]
    PROVE  Enters(w, pc, i)
<1>0. /\ consumer \in [Consumers -> ConsumerStates] /\ consumer[w] \in ConsumerStates
      /\ taken \in Nat /\ Walking(consumer[w], taken)
      BY DEF DebounceInv, TypeOK, Walks
<1>b. PICK b \in ConsumerStates : b = consumer[w]
      BY <1>0
<1>1. PICK c : c = [b EXCEPT !.pc = pc, !.item = i]
      OBVIOUS
<1>2. /\ c \in ConsumerStates /\ c.pc = pc /\ c.item = i /\ c.info = b.info
      /\ c.at = b.at /\ c.ev = b.ev /\ c.up = b.up
      BY <1>1 DEF ConsumerStates
<1>3. consumer' = [consumer EXCEPT ![w] = c]
      BY <1>0, <1>1, <1>b
<1>4. Walking(c, taken)
      BY <1>0, <1>2, <1>b DEF Walking
<1> QED BY <1>b, <1>2, <1>3, <1>4 DEF Enters, Becomes

\* Without a write buffer the activity is written at once.
LEMMA DebounceNothingKind ==
    ASSUME DebounceInv, NEW w \in Consumers, DebounceNothing(w) PROVE StoresNow(w)
<1>1. consumer[w].pc = "load" /\ consumer[w].at \in Resources /\ consumer[w].ev \in Nat
      BY DEF DebounceInv, TypeOK, ConsumerStates, Walks, Walking, DebounceNothing
<1>2. Stored(consumer[w].at, {consumer[w].ev})
      BY <1>1, StoreStores DEF DebounceNothing, DebounceInv
<1>3. Leaves(w)
      BY <1>1, AscendLeaves DEF DebounceNothing
<1> QED BY <1>1, <1>2, <1>3 DEF DebounceNothing, StoresNow, SameSpace, SameDebouncer, debouncerVars

\* DebounceLoad finds the pending item of the resource, or makes one.
LEMMA DebounceLoadKind ==
    ASSUME DebounceInv, NEW w \in Consumers, DebounceLoad(w) PROVE LooksUp(w)
<1>1. /\ consumer[w].pc = "load" /\ mutex = None /\ mutex' = w
      /\ consumer[w].at \in Resources
      /\ noted' = [noted EXCEPT ![consumer[w].at] = @ \cup {consumer[w].ev}]
      /\ pending' = pending /\ inProgress' = inProgress /\ late' = late
      /\ taken' = taken /\ cache' = cache /\ SameSpace /\ SameBucket
      BY DEF DebounceLoad, DebounceInv, Walks, Walking, SameSpace, SameBucket, bucketVars
<1>2. pending[consumer[w].at] \in Nat /\ Len(item) + 1 \in Nat
      BY <1>1 DEF DebounceInv, TypeOK
<1>3. CASE pending[consumer[w].at] # 0
  <2>1. /\ consumer' = [consumer EXCEPT ![w].pc = "append", ![w].item = pending[consumer[w].at]]
        /\ item' = item
        BY <1>3 DEF DebounceLoad
  <2>2. Enters(w, "append", pending[consumer[w].at])
        BY <1>1, <1>2, <2>1, DebounceEnters
  <2> QED BY <1>1, <1>3, <2>1, <2>2 DEF LooksUp
<1>4. CASE pending[consumer[w].at] = 0
  <2>1. /\ consumer' = [consumer EXCEPT ![w].pc = "store", ![w].item = Len(item) + 1]
        /\ item' = Append(item, NewItem(w))
        BY <1>4 DEF DebounceLoad, NewItem
  <2>2. Enters(w, "store", Len(item) + 1)
        BY <1>1, <1>2, <2>1, DebounceEnters
  <2> QED BY <1>1, <1>4, <2>1, <2>2 DEF LooksUp
<1> QED BY <1>3, <1>4

\* DebounceAppend adds the activity to the item that was found.
LEMMA DebounceAppendKind ==
    ASSUME DebounceInv, NEW w \in Consumers, DebounceAppend(w) PROVE Adds(w)
<1> DEFINE i == consumer[w].item
           e == consumer[w].ev
<1>1. /\ consumer[w].pc = "append" /\ i \in Items /\ e \in Nat /\ i \in Nat
      /\ item \in Seq(ItemStates) /\ consumer \in [Consumers -> ConsumerStates]
      BY DEF DebounceAppend, DebounceInv, TypeOK, Guarded, InDebounce, ConsumerStates
<1>2. consumer' = [consumer EXCEPT ![w].pc = "store", ![w].item = i]
  <2>1. consumer' = [consumer EXCEPT ![w].pc = "store"]
        BY DEF DebounceAppend, Goto
  <2> QED BY <1>1, <2>1 DEF ConsumerStates
<1>3. Enters(w, "store", i)
      BY <1>1, <1>2, DebounceEnters
<1>4. PICK y \in ItemStates : y = item[i]
      BY <1>1 DEF Items
<1>5. PICK x : x = [y EXCEPT !.acts = @ \cup {e}]
      OBVIOUS
<1>6. /\ x \in ItemStates /\ x.key = y.key /\ x.pc = y.pc
      /\ x.snap = y.snap /\ x.acts = y.acts \cup {e}
      BY <1>1, <1>5 DEF ItemStates
<1>7. item' = [item EXCEPT ![i] = x]
      BY <1>1, <1>4, <1>5 DEF DebounceAppend, Items
<1>8. late' = IF TooLate(i) THEN [late EXCEPT ![item[i].key] = @ \cup {e}] ELSE late
      BY DEF DebounceAppend
<1>9. \E z \in ItemStates :
          /\ ItemBecomes(i, z) /\ z.key = item[i].key /\ z.pc = item[i].pc
          /\ z.snap = item[i].snap /\ z.acts = item[i].acts \cup {e}
      BY <1>4, <1>6, <1>7 DEF ItemBecomes
<1>10. /\ mutex' = mutex /\ pending' = pending /\ inProgress' = inProgress /\ noted' = noted
       /\ taken' = taken /\ cache' = cache /\ SameSpace /\ SameBucket
      BY DEF DebounceAppend, SameSpace, SameBucket, bucketVars
<1> QED BY <1>1, <1>3, <1>8, <1>9, <1>10 DEF Adds

\* DebounceStore makes the item the pending one and lets the mutex go.
LEMMA DebounceStoreKind ==
    ASSUME DebounceInv, NEW w \in Consumers, DebounceStore(w) PROVE Schedules(w)
<1>1. Leaves(w)
      BY AscendLeaves DEF DebounceStore
<1> QED BY <1>1 DEF DebounceStore, Schedules, SameSpace, SameBucket, bucketVars

\* A callback that only goes on.
LEMMA ItemSteps ==
    ASSUME TypeOK, NEW i \in Items, NEW to \in {"armed", "reset", "delete", "mark"}, ItemTo(i, to)
    PROVE  Steps(i, item[i].pc, to)
<1>1. item \in Seq(ItemStates)
      BY DEF TypeOK
<1>2. PICK y \in ItemStates : y = item[i]
      BY <1>1 DEF Items
<1>3. PICK x : x = [y EXCEPT !.pc = to]
      OBVIOUS
<1>4. x \in ItemStates /\ x.key = y.key /\ x.pc = to /\ x.acts = y.acts /\ x.snap = y.snap
      BY <1>3 DEF ItemStates
<1>5. item' = [item EXCEPT ![i] = x]
      BY <1>1, <1>2, <1>3 DEF ItemTo, Items
<1> QED BY <1>2, <1>4, <1>5 DEF Steps, ItemBecomes

\* The callback that starts the timer again starts its own.
LEMMA RescheduleOwn ==
    ASSUME DebounceInv, NEW i \in Items, Reschedule(i)
    PROVE  pending[item[i].key] = i /\ ItemTo(i, "armed")
<1>1. item[i].pc = "reset" /\ mutex = None /\ item \in Seq(ItemStates)
      BY DEF Reschedule, DebounceInv, TypeOK
<1>2. \A w \in Consumers : consumer[w].pc # "store"
      BY <1>1, Distinct DEF DebounceInv, Guarded, InDebounce
<1>3. pending[item[i].key] = i
      BY <1>1, <1>2 DEF DebounceInv, Scheduled
<1>4. item' = [j \in Items |-> IF j = i THEN [item[j] EXCEPT !.pc = "armed"] ELSE item[j]]
      BY <1>3 DEF Reschedule
<1>5. item' = [item EXCEPT ![i].pc = "armed"]
      BY <1>1, <1>4 DEF Items
<1> QED BY <1>3, <1>5 DEF ItemTo

\* A step of a timer callback concerns its own item.
LEMMA CallbackKind == ASSUME DebounceInv, NEW i \in Items, Callback(i) PROVE CallbackStep(i)
<1>a. TypeOK /\ item \in Seq(ItemStates) /\ inProgress \subseteq Resources
      BY DEF DebounceInv, TypeOK
<1>c. item[i] \in ItemStates
      BY <1>a DEF Items
<1>0. /\ TypeOK /\ item \in Seq(ItemStates) /\ inProgress \subseteq Resources
      /\ item[i] \in ItemStates /\ item[i].key \in Resources
      BY <1>a, <1>c DEF ItemStates
<1>1. SameWalks
      BY DEF Callback, Fire, Reschedule, RemoveItem, MarkInProgress, WriteBatch, SameWalks, SameSpace
<1>2. CASE Fire(i)
  <2>1. /\ item[i].pc = "armed" /\ pending' = pending /\ inProgress' = inProgress /\ SameBucket
        /\ ItemTo(i, "reset") \/ ItemTo(i, "delete")
        BY <1>2 DEF Fire, SameBucket, bucketVars
  <2>2. Steps(i, "armed", "reset") \/ Steps(i, "armed", "delete")
        BY <1>0, <2>1, ItemSteps
  <2> QED BY <1>0, <1>1, <2>1, <2>2 DEF CallbackStep
<1>3. CASE Reschedule(i)
  <2>1. item[i].pc = "reset" /\ pending' = pending /\ inProgress' = inProgress /\ SameBucket
        BY <1>3 DEF Reschedule, SameBucket, bucketVars
  <2>2. Steps(i, "reset", "armed")
        BY <1>0, <1>3, <2>1, ItemSteps, RescheduleOwn
  <2> QED BY <1>0, <1>1, <2>1, <2>2 DEF CallbackStep
<1>4. CASE RemoveItem(i)
  <2>1. /\ item[i].pc = "delete" /\ pending' = [pending EXCEPT ![item[i].key] = 0]
        /\ inProgress' = inProgress /\ SameBucket /\ ItemTo(i, "mark")
        BY <1>4 DEF RemoveItem, SameBucket, bucketVars
  <2>2. Steps(i, "delete", "mark")
        BY <1>0, <2>1, ItemSteps
  <2> QED BY <1>0, <1>1, <2>1, <2>2 DEF CallbackStep
<1>b. PICK y \in ItemStates : y = item[i]
      BY <1>0
<1>5. CASE MarkInProgress(i)
  <2>1. /\ item[i].pc = "mark" /\ pending' = pending /\ SameBucket
        /\ inProgress' = inProgress \cup {item[i].key}
        /\ item' = [item EXCEPT ![i].pc = "store", ![i].snap = item[i].acts]
        BY <1>5 DEF MarkInProgress, SameBucket, bucketVars
  <2>2. PICK x : x = [y EXCEPT !.pc = "store", !.snap = y.acts]
        OBVIOUS
  <2>3. x \in ItemStates /\ x.key = y.key /\ x.pc = "store" /\ x.acts = y.acts /\ x.snap = y.acts
        BY <2>2 DEF ItemStates
  <2>4. item' = [item EXCEPT ![i] = x]
        BY <1>0, <1>b, <2>1, <2>2 DEF Items
  <2>5. Steps(i, "mark", "store")
        BY <1>b, <2>1, <2>3, <2>4 DEF Steps, ItemBecomes
  <2>6. inProgress' \subseteq Resources
        BY <1>0, <2>1
  <2> QED BY <1>0, <1>1, <2>1, <2>5, <2>6 DEF CallbackStep
<1>6. CASE WriteBatch(i)
  <2>1. /\ item[i].pc = "store" /\ pending' = pending
        /\ StoreActivity(item[i].key, item[i].snap)
        /\ inProgress' = inProgress \ {item[i].key}
        /\ item' = [item EXCEPT ![i].pc = "done", ![i].snap = {}]
        BY <1>6 DEF WriteBatch
  <2>2. PICK x : x = [y EXCEPT !.pc = "done", !.snap = {}]
        OBVIOUS
  <2>3. x \in ItemStates /\ x.key = y.key /\ x.pc = "done" /\ x.acts = y.acts /\ x.snap = {}
        BY <2>2 DEF ItemStates
  <2>4. item' = [item EXCEPT ![i] = x]
        BY <1>0, <1>b, <2>1, <2>2 DEF Items
  <2>5. Steps(i, "store", "done")
        BY <1>b, <2>1, <2>3, <2>4 DEF Steps, ItemBecomes
  <2>6. inProgress' \subseteq Resources
        BY <1>0, <2>1
  <2>7. item[i].snap \in SUBSET Nat
        BY <1>0 DEF ItemStates
  <2>8. Stored(item[i].key, item[i].snap)
        BY <1>0, <2>1, <2>7, StoreStores
  <2> QED BY <1>0, <1>1, <2>1, <2>5, <2>6, <2>8 DEF CallbackStep
<1> QED BY <1>2, <1>3, <1>4, <1>5, <1>6 DEF Callback

\* An entry of the cache that expires changes nothing else.
LEMMA ExpireKind == ASSUME DebounceInv, NEW k \in Resources, Expire(k) PROVE CacheExpires
<1>1. cache' \in [Resources -> Dirs] /\ cache'[Dir] # Dir
      BY Distinct DEF Expire, DebounceInv, TypeOK, Dirs, Resources
<1> QED BY <1>1 DEF Expire, CacheExpires, SameSpace, SameDebouncer, SameBucket, debouncerVars, bucketVars

\* Every step is of one of the kinds.
LEMMA NextKinds == ASSUME DebounceInv, [Next]_vars PROVE Kinds
<1>1. CASE Users
      BY <1>1, UsersKind DEF Kinds
<1>2. ASSUME NEW w \in Consumers, Consume(w) PROVE Kinds
      BY <1>2, HandleKind, WalkKind, DebounceNothingKind, DebounceLoadKind, DebounceAppendKind,
         DebounceStoreKind DEF Consume, Kinds
<1>3. ASSUME NEW i \in Items, Callback(i) PROVE Kinds
      BY <1>3, CallbackKind DEF Kinds
<1>4. ASSUME NEW k \in Resources, Expire(k) PROVE Kinds
      BY <1>4, ExpireKind DEF Kinds
<1>5. CASE UNCHANGED vars
      BY <1>5 DEF Kinds
<1> QED BY <1>1, <1>2, <1>3, <1>4, <1>5 DEF Next

\* No step loses the count of the failures.
LEMMA FailuresCounted == ASSUME TypeOK, [Next]_vars PROVE failures' \in Nat
<1> USE DEF TypeOK, Fail
<1>1. \A k, acts : StoreActivity(k, acts) => failures' \in Nat
      BY DEF StoreActivity
<1>2. CASE UNCHANGED vars \/ Users \/ \E k \in Resources : Expire(k)
      BY <1>2 DEF vars, Users, Expire
<1>3. ASSUME NEW i \in Items, Callback(i) PROVE failures' \in Nat
      BY <1>1, <1>3 DEF Callback, Fire, Reschedule, RemoveItem, MarkInProgress, WriteBatch
<1>4. ASSUME NEW w \in Consumers, Consume(w) PROVE failures' \in Nat
  <2>1. CASE Handle(w)
        BY <1>1, <2>1 DEF Handle, HandleChanged, HandleMoved, HandleTrashed, HandleSpace, HandlePurged
  <2>2. CASE Walk(w)
        BY <2>2 DEF Walk, Resolve, FindParent, AskParent, CacheParent
  <2>3. CASE DebounceNothing(w) \/ DebounceLoad(w) \/ DebounceAppend(w) \/ DebounceStore(w)
        BY <1>1, <2>3 DEF DebounceNothing, DebounceLoad, DebounceAppend, DebounceStore
  <2> QED BY <1>4, <2>1, <2>2, <2>3 DEF Consume
<1> QED BY <1>2, <1>3, <1>4 DEF Next

-----------------------------------------------------------------------------
(* The debouncer: DebounceInv.                                             *)

\* What a consumer's step does to all of them.
LEMMA BecomesApplied ==
    ASSUME TypeOK, NEW w \in Consumers, NEW c, Becomes(w, c)
    PROVE  /\ consumer' \in [Consumers -> ConsumerStates] /\ consumer'[w] = c
           /\ \A v \in Consumers : v # w => consumer'[v] = consumer[v]
BY DEF TypeOK, Becomes

\* What a callback's step does to all the items.
LEMMA ItemApplied ==
    ASSUME TypeOK, NEW i \in Items, NEW x, ItemBecomes(i, x)
    PROVE  /\ item' \in Seq(ItemStates) /\ Items' = Items /\ item'[i] = x
           /\ \A j \in Items : j # i => item'[j] = item[j]
BY DEF TypeOK, ItemBecomes, Items

\* What Debounce does to all the items when it makes one.
LEMMA NewItemApplied ==
    ASSUME TypeOK, NEW x \in ItemStates, item' = Append(item, x)
    PROVE  /\ item' \in Seq(ItemStates) /\ Len(item) \in Nat /\ Len(item) + 1 \notin Items
           /\ Items' = Items \cup {Len(item) + 1} /\ item'[Len(item) + 1] = x
           /\ \A j \in Items : item'[j] = item[j]
BY DEF TypeOK, Items

\* What a batch does to the bucket.
LEMMA StoredApplied ==
    ASSUME TypeOK, NEW k \in Resources, NEW acts \in SUBSET Nat, Stored(k, acts)
    PROVE  put' \in [Resources -> Seq(SUBSET Nat)] /\ lost' \in [Resources -> SUBSET Nat]
<1>1. put \in [Resources -> Seq(SUBSET Nat)] /\ lost \in [Resources -> SUBSET Nat]
      BY DEF TypeOK
<1>2. Append(put[k], acts) \in Seq(SUBSET Nat)
      BY <1>1
<1>3. lost[k] \cup acts \in SUBSET Nat
      BY <1>1
<1> QED BY <1>1, <1>2, <1>3 DEF Stored

\* Every kind of step keeps the types.
LEMMA KindsTyped == ASSUME DebounceInv, Kinds, failures' \in Nat PROVE TypeOK'
<1>0. TypeOK
      BY DEF DebounceInv
<1>n. \A w \in Consumers : consumer[w].pc # "idle" => consumer[w].at \in Resources /\ consumer[w].ev \in Nat
      BY DEF DebounceInv, Walks, Walking, TypeOK, ConsumerStates
<1>1. CASE Published
  <2>1. PICK e \in EventStates : events' = Append(events, e)
        BY <1>1 DEF Published
  <2>2. events' \in Seq(EventStates) /\ Len(events') = Len(events) + 1 /\ Len(events) \in Nat
        BY <1>0, <2>1 DEF TypeOK
  <2>3. /\ where' \in Dirs /\ taken' = taken /\ consumer' = consumer /\ cache' = cache
        /\ SameDebouncer /\ SameBucket
        BY <1>1 DEF Published
  <2>4. taken' \in Nat /\ taken' <= Len(events')
        BY <1>0, <2>2, <2>3 DEF TypeOK
  <2> QED BY <1>0, <2>2, <2>3, <2>4 DEF TypeOK, SameDebouncer, SameBucket
<1>2. ASSUME NEW w \in Consumers, Takes(w) PROVE TypeOK'
  <2>1. consumer' \in [Consumers -> ConsumerStates]
        BY <1>0, <1>2, BecomesApplied DEF Takes
  <2>2. put' \in [Resources -> Seq(SUBSET Nat)] /\ lost' \in [Resources -> SUBSET Nat]
    <3>1. {taken + 1} \in SUBSET Nat
          BY <1>0 DEF TypeOK
    <3> QED BY <1>0, <1>2, <3>1, StoredApplied DEF Takes, SameBucket, TypeOK
  <2>3. taken' \in Nat /\ taken' <= Len(events) /\ SameSpace /\ SameDebouncer
        /\ cache' \in [Resources -> Dirs] /\ cache'[Dir] # Dir
        BY <1>0, <1>2 DEF Takes, TypeOK
  <2> QED BY <1>0, <2>1, <2>2, <2>3 DEF TypeOK, SameSpace, SameDebouncer
<1>3. ASSUME NEW w \in Consumers, Advances(w) PROVE TypeOK'
  <2>1. consumer' \in [Consumers -> ConsumerStates]
        BY <1>0, <1>3, BecomesApplied DEF Advances
  <2> QED BY <1>0, <1>3, <2>1 DEF Advances, TypeOK, SameSpace, SameDebouncer, SameBucket
<1>4. ASSUME NEW w \in Consumers, StoresNow(w) PROVE TypeOK'
  <2>1. consumer' \in [Consumers -> ConsumerStates]
        BY <1>0, <1>4, BecomesApplied DEF StoresNow, Leaves
  <2>2. put' \in [Resources -> Seq(SUBSET Nat)] /\ lost' \in [Resources -> SUBSET Nat]
        BY <1>0, <1>4, <1>n, StoredApplied DEF StoresNow
  <2> QED BY <1>0, <1>4, <2>1, <2>2 DEF StoresNow, TypeOK, SameSpace, SameDebouncer
<1>5. ASSUME NEW w \in Consumers, LooksUp(w) PROVE TypeOK'
  <2>1. consumer' \in [Consumers -> ConsumerStates]
        BY <1>0, <1>5, BecomesApplied DEF LooksUp, Enters
  <2>2. consumer[w].at \in Resources /\ consumer[w].ev \in Nat
        BY <1>5, <1>n DEF LooksUp
  <2>3. NewItem(w) \in ItemStates
        BY <2>2 DEF NewItem, ItemStates
  <2>4. item' \in Seq(ItemStates)
    <3>1. item' = item \/ item' = Append(item, NewItem(w))
          BY <1>5 DEF LooksUp
    <3> QED BY <1>0, <2>3, <3>1, NewItemApplied DEF TypeOK
  <2>5. noted' \in [Resources -> SUBSET Nat]
        BY <1>0, <1>5, <2>2 DEF LooksUp, TypeOK
  <2>6. pending' = pending /\ inProgress' = inProgress /\ late' = late
        /\ taken' = taken /\ cache' = cache /\ SameSpace /\ SameBucket
        BY <1>5 DEF LooksUp
  <2> QED BY <1>0, <2>1, <2>4, <2>5, <2>6 DEF TypeOK, SameSpace, SameBucket
<1>6. ASSUME NEW w \in Consumers, Adds(w) PROVE TypeOK'
  <2>1. consumer' \in [Consumers -> ConsumerStates]
        BY <1>0, <1>6, BecomesApplied DEF Adds, Enters
  <2>2. consumer[w].item \in Items /\ consumer[w].ev \in Nat
        BY <1>6, <1>n DEF Adds, DebounceInv, Guarded, InDebounce
  <2>3. item' \in Seq(ItemStates)
        BY <1>0, <1>6, <2>2, ItemApplied DEF Adds
  <2>4. item[consumer[w].item] \in ItemStates
        BY <1>0, <2>2 DEF TypeOK, Items
  <2>5. item[consumer[w].item].key \in Resources
        BY <2>4 DEF ItemStates
  <2>6. late' \in [Resources -> SUBSET Nat]
        BY <1>0, <1>6, <2>2, <2>5 DEF Adds, TypeOK
  <2>7. pending' = pending /\ inProgress' = inProgress /\ noted' = noted
        /\ taken' = taken /\ cache' = cache /\ SameSpace /\ SameBucket
        BY <1>6 DEF Adds
  <2> QED BY <1>0, <2>1, <2>3, <2>6, <2>7 DEF TypeOK, SameSpace, SameBucket
<1>7. ASSUME NEW w \in Consumers, Schedules(w) PROVE TypeOK'
  <2>1. consumer' \in [Consumers -> ConsumerStates]
        BY <1>0, <1>7, BecomesApplied DEF Schedules, Leaves
  <2>2. pending' \in [Resources -> Nat]
    <3>1. consumer[w].item \in Nat
          BY <1>0 DEF TypeOK, ConsumerStates
    <3> QED BY <1>0, <1>7, <3>1 DEF Schedules, TypeOK
  <2> QED BY <1>0, <1>7, <2>1, <2>2 DEF Schedules, TypeOK, SameSpace, SameBucket
<1>8. ASSUME NEW i \in Items, CallbackStep(i) PROVE TypeOK'
  <2>1. item' \in Seq(ItemStates)
        BY <1>0, <1>8, ItemApplied DEF CallbackStep, Steps
  <2>2. pending' \in [Resources -> Nat]
        BY <1>0, <1>8 DEF CallbackStep, TypeOK
  <2>3. item[i] \in ItemStates
        BY <1>0 DEF TypeOK, Items
  <2>4. item[i].key \in Resources /\ item[i].snap \in SUBSET Nat
        BY <2>3 DEF ItemStates
  <2>5. put' \in [Resources -> Seq(SUBSET Nat)] /\ lost' \in [Resources -> SUBSET Nat]
    <3>1. SameBucket \/ Stored(item[i].key, item[i].snap)
          BY <1>8 DEF CallbackStep
    <3> QED BY <1>0, <2>4, <3>1, StoredApplied DEF SameBucket, TypeOK
  <2>6. SameWalks /\ inProgress' \subseteq Resources
        BY <1>8 DEF CallbackStep
  <2> QED BY <1>0, <2>1, <2>2, <2>5, <2>6 DEF TypeOK, SameWalks, SameSpace
<1>9. CASE CacheExpires
      BY <1>0, <1>9 DEF CacheExpires, TypeOK, SameSpace, SameDebouncer, SameBucket
<1>10. CASE UNCHANGED vars
      BY <1>0, <1>10 DEF vars, TypeOK, debouncerVars, bucketVars
<1> QED BY <1>1, <1>2, <1>3, <1>4, <1>5, <1>6, <1>7, <1>8, <1>9, <1>10 DEF Kinds

\* A consumer keeps its event, gets a new one, or is idle.
LEMMA WalksMove ==
    ASSUME TypeOK, Walks, NEW w \in Consumers, NEW c, Becomes(w, c), SameSpace,
           taken' \in {taken, taken + 1}, Walking(c, taken'),
           \/ c.pc = "idle"
           \/ c.ev = taken + 1
           \/ c.ev = consumer[w].ev /\ consumer[w].pc # "idle"
    PROVE  Walks'
<1>1. /\ consumer'[w] = c
      /\ \A v \in Consumers : v # w => consumer'[v] = consumer[v]
      BY BecomesApplied
<1>2. \A v \in Consumers : consumer[v].pc # "idle" => consumer[v].ev \in 1 .. taken
      BY DEF Walks, Walking
<1>3. taken \in Nat
      BY DEF TypeOK
<1>4. \A v \in Consumers : Walking(consumer[v], taken')
      BY <1>3 DEF Walks, Walking
<1>5. \A v \in Consumers : Walking(consumer'[v], taken')
      BY <1>1, <1>4
<1>6. \A v \in Consumers : v # w /\ consumer'[v].pc # "idle" /\ c.pc # "idle" => consumer'[v].ev # c.ev
      BY <1>1, <1>2, <1>3 DEF Walks
<1>7. \A u, v \in Consumers :
          consumer'[u].pc # "idle" /\ consumer'[v].pc # "idle" /\ consumer'[u].ev = consumer'[v].ev => u = v
      BY <1>1, <1>6 DEF Walks
<1> QED BY <1>5, <1>7 DEF Walks, SameSpace

\* Every kind of step keeps the walks as they should be.
LEMMA KindsWalk == ASSUME DebounceInv, Kinds PROVE Walks'
<1>0. TypeOK /\ Walks /\ taken \in Nat
      BY DEF DebounceInv, TypeOK
<1>1. CASE Published
  <2>1. PICK e \in EventStates : events' = Append(events, e) /\ (e.kind = "trashed" => e.dir # None)
        BY <1>1 DEF Published
  <2>2. \A x \in 1 .. Len(events') : events'[x].kind = "trashed" => events'[x].dir # None
        BY <1>0, <2>1 DEF TypeOK, Walks
  <2> QED BY <1>0, <1>1, <2>2 DEF Walks, Published
<1>2. ASSUME NEW w \in Consumers, Takes(w) PROVE Walks'
      BY <1>0, <1>2, WalksMove DEF Takes
<1>3. ASSUME NEW w \in Consumers, Advances(w) PROVE Walks'
  <2>1. PICK c \in ConsumerStates : Becomes(w, c) /\ Walking(c, taken) /\ (c.pc # "idle" => c.ev = consumer[w].ev)
        BY <1>3 DEF Advances
  <2>2. consumer[w].pc # "idle" /\ SameSpace /\ taken' = taken
        BY <1>3 DEF Advances
  <2> QED BY <1>0, <2>1, <2>2, WalksMove
<1>4. ASSUME NEW w \in Consumers, consumer[w].pc # "idle", Leaves(w), SameSpace, taken' = taken PROVE Walks'
  <2>1. PICK c \in ConsumerStates : Becomes(w, c) /\ Walking(c, taken) /\ (c.pc # "idle" => c.ev = consumer[w].ev)
        BY <1>4 DEF Leaves
  <2> QED BY <1>0, <1>4, <2>1, WalksMove
<1>5. ASSUME NEW w \in Consumers, consumer[w].pc # "idle", NEW pc, NEW i, Enters(w, pc, i),
             SameSpace, taken' = taken
      PROVE Walks'
  <2>1. PICK c \in ConsumerStates : Becomes(w, c) /\ Walking(c, taken) /\ c.ev = consumer[w].ev
        BY <1>5 DEF Enters
  <2> QED BY <1>0, <1>5, <2>1, WalksMove
<1>6. ASSUME NEW w \in Consumers, StoresNow(w) \/ LooksUp(w) \/ Adds(w) \/ Schedules(w) PROVE Walks'
      BY <1>4, <1>5, <1>6 DEF StoresNow, LooksUp, Adds, Schedules
<1>7. ASSUME NEW i \in Items, CallbackStep(i) PROVE Walks'
      BY <1>0, <1>7 DEF CallbackStep, SameWalks, SameSpace, Walks
<1>8. CASE CacheExpires
      BY <1>0, <1>8 DEF CacheExpires, SameSpace, Walks
<1>9. CASE UNCHANGED vars
      BY <1>0, <1>9 DEF vars, Walks
<1> QED BY <1>1, <1>2, <1>3, <1>6, <1>7, <1>8, <1>9 DEF Kinds

\* The mutex and the schedule stay as they are.
LEMMA GuardedStays ==
    ASSUME TypeOK, Guarded, Scheduled, NEW w \in Consumers, NEW c, Becomes(w, c),
           ~InDebounce(consumer[w]), ~InDebounce(c), SameDebouncer
    PROVE  Guarded' /\ Scheduled'
<1>1. /\ consumer'[w] = c
      /\ \A v \in Consumers : v # w => consumer'[v] = consumer[v]
      BY BecomesApplied
<1>2. Guarded'
      BY <1>1 DEF Guarded, SameDebouncer, Items
<1>3. \A v \in Consumers : consumer[v].pc = "store" => consumer'[v] = consumer[v]
      BY <1>1 DEF InDebounce
<1>4. Scheduled'
      BY <1>3 DEF Scheduled, SameDebouncer, Items
<1> QED BY <1>2, <1>4

\* DebounceLoad keeps items guarded by the mutex and scheduled.
LEMMA LooksUpGuarded == ASSUME DebounceInv, NEW w \in Consumers, LooksUp(w) PROVE Guarded' /\ Scheduled'
<1> USE DEF DebounceInv
<1>0. /\ consumer[w].pc = "load" /\ mutex = None /\ mutex' = w /\ pending' = pending
      /\ consumer[w].at \in Resources /\ consumer[w].ev \in Nat /\ TypeOK
      /\ item \in Seq(ItemStates)
      BY DEF LooksUp, Walks, Walking, TypeOK, ConsumerStates
<1>1. \A v \in Consumers : ~InDebounce(consumer[v])
      BY <1>0, Distinct DEF Guarded
<1>2. \A j \in Items : item[j].pc \in {"armed", "reset", "delete"} => pending[item[j].key] = j
      BY <1>1 DEF Scheduled, InDebounce
<1>3. CASE pending[consumer[w].at] # 0 /\ Enters(w, "append", pending[consumer[w].at]) /\ item' = item
  <2>1. PICK c \in ConsumerStates :
           Becomes(w, c) /\ c.pc = "append" /\ c.at = consumer[w].at /\ c.item = pending[consumer[w].at]
        BY <1>3 DEF Enters
  <2>2. consumer'[w] = c /\ \A v \in Consumers : v # w => consumer'[v] = consumer[v]
        BY <1>0, <2>1, BecomesApplied
  <2>3. Guarded'
        BY <1>0, <1>1, <1>3, <2>1, <2>2 DEF Guarded, InDebounce, Scheduled, Items
  <2>4. Scheduled'
        BY <1>0, <1>2, <1>3 DEF Scheduled, Items
  <2> QED BY <2>3, <2>4
<1>4. CASE /\ pending[consumer[w].at] = 0 /\ Enters(w, "store", Len(item) + 1)
           /\ item' = Append(item, NewItem(w))
  <2>1. PICK c \in ConsumerStates :
           Becomes(w, c) /\ c.pc = "store" /\ c.at = consumer[w].at /\ c.item = Len(item) + 1
        BY <1>4 DEF Enters
  <2>2. consumer'[w] = c /\ \A v \in Consumers : v # w => consumer'[v] = consumer[v]
        BY <1>0, <2>1, BecomesApplied
  <2>3. NewItem(w) \in ItemStates /\ NewItem(w).key = consumer[w].at /\ NewItem(w).snap = {}
        BY <1>0 DEF NewItem, ItemStates
  <2>4. /\ Items' = Items \cup {Len(item) + 1} /\ item'[Len(item) + 1] = NewItem(w)
        /\ \A j \in Items : item'[j] = item[j]
        BY <1>0, <1>4, <2>3, NewItemApplied
  <2>5. Guarded'
        BY <1>0, <1>1, <1>4, <2>1, <2>2, <2>3, <2>4 DEF Guarded, InDebounce
  <2>6. \A k \in Resources : pending'[k] # 0 => pending'[k] \in Items' /\ item'[pending'[k]].key = k
        BY <1>0, <2>4 DEF Scheduled
  <2>7. \A j \in Items' : item'[j].pc \in {"armed", "reset", "delete"} =>
           \/ pending'[item'[j].key] = j
           \/ \E v \in Consumers : consumer'[v].pc = "store" /\ consumer'[v].item = j
        BY <1>0, <1>2, <2>1, <2>2, <2>4
  <2>8. \A j \in Items' : item'[j].pc # "store" => item'[j].snap = {}
        BY <2>3, <2>4 DEF Scheduled
  <2> QED BY <2>5, <2>6, <2>7, <2>8 DEF Scheduled
<1> QED BY <1>3, <1>4 DEF LooksUp

\* So does DebounceAppend,
LEMMA AddsGuarded == ASSUME DebounceInv, NEW w \in Consumers, Adds(w) PROVE Guarded' /\ Scheduled'
<1> USE DEF DebounceInv
<1> DEFINE i == consumer[w].item
<1>0. consumer[w].pc = "append" /\ mutex' = mutex /\ pending' = pending /\ TypeOK /\ i \in Items
      BY DEF Adds, Guarded, InDebounce
<1>1. PICK c \in ConsumerStates :
         Becomes(w, c) /\ c.pc = "store" /\ c.at = consumer[w].at /\ c.item = i
      BY DEF Adds, Enters
<1>2. consumer'[w] = c /\ \A v \in Consumers : v # w => consumer'[v] = consumer[v]
      BY <1>0, <1>1, BecomesApplied
<1>3. PICK x \in ItemStates :
          /\ ItemBecomes(i, x) /\ x.key = item[i].key /\ x.pc = item[i].pc /\ x.snap = item[i].snap
      BY DEF Adds
<1>4. Items' = Items /\ item'[i] = x /\ \A j \in Items : j # i => item'[j] = item[j]
      BY <1>0, <1>3, ItemApplied
<1>5. \A j \in Items : item'[j].key = item[j].key /\ item'[j].pc = item[j].pc /\ item'[j].snap = item[j].snap
      BY <1>3, <1>4
<1> HIDE DEF i
<1>6. Guarded'
      BY <1>0, <1>1, <1>2, <1>4, <1>5 DEF Guarded, InDebounce, i
<1>7. \A v \in Consumers : consumer[v].pc = "store" => consumer'[v] = consumer[v]
      BY <1>0, <1>2
<1>8. Scheduled'
      BY <1>0, <1>4, <1>5, <1>7 DEF Scheduled
<1> QED BY <1>6, <1>8

\* DebounceStore,
LEMMA SchedulesGuarded == ASSUME DebounceInv, NEW w \in Consumers, Schedules(w) PROVE Guarded' /\ Scheduled'
<1> USE DEF DebounceInv
<1> DEFINE i == consumer[w].item
           k == consumer[w].at
<1>0. /\ consumer[w].pc = "store" /\ mutex' = None /\ pending' = [pending EXCEPT ![k] = i]
      /\ item' = item /\ TypeOK /\ mutex = w
      /\ i \in Items /\ item[i].key = k /\ pending[k] \in {0, i} /\ k \in Resources
      /\ pending \in [Resources -> Nat]
      BY DEF Schedules, Guarded, InDebounce, Walks, Walking, TypeOK
<1>1. PICK c \in ConsumerStates : Becomes(w, c) /\ c.pc \in {"idle", "parent"}
      BY DEF Schedules, Leaves
<1>2. consumer'[w] = c /\ \A v \in Consumers : v # w => consumer'[v] = consumer[v]
      BY <1>0, <1>1, BecomesApplied
<1>3. \A v \in Consumers : v # w => ~InDebounce(consumer[v])
      BY <1>0 DEF Guarded
<1>4. Guarded'
      BY <1>0, <1>1, <1>2, <1>3, Distinct DEF Guarded, InDebounce
<1>5. \A j \in Items : item[j].pc \in {"armed", "reset", "delete"} => pending[item[j].key] = j \/ j = i
      BY <1>3 DEF Scheduled, InDebounce
<1>6. \A j \in Items : j # 0
      BY <1>0 DEF TypeOK, Items
<1>7. \A j \in Items : item[j].pc \in {"armed", "reset", "delete"} => pending'[item[j].key] = j
      <2> HIDE DEF i, k
      <2> TAKE j \in Items
      <2> HAVE item[j].pc \in {"armed", "reset", "delete"}
      <2>1. item[j] \in ItemStates
            BY <1>0 DEF TypeOK, Items
      <2>2. item[j].key \in Resources
            BY <2>1 DEF ItemStates
      <2>3. CASE item[j].key = k
            BY <1>0, <1>5, <1>6, <2>3
      <2>4. CASE item[j].key # k
            BY <1>0, <1>5, <2>2, <2>4
      <2> QED BY <2>3, <2>4
<1> HIDE DEF i, k
<1>8. Scheduled'
      BY <1>0, <1>7 DEF Scheduled, Items
<1> QED BY <1>4, <1>8

\* the callback of a timer,
LEMMA CallbackGuarded == ASSUME DebounceInv, NEW i \in Items, CallbackStep(i) PROVE Guarded' /\ Scheduled'
<1> USE DEF DebounceInv
<1>0. TypeOK /\ consumer' = consumer /\ mutex' = mutex /\ pending \in [Resources -> Nat]
      BY DEF CallbackStep, SameWalks, TypeOK
<1>1. PICK from, to : /\ Steps(i, from, to)
                      /\ to \in {"armed", "reset", "delete"} => from \in {"armed", "reset", "delete"}
                      /\ pending' = pending \/ (to = "mark" /\ from = "delete" /\ pending' = [pending EXCEPT ![item[i].key] = 0])
                      /\ to \in {"armed", "reset", "delete", "mark"} => from \in {"armed", "reset", "delete"}
                      /\ to \in {"armed", "reset", "delete", "mark", "store", "done"}
      BY DEF CallbackStep
<1>2. PICK x \in ItemStates :
          /\ ItemBecomes(i, x) /\ x.key = item[i].key /\ x.pc = to
          /\ x.snap = CASE to = "store" -> item[i].acts
                        [] to = "done" -> {}
                        [] OTHER -> item[i].snap
      BY <1>1 DEF Steps
<1>3. item[i].pc = from
      BY <1>1 DEF Steps
<1>4. Items' = Items /\ item'[i] = x /\ \A j \in Items : j # i => item'[j] = item[j]
      BY <1>0, <1>2, ItemApplied
<1>5. \A j \in Items : item'[j].key = item[j].key /\ item[j].key \in Resources
  <2>1. \A j \in Items : item[j] \in ItemStates
        BY <1>0 DEF TypeOK, Items
  <2> QED BY <1>2, <1>4, <2>1 DEF ItemStates
<1>6. \A j \in Items : item'[j].pc # "store" => item'[j].snap = {}
  <2>1. item[i].pc # "store" => item[i].snap = {}
        BY DEF Scheduled
  <2>2. to # "store" => x.snap = {}
        BY <1>1, <1>2, <1>3, <2>1
  <2> QED BY <1>2, <1>4, <2>2 DEF Scheduled
<1>7. \A j \in Items : item'[j].pc \in {"armed", "reset", "delete"} => item[j].pc \in {"armed", "reset", "delete"}
      BY <1>1, <1>2, <1>3, <1>4
<1>8. CASE pending' = pending
  <2>1. Guarded'
        BY <1>0, <1>4, <1>5, <1>8 DEF Guarded
  <2>2. Scheduled'
        BY <1>0, <1>4, <1>5, <1>6, <1>7, <1>8 DEF Scheduled
  <2> QED BY <2>1, <2>2
<1>9. CASE to = "mark" /\ from = "delete" /\ pending' = [pending EXCEPT ![item[i].key] = 0]
  <2> DEFINE k == item[i].key
  <2>1. Guarded'
        BY <1>0, <1>4, <1>5, <1>9 DEF Guarded, Walks, Walking, InDebounce
  <2>2. \A j \in Items : item'[j].pc \in {"armed", "reset", "delete"} =>
           \/ pending'[item'[j].key] = j
           \/ \E v \in Consumers : consumer'[v].pc = "store" /\ consumer'[v].item = j
    <3> TAKE j \in Items
    <3> HAVE item'[j].pc \in {"armed", "reset", "delete"}
    <3>1. j # i /\ item[j].pc \in {"armed", "reset", "delete"}
          BY <1>2, <1>4, <1>7, <1>9
    <3>2. CASE pending[item[j].key] = j
      <4>1. item[j].key # k
        <5> SUFFICES ASSUME item[j].key = k PROVE FALSE
            OBVIOUS
        <5>1. pending[k] = j /\ pending[k] # i
              BY <3>1, <3>2
        <5>2. PICK v \in Consumers : consumer[v].pc = "store" /\ consumer[v].item = i
              BY <1>3, <1>9, <5>1 DEF Scheduled
        <5>3. pending[k] \in {0, i}
              BY <5>2 DEF Guarded, InDebounce
        <5>4. j # 0
              BY <1>0 DEF TypeOK, Items
        <5> QED BY <5>1, <5>3, <5>4
      <4> QED BY <1>0, <1>5, <1>9, <3>2, <4>1
    <3>3. CASE \E v \in Consumers : consumer[v].pc = "store" /\ consumer[v].item = j
          BY <1>0, <3>3
    <3> QED BY <3>1, <3>2, <3>3 DEF Scheduled
  <2>3. \A r \in Resources : pending'[r] # 0 => pending'[r] \in Items' /\ item'[pending'[r]].key = r
        BY <1>0, <1>4, <1>5, <1>9 DEF Scheduled
  <2> QED BY <1>4, <1>6, <2>1, <2>2, <2>3 DEF Scheduled
<1> QED BY <1>1, <1>8, <1>9

\* and every other kind of step.
LEMMA KindsGuarded == ASSUME DebounceInv, Kinds PROVE Guarded' /\ Scheduled'
<1>0. TypeOK /\ Guarded /\ Scheduled
      BY DEF DebounceInv
<1>1. CASE Published \/ CacheExpires \/ UNCHANGED vars
      BY <1>0, <1>1 DEF Published, CacheExpires, vars, debouncerVars, SameDebouncer, Guarded, Scheduled, Items
<1>2. ASSUME NEW w \in Consumers, Takes(w) PROVE Guarded' /\ Scheduled'
      BY <1>0, <1>2, GuardedStays DEF Takes, InDebounce
<1>3. ASSUME NEW w \in Consumers, Advances(w) PROVE Guarded' /\ Scheduled'
      BY <1>0, <1>3, GuardedStays DEF Advances, GoesOn, InDebounce
<1>4. ASSUME NEW w \in Consumers, StoresNow(w) PROVE Guarded' /\ Scheduled'
      BY <1>0, <1>4, GuardedStays DEF StoresNow, Leaves, InDebounce
<1> QED BY <1>1, <1>2, <1>3, <1>4, LooksUpGuarded, AddsGuarded, SchedulesGuarded, CallbackGuarded DEF Kinds

\* The invariant of the debouncer holds at the start,
LEMMA DebounceInit == ASSUME Init PROVE DebounceInv
<1>1. TypeOK
      BY IdleBecomes, Distinct, ActivityAssumption DEF Init, TypeOK, Dirs, Resources
<1>2. Walks
      BY <1>1, IdleBecomes DEF Init, Walks, TypeOK
<1>3. Guarded /\ Scheduled
      BY IdleBecomes, Distinct DEF Init, Guarded, Scheduled, InDebounce, Items
<1> QED BY <1>1, <1>2, <1>3 DEF DebounceInv

\* and every step keeps it.
LEMMA DebounceStep == ASSUME DebounceInv, [Next]_vars PROVE DebounceInv'
BY NextKinds, FailuresCounted, KindsTyped, KindsWalk, KindsGuarded DEF DebounceInv

-----------------------------------------------------------------------------
(* Nothing is forgotten: ActivityKept.                                     *)

InBucket(k, e) == \E n \in 1 .. Len(put[k]) : e \in put[k][n]

\* Waiting in an item, where a callback will read it or has read it.
InItem(k, e) ==
    \E i \in Items :
        /\ item[i].key = k
        /\ \/ e \in item[i].snap
           \/ e \in item[i].acts /\ item[i].pc \in {"armed", "reset", "delete", "mark"}

InHand(k, e) ==
    \E w \in Consumers : consumer[w].pc = "append" /\ consumer[w].at = k /\ consumer[w].ev = e

\* The three places where a remembered activity can be,
LEMMA RememberedWhere ==
    ASSUME NEW k, NEW e PROVE Remembered(k, e) <=> InBucket(k, e) \/ InItem(k, e) \/ InHand(k, e)
BY DEF Remembered, InBucket, InItem, InHand, TooLate

\* now and after the step.
LEMMA RememberedWhereNext ==
    ASSUME NEW k, NEW e PROVE Remembered(k, e)' <=> InBucket(k, e)' \/ InItem(k, e)' \/ InHand(k, e)'
BY DEF Remembered, InBucket, InItem, InHand, TooLate

\* What is put in the bucket stays there.
LEMMA BucketKeeps ==
    ASSUME TypeOK, NEW k \in Resources, NEW acts \in SUBSET Nat, Stored(k, acts)
    PROVE  /\ \A r \in Resources : \A e : InBucket(r, e) => InBucket(r, e)'
           /\ \A e \in acts : InBucket(k, e)' \/ e \in lost'[k]
           /\ \A r \in Resources : lost[r] \subseteq lost'[r]
<1>0. put \in [Resources -> Seq(SUBSET Nat)] /\ lost \in [Resources -> SUBSET Nat]
      BY DEF TypeOK
<1>1. CASE put' = put /\ lost' = [lost EXCEPT ![k] = @ \cup acts]
      BY <1>0, <1>1 DEF InBucket
<1>2. CASE put' = [put EXCEPT ![k] = Append(@, acts)] /\ lost' = lost
  <2>1. put'[k] = Append(put[k], acts) /\ \A r \in Resources : r # k => put'[r] = put[r]
        BY <1>0, <1>2
  <2>2. PICK s \in Seq(SUBSET Nat) : s = put[k]
        BY <1>0
  <2>3. /\ Len(put'[k]) = Len(s) + 1 /\ Len(s) \in Nat /\ put'[k][Len(s) + 1] = acts
        /\ \A n \in 1 .. Len(s) : put'[k][n] = s[n]
        BY <2>1, <2>2
  <2>4. \A e : InBucket(k, e) => InBucket(k, e)'
        BY <2>2, <2>3 DEF InBucket
  <2>5. \A e \in acts : InBucket(k, e)'
        BY <2>3 DEF InBucket
  <2>6. \A r \in Resources : \A e : InBucket(r, e) => InBucket(r, e)'
    <3> TAKE r \in Resources
    <3> TAKE e
    <3> QED BY <2>1, <2>4 DEF InBucket
  <2> QED BY <1>2, <2>5, <2>6
<1> QED BY <1>1, <1>2 DEF Stored

\* What is to be shown of a step: the places of what was noted, and what is new.
LEMMA KeptBy ==
    ASSUME ActivityKept,
           \A k \in Resources : lost[k] \subseteq lost'[k] /\ late[k] \subseteq late'[k],
           \A k \in Resources : \A e : e \in noted'[k] =>
              \/ e \in noted[k] /\ (InBucket(k, e) \/ InItem(k, e) \/ InHand(k, e) =>
                     InBucket(k, e)' \/ InItem(k, e)' \/ InHand(k, e)' \/ e \in lost'[k] \/ e \in late'[k])
              \/ InItem(k, e)' \/ InHand(k, e)'
    PROVE  ActivityKept'
<1> SUFFICES ASSUME NEW k \in Resources, NEW e \in (noted'[k] \ (lost'[k] \cup late'[k]))
             PROVE  Remembered(k, e)'
    BY DEF ActivityKept
<1>1. e \notin lost[k] \cup late[k]
      OBVIOUS
<1>2. e \in noted[k] => Remembered(k, e)
      BY <1>1 DEF ActivityKept
<1>3. e \in noted[k] => InBucket(k, e) \/ InItem(k, e) \/ InHand(k, e)
      BY <1>2, RememberedWhere
<1>4. InBucket(k, e)' \/ InItem(k, e)' \/ InHand(k, e)'
      BY <1>3
<1> QED BY <1>4, RememberedWhereNext

\* Every kind of step keeps ActivityKept.
LEMMA KindsKeep == ASSUME DebounceInv, Kinds, ActivityKept PROVE ActivityKept'
<1>0. TypeOK
      BY DEF DebounceInv
<1>n. \A w \in Consumers : consumer[w].pc # "idle" => consumer[w].at \in Resources /\ consumer[w].ev \in Nat
      BY DEF DebounceInv, Walks, Walking, TypeOK, ConsumerStates
<1>s. ASSUME SameBucket
      PROVE  \A r \in Resources : \A e : (InBucket(r, e) => InBucket(r, e)') /\ lost'[r] = lost[r]
      BY <1>s DEF SameBucket, InBucket
<1>d. ASSUME SameDebouncer
      PROVE  \A r \in Resources : \A e : (InItem(r, e) => InItem(r, e)') /\ late'[r] = late[r] /\ noted'[r] = noted[r]
      BY <1>d DEF SameDebouncer, InItem, Items
<1>h. ASSUME NEW w \in Consumers, NEW c, Becomes(w, c), consumer[w].pc # "append"
      PROVE  \A r, e : InHand(r, e) => InHand(r, e)'
      BY <1>0, <1>h, BecomesApplied DEF InHand
<1>1. CASE Published \/ CacheExpires \/ UNCHANGED vars
  <2>1. SameDebouncer /\ SameBucket /\ consumer' = consumer
        BY <1>1 DEF Published, CacheExpires, vars, debouncerVars, bucketVars, SameDebouncer, SameBucket
  <2>2. \A r, e : InHand(r, e) => InHand(r, e)'
        BY <2>1 DEF InHand
  <2> QED BY <2>1, <2>2, <1>s, <1>d, KeptBy
<1>2. ASSUME NEW w \in Consumers, Takes(w) PROVE ActivityKept'
  <2>1. SameDebouncer /\ \A r, e : InHand(r, e) => InHand(r, e)'
        BY <1>2, <1>h DEF Takes
  <2>2. {taken + 1} \in SUBSET Nat
        BY <1>0 DEF TypeOK
  <2>3. \A r \in Resources : \A e : (InBucket(r, e) => InBucket(r, e)') /\ lost[r] \subseteq lost'[r]
    <3>1. CASE SameBucket
          BY <3>1, <1>s
    <3>2. CASE \E k \in Resources : Stored(k, {taken + 1})
          BY <1>0, <2>2, <3>2, BucketKeeps
    <3> QED BY <1>2, <3>1, <3>2 DEF Takes
  <2> QED BY <2>1, <2>3, <1>d, KeptBy
<1>3. ASSUME NEW w \in Consumers, Advances(w) PROVE ActivityKept'
  <2>1. SameDebouncer /\ SameBucket /\ \A r, e : InHand(r, e) => InHand(r, e)'
        BY <1>3, <1>h DEF Advances
  <2> QED BY <2>1, <1>s, <1>d, KeptBy
<1>4. ASSUME NEW w \in Consumers, StoresNow(w) PROVE ActivityKept'
  <2>1. SameDebouncer /\ \A r, e : InHand(r, e) => InHand(r, e)'
        BY <1>4, <1>h DEF StoresNow, Leaves
  <2>2. consumer[w].at \in Resources /\ {consumer[w].ev} \in SUBSET Nat
        BY <1>4, <1>n DEF StoresNow
  <2>3. \A r \in Resources : \A e : (InBucket(r, e) => InBucket(r, e)') /\ lost[r] \subseteq lost'[r]
        BY <1>0, <1>4, <2>2, BucketKeeps DEF StoresNow
  <2> QED BY <2>1, <2>3, <1>d, KeptBy
<1>5. ASSUME NEW w \in Consumers, LooksUp(w) PROVE ActivityKept'
  <2>1. /\ SameBucket /\ late' = late /\ consumer[w].at \in Resources /\ consumer[w].ev \in Nat
        /\ noted' = [noted EXCEPT ![consumer[w].at] = @ \cup {consumer[w].ev}]
        /\ \A r, e : InHand(r, e) => InHand(r, e)'
        BY <1>5, <1>h, <1>n DEF LooksUp, Enters
  <2>2. \A r \in Resources : \A e : e \in noted'[r] => e \in noted[r] \/ (r = consumer[w].at /\ e = consumer[w].ev)
        BY <1>0, <2>1 DEF TypeOK
  <2>3. \A r \in Resources : \A e : InItem(r, e) => InItem(r, e)'
    <3>1. CASE item' = item
          BY <3>1 DEF InItem, Items
    <3>2. CASE item' = Append(item, NewItem(w))
      <4>1. NewItem(w) \in ItemStates
            BY <2>1 DEF NewItem, ItemStates
      <4>2. Items \subseteq Items' /\ \A j \in Items : item'[j] = item[j]
            BY <1>0, <3>2, <4>1, NewItemApplied
      <4> QED BY <4>2 DEF InItem
    <3> QED BY <1>5, <3>1, <3>2 DEF LooksUp
  <2>4. PICK k, e : k = consumer[w].at /\ e = consumer[w].ev
        OBVIOUS
  <2>5. InItem(k, e)' \/ InHand(k, e)'
    <3>1. CASE Enters(w, "append", pending[consumer[w].at])
      <4>1. PICK c \in ConsumerStates : Becomes(w, c) /\ c.pc = "append" /\ c.at = k /\ c.ev = e
            BY <2>4, <3>1 DEF Enters
      <4>2. consumer'[w] = c
            BY <1>0, <4>1, BecomesApplied
      <4> QED BY <4>1, <4>2 DEF InHand
    <3>2. CASE item' = Append(item, NewItem(w))
      <4>1. NewItem(w) \in ItemStates /\ NewItem(w).key = k /\ NewItem(w).acts = {e} /\ NewItem(w).pc = "armed"
            BY <2>1, <2>4 DEF NewItem, ItemStates
      <4>2. Len(item) + 1 \in Items' /\ item'[Len(item) + 1] = NewItem(w)
            BY <1>0, <3>2, <4>1, NewItemApplied
      <4> QED BY <4>1, <4>2 DEF InItem
    <3> QED BY <1>5, <3>1, <3>2 DEF LooksUp
  <2> QED BY <2>1, <2>2, <2>3, <2>4, <2>5, <1>s, KeptBy
<1>6. ASSUME NEW w \in Consumers, Adds(w) PROVE ActivityKept'
  <2>0. PICK i, k, e : i = consumer[w].item /\ k = consumer[w].at /\ e = consumer[w].ev
        OBVIOUS
  <2>1. /\ SameBucket /\ noted' = noted /\ k \in Resources /\ e \in Nat
        /\ i \in Items /\ item[i].key = k
        BY <1>6, <1>n, <2>0 DEF Adds, DebounceInv, Guarded, InDebounce
  <2>2. PICK x \in ItemStates :
           /\ ItemBecomes(i, x) /\ x.key = item[i].key /\ x.pc = item[i].pc
           /\ x.snap = item[i].snap /\ x.acts = item[i].acts \cup {e}
        BY <1>6, <2>0 DEF Adds
  <2>3. Items' = Items /\ item'[i] = x /\ \A j \in Items : j # i => item'[j] = item[j]
        BY <1>0, <2>1, <2>2, ItemApplied
  <2>4. \A r, f : InItem(r, f) => InItem(r, f)'
        BY <2>2, <2>3 DEF InItem
  <2>5. late' = IF TooLate(i) THEN [late EXCEPT ![k] = @ \cup {e}] ELSE late
        BY <1>6, <2>0, <2>1 DEF Adds
  <2>6. InItem(k, e)' \/ e \in late'[k]
    <3>1. CASE TooLate(i)
          BY <1>0, <2>1, <2>5, <3>1 DEF TypeOK
    <3>2. CASE ~TooLate(i)
          BY <2>1, <2>2, <2>3, <3>2 DEF InItem, TooLate
    <3> QED BY <3>1, <3>2
  <2>7. \A r \in Resources : late[r] \subseteq late'[r]
        BY <1>0, <2>1, <2>5 DEF TypeOK
  <2>8. \A r \in Resources : \A f : InHand(r, f) => InHand(r, f)' \/ (r = k /\ f = e)
    <3>1. \A v \in Consumers : v # w => consumer'[v] = consumer[v]
          BY <1>0, <1>6, BecomesApplied DEF Adds, Enters
    <3> QED BY <2>0, <3>1 DEF InHand
  <2> QED BY <2>1, <2>4, <2>6, <2>7, <2>8, <1>s, KeptBy
<1>7. ASSUME NEW w \in Consumers, Schedules(w) PROVE ActivityKept'
  <2>1. /\ SameBucket /\ noted' = noted /\ late' = late /\ item' = item
        /\ \A r, e : InHand(r, e) => InHand(r, e)'
        BY <1>7, <1>h DEF Schedules, Leaves
  <2>2. \A r, e : InItem(r, e) => InItem(r, e)'
        BY <2>1 DEF InItem, Items
  <2> QED BY <2>1, <2>2, <1>s, KeptBy
<1>8. ASSUME NEW i \in Items, CallbackStep(i) PROVE ActivityKept'
  <2>0. noted' = noted /\ late' = late /\ \A r, e : InHand(r, e) => InHand(r, e)'
        BY <1>8 DEF CallbackStep, SameWalks, InHand
  <2>1. item[i] \in ItemStates
        BY <1>0 DEF TypeOK, Items
  <2>2. item[i].key \in Resources /\ item[i].snap \in SUBSET Nat
        BY <2>1 DEF ItemStates
  <2>3. ASSUME NEW from, NEW to \in {"armed", "reset", "delete", "mark", "store"}, Steps(i, from, to),
               from # "store", SameBucket
        PROVE  ActivityKept'
    <3>1. PICK x \in ItemStates :
             /\ ItemBecomes(i, x) /\ x.key = item[i].key /\ x.pc = to /\ x.acts = item[i].acts
             /\ x.snap = CASE to = "store" -> item[i].acts
                           [] to = "done" -> {}
                           [] OTHER -> item[i].snap
          BY <2>3 DEF Steps
    <3>2. Items' = Items /\ item'[i] = x /\ \A j \in Items : j # i => item'[j] = item[j]
          BY <1>0, <3>1, ItemApplied
    <3>3. item[i].snap = {}
          BY <2>3 DEF DebounceInv, Scheduled, Steps
    <3>4. \A r, e : InItem(r, e) => InItem(r, e)'
          BY <2>3, <3>1, <3>2, <3>3 DEF InItem
    <3> QED BY <2>0, <2>3, <3>4, <1>s, KeptBy
  <2>4. ASSUME Steps(i, "store", "done"), Stored(item[i].key, item[i].snap)
        PROVE  ActivityKept'
    <3>1. PICK x \in ItemStates : ItemBecomes(i, x) /\ x.key = item[i].key
          BY <2>4 DEF Steps
    <3>2. Items' = Items /\ item'[i] = x /\ \A j \in Items : j # i => item'[j] = item[j]
          BY <1>0, <3>1, ItemApplied
    <3>3. PICK k, acts : k = item[i].key /\ acts = item[i].snap
          OBVIOUS
    <3>4. \A r, e : InItem(r, e) => InItem(r, e)' \/ (r = k /\ e \in acts)
          BY <2>4, <3>2, <3>3 DEF InItem, Steps
    <3>5. /\ \A r \in Resources : \A e : InBucket(r, e) => InBucket(r, e)'
          /\ \A e \in acts : InBucket(k, e)' \/ e \in lost'[k]
          /\ \A r \in Resources : lost[r] \subseteq lost'[r]
          BY <1>0, <2>2, <2>4, <3>3, BucketKeeps
    <3> QED BY <2>0, <3>4, <3>5, KeptBy
  <2> QED BY <1>8, <2>3, <2>4 DEF CallbackStep
<1> QED BY <1>1, <1>2, <1>3, <1>4, <1>5, <1>6, <1>7, <1>8 DEF Kinds

\* Nothing that is recorded is forgotten, however the timers of the debouncer
\* fire (debouncer.go): it reaches the bucket, unless the write failed or it
\* was added to an item whose callback had read it.
THEOREM ActivityKeptAlways == Spec => []ActivityKept
<1>1. Init => DebounceInv /\ ActivityKept
      BY DebounceInit DEF Init, ActivityKept, Resources
<1>2. DebounceInv /\ ActivityKept /\ [Next]_vars => DebounceInv' /\ ActivityKept'
      BY NextKinds, DebounceStep, KindsKeep
<1> QED BY <1>1, <1>2, PTL DEF Spec

-----------------------------------------------------------------------------
(* Nothing is written twice: WrittenOnce.  An activity is in one batch of   *)
(* a resource or in one of its items, and it can get there only while its   *)
(* walk has not passed the resource.                                        *)

\* What a callback writes, or has read to write it.
HeldBy(x) == IF x.pc \in {"armed", "reset", "delete", "mark"} THEN x.acts ELSE x.snap

\* A walk in state c has been at resource k.
Passed(c, k) == Below(k, c.at) \/ (k = c.at /\ c.pc \in {"store", "parent", "ask", "set"})

\* Event e has been recorded on k, if it ever is.
Seen(k, e) ==
    /\ e \in 1 .. taken
    /\ \A w \in Consumers : consumer[w].pc # "idle" /\ consumer[w].ev = e => Passed(consumer[w], k)

OnceInv ==
    /\ \A k \in Resources : \A n \in 1 .. Len(put[k]) : \A e \in put[k][n] : Seen(k, e)
    /\ \A i \in Items, k \in Resources : item[i].key = k =>
          \A e \in HeldBy(item[i]) : Seen(k, e)
    /\ \A i \in Items, k \in Resources : item[i].key = k =>
          \A n \in 1 .. Len(put[k]) : put[k][n] \cap HeldBy(item[i]) = {}
    /\ \A i, j \in Items :
          i # j /\ item[i].key = item[j].key => HeldBy(item[i]) \cap HeldBy(item[j]) = {}
    /\ WrittenOnce

\* What has been recorded stays so.
LEMMA SeenStays ==
    ASSUME DebounceInv, NEW w \in Consumers, NEW c, Becomes(w, c), taken' \in {taken, taken + 1},
           \/ c.pc = "idle"
           \/ c.ev = taken + 1
           \/ /\ consumer[w].pc # "idle" /\ c.ev = consumer[w].ev
              /\ \A k \in Resources : Passed(consumer[w], k) => Passed(c, k)
    PROVE  \A k \in Resources : \A e : Seen(k, e) => Seen(k, e)'
<1> SUFFICES ASSUME NEW k \in Resources, NEW e, Seen(k, e) PROVE Seen(k, e)'
    OBVIOUS
<1>1. consumer'[w] = c /\ \A v \in Consumers : v # w => consumer'[v] = consumer[v]
      BY BecomesApplied DEF DebounceInv
<1>2. e \in 1 .. taken /\ taken \in Nat
      BY DEF Seen, DebounceInv, TypeOK
<1>3. e \in 1 .. taken' /\ e # taken + 1
      BY <1>2
<1>4. ASSUME NEW v \in Consumers, consumer'[v].pc # "idle", consumer'[v].ev = e
      PROVE  Passed(consumer'[v], k)
  <2>1. CASE v # w
        BY <1>1, <1>4, <2>1 DEF Seen
  <2>2. CASE v = w
        BY <1>1, <1>3, <1>4, <2>2 DEF Seen
  <2> QED BY <2>1, <2>2
<1> QED BY <1>3, <1>4 DEF Seen

\* What a resource has seen of the stream it has seen for good.
LEMMA KindsSee == ASSUME DebounceInv, Kinds PROVE \A k \in Resources : \A e : Seen(k, e) => Seen(k, e)'
<1>0. TypeOK /\ taken \in Nat
      BY DEF DebounceInv, TypeOK
<1>1. CASE consumer' = consumer /\ taken' = taken
      BY <1>1 DEF Seen
<1>2. ASSUME NEW w \in Consumers, Takes(w) PROVE \A k \in Resources : \A e : Seen(k, e) => Seen(k, e)'
      BY <1>0, <1>2, SeenStays DEF Takes
<1>3. ASSUME NEW w \in Consumers, Advances(w) PROVE \A k \in Resources : \A e : Seen(k, e) => Seen(k, e)'
  <2>1. PICK c \in ConsumerStates : /\ Becomes(w, c) /\ GoesOn(consumer[w], c)
                                    /\ c.pc # "idle" => c.ev = consumer[w].ev
        BY <1>3 DEF Advances
  <2>2. c.pc # "idle" => \A k \in Resources : Passed(consumer[w], k) => Passed(c, k)
        BY <2>1, Distinct DEF GoesOn, Passed, Below, Resources
  <2>3. taken' = taken /\ consumer[w].pc # "idle"
        BY <1>3 DEF Advances
  <2> QED BY <2>1, <2>2, <2>3, SeenStays
<1>4. ASSUME NEW w \in Consumers, consumer[w].pc # "idle", taken' = taken, Leaves(w)
      PROVE  \A k \in Resources : \A e : Seen(k, e) => Seen(k, e)'
  <2>1. PICK c \in ConsumerStates : /\ Becomes(w, c) /\ c.pc \in {"idle", "parent"}
                                    /\ c.pc # "idle" => c.ev = consumer[w].ev /\ c.at = consumer[w].at
        BY <1>4 DEF Leaves
  <2>2. c.pc # "idle" => \A k \in Resources : Passed(consumer[w], k) => Passed(c, k)
        BY <2>1 DEF Passed
  <2> QED BY <1>4, <2>1, <2>2, SeenStays
<1>5. ASSUME NEW w \in Consumers, consumer[w].pc \in {"load", "append"}, taken' = taken,
             NEW pc, NEW i, Enters(w, pc, i)
      PROVE  \A k \in Resources : \A e : Seen(k, e) => Seen(k, e)'
  <2>1. PICK c \in ConsumerStates : Becomes(w, c) /\ c.ev = consumer[w].ev /\ c.at = consumer[w].at
        BY <1>5 DEF Enters
  <2>2. \A k \in Resources : Passed(consumer[w], k) => Passed(c, k)
        BY <1>5, <2>1 DEF Passed
  <2> QED BY <1>5, <2>1, <2>2, SeenStays
<1>6. ASSUME NEW w \in Consumers, StoresNow(w) \/ LooksUp(w) \/ Adds(w) \/ Schedules(w)
      PROVE  \A k \in Resources : \A e : Seen(k, e) => Seen(k, e)'
      BY <1>4, <1>5, <1>6 DEF StoresNow, LooksUp, Adds, Schedules
<1>7. CASE Published \/ CacheExpires \/ UNCHANGED vars \/ \E i \in Items : CallbackStep(i)
      BY <1>1, <1>7 DEF Published, CacheExpires, vars, CallbackStep, SameWalks
<1> QED BY <1>2, <1>3, <1>6, <1>7 DEF Kinds

\* A walk that is at a resource has not recorded its event there.
LEMMA NotYetSeen ==
    ASSUME NEW w \in Consumers, consumer[w].pc \in {"load", "append"}
    PROVE  ~Seen(consumer[w].at, consumer[w].ev)
BY Distinct DEF Seen, Passed, Below

\* An event is recorded where its walk has just been.
LEMMA JustSeen ==
    ASSUME DebounceInv, NEW w \in Consumers, NEW c, Becomes(w, c), taken' = taken,
           consumer[w].pc # "idle",
           c.pc \in {"idle", "store", "parent"}, c.pc # "idle" => c.at = consumer[w].at,
           NEW k, NEW e, k = consumer[w].at, e = consumer[w].ev
    PROVE  Seen(k, e)'
<1>1. consumer'[w] = c /\ \A v \in Consumers : v # w => consumer'[v] = consumer[v]
      BY BecomesApplied DEF DebounceInv
<1>2. e \in 1 .. taken'
      BY DEF DebounceInv, Walks, Walking
<1>3. \A v \in Consumers : v # w /\ consumer[v].pc # "idle" => consumer[v].ev # e
      BY DEF DebounceInv, Walks
<1>4. ASSUME NEW v \in Consumers, consumer'[v].pc # "idle", consumer'[v].ev = e
      PROVE  Passed(consumer'[v], k)
  <2>1. v = w
        BY <1>1, <1>3, <1>4
  <2> QED BY <1>1, <1>4, <2>1 DEF Passed
<1> QED BY <1>2, <1>4 DEF Seen

-----------------------------------------------------------------------------
\* The items hold what they held, or less.
LEMMA OnceIfLess ==
    ASSUME OnceInv, \A k \in Resources : \A e : Seen(k, e) => Seen(k, e)',
           \A i \in Items : item[i].key \in Resources,
           put' = put, Items' = Items,
           \A i \in Items : item'[i].key = item[i].key /\ HeldBy(item'[i]) \subseteq HeldBy(item[i])
    PROVE  OnceInv'
<1>1. \A k \in Resources : \A n \in 1 .. Len(put'[k]) : \A e \in put'[k][n] : Seen(k, e)'
      BY DEF OnceInv
<1>2. \A i \in Items', k \in Resources : item'[i].key = k => \A e \in HeldBy(item'[i]) : Seen(k, e)
      BY DEF OnceInv
<1>3. \A i \in Items', k \in Resources : item'[i].key = k => \A e \in HeldBy(item'[i]) : Seen(k, e)'
      BY <1>2
<1>4. \A i \in Items', k \in Resources : item'[i].key = k =>
          \A n \in 1 .. Len(put'[k]) : put'[k][n] \cap HeldBy(item'[i]) = {}
  <2> SUFFICES ASSUME NEW i \in Items', NEW k \in Resources, item'[i].key = k,
                      NEW n \in 1 .. Len(put'[k]), NEW e \in put'[k][n], e \in HeldBy(item'[i])
               PROVE  FALSE
      OBVIOUS
  <2>1. put[k][n] \cap HeldBy(item[i]) = {}
        BY DEF OnceInv
  <2> QED BY <2>1
<1>5. \A i, j \in Items' :
          i # j /\ item'[i].key = item'[j].key => HeldBy(item'[i]) \cap HeldBy(item'[j]) = {}
      BY DEF OnceInv
<1>6. WrittenOnce'
      BY DEF OnceInv, WrittenOnce
<1> QED BY <1>1, <1>3, <1>4, <1>5, <1>6 DEF OnceInv

\* A new activity is put in the bucket.
LEMMA OnceIfPut ==
    ASSUME TypeOK, OnceInv, \A k \in Resources : \A e : Seen(k, e) => Seen(k, e)',
           NEW r \in Resources, NEW f, ~Seen(r, f), Seen(r, f)',
           put' = [put EXCEPT ![r] = Append(@, {f})], item' = item
    PROVE  OnceInv'
<1>0. put \in [Resources -> Seq(SUBSET Nat)]
      BY DEF TypeOK
<1>1. PICK s \in Seq(SUBSET Nat) : s = put[r]
      BY <1>0
<1>2. /\ put'[r] = Append(s, {f}) /\ \A k \in Resources : k # r => put'[k] = put[k]
      BY <1>0, <1>1
<1>3. /\ Len(put'[r]) = Len(s) + 1 /\ Len(s) \in Nat /\ put'[r][Len(s) + 1] = {f}
      /\ \A n \in 1 .. Len(s) : put'[r][n] = s[n]
      BY <1>1, <1>2
<1>4. \A k \in Resources : \A n \in 1 .. Len(put'[k]) :
          (k = r /\ put'[k][n] = {f} /\ n = Len(s) + 1) \/ (n \in 1 .. Len(put[k]) /\ put'[k][n] = put[k][n])
      BY <1>1, <1>2, <1>3
<1>5. \A n \in 1 .. Len(put[r]) : f \notin put[r][n]
      BY DEF OnceInv
<1>6. \A i \in Items : item[i].key = r => f \notin HeldBy(item[i])
      BY DEF OnceInv
<1>7. Items' = Items
      BY DEF Items
<1>8. \A k \in Resources : \A n \in 1 .. Len(put'[k]) : \A e \in put'[k][n] : Seen(k, e)'
      BY <1>4 DEF OnceInv
<1>9. \A i \in Items', k \in Resources : item'[i].key = k => \A e \in HeldBy(item'[i]) : Seen(k, e)'
      BY <1>7 DEF OnceInv
<1>10. \A i \in Items', k \in Resources : item'[i].key = k =>
          \A n \in 1 .. Len(put'[k]) : put'[k][n] \cap HeldBy(item'[i]) = {}
  <2> SUFFICES ASSUME NEW i \in Items', NEW k \in Resources, item'[i].key = k,
                      NEW n \in 1 .. Len(put'[k]), NEW e \in put'[k][n], e \in HeldBy(item'[i])
               PROVE  FALSE
      OBVIOUS
  <2>1. CASE n \in 1 .. Len(put[k]) /\ put'[k][n] = put[k][n]
    <3>1. put[k][n] \cap HeldBy(item[i]) = {}
          BY <1>7, <2>1 DEF OnceInv
    <3> QED BY <2>1, <3>1
  <2>2. CASE k = r /\ put'[k][n] = {f}
        BY <1>6, <1>7, <2>2
  <2> QED BY <1>4, <2>1, <2>2
<1>11. \A i, j \in Items' :
          i # j /\ item'[i].key = item'[j].key => HeldBy(item'[i]) \cap HeldBy(item'[j]) = {}
      BY <1>7 DEF OnceInv
<1>12. WrittenOnce'
  <2> SUFFICES ASSUME NEW k \in Resources, NEW m \in 1 .. Len(put'[k]), NEW n \in 1 .. Len(put'[k]), m # n
               PROVE  put'[k][m] \cap put'[k][n] = {}
      BY DEF WrittenOnce
  <2>1. CASE m \in 1 .. Len(put[k]) /\ put'[k][m] = put[k][m] /\ n \in 1 .. Len(put[k]) /\ put'[k][n] = put[k][n]
        BY <2>1 DEF OnceInv, WrittenOnce
  <2>2. CASE k = r /\ put'[k][m] = {f} /\ m = Len(s) + 1
        BY <1>4, <1>5, <2>2
  <2>3. CASE k = r /\ put'[k][n] = {f} /\ n = Len(s) + 1
        BY <1>4, <1>5, <2>3
  <2> QED BY <1>4, <2>1, <2>2, <2>3
<1> QED BY <1>8, <1>9, <1>10, <1>11, <1>12 DEF OnceInv

\* A new activity is given to an item, which may be new.
LEMMA OnceIfAdded ==
    ASSUME OnceInv, \A k \in Resources : \A e : Seen(k, e) => Seen(k, e)',
           NEW r \in Resources, NEW f, ~Seen(r, f), Seen(r, f)', NEW x,
           put' = put, Items' = Items \cup {x}, item'[x].key = r,
           \A i \in Items : item'[i].key = item[i].key,
           \A i \in Items : i # x => HeldBy(item'[i]) = HeldBy(item[i]),
           \A e \in HeldBy(item'[x]) : e = f \/ (x \in Items /\ e \in HeldBy(item[x]))
    PROVE  OnceInv'
<1>5. \A n \in 1 .. Len(put[r]) : f \notin put[r][n]
      BY DEF OnceInv
<1>6. \A i \in Items : item[i].key = r => f \notin HeldBy(item[i])
      BY DEF OnceInv
<1>8. \A k \in Resources : \A n \in 1 .. Len(put'[k]) : \A e \in put'[k][n] : Seen(k, e)'
      BY DEF OnceInv
<1>9. \A i \in Items', k \in Resources : item'[i].key = k => \A e \in HeldBy(item'[i]) : Seen(k, e)'
  <2> TAKE i \in Items', k \in Resources
  <2> HAVE item'[i].key = k
  <2> TAKE e \in HeldBy(item'[i])
  <2>1. CASE i # x
        BY <2>1 DEF OnceInv
  <2>2. CASE i = x
        BY <2>2 DEF OnceInv
  <2> QED BY <2>1, <2>2
<1>10. \A i \in Items', k \in Resources : item'[i].key = k =>
          \A n \in 1 .. Len(put'[k]) : put'[k][n] \cap HeldBy(item'[i]) = {}
  <2> SUFFICES ASSUME NEW i \in Items', item'[i].key \in Resources,
                      NEW n \in 1 .. Len(put[item'[i].key]), NEW e \in put[item'[i].key][n],
                      e \in HeldBy(item'[i])
               PROVE  FALSE
      OBVIOUS
  <2>1. CASE i # x
        BY <2>1 DEF OnceInv
  <2>2. CASE i = x
        BY <1>5, <2>2 DEF OnceInv
  <2> QED BY <2>1, <2>2
<1>11. \A i, j \in Items' :
          i # j /\ item'[i].key = item'[j].key => HeldBy(item'[i]) \cap HeldBy(item'[j]) = {}
  <2>1. ASSUME NEW j \in Items', j # x, item'[j].key = r, NEW e \in HeldBy(item'[x]), e \in HeldBy(item'[j])
        PROVE FALSE
        BY <1>6, <2>1 DEF OnceInv
  <2>2. ASSUME NEW i \in Items', NEW j \in Items', i # x, j # x, i # j, item'[i].key = item'[j].key
        PROVE  HeldBy(item'[i]) \cap HeldBy(item'[j]) = {}
        BY <2>2 DEF OnceInv
  <2> QED BY <2>1, <2>2
<1>12. WrittenOnce'
      BY DEF OnceInv, WrittenOnce
<1> QED BY <1>8, <1>9, <1>10, <1>11, <1>12 DEF OnceInv

\* What an item held is put in the bucket.
LEMMA OnceIfWritten ==
    ASSUME TypeOK, OnceInv, \A k \in Resources : \A e : Seen(k, e) => Seen(k, e)',
           \A i \in Items : item[i].key \in Resources,
           NEW x \in Items, NEW r \in Resources, NEW acts, item[x].key = r, acts = HeldBy(item[x]),
           put' = [put EXCEPT ![r] = Append(@, acts)],
           Items' = Items, HeldBy(item'[x]) = {}, item'[x].key = r,
           \A i \in Items : i # x => item'[i] = item[i]
    PROVE  OnceInv'
<1>0. put \in [Resources -> Seq(SUBSET Nat)]
      BY DEF TypeOK
<1>1. PICK s \in Seq(SUBSET Nat) : s = put[r]
      BY <1>0
<1>2. /\ put'[r] = Append(s, acts) /\ \A k \in Resources : k # r => put'[k] = put[k]
      BY <1>0, <1>1
<1>a. \A e \in acts : Seen(r, e)
      BY DEF OnceInv
<1>s. acts \in SUBSET Nat
      BY <1>a DEF Seen, TypeOK
<1>3. /\ Len(put'[r]) = Len(s) + 1 /\ Len(s) \in Nat /\ put'[r][Len(s) + 1] = acts
      /\ \A n \in 1 .. Len(s) : put'[r][n] = s[n]
      BY <1>1, <1>2, <1>s
<1>4. \A k \in Resources : \A n \in 1 .. Len(put'[k]) :
          (k = r /\ put'[k][n] = acts /\ n = Len(s) + 1) \/ (n \in 1 .. Len(put[k]) /\ put'[k][n] = put[k][n])
      BY <1>1, <1>2, <1>3
<1>5. \A n \in 1 .. Len(put[r]) : acts \cap put[r][n] = {}
      BY DEF OnceInv
<1>6. \A i \in Items : i # x /\ item[i].key = r => acts \cap HeldBy(item[i]) = {}
      BY DEF OnceInv
<1>8. \A k \in Resources : \A n \in 1 .. Len(put'[k]) : \A e \in put'[k][n] : Seen(k, e)'
      BY <1>4, <1>a DEF OnceInv
<1>9. \A i \in Items', k \in Resources : item'[i].key = k => \A e \in HeldBy(item'[i]) : Seen(k, e)'
      BY DEF OnceInv
<1>10. \A i \in Items', k \in Resources : item'[i].key = k =>
          \A n \in 1 .. Len(put'[k]) : put'[k][n] \cap HeldBy(item'[i]) = {}
  <2> SUFFICES ASSUME NEW i \in Items', NEW k \in Resources, item'[i].key = k,
                      NEW n \in 1 .. Len(put'[k]), NEW e \in put'[k][n], e \in HeldBy(item'[i])
               PROVE  FALSE
      OBVIOUS
  <2>0. i # x /\ item'[i] = item[i]
        OBVIOUS
  <2>1. CASE n \in 1 .. Len(put[k]) /\ put'[k][n] = put[k][n]
    <3>1. put[k][n] \cap HeldBy(item[i]) = {}
          BY <2>0, <2>1 DEF OnceInv
    <3> QED BY <2>0, <2>1, <3>1
  <2>2. CASE k = r /\ put'[k][n] = acts
        BY <1>6, <2>0, <2>2
  <2> QED BY <1>4, <2>1, <2>2
<1>11. \A i, j \in Items' :
          i # j /\ item'[i].key = item'[j].key => HeldBy(item'[i]) \cap HeldBy(item'[j]) = {}
      BY DEF OnceInv
<1>12. WrittenOnce'
  <2> SUFFICES ASSUME NEW k \in Resources, NEW m \in 1 .. Len(put'[k]), NEW n \in 1 .. Len(put'[k]), m # n
               PROVE  put'[k][m] \cap put'[k][n] = {}
      BY DEF WrittenOnce
  <2>1. CASE m \in 1 .. Len(put[k]) /\ put'[k][m] = put[k][m] /\ n \in 1 .. Len(put[k]) /\ put'[k][n] = put[k][n]
        BY <2>1 DEF OnceInv, WrittenOnce
  <2>2. CASE k = r /\ put'[k][m] = acts /\ m = Len(s) + 1
        BY <1>4, <1>5, <2>2
  <2>3. CASE k = r /\ put'[k][n] = acts /\ n = Len(s) + 1
        BY <1>4, <1>5, <2>3
  <2> QED BY <1>4, <2>1, <2>2, <2>3
<1> QED BY <1>8, <1>9, <1>10, <1>11, <1>12 DEF OnceInv

\* Every kind of step keeps what WrittenOnce follows from.
LEMMA KindsOnce == ASSUME DebounceInv, Kinds, OnceInv PROVE OnceInv'
<1>0. TypeOK /\ taken \in Nat
      BY DEF DebounceInv, TypeOK
<1>s. \A k \in Resources : \A e : Seen(k, e) => Seen(k, e)'
      BY KindsSee
<1>n. \A w \in Consumers : consumer[w].pc # "idle" => consumer[w].at \in Resources /\ consumer[w].ev \in Nat
      BY DEF DebounceInv, Walks, Walking, TypeOK, ConsumerStates
<1>k. \A i \in Items : item[i].key \in Resources
  <2>1. \A i \in Items : item[i] \in ItemStates
        BY <1>0 DEF TypeOK, Items
  <2> QED BY <2>1 DEF ItemStates
<1>q. ASSUME put' = put, item' = item PROVE OnceInv'
  <2>1. Items' = Items
        BY <1>q DEF Items
  <2> QED BY <1>q, <1>s, <1>k, <2>1, OnceIfLess
<1>1. CASE Published \/ CacheExpires \/ UNCHANGED vars
      BY <1>1, <1>q DEF Published, CacheExpires, vars, debouncerVars, bucketVars, SameDebouncer, SameBucket
<1>2. ASSUME NEW w \in Consumers, Advances(w) \/ Schedules(w) PROVE OnceInv'
      BY <1>2, <1>q DEF Advances, Schedules, SameDebouncer, SameBucket
<1>3. ASSUME NEW w \in Consumers, Takes(w) PROVE OnceInv'
  <2>1. item' = item /\ taken' = taken + 1
        BY <1>3 DEF Takes, SameDebouncer
  <2>2. PICK c \in ConsumerStates :
          /\ Becomes(w, c) /\ (c.pc # "idle" => c.ev = taken + 1)
          /\ c.pc \in {"idle", "resolve", "load"} /\ Walking(c, taken')
          /\ \/ SameBucket
             \/ \E k \in Resources :
                   Stored(k, {taken + 1}) /\ (c.pc = "idle" \/ (k = File /\ c.at # File))
        BY <1>3 DEF Takes
  <2>3. CASE put' = put
        BY <2>1, <2>3, <1>q
  <2>4. ASSUME NEW k \in Resources, put' = [put EXCEPT ![k] = Append(@, {taken + 1})],
               c.pc = "idle" \/ (k = File /\ c.at # File)
        PROVE  OnceInv'
    <3>0. PICK f : f = taken + 1
          OBVIOUS
    <3>1. ~Seen(k, f)
          BY <1>0, <3>0 DEF Seen
    <3>2. consumer'[w] = c /\ \A v \in Consumers : v # w => consumer'[v] = consumer[v]
          BY <1>0, <2>2, BecomesApplied
    <3>3. \A v \in Consumers : consumer[v].pc # "idle" => consumer[v].ev # f
          BY <1>0, <3>0 DEF DebounceInv, Walks, Walking
    <3>4. c.pc # "idle" => Passed(c, k)
          BY <2>2, <2>4 DEF Passed, Below, Walking, Resources
    <3>5. Seen(k, f)'
          BY <1>0, <2>1, <3>0, <3>2, <3>3, <3>4 DEF Seen
    <3> QED BY <1>0, <1>s, <2>1, <2>4, <3>0, <3>1, <3>5, OnceIfPut
  <2> QED BY <2>2, <2>3, <2>4 DEF Stored, SameBucket
<1>4. ASSUME NEW w \in Consumers, StoresNow(w) PROVE OnceInv'
  <2>0. PICK k, f : k = consumer[w].at /\ f = consumer[w].ev
        OBVIOUS
  <2>1. item' = item /\ taken' = taken /\ consumer[w].pc = "load" /\ k \in Resources /\ Stored(k, {f})
        BY <1>4, <1>n, <2>0 DEF StoresNow, SameDebouncer
  <2>2. PICK c \in ConsumerStates :
           Becomes(w, c) /\ c.pc \in {"idle", "parent"} /\ (c.pc # "idle" => c.at = consumer[w].at)
        BY <1>4 DEF StoresNow, Leaves
  <2>3. ~Seen(k, f)
        BY <2>0, <2>1, NotYetSeen
  <2>4. Seen(k, f)'
        BY <2>0, <2>1, <2>2, JustSeen
  <2>5. CASE put' = [put EXCEPT ![k] = Append(@, {f})]
        BY <1>0, <1>s, <2>1, <2>3, <2>4, <2>5, OnceIfPut
  <2> QED BY <1>q, <2>1, <2>5 DEF Stored
<1>5. ASSUME NEW w \in Consumers, LooksUp(w) PROVE OnceInv'
  <2>0. PICK k, f : k = consumer[w].at /\ f = consumer[w].ev
        OBVIOUS
  <2>1. put' = put /\ taken' = taken /\ consumer[w].pc = "load" /\ k \in Resources /\ f \in Nat
        BY <1>5, <1>n, <2>0 DEF LooksUp, SameBucket
  <2>2. CASE item' = Append(item, NewItem(w)) /\ Enters(w, "store", Len(item) + 1)
    <3>1. PICK c \in ConsumerStates : Becomes(w, c) /\ c.pc = "store" /\ c.at = consumer[w].at
          BY <2>2 DEF Enters
    <3>2. ~Seen(k, f)
          BY <2>0, <2>1, NotYetSeen
    <3>3. Seen(k, f)'
          BY <2>0, <2>1, <3>1, JustSeen
    <3>4. /\ NewItem(w) \in ItemStates /\ NewItem(w).key = k /\ HeldBy(NewItem(w)) = {f}
          BY <2>0, <2>1 DEF NewItem, ItemStates, HeldBy
    <3>5. PICK x : x = Len(item) + 1
          OBVIOUS
    <3>6. /\ x \notin Items /\ Items' = Items \cup {x} /\ item'[x] = NewItem(w)
          /\ \A j \in Items : item'[j] = item[j]
          BY <1>0, <2>2, <3>4, <3>5, NewItemApplied
    <3> QED BY <1>s, <2>1, <3>2, <3>3, <3>4, <3>6, OnceIfAdded
  <2> QED BY <1>5, <1>q, <2>1, <2>2 DEF LooksUp
<1>6. ASSUME NEW w \in Consumers, Adds(w) PROVE OnceInv'
  <2>0. PICK i, k, f : i = consumer[w].item /\ k = consumer[w].at /\ f = consumer[w].ev
        OBVIOUS
  <2>1. /\ put' = put /\ taken' = taken /\ consumer[w].pc = "append" /\ k \in Resources
        /\ i \in Items /\ item[i].key = k
        BY <1>6, <1>n, <2>0 DEF Adds, SameBucket, DebounceInv, Guarded, InDebounce
  <2>2. PICK x \in ItemStates :
           /\ ItemBecomes(i, x) /\ x.key = item[i].key /\ x.pc = item[i].pc
           /\ x.snap = item[i].snap /\ x.acts = item[i].acts \cup {f}
        BY <1>6, <2>0 DEF Adds
  <2>3. Items' = Items /\ item'[i] = x /\ \A j \in Items : j # i => item'[j] = item[j]
        BY <1>0, <2>1, <2>2, ItemApplied
  <2>4. PICK c \in ConsumerStates : Becomes(w, c) /\ c.pc = "store" /\ c.at = consumer[w].at
        BY <1>6 DEF Adds, Enters
  <2>5. ~Seen(k, f)
        BY <2>0, <2>1, NotYetSeen
  <2>6. Seen(k, f)'
        BY <2>0, <2>1, <2>4, JustSeen
  <2>7. \A e \in HeldBy(item'[i]) : e = f \/ e \in HeldBy(item[i])
        BY <2>2, <2>3 DEF HeldBy
  <2> QED BY <1>s, <2>1, <2>2, <2>3, <2>5, <2>6, <2>7, OnceIfAdded
<1>7. ASSUME NEW i \in Items, CallbackStep(i) PROVE OnceInv'
  <2>1. ASSUME NEW from, NEW to, Steps(i, from, to), put' = put,
               \/ from \in {"armed", "reset", "delete"} /\ to \in {"armed", "reset", "delete", "mark"}
               \/ from = "mark" /\ to = "store"
               \/ from = "store" /\ to = "done"
        PROVE  OnceInv'
    <3>1. PICK x \in ItemStates :
             /\ ItemBecomes(i, x) /\ x.key = item[i].key /\ x.pc = to /\ x.acts = item[i].acts
             /\ x.snap = CASE to = "store" -> item[i].acts
                           [] to = "done" -> {}
                           [] OTHER -> item[i].snap
          BY <2>1 DEF Steps
    <3>2. Items' = Items /\ item'[i] = x /\ \A j \in Items : j # i => item'[j] = item[j]
          BY <1>0, <3>1, ItemApplied
    <3>3. item[i].pc = from
          BY <2>1 DEF Steps
    <3>4. HeldBy(x) \subseteq HeldBy(item[i])
          BY <2>1, <3>1, <3>3 DEF HeldBy
    <3> QED BY <1>s, <1>k, <2>1, <3>1, <3>2, <3>4, OnceIfLess
  <2>2. ASSUME Steps(i, "store", "done"), put' = [put EXCEPT ![item[i].key] = Append(@, item[i].snap)]
        PROVE  OnceInv'
    <3>1. PICK x \in ItemStates :
             /\ ItemBecomes(i, x) /\ x.key = item[i].key /\ x.pc = "done" /\ x.snap = {}
          BY <2>2 DEF Steps
    <3>2. Items' = Items /\ item'[i] = x /\ \A j \in Items : j # i => item'[j] = item[j]
          BY <1>0, <3>1, ItemApplied
    <3>3. HeldBy(item[i]) = item[i].snap /\ HeldBy(x) = {}
          BY <2>2, <3>1 DEF HeldBy, Steps
    <3>4. PICK r \in Resources : r = item[i].key
          BY <1>k
    <3>5. PICK acts : acts = item[i].snap
          OBVIOUS
    <3> QED BY <1>0, <1>s, <1>k, <2>2, <3>1, <3>2, <3>3, <3>4, <3>5, OnceIfWritten
  <2> QED BY <1>7, <2>1, <2>2 DEF CallbackStep, SameBucket, Stored
<1> QED BY <1>1, <1>2, <1>3, <1>4, <1>5, <1>6, <1>7 DEF Kinds

\* No activity is written twice to the bucket, for any number of consumers and
\* whatever the timers do: an item that was written is not written again, and
\* a walk meets every resource once (debouncer.go; service.go, AddActivity).
THEOREM WrittenOnceAlways == Spec => []WrittenOnce
<1>1. Init => DebounceInv /\ OnceInv
      BY DebounceInit DEF Init, OnceInv, WrittenOnce, Resources, Items
<1>2. DebounceInv /\ OnceInv /\ [Next]_vars => DebounceInv' /\ OnceInv'
      BY NextKinds, DebounceStep, KindsOnce
<1>3. OnceInv => WrittenOnce
      BY DEF OnceInv
<1> QED BY <1>1, <1>2, <1>3, PTL DEF Spec

-----------------------------------------------------------------------------
(* The cached parent of the file: CacheCurrent, for one consumer.          *)

Moved(e) == events[e].kind = "moved"

MoveWaits == \E e \in taken + 1 .. Len(events) : Moved(e)

\* The last move is to where the file is.
LastMove ==
    where # None => \A e \in 1 .. Len(events) :
        Moved(e) => events[e].dir = where \/ \E f \in e + 1 .. Len(events) : Moved(f)

\* A walk that knows the parent of the file knows the right one.
InfoCurrent(c) == c.pc # "idle" /\ c.at = File => c.info \in {None, where}

CacheInv ==
    /\ LastMove
    /\ where # None /\ failures = 0 =>
          \/ MoveWaits
          \/ cache[File] \in {None, where} /\ \A w \in Consumers : InfoCurrent(consumer[w])

\* The steps that leave the space, the bus and the cache alone.
LEMMA CacheStays ==
    ASSUME CacheInv, failures' = 0 => failures = 0,
           where' = where, events' = events, taken' = taken,
           cache'[File] \in {None, cache[File]} \/ cache'[File] \in {None, where},
           \A w \in Consumers : InfoCurrent(consumer[w]) => InfoCurrent(consumer[w])'
    PROVE  CacheInv'
BY DEF CacheInv, LastMove, MoveWaits, Moved

\* A new event leaves the cache right: if it is about a file, it is due.
LEMMA UsersCache == ASSUME DebounceInv, CacheInv, Users PROVE CacheInv'
<1>0. /\ events \in Seq(EventStates) /\ taken \in Nat /\ taken <= Len(events)
      /\ taken' = taken /\ consumer' = consumer /\ cache' = cache /\ failures' = failures
      BY DEF DebounceInv, TypeOK, Users
<1>p. ASSUME NEW kind, NEW d, Publish(kind, d), [kind |-> kind, dir |-> d] \in EventStates
      PROVE  /\ Len(events) \in Nat /\ Len(events') = Len(events) + 1
             /\ events'[Len(events) + 1].kind = kind /\ events'[Len(events) + 1].dir = d
             /\ \A e \in 1 .. Len(events) : events'[e] = events[e]
  <2>1. PICK x \in EventStates : x = [kind |-> kind, dir |-> d]
        BY <1>p
  <2>2. events' = Append(events, x)
        BY <1>p, <2>1 DEF Publish
  <2>3. /\ Len(events) \in Nat /\ Len(events') = Len(events) + 1 /\ events'[Len(events) + 1] = x
        /\ \A e \in 1 .. Len(events) : events'[e] = events[e]
        BY <1>0, <2>2
  <2> QED BY <2>1, <2>3
<1>w. where \in Dirs
      BY DEF DebounceInv, TypeOK
<1>1. ASSUME NEW kind \in {"changed", "purged", "space"}, NEW d \in Dirs, Publish(kind, d), where' = where
      PROVE  CacheInv'
  <2>1. [kind |-> kind, dir |-> d] \in EventStates
        BY DEF EventStates
  <2>m. PICK m : m = Len(events) + 1
        OBVIOUS
  <2>2. /\ Len(events) \in Nat /\ Len(events') = m /\ ~Moved(m)'
        /\ \A e \in 1 .. Len(events) : events'[e] = events[e]
        BY <1>1, <1>p, <2>1, <2>m DEF Moved
  <2>3. \A e \in 1 .. Len(events) : Moved(e) <=> Moved(e)'
        BY <2>2 DEF Moved
  <2>r. \A e \in 1 .. Len(events') : e = m \/ e \in 1 .. Len(events)
        BY <2>2, <2>m
  <2>4. LastMove'
    <3> SUFFICES ASSUME where' # None, NEW e \in 1 .. Len(events'), Moved(e)'
                 PROVE  events'[e].dir = where' \/ \E f \in e + 1 .. Len(events') : Moved(f)'
        BY DEF LastMove
    <3>1. e \in 1 .. Len(events) /\ Moved(e)
          BY <2>2, <2>3, <2>r
    <3>2. events[e].dir = where \/ \E f \in e + 1 .. Len(events) : Moved(f)
          BY <1>1, <3>1 DEF CacheInv, LastMove
    <3>3. ASSUME NEW f \in e + 1 .. Len(events), Moved(f) PROVE f \in e + 1 .. Len(events') /\ Moved(f)'
          BY <2>2, <2>3, <2>m, <3>1, <3>3
    <3> QED BY <1>1, <2>2, <3>1, <3>2, <3>3
  <2>5. MoveWaits => MoveWaits'
    <3> SUFFICES ASSUME NEW f \in taken + 1 .. Len(events), Moved(f) PROVE f \in taken' + 1 .. Len(events') /\ Moved(f)'
        BY DEF MoveWaits
    <3> QED BY <1>0, <2>2, <2>3, <2>m
  <2> QED BY <1>0, <1>1, <2>4, <2>5 DEF CacheInv, InfoCurrent
<1>2. CASE Move
  <2>1. where' \in {Dir, Root} /\ Publish("moved", where')
        BY <1>2 DEF Move
  <2>2. [kind |-> "moved", dir |-> where'] \in EventStates
        BY <2>1 DEF EventStates, Dirs
  <2>3. /\ Len(events) \in Nat /\ Len(events') = Len(events) + 1
        /\ events'[Len(events) + 1].kind = "moved" /\ events'[Len(events) + 1].dir = where'
        BY <2>1, <2>2, <1>p
  <2>4. LastMove'
        BY <2>3 DEF LastMove, Moved
  <2>5. MoveWaits'
        BY <1>0, <2>3 DEF MoveWaits, Moved
  <2> QED BY <2>4, <2>5 DEF CacheInv
<1>3. CASE Trash
      BY <1>3 DEF Trash, CacheInv, LastMove
<1>4. CASE Change
      BY <1>1, <1>4, <1>w DEF Change, Dirs
<1>5. CASE Purge \/ ShareSpace
      BY <1>1, <1>5 DEF Purge, ShareSpace, Dirs
<1> QED BY <1>2, <1>3, <1>4, <1>5 DEF Users

\* The consumer that takes an event begins without knowing a parent.
LEMMA BeginInfo ==
    ASSUME TypeOK, NEW w \in Consumers, NEW kind, NEW walk \in ConsumerStates, Begin(w, kind, walk),
           walk.info = None
    PROVE  /\ InfoCurrent(consumer[w])'
           /\ \A v \in Consumers : v # w => consumer'[v] = consumer[v]
<1>0. consumer \in [Consumers -> ConsumerStates]
      BY DEF TypeOK
<1>1. CASE walk = Idle
      BY <1>0, <1>1, IdleBecomes DEF Begin, InfoCurrent
<1>2. CASE walk # Idle
  <2>1. PICK c : c = [walk EXCEPT !.ev = taken + 1]
        OBVIOUS
  <2>2. c.info = None
        BY <2>1 DEF ConsumerStates
  <2>3. consumer' = [consumer EXCEPT ![w] = c]
        BY <1>2, <2>1 DEF Begin
  <2>4. consumer'[w] = c
        BY <1>0, <2>3
  <2> QED BY <1>0, <2>2, <2>3, <2>4 DEF InfoCurrent
<1> QED BY <1>1, <1>2

\* An event that is not a move is taken.
LEMMA CacheTaken ==
    ASSUME DebounceInv, CacheInv, failures' = 0 => failures = 0,
           where' = where, events' = events, taken' = taken + 1, cache' = cache,
           taken < Len(events), ~Moved(taken + 1), NEW w \in Consumers,
           InfoCurrent(consumer[w])', \A v \in Consumers : v # w => consumer'[v] = consumer[v]
    PROVE  CacheInv'
<1>1. taken \in Nat /\ Len(events) \in Nat
      BY DEF DebounceInv, TypeOK
<1>2. MoveWaits => MoveWaits'
  <2> SUFFICES ASSUME NEW f \in taken + 1 .. Len(events), Moved(f) PROVE f \in taken' + 1 .. Len(events') /\ Moved(f)'
      BY DEF MoveWaits
  <2> QED BY <1>1 DEF Moved
<1>3. LastMove'
      BY DEF CacheInv, LastMove, Moved
<1>4. (\A v \in Consumers : InfoCurrent(consumer[v])) => \A v \in Consumers : InfoCurrent(consumer[v])'
      BY DEF InfoCurrent
<1> QED BY <1>2, <1>3, <1>4 DEF CacheInv

\* The handlers keep the cache right, as there is no other consumer.
LEMMA HandleCache ==
    ASSUME DebounceInv, CacheInv, NEW w \in Consumers, \A v \in Consumers : v = w, Handle(w)
    PROVE  CacheInv'
<1>0. /\ TypeOK /\ where' = where /\ events' = events /\ taken \in Nat /\ failures \in Nat
      /\ events \in Seq(EventStates) /\ Len(events) \in Nat /\ cache \in [Resources -> Dirs]
      BY DEF DebounceInv, TypeOK, Handle
<1>i. Idle \in ConsumerStates /\ Idle.pc = "idle" /\ Idle.info = None
      BY Distinct DEF Idle, ConsumerStates, Dirs
<1>t. ASSUME NEW kind, NEW walk, Begin(w, kind, walk)
      PROVE  taken < Len(events) /\ taken' = taken + 1 /\ events[taken + 1].kind = kind
      BY <1>t DEF Begin
<1>f. Fail => failures' # 0
      BY <1>0 DEF Fail
<1>s. \A k, acts : StoreActivity(k, acts) => (failures' = 0 => failures = 0)
      BY <1>f DEF StoreActivity
<1>d. taken < Len(events) => events[taken + 1].dir \in Dirs
  <2>1. taken < Len(events) => events[taken + 1] \in EventStates
        BY <1>0
  <2> QED BY <2>1 DEF EventStates
<1>c. ASSUME NEW kind \in {"changed", "trashed", "space", "purged"}, NEW walk \in ConsumerStates,
             Begin(w, kind, walk), walk.info = None, cache' = cache, failures' = 0 => failures = 0
      PROVE  CacheInv'
  <2>1. /\ InfoCurrent(consumer[w])'
        /\ \A v \in Consumers : v # w => consumer'[v] = consumer[v]
        BY <1>0, <1>c, BeginInfo
  <2>2. taken < Len(events) /\ taken' = taken + 1 /\ ~Moved(taken + 1)
        BY <1>t, <1>c DEF Moved
  <2> QED BY <1>0, <1>c, <2>1, <2>2, CacheTaken
<1>1. CASE HandleChanged(w)
  <2> DEFINE walk == [Idle EXCEPT !.pc = "load", !.at = File, !.up = events[taken + 1].dir]
  <2>1. Begin(w, "changed", walk) /\ cache' = cache /\ failures' = failures /\ taken < Len(events)
        BY <1>1 DEF HandleChanged
  <2>2. walk \in ConsumerStates /\ walk.info = None
        BY <2>1, <1>d DEF Idle, ConsumerStates, Dirs, Resources
  <2> HIDE DEF walk
  <2> QED BY <2>1, <2>2, <1>c
<1>2. CASE HandleTrashed(w)
  <2> DEFINE on == [Idle EXCEPT !.pc = "resolve", !.at = events[taken + 1].dir]
             walk == IF lost' # lost THEN Idle ELSE on
  <2>1. Begin(w, "trashed", walk) /\ cache' = cache /\ taken < Len(events) /\ StoreActivity(File, {taken + 1})
        BY <1>2 DEF HandleTrashed
  <2>2. on \in ConsumerStates /\ on.info = None
        BY <2>1, <1>d DEF Idle, ConsumerStates, Dirs, Resources
  <2>3. walk \in ConsumerStates /\ walk.info = None
        BY <2>2, <1>i
  <2> HIDE DEF walk
  <2> QED BY <2>1, <2>3, <1>c, <1>s
<1>3. CASE HandleSpace(w)
      BY <1>3, <1>i, <1>c, <1>s DEF HandleSpace
<1>4. CASE HandlePurged(w)
      BY <1>4, <1>i, <1>c DEF HandlePurged
<1>5. CASE HandleMoved(w)
  <2> DEFINE walk == [Idle EXCEPT !.pc = "resolve", !.at = File]
  <2>1. Begin(w, "moved", walk) /\ taken < Len(events) /\ taken' = taken + 1
        BY <1>5 DEF HandleMoved, Begin
  <2>2. walk \in ConsumerStates /\ walk.info = None
        BY DEF Idle, ConsumerStates, Dirs, Resources
  <2> HIDE DEF walk
  <2>3. InfoCurrent(consumer[w])'
        BY <1>0, <2>1, <2>2, BeginInfo
  <2>4. LastMove'
        BY <1>0 DEF CacheInv, LastMove, Moved
  <2>5. ASSUME where' # None, failures' = 0, ~MoveWaits' PROVE cache'[File] \in {None, where'}
    <3>1. events[taken + 1].kind = "moved" /\ taken + 1 \in 1 .. Len(events)
          BY <1>0, <1>t, <2>1
    <3>2. \A f \in taken + 2 .. Len(events) : ~Moved(f)
          BY <1>0, <2>1, <2>5 DEF MoveWaits, Moved
    <3>3. events[taken + 1].dir = where
      <4>1. PICK e \in 1 .. Len(events) : e = taken + 1
            BY <3>1
      <4>2. \A f \in e + 1 .. Len(events) : ~Moved(f)
            BY <1>0, <3>2, <4>1
      <4> QED BY <1>0, <2>5, <3>1, <4>1, <4>2 DEF CacheInv, LastMove, Moved
    <3>4. cache' = [cache EXCEPT ![File] = None]
          BY <1>5, <1>f, <2>5, <3>3 DEF HandleMoved, Found
    <3> QED BY <1>0, <3>4 DEF Resources
  <2> QED BY <2>3, <2>4, <2>5 DEF CacheInv
<1> QED BY <1>1, <1>2, <1>3, <1>4, <1>5 DEF Handle

\* A consumer goes to a state in which it knows no wrong parent.
LEMMA CacheMove ==
    ASSUME TypeOK, CacheInv, NEW w \in Consumers, NEW c, consumer' = [consumer EXCEPT ![w] = c],
           InfoCurrent(consumer[w]) => InfoCurrent(c), failures' = 0 => failures = 0,
           where' = where, events' = events, taken' = taken, cache' = cache
    PROVE  CacheInv'
<1>1. /\ consumer'[w] = c
      /\ \A v \in Consumers : v # w => consumer'[v] = consumer[v]
      BY DEF TypeOK
<1>2. \A v \in Consumers : InfoCurrent(consumer[v]) => InfoCurrent(consumer[v])'
      BY <1>1 DEF InfoCurrent
<1> QED BY <1>2, CacheStays

\* A step of a walk caches what the gateway says.
LEMMA WalkCache == ASSUME DebounceInv, CacheInv, NEW w \in Consumers, Walk(w) PROVE CacheInv'
<1>0. /\ TypeOK /\ where' = where /\ events' = events /\ taken' = taken /\ failures \in Nat
      /\ consumer \in [Consumers -> ConsumerStates] /\ cache \in [Resources -> Dirs]
      BY DEF DebounceInv, TypeOK, Walk
<1>b. PICK b \in ConsumerStates : b = consumer[w]
      BY <1>0
<1>f. Fail => failures' # 0
      BY <1>0 DEF Fail
<1>i. InfoCurrent(Idle)
      BY IdleBecomes DEF InfoCurrent
<1>w. ASSUME NEW p, WalkTo(w, p), p # File
      PROVE  \E c : consumer' = [consumer EXCEPT ![w] = c] /\ InfoCurrent(c)
  <2>1. PICK c : c = [Idle EXCEPT !.pc = "load", !.ev = consumer[w].ev, !.at = p]
        OBVIOUS
  <2>2. c.at = p
        BY <2>1 DEF Idle
  <2> QED BY <1>w, <2>1, <2>2 DEF WalkTo, InfoCurrent
<1>a. Walking(b, taken)
      BY <1>b DEF DebounceInv, Walks
<1>1. CASE Resolve(w)
  <2> DEFINE parent == IF b.at = File THEN where ELSE IF b.at = Dir THEN Root ELSE None
  <2>1. /\ cache' = cache /\ (failures' = 0 => failures = 0)
        /\ \/ consumer' = [consumer EXCEPT ![w].pc = "load", ![w].info = parent]
           \/ consumer' = [consumer EXCEPT ![w] = Idle]
        BY <1>1, <1>b, <1>f DEF Resolve
  <2>2. PICK c : c = [b EXCEPT !.pc = "load", !.info = parent]
        OBVIOUS
  <2>3. c.at = b.at /\ c.info = parent
        BY <2>2 DEF ConsumerStates
  <2>4. InfoCurrent(c)
        BY <2>3 DEF InfoCurrent
  <2> HIDE DEF parent
  <2>5. CASE consumer' = [consumer EXCEPT ![w].pc = "load", ![w].info = parent]
    <3>1. consumer' = [consumer EXCEPT ![w] = c]
          BY <1>0, <1>b, <2>2, <2>5
    <3> QED BY <1>0, <2>1, <2>4, <3>1, CacheMove
  <2> QED BY <1>0, <1>i, <2>1, <2>5, CacheMove
<1>2. CASE FindParent(w)
  <2>1. cache' = cache /\ failures' = failures /\ consumer[w].pc = "parent"
        BY <1>2 DEF FindParent
  <2>2. CASE \E p : WalkTo(w, p) /\ p # File
        BY <1>0, <1>w, <2>1, <2>2, CacheMove
  <2>3. CASE Goto(w, IF consumer[w].info = None THEN "ask" ELSE "set")
    <3>1. PICK c : c = [b EXCEPT !.pc = IF consumer[w].info = None THEN "ask" ELSE "set"]
          OBVIOUS
    <3>2. c.at = b.at /\ c.info = b.info
          BY <3>1 DEF ConsumerStates
    <3>3. consumer' = [consumer EXCEPT ![w] = c]
          BY <1>0, <1>b, <2>3, <3>1 DEF Goto
    <3>4. InfoCurrent(consumer[w]) => InfoCurrent(c)
          BY <1>b, <2>1, <3>2 DEF InfoCurrent
    <3> QED BY <1>0, <2>1, <3>3, <3>4, CacheMove
  <2>4. b.up # File /\ \A k \in Resources : cache[k] # File
        BY <1>0, Distinct DEF ConsumerStates, Dirs
  <2>5. consumer[w].at \in Resources
        BY <1>a, <1>b, <2>1 DEF Walking
  <2> QED BY <1>2, <1>b, <2>2, <2>3, <2>4, <2>5 DEF FindParent
<1>3. CASE AskParent(w)
  <2> DEFINE parent == IF b.at = File THEN where ELSE Root
  <2>1. /\ cache' = cache /\ (failures' = 0 => failures = 0)
        /\ \/ consumer' = [consumer EXCEPT ![w].pc = "set", ![w].info = parent]
           \/ consumer' = [consumer EXCEPT ![w] = Idle]
        BY <1>3, <1>b, <1>f DEF AskParent
  <2>2. PICK c : c = [b EXCEPT !.pc = "set", !.info = parent]
        OBVIOUS
  <2>3. c.at = b.at /\ c.info = parent
        BY <2>2 DEF ConsumerStates
  <2>4. InfoCurrent(c)
        BY <2>3 DEF InfoCurrent
  <2> HIDE DEF parent
  <2>5. CASE consumer' = [consumer EXCEPT ![w].pc = "set", ![w].info = parent]
    <3>1. consumer' = [consumer EXCEPT ![w] = c]
          BY <1>0, <1>b, <2>2, <2>5
    <3> QED BY <1>0, <2>1, <2>4, <3>1, CacheMove
  <2> QED BY <1>0, <1>i, <2>1, <2>5, CacheMove
<1>4. CASE CacheParent(w)
  <2>1. /\ consumer[w].pc = "set" /\ cache' = [cache EXCEPT ![consumer[w].at] = consumer[w].info]
        /\ WalkTo(w, consumer[w].info) /\ failures' = failures
        BY <1>4 DEF CacheParent
  <2>2. b.info # File /\ b.at \in Resources
        BY <1>a, <1>b, <2>1, Distinct DEF ConsumerStates, Dirs, Walking
  <2>3. PICK c : consumer' = [consumer EXCEPT ![w] = c] /\ InfoCurrent(c)
        BY <1>b, <1>w, <2>1, <2>2
  <2>4. /\ consumer'[w] = c
        /\ \A v \in Consumers : v # w => consumer'[v] = consumer[v]
        BY <1>0, <2>3
  <2>5. \A v \in Consumers : InfoCurrent(consumer[v]) => InfoCurrent(consumer[v])'
        BY <1>0, <2>3, <2>4 DEF InfoCurrent
  <2>6. cache'[File] = IF b.at = File THEN b.info ELSE cache[File]
        BY <1>0, <1>b, <2>1, <2>2 DEF Resources
  <2>7. CASE b.at # File
        BY <1>0, <2>1, <2>5, <2>6, <2>7, CacheStays
  <2>8. CASE b.at = File
    <3>1. InfoCurrent(consumer[w]) => cache'[File] \in {None, where}
          BY <1>b, <2>1, <2>6, <2>8 DEF InfoCurrent
    <3> QED BY <1>0, <2>1, <2>5, <3>1 DEF CacheInv, LastMove, MoveWaits, Moved
  <2> QED BY <2>7, <2>8
<1> QED BY <1>1, <1>2, <1>3, <1>4 DEF Walk

\* The debouncer leaves the cache right.
LEMMA DebounceCache ==
    ASSUME DebounceInv, CacheInv, NEW w \in Consumers,
           DebounceNothing(w) \/ DebounceLoad(w) \/ DebounceAppend(w) \/ DebounceStore(w)
    PROVE  CacheInv'
<1>0. /\ TypeOK /\ where' = where /\ events' = events /\ taken' = taken /\ cache' = cache
      /\ consumer \in [Consumers -> ConsumerStates] /\ failures \in Nat
      BY DEF DebounceInv, TypeOK, DebounceNothing, DebounceLoad, DebounceAppend, DebounceStore
<1>b. PICK b \in ConsumerStates : b = consumer[w]
      BY <1>0
<1>f. failures' = 0 => failures = 0
  <2>1. Fail => failures' # 0
        BY <1>0 DEF Fail
  <2> QED BY <2>1 DEF DebounceNothing, DebounceLoad, DebounceAppend, DebounceStore, StoreActivity
<1>i. InfoCurrent(Idle)
      BY IdleBecomes DEF InfoCurrent
<1>p. b.pc # "idle"
      BY <1>b DEF DebounceNothing, DebounceLoad, DebounceAppend, DebounceStore
<1>1. ASSUME NEW pc, NEW i, consumer' = [consumer EXCEPT ![w].pc = pc, ![w].item = i]
      PROVE  CacheInv'
  <2>1. PICK c : c = [b EXCEPT !.pc = pc, !.item = i]
        OBVIOUS
  <2>2. c.at = b.at /\ c.info = b.info
        BY <2>1 DEF ConsumerStates
  <2>3. consumer' = [consumer EXCEPT ![w] = c]
        BY <1>0, <1>1, <1>b, <2>1
  <2>4. InfoCurrent(consumer[w]) => InfoCurrent(c)
        BY <1>b, <1>p, <2>2 DEF InfoCurrent
  <2> QED BY <1>0, <1>f, <2>3, <2>4, CacheMove
<1>2. CASE Ascend(w)
  <2>1. CASE consumer[w].at = Root
    <3>1. consumer' = [consumer EXCEPT ![w] = Idle]
          BY <1>2, <2>1 DEF Ascend
    <3> QED BY <1>0, <1>f, <1>i, <3>1, CacheMove
  <2>2. CASE consumer[w].at # Root
    <3>1. PICK c : c = [b EXCEPT !.pc = "parent", !.item = 0]
          OBVIOUS
    <3>2. c.at = b.at /\ c.info = b.info
          BY <3>1 DEF ConsumerStates
    <3>3. consumer' = [consumer EXCEPT ![w] = c]
          BY <1>0, <1>2, <1>b, <2>2, <3>1 DEF Ascend
    <3>4. InfoCurrent(consumer[w]) => InfoCurrent(c)
          BY <1>b, <1>p, <3>2 DEF InfoCurrent
    <3> QED BY <1>0, <1>f, <3>3, <3>4, CacheMove
  <2> QED BY <2>1, <2>2
<1>3. CASE DebounceLoad(w)
      BY <1>1, <1>3 DEF DebounceLoad
<1>4. CASE DebounceAppend(w)
  <2>1. PICK c : c = [b EXCEPT !.pc = "store"]
        OBVIOUS
  <2>2. c.at = b.at /\ c.info = b.info
        BY <2>1 DEF ConsumerStates
  <2>3. consumer' = [consumer EXCEPT ![w] = c]
        BY <1>0, <1>4, <1>b, <2>1 DEF DebounceAppend, Goto
  <2>4. InfoCurrent(consumer[w]) => InfoCurrent(c)
        BY <1>b, <1>p, <2>2 DEF InfoCurrent
  <2> QED BY <1>0, <1>f, <2>3, <2>4, CacheMove
<1> QED BY <1>2, <1>3, <1>4 DEF DebounceNothing, DebounceStore

\* Every step keeps the cache right.
LEMMA CacheStep ==
    ASSUME \A v, w \in Consumers : v = w, DebounceInv, CacheInv, [Next]_vars PROVE CacheInv'
<1>0. TypeOK /\ failures \in Nat /\ cache \in [Resources -> Dirs]
      BY DEF DebounceInv, TypeOK
<1>1. CASE Users
      BY <1>1, UsersCache
<1>2. ASSUME NEW w \in Consumers, Consume(w) PROVE CacheInv'
  <2>1. \A v \in Consumers : v = w
        OBVIOUS
  <2> QED BY <1>2, <2>1, HandleCache, WalkCache, DebounceCache DEF Consume
<1>3. ASSUME NEW i \in Items, Callback(i) PROVE CacheInv'
  <2>1. /\ where' = where /\ events' = events /\ taken' = taken /\ cache' = cache /\ consumer' = consumer
        BY <1>3 DEF Callback
  <2>2. failures' = 0 => failures = 0
    <3>1. Fail => failures' # 0
          BY <1>0 DEF Fail
    <3> QED BY <1>3, <3>1 DEF Callback, Fire, Reschedule, RemoveItem, MarkInProgress, WriteBatch, StoreActivity
  <2>3. \A w \in Consumers : InfoCurrent(consumer[w]) => InfoCurrent(consumer[w])'
        BY <2>1 DEF InfoCurrent
  <2> QED BY <2>1, <2>2, <2>3, CacheStays
<1>4. ASSUME NEW k \in Resources, Expire(k) PROVE CacheInv'
  <2>1. /\ where' = where /\ events' = events /\ taken' = taken /\ consumer' = consumer
        /\ failures' = failures /\ cache'[File] \in {None, cache[File]}
        BY <1>0, <1>4 DEF Expire, Resources
  <2>2. \A w \in Consumers : InfoCurrent(consumer[w]) => InfoCurrent(consumer[w])'
        BY <2>1 DEF InfoCurrent
  <2> QED BY <2>1, <2>2, CacheStays
<1>5. CASE UNCHANGED vars
      BY <1>5 DEF vars, CacheInv, LastMove, MoveWaits, Moved, InfoCurrent
<1> QED BY <1>1, <1>2, <1>3, <1>4, <1>5 DEF Next

\* With one consumer, the default, the cached parent of a file is its parent
\* once the moves are handled and as long as nothing failed: no walk caches a
\* parent it learned before a move that is handled since (service.go,
\* processEvent, ItemMoved and removeCachedParentID).
THEOREM CacheCurrentAlways ==
    ASSUME \A v, w \in Consumers : v = w PROVE Spec => []CacheCurrent
<1>1. Init => DebounceInv /\ CacheInv
  <2> SUFFICES ASSUME Init PROVE DebounceInv /\ CacheInv
      OBVIOUS
  <2>1. LastMove
        BY DEF Init, LastMove
  <2>2. cache[File] = None /\ \A w \in Consumers : InfoCurrent(consumer[w])
        BY IdleBecomes DEF Init, Resources, InfoCurrent
  <2> QED BY DebounceInit, <2>1, <2>2 DEF CacheInv
<1>2. DebounceInv /\ CacheInv /\ [Next]_vars => DebounceInv' /\ CacheInv'
      BY DebounceStep, CacheStep
<1>3. CacheInv => CacheCurrent
      BY DEF CacheInv, CacheCurrent, MoveWaits, Moved
<1> QED BY <1>1, <1>2, <1>3, PTL DEF Spec

-----------------------------------------------------------------------------
(* Counting: Total.  The provers take no operator as a parameter, so the    *)
(* induction is the existence of a least counterexample, which follows from *)
(* the well-foundedness of <.                                               *)

\* A nonempty set of naturals has a least element.
LEMMA LeastNat ==
    ASSUME NEW T, T \subseteq Nat, T # {}
    PROVE  \E x \in T : \A y \in T : x <= y
<1>1. PICK x \in T : \A y \in T : ~(<<y, x>> \in OpToRel(<, Nat))
      BY NatLessThanWellFounded, WFMin
<1>2. \A y \in T : ~(y < x)
      BY <1>1 DEF OpToRel
<1> QED BY <1>2

\* A nonempty set of naturals with a bound has a greatest element.
LEMMA GreatestNat ==
    ASSUME NEW m \in Nat, NEW T, T \subseteq 0 .. m, T # {}
    PROVE  \E x \in T : \A y \in T : y <= x
<1> DEFINE D == {m - i : i \in T}
<1>1. D \subseteq Nat /\ D # {}
  <2>1. PICK t \in T : m - t \in D
        OBVIOUS
  <2> QED BY <2>1
<1>2. \E z \in D : \A y \in D : z <= y
  <2> HIDE DEF D
  <2> QED BY <1>1, LeastNat
<1>3. PICK x \in T : \A y \in D : m - x <= y
      BY <1>2
<1>4. ASSUME NEW y \in T PROVE y <= x
  <2>1. m - x <= m - y
        BY <1>3
  <2> QED BY <2>1
<1> QED BY <1>4

Batches == {b \in SUBSET Nat : IsFiniteSet(b)}

\* f counts the activities of the first n batches of b, for all n up to m.
Counts(b, m, f) ==
    f = [n \in 0 .. m |-> IF n = 0 THEN 0 ELSE f[n - 1] + Cardinality(b[n])]

\* There is such a function.
LEMMA CountsExists == ASSUME NEW b, NEW m \in Nat PROVE \E f : Counts(b, m, f)
<1> DEFINE T == {n \in Nat : ~ \E f : Counts(b, n, f)}
<1> SUFFICES ASSUME T # {} PROVE FALSE
    OBVIOUS
<1>1. PICK x \in T : \A y \in T : x <= y
  <2>1. T \subseteq Nat
        OBVIOUS
  <2> HIDE DEF T
  <2> QED BY <2>1, LeastNat
<1>2. CASE x = 0
  <2>1. Counts(b, 0, [n \in 0 .. 0 |-> 0])
        BY DEF Counts
  <2> QED BY <1>2, <2>1
<1>3. CASE x # 0
  <2>1. x - 1 \in Nat /\ x - 1 \notin T
        BY <1>1, <1>3
  <2>2. PICK f : Counts(b, x - 1, f)
        BY <2>1
  <2> DEFINE g == [n \in 0 .. x |-> IF n = x THEN f[x - 1] + Cardinality(b[x]) ELSE f[n]]
  <2>3. \A n \in 0 .. x : g[n] = IF n = 0 THEN 0 ELSE g[n - 1] + Cardinality(b[n])
        BY <1>1, <1>3, <2>1, <2>2 DEF Counts
  <2>4. g = [n \in 0 .. x |-> g[n]]
        OBVIOUS
  <2> HIDE DEF g
  <2>5. Counts(b, x, g)
        BY <2>3, <2>4 DEF Counts
  <2> QED BY <2>5
<1> QED BY <1>2, <1>3

\* Total is the last of these counts.
LEMMA TotalCounts ==
    ASSUME NEW b, Len(b) \in Nat
    PROVE  \E f : Counts(b, Len(b), f) /\ Total(b) = f[Len(b)]
<1>1. \E f : Counts(b, Len(b), f)
      BY CountsExists
<1> DEFINE g == CHOOSE f : Counts(b, Len(b), f)
<1>2. Total(b) = g[Len(b)]
      BY DEF Total, Counts
<1>3. Counts(b, Len(b), g)
      BY <1>1
<1> HIDE DEF g
<1> QED BY <1>2, <1>3

\* The counts are natural numbers.
LEMMA CountsNat ==
    ASSUME NEW b \in Seq(Batches), NEW m \in 0 .. Len(b), NEW f, Counts(b, m, f)
    PROVE  /\ \A i \in 0 .. m : f[i] \in Nat
           /\ f[0] = 0
           /\ \A i \in 1 .. m : f[i] = f[i - 1] + Cardinality(b[i])
           /\ \A i \in 1 .. m : Cardinality(b[i]) \in Nat
<1>1. \A i \in 1 .. m : Cardinality(b[i]) \in Nat
  <2> SUFFICES ASSUME NEW i \in 1 .. m PROVE Cardinality(b[i]) \in Nat
      OBVIOUS
  <2>1. b[i] \in Batches
        OBVIOUS
  <2> QED BY <2>1, FS_CardinalityType DEF Batches
<1>2. f[0] = 0 /\ \A i \in 1 .. m : f[i] = f[i - 1] + Cardinality(b[i])
      BY DEF Counts
<1>3. \A i \in 0 .. m : f[i] \in Nat
  <2> DEFINE T == {i \in 0 .. m : f[i] \notin Nat}
  <2> SUFFICES ASSUME T # {} PROVE FALSE
      OBVIOUS
  <2>1. PICK x \in T : \A y \in T : x <= y
    <3>1. T \subseteq Nat
          OBVIOUS
    <3> HIDE DEF T
    <3> QED BY <3>1, LeastNat
  <2>2. x # 0
        BY <1>2
  <2>3. x - 1 \in 0 .. m /\ x - 1 \notin T
        BY <2>1, <2>2
  <2>4. f[x - 1] \in Nat
        BY <2>3
  <2> QED BY <1>1, <1>2, <2>2, <2>3, <2>4
<1> QED BY <1>1, <1>2, <1>3

\* The l batches of c follow the first n of b.
PartOf(c, l, b, n) ==
    /\ b \in Seq(Batches) /\ c \in Seq(Batches) /\ n \in Nat /\ l \in 0 .. Len(c)
    /\ n + l <= Len(b) /\ \A i \in 1 .. l : c[i] = b[n + i]

\* The counts of a part of the batches are those of the whole, less what was
\* before the part.
LEMMA CountsPart ==
    ASSUME NEW b, NEW c, NEW n, NEW l, PartOf(c, l, b, n),
           NEW f, Counts(b, Len(b), f), NEW g, Counts(c, l, g)
    PROVE  \A i \in 0 .. l : f[n + i] = f[n] + g[i]
<1>m. PICK m : m = Len(b)
      OBVIOUS
<1>0. /\ b \in Seq(Batches) /\ c \in Seq(Batches) /\ n \in Nat /\ l \in 0 .. Len(c)
      /\ m \in 0 .. Len(b) /\ n + l <= m /\ \A i \in 1 .. l : c[i] = b[n + i]
      /\ Counts(b, m, f) /\ m \in Nat /\ l \in Nat
      BY <1>m DEF PartOf
<1>1. /\ \A i \in 0 .. m : f[i] \in Nat
      /\ \A i \in 1 .. m : f[i] = f[i - 1] + Cardinality(b[i])
      /\ \A i \in 1 .. m : Cardinality(b[i]) \in Nat
      BY <1>0, CountsNat
<1>2. /\ g[0] = 0
      /\ \A i \in 0 .. l : g[i] \in Nat
      /\ \A i \in 1 .. l : g[i] = g[i - 1] + Cardinality(c[i])
      BY <1>0, CountsNat
<1> DEFINE T == {i \in 0 .. l : f[n + i] # f[n] + g[i]}
<1> SUFFICES ASSUME T # {} PROVE FALSE
    OBVIOUS
<1>3. PICK x \in T : \A y \in T : x <= y
  <2>1. T \subseteq Nat
        BY <1>0
  <2> HIDE DEF T
  <2> QED BY <2>1, LeastNat
<1>4. x # 0
  <2>1. n \in 0 .. m
        BY <1>0
  <2>2. f[n + 0] = f[n] + g[0]
        BY <1>1, <1>2, <2>1
  <2> QED BY <2>2
<1>5. x \in 1 .. l /\ x - 1 \in 0 .. l /\ x - 1 \notin T /\ n + x \in 1 .. m
      BY <1>0, <1>3, <1>4
<1>6. f[n + (x - 1)] = f[n] + g[x - 1]
      BY <1>5
<1>7. f[n + x] = f[n + (x - 1)] + Cardinality(b[n + x]) /\ b[n + x] = c[x]
  <2>1. (n + x) - 1 = n + (x - 1)
        BY <1>0, <1>5
  <2> QED BY <1>0, <1>1, <1>5, <2>1
<1>8. n \in 0 .. m /\ f[n] \in Nat /\ g[x - 1] \in Nat /\ Cardinality(c[x]) \in Nat
      BY <1>0, <1>1, <1>2, <1>5, <1>7
<1>9. f[n + x] = f[n] + g[x]
      BY <1>2, <1>5, <1>6, <1>7, <1>8
<1> QED BY <1>9

\* The counts grow.
LEMMA CountsGrow ==
    ASSUME NEW b \in Seq(Batches), NEW m \in 0 .. Len(b), NEW f, Counts(b, m, f)
    PROVE  \A i, j \in 0 .. m : i <= j => f[i] <= f[j]
<1>1. /\ \A i \in 0 .. m : f[i] \in Nat
      /\ \A i \in 1 .. m : f[i] = f[i - 1] + Cardinality(b[i])
      /\ \A i \in 1 .. m : Cardinality(b[i]) \in Nat
      BY CountsNat
<1> SUFFICES ASSUME NEW i \in 0 .. m PROVE \A j \in 0 .. m : i <= j => f[i] <= f[j]
    OBVIOUS
<1> DEFINE T == {j \in 0 .. m : i <= j /\ ~(f[i] <= f[j])}
<1> SUFFICES ASSUME T # {} PROVE FALSE
    OBVIOUS
<1>2. PICK x \in T : \A y \in T : x <= y
  <2>1. T \subseteq Nat
        OBVIOUS
  <2> HIDE DEF T
  <2> QED BY <2>1, LeastNat
<1>3. x # i
      BY <1>1
<1>4. x - 1 \in 0 .. m /\ i <= x - 1 /\ x - 1 \notin T /\ x \in 1 .. m
      BY <1>2, <1>3
<1>5. f[i] <= f[x - 1]
      BY <1>4
<1> QED BY <1>1, <1>4, <1>5

\* What is left when the first n batches are gone.
LEMMA KeptBatches ==
    ASSUME NEW b \in Seq(Batches), NEW n \in 0 .. Len(b)
    PROVE  /\ Kept(b, n) \in Seq(Batches) /\ Len(Kept(b, n)) = Len(b) - n
           /\ \A i \in 1 .. Len(b) - n : Kept(b, n)[i] = b[n + i]
BY DEF Kept

\* How much that is.
LEMMA TotalKept ==
    ASSUME NEW b \in Seq(Batches), NEW f, Counts(b, Len(b), f), NEW n \in 0 .. Len(b)
    PROVE  /\ Total(Kept(b, n)) \in Nat /\ f[n] \in Nat /\ f[Len(b)] \in Nat
           /\ f[Len(b)] = f[n] + Total(Kept(b, n))
<1>1. PICK c : c = Kept(b, n)
      OBVIOUS
<1>2. c \in Seq(Batches) /\ Len(c) = Len(b) - n /\ \A i \in 1 .. Len(c) : c[i] = b[n + i]
      BY <1>1, KeptBatches
<1>3. PICK g : Counts(c, Len(c), g) /\ Total(c) = g[Len(c)]
      BY <1>2, TotalCounts
<1>4. Len(c) \in 0 .. Len(c) /\ Len(b) \in 0 .. Len(b) /\ n + Len(c) = Len(b)
      BY <1>2
<1>5. g[Len(c)] \in Nat /\ f[n] \in Nat /\ f[Len(b)] \in Nat
      BY <1>2, <1>3, <1>4, CountsNat
<1>6. f[n + Len(c)] = f[n] + g[Len(c)]
  <2>1. PartOf(c, Len(c), b, n)
        BY <1>2, <1>4 DEF PartOf
  <2>2. \A i \in 0 .. Len(c) : f[n + i] = f[n] + g[i]
        BY <1>3, <2>1, CountsPart
  <2> QED BY <1>4, <2>2
<1> QED BY <1>1, <1>3, <1>4, <1>5, <1>6

\* The fewer batches are left, the less that is.
LEMMA KeptLess ==
    ASSUME NEW b \in Seq(Batches), NEW n \in 0 .. Len(b), NEW m \in n .. Len(b)
    PROVE  /\ Total(Kept(b, m)) <= Total(Kept(b, n))
           /\ Total(Kept(b, n)) \in Nat /\ Total(b) \in Nat /\ Total(Kept(b, n)) <= Total(b)
           /\ n = 0 => Total(Kept(b, n)) = Total(b)
<1>1. PICK f : Counts(b, Len(b), f) /\ Total(b) = f[Len(b)]
      BY TotalCounts
<1>2. /\ Total(Kept(b, n)) \in Nat /\ f[n] \in Nat /\ f[Len(b)] \in Nat
      /\ f[Len(b)] = f[n] + Total(Kept(b, n))
      BY <1>1, TotalKept
<1>3. m \in 0 .. Len(b) /\ n \in 0 .. Len(b) /\ n <= m /\ Len(b) \in 0 .. Len(b)
      OBVIOUS
<1>4. /\ Total(Kept(b, m)) \in Nat /\ f[m] \in Nat
      /\ f[Len(b)] = f[m] + Total(Kept(b, m))
      BY <1>1, <1>3, TotalKept
<1>5. f[n] <= f[m] /\ f[0] = 0
      BY <1>1, <1>3, CountsGrow, CountsNat
<1> QED BY <1>1, <1>2, <1>4, <1>5

\* A batch that is added counts.
LEMMA AppendCounts ==
    ASSUME NEW b \in Seq(Batches), NEW a \in Batches, NEW n \in 0 .. Len(b)
    PROVE  /\ Cardinality(a) \in Nat
           /\ Total(Kept(Append(b, a), n)) = Total(Kept(b, n)) + Cardinality(a)
<1>1. PICK c : c = Append(b, a)
      OBVIOUS
<1>2. /\ c \in Seq(Batches) /\ Len(c) = Len(b) + 1 /\ c[Len(c)] = a
      /\ \A i \in 1 .. Len(b) : c[i] = b[i]
      BY <1>1
<1>l. Len(b) \in Nat /\ Len(c) \in Nat
      BY <1>2
<1>3. PICK f : Counts(b, Len(b), f)
      BY <1>l, CountsExists
<1>4. PICK g : Counts(c, Len(c), g)
      BY <1>l, CountsExists
<1>5. Cardinality(a) \in Nat
      BY FS_CardinalityType DEF Batches
<1>6. Len(b) \in 0 .. Len(b) /\ Len(b) \in Nat /\ Len(c) \in 0 .. Len(c) /\ n \in 0 .. Len(c) /\ 0 \in Nat
      BY <1>2
<1>7. g[Len(c)] = g[Len(b)] + Cardinality(a) /\ g[0] = 0 /\ g[Len(b)] \in Nat
  <2>1. /\ \A i \in 0 .. Len(c) : g[i] \in Nat
        /\ g[0] = 0
        /\ \A i \in 1 .. Len(c) : g[i] = g[i - 1] + Cardinality(c[i])
        BY <1>2, <1>4, <1>6, CountsNat
  <2>2. Len(c) \in 1 .. Len(c) /\ Len(c) - 1 = Len(b) /\ Len(b) \in 0 .. Len(c)
        BY <1>2, <1>6
  <2> QED BY <1>2, <2>1, <2>2
<1>8. \A i \in 0 .. Len(b) : g[0 + i] = g[0] + f[i]
  <2>1. PartOf(b, Len(b), c, 0)
        BY <1>2, <1>6 DEF PartOf
  <2> QED BY <1>3, <1>4, <2>1, CountsPart
<1>9. \A i \in 0 .. Len(b) : f[i] \in Nat
      BY <1>3, <1>6, CountsNat
<1>10. g[n] = f[n] /\ g[Len(b)] = f[Len(b)] /\ f[n] \in Nat /\ f[Len(b)] \in Nat
      BY <1>6, <1>7, <1>8, <1>9
<1>11. f[Len(b)] = f[n] + Total(Kept(b, n)) /\ Total(Kept(b, n)) \in Nat
      BY <1>3, TotalKept
<1>12. g[Len(c)] = g[n] + Total(Kept(c, n)) /\ Total(Kept(c, n)) \in Nat
      BY <1>2, <1>4, <1>6, TotalKept
<1>13. Total(Kept(c, n)) = Total(Kept(b, n)) + Cardinality(a)
  <2>1. \A p, q, x, y, z \in Nat : (p + x = q + z /\ q = p + y) => x = y + z
        OBVIOUS
  <2>2. f[n] + Total(Kept(c, n)) = f[Len(b)] + Cardinality(a)
        BY <1>7, <1>10, <1>12
  <2> QED BY <1>5, <1>10, <1>11, <1>12, <2>1, <2>2
<1> QED BY <1>1, <1>5, <1>13, Zenon

-----------------------------------------------------------------------------
(* The limit: NewestKept.                                                   *)

\* Deleting stops where one more batch less would be too few.
LEMMA ExcessStops ==
    ASSUME NEW b \in Seq(Batches), NEW n \in 0 .. Len(b), MaxActivities > 0,
           NEW x, x = Excess(b, n)
    PROVE  /\ x \in n .. Len(b)
           /\ x # n => Total(Kept(b, x)) >= MaxActivities
<1> DEFINE S == {n} \cup {i \in n + 1 .. Len(b) : Total(Kept(b, i)) >= MaxActivities}
<1>0. MaxActivities \in Nat /\ Len(b) \in Nat /\ n \in Nat
      BY ActivityAssumption
<1>1. S \subseteq 0 .. Len(b) /\ S # {} /\ n \in S
      BY <1>0
<1>2. x = Max(S)
      BY <1>0 DEF Excess
<1>3. \E y \in S : \A z \in S : z <= y
  <2> HIDE DEF S
  <2> QED BY <1>0, <1>1, GreatestNat
<1>4. \E y \in S : \A z \in S : y >= z
      BY <1>1, <1>3
<1>5. x \in S /\ \A z \in S : x >= z
  <2> HIDE DEF S
  <2> QED BY <1>2, <1>4 DEF Max
<1>6. x \in n .. Len(b)
      BY <1>0, <1>1, <1>5
<1> QED BY <1>5, <1>6

\* Without a limit nothing is deleted.
LEMMA NoExcess == ASSUME NEW b, NEW n, MaxActivities = 0 PROVE Excess(b, n) = n
BY DEF Excess

\* As long as there are MaxActivities, so many are among the batches after n.
Enough(b, n) == Total(Kept(b, n)) >= Total(b) \/ Total(Kept(b, n)) >= MaxActivities

\* That is what NewestKept says of every resource.
LEMMA NewestEnough ==
    ASSUME NEW b \in Seq(Batches), NEW n \in 0 .. Len(b)
    PROVE  Total(Kept(b, n)) >= Min({Total(b), MaxActivities}) <=> Enough(b, n)
<1>1. Total(b) \in Nat /\ Total(Kept(b, n)) \in Nat /\ MaxActivities \in Nat
  <2>1. n \in n .. Len(b)
        OBVIOUS
  <2> QED BY <2>1, KeptLess, ActivityAssumption
<1>2. PICK t \in Nat : t = Total(b)
      BY <1>1
<1>3. PICK m : m = Min({t, MaxActivities})
      OBVIOUS
<1>4. \E y \in {t, MaxActivities} : \A z \in {t, MaxActivities} : y <= z
      BY <1>1
<1>5. m \in {t, MaxActivities} /\ \A z \in {t, MaxActivities} : m <= z
      BY <1>3, <1>4 DEF Min
<1>6. m <= t /\ m <= MaxActivities /\ (m = t \/ m = MaxActivities)
      BY <1>5
<1>7. Total(Kept(b, n)) >= m <=> Enough(b, n)
      BY <1>1, <1>2, <1>6 DEF Enough
<1> QED BY <1>2, <1>3, <1>7

\* There are enough after a batch was added.
LEMMA AppendEnough ==
    ASSUME NEW b \in Seq(Batches), NEW a \in Batches, NEW n \in 0 .. Len(b), Enough(b, n)
    PROVE  Enough(Append(b, a), n)
<1>1. MaxActivities \in Nat /\ n \in n .. Len(b) /\ 0 \in 0 .. Len(b) /\ 0 \in 0 .. 0
      BY ActivityAssumption
<1>2. Total(Kept(b, n)) \in Nat /\ Total(b) \in Nat
      BY <1>1, KeptLess
<1>3. /\ Cardinality(a) \in Nat
      /\ Total(Kept(Append(b, a), n)) = Total(Kept(b, n)) + Cardinality(a)
      /\ Total(Kept(Append(b, a), 0)) = Total(Kept(b, 0)) + Cardinality(a)
      BY <1>1, AppendCounts
<1>4. PICK c : c = Append(b, a)
      OBVIOUS
<1>5. c \in Seq(Batches) /\ Len(c) = Len(b) + 1 /\ 0 \in 0 .. Len(c)
      BY <1>4
<1>6. Total(Kept(b, 0)) = Total(b) /\ Total(Kept(c, 0)) = Total(c)
      BY <1>1, <1>5, KeptLess
<1>7. /\ Total(Kept(c, n)) = Total(Kept(b, n)) + Cardinality(a)
      /\ Total(c) = Total(b) + Cardinality(a)
      BY <1>3, <1>4, <1>6
<1>8. Enough(c, n)
      BY <1>1, <1>2, <1>3, <1>7 DEF Enough
<1> QED BY <1>4, <1>8

\* And there are enough where fewer are deleted than enough.
LEMMA LessEnough ==
    ASSUME NEW b \in Seq(Batches), NEW m \in 0 .. Len(b), NEW n \in 0 .. m, Enough(b, m)
    PROVE  Enough(b, n)
<1>1. Total(Kept(b, m)) <= Total(Kept(b, n))
      BY KeptLess
<1>2. Total(Kept(b, m)) \in Nat /\ Total(Kept(b, n)) \in Nat /\ Total(b) \in Nat
  <2>1. n \in 0 .. Len(b) /\ n \in n .. Len(b) /\ m \in m .. Len(b)
        OBVIOUS
  <2> QED BY <2>1, KeptLess
<1> QED BY <1>1, <1>2, ActivityAssumption DEF Enough

\* What was deleted was there, and what is left is enough.
BucketInv ==
    /\ dropped \in [Resources -> Nat]
    /\ \A k \in Resources : dropped[k] <= Len(put[k])
    /\ MaxActivities > 0 => \A k \in Resources : Enough(put[k], dropped[k])

\* The batches of events that have been taken are finite.
LEMMA BatchesFinite ==
    ASSUME NEW p \in [Resources -> Seq(SUBSET Nat)], NEW n \in Nat,
           \A k \in Resources : \A i \in 1 .. Len(p[k]) : \A e \in p[k][i] : e \in 1 .. n
    PROVE  \A k \in Resources : p[k] \in Seq(Batches)
<1> SUFFICES ASSUME NEW k \in Resources PROVE p[k] \in Seq(Batches)
    OBVIOUS
<1>1. p[k] \in Seq(SUBSET Nat)
      OBVIOUS
<1>2. IsFiniteSet(1 .. n)
      BY FS_Interval
<1>3. ASSUME NEW i \in 1 .. Len(p[k]) PROVE p[k][i] \in Batches
  <2>1. p[k][i] \subseteq 1 .. n /\ p[k][i] \in SUBSET Nat
        BY <1>1
  <2> QED BY <1>2, <2>1, FS_Subset DEF Batches
<1> QED BY <1>1, <1>3

\* A step leaves the bucket alone or is one StoreActivity.
BucketKinds ==
    \/ put' = put /\ dropped' = dropped
    \/ \E k \in Resources : \E acts : StoreActivity(k, acts)

\* Every step is of one of these kinds.
LEMMA NextBucket == ASSUME DebounceInv, [Next]_vars PROVE BucketKinds
<1>1. CASE UNCHANGED vars \/ Users \/ \E k \in Resources : Expire(k)
      BY <1>1 DEF vars, Users, Expire, bucketVars, BucketKinds
<1>2. ASSUME NEW i \in Items, Callback(i) PROVE BucketKinds
  <2>0. item \in Seq(ItemStates) /\ item[i] \in ItemStates
        BY DEF DebounceInv, TypeOK, Items
  <2>1. item[i].key \in Resources
        BY <2>0 DEF ItemStates
  <2>2. CASE WriteBatch(i)
        BY <2>1, <2>2 DEF WriteBatch, BucketKinds
  <2>3. CASE ~WriteBatch(i)
        BY <1>2, <2>3 DEF Callback, Fire, Reschedule, RemoveItem, MarkInProgress, bucketVars, BucketKinds
  <2> QED BY <2>2, <2>3
<1>3. ASSUME NEW w \in Consumers, Consume(w) PROVE BucketKinds
  <2>0. consumer[w].pc # "idle" => consumer[w].at \in Resources
        BY DEF DebounceInv, Walks, Walking
  <2>1. CASE HandleTrashed(w) \/ HandleSpace(w)
        BY <2>1 DEF HandleTrashed, HandleSpace, BucketKinds, Resources
  <2>2. CASE Handle(w) /\ ~HandleTrashed(w) /\ ~HandleSpace(w)
        BY <2>2 DEF Handle, HandleChanged, HandleMoved, HandlePurged, bucketVars, BucketKinds
  <2>3. CASE Walk(w)
        BY <2>3 DEF Walk, bucketVars, BucketKinds
  <2>4. CASE DebounceNothing(w)
        BY <2>0, <2>4 DEF DebounceNothing, BucketKinds
  <2>5. CASE DebounceLoad(w) \/ DebounceAppend(w) \/ DebounceStore(w)
        BY <2>5 DEF DebounceLoad, DebounceAppend, DebounceStore, bucketVars, BucketKinds
  <2> QED BY <1>3, <2>1, <2>2, <2>3, <2>4, <2>5 DEF Consume
<1> QED BY <1>1, <1>2, <1>3 DEF Next

\* One write leaves its resource enough, and the others alone.
LEMMA StoreBucket ==
    ASSUME DebounceInv, OnceInv, DebounceInv', OnceInv', BucketInv,
           NEW k \in Resources, NEW acts, StoreActivity(k, acts)
    PROVE  BucketInv'
<1>0. /\ put \in [Resources -> Seq(SUBSET Nat)] /\ put' \in [Resources -> Seq(SUBSET Nat)]
      /\ taken \in Nat /\ taken' \in Nat /\ failures \in Nat /\ dropped \in [Resources -> Nat]
      /\ MaxActivities \in Nat
      BY ActivityAssumption DEF DebounceInv, TypeOK, BucketInv
<1>1. \A r \in Resources : put[r] \in Seq(Batches)
  <2>1. \A r \in Resources : \A i \in 1 .. Len(put[r]) : \A e \in put[r][i] : e \in 1 .. taken
        BY DEF OnceInv, Seen
  <2> QED BY <1>0, <2>1, BatchesFinite
<1>2. \A r \in Resources : put'[r] \in Seq(Batches)
  <2>1. \A r \in Resources : \A i \in 1 .. Len(put'[r]) : \A e \in put'[r][i] : e \in 1 .. taken'
        BY DEF OnceInv, Seen
  <2> QED BY <1>0, <2>1, BatchesFinite
<1>3. CASE put' = put /\ dropped' = dropped
      BY <1>3 DEF BucketInv, Enough
<1>4. ASSUME put' = [put EXCEPT ![k] = Append(@, acts)],
             NEW n, dropped' = [dropped EXCEPT ![k] = n],
             \/ n = Excess(put'[k], dropped[k])
             \/ n \in dropped[k] .. Excess(put'[k], dropped[k]) - 1
      PROVE  BucketInv'
  <2>1. PICK b \in Seq(Batches) : b = put[k]
        BY <1>1
  <2>2. PICK c \in Seq(Batches) : c = put'[k]
        BY <1>2
  <2>3. c = Append(b, acts) /\ \A r \in Resources : r # k => put'[r] = put[r]
        BY <1>0, <1>4, <2>1, <2>2
  <2>4. Len(c) = Len(b) + 1 /\ acts \in Batches
    <3>1. Len(c) = Len(b) + 1 /\ c[Len(b) + 1] = acts /\ Len(b) + 1 \in 1 .. Len(c)
          BY <2>3
    <3> QED BY <2>2, <3>1
  <2>5. PICK d \in 0 .. Len(b) : d = dropped[k]
        BY <1>0, <2>1 DEF BucketInv
  <2>6. PICK x : x = Excess(c, d)
        OBVIOUS
  <2>7. d \in 0 .. Len(c) /\ d \in d .. Len(c)
        BY <2>4
  <2>8. x \in d .. Len(c) /\ (MaxActivities > 0 => Enough(c, x))
    <3>1. CASE MaxActivities = 0
          BY <2>6, <2>7, <3>1, NoExcess
    <3>2. CASE MaxActivities > 0
      <4>1. Enough(c, d)
            BY <2>1, <2>3, <2>4, <2>5, <3>2, AppendEnough DEF BucketInv
      <4>2. x \in d .. Len(c) /\ (x # d => Total(Kept(c, x)) >= MaxActivities)
            BY <2>6, <2>7, <3>2, ExcessStops
      <4> QED BY <4>1, <4>2 DEF Enough
    <3> QED BY <1>0, <3>1, <3>2
  <2>9. n \in d .. x
        BY <1>4, <2>2, <2>5, <2>6, <2>8
  <2>10. MaxActivities > 0 => Enough(c, n)
    <3>1. x \in 0 .. Len(c) /\ n \in 0 .. x
          BY <2>7, <2>8, <2>9
    <3> QED BY <2>8, <3>1, LessEnough
  <2>12. dropped'[k] = n /\ n \in Nat /\ n <= Len(c) /\ \A r \in Resources : r # k => dropped'[r] = dropped[r]
        BY <1>0, <1>4, <2>7, <2>8, <2>9
  <2>13. dropped' \in [Resources -> Nat]
        BY <1>0, <1>4, <2>12
  <2>14. \A r \in Resources : dropped'[r] <= Len(put'[r])
        BY <2>2, <2>3, <2>12 DEF BucketInv
  <2>15. MaxActivities > 0 => \A r \in Resources : Enough(put'[r], dropped'[r])
        BY <2>2, <2>3, <2>10, <2>12 DEF BucketInv
  <2>16. (\A r \in Resources : Enough(put[r], dropped[r]))' <=> \A r \in Resources : Enough(put'[r], dropped'[r])
        BY DEF Enough
  <2> QED BY <2>13, <2>14, <2>15, <2>16 DEF BucketInv
<1> QED BY <1>3, <1>4 DEF StoreActivity

\* Every step leaves enough.
LEMMA BucketStep ==
    ASSUME DebounceInv, OnceInv, BucketInv, [Next]_vars PROVE BucketInv'
<1>1. DebounceInv' /\ OnceInv'
      BY NextKinds, DebounceStep, KindsOnce
<1>2. CASE put' = put /\ dropped' = dropped
      BY <1>2 DEF BucketInv, Enough
<1> QED BY <1>1, <1>2, NextBucket, StoreBucket DEF BucketKinds

\* What BucketInv says of the newest activities.
LEMMA BucketNewest == DebounceInv /\ OnceInv /\ BucketInv => NewestKept
<1> SUFFICES ASSUME DebounceInv, OnceInv, BucketInv, MaxActivities > 0, NEW k \in Resources
             PROVE  Total(Kept(put[k], dropped[k])) >= Min({Total(put[k]), MaxActivities})
    BY DEF NewestKept
<1>1. \A r \in Resources : put[r] \in Seq(Batches)
  <2>1. \A r \in Resources : \A i \in 1 .. Len(put[r]) : \A e \in put[r][i] : e \in 1 .. taken
        BY DEF OnceInv, Seen
  <2> QED BY <2>1, BatchesFinite DEF DebounceInv, TypeOK
<1>2. PICK b \in Seq(Batches) : b = put[k]
      BY <1>1
<1>3. PICK d \in 0 .. Len(b) : d = dropped[k]
      BY <1>2 DEF BucketInv
<1>4. Enough(b, d)
      BY <1>2, <1>3 DEF BucketInv
<1>5. Total(Kept(b, d)) >= Min({Total(b), MaxActivities})
      BY <1>4, NewestEnough
<1> QED BY <1>2, <1>3, <1>5

\* BucketInv is an invariant.
LEMMA BucketAlways == Spec => [](DebounceInv /\ OnceInv /\ BucketInv)
<1>1. Init => DebounceInv /\ OnceInv /\ BucketInv
  <2> SUFFICES ASSUME Init PROVE DebounceInv /\ OnceInv /\ BucketInv
      OBVIOUS
  <2>1. OnceInv
        BY DEF Init, OnceInv, WrittenOnce, Resources, Items
  <2>2. \A k \in Resources : put[k] = <<>> /\ dropped[k] = 0
        BY DEF Init
  <2>3. <<>> \in Seq(Batches) /\ Len(<<>>) = 0 /\ 0 \in 0 .. Len(<<>>) /\ 0 \in 0 .. 0
        OBVIOUS
  <2>4. Enough(<<>>, 0)
    <3>1. Total(Kept(<<>>, 0)) = Total(<<>>) /\ Total(<<>>) \in Nat
          BY <2>3, KeptLess
    <3> QED BY <3>1 DEF Enough
  <2>5. dropped \in [Resources -> Nat]
        BY DEF Init
  <2> QED BY <2>1, <2>2, <2>3, <2>4, <2>5, DebounceInit DEF BucketInv
<1>2. DebounceInv /\ OnceInv /\ BucketInv /\ [Next]_vars => DebounceInv' /\ OnceInv' /\ BucketInv'
      BY NextKinds, DebounceStep, KindsOnce, BucketStep
<1> QED BY <1>1, <1>2, PTL DEF Spec

\* The limit costs only the oldest activities: as long as a resource has had
\* MaxActivities of them, so many of the newest are in the bucket, however the
\* debouncer cut them into batches and whatever deletion failed
\* (activitylog.go, enforceMaxActivities).
THEOREM NewestKeptAlways == Spec => []NewestKept
BY BucketAlways, BucketNewest, PTL

================================================================================
