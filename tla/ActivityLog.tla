------------------------------ MODULE ActivityLog ------------------------------
(***************************************************************************)
(* The activity log (services/activitylog): which events are recorded for  *)
(* a file, its directory and the root of its space.  An event is recorded  *)
(* on its resource and on all its parents; a parent comes from the event,  *)
(* a cache or the gateway.  A debouncer collects what is recorded on a     *)
(* resource and writes it to the bucket as one batch, and the oldest       *)
(* batches of a resource go when it has more than MaxActivities.           *)
(*                                                                         *)
(* One file moves between a directory and the root, is changed and is      *)
(* trashed.  The bus counts an event as delivered when a consumer has it.  *)
(***************************************************************************)
EXTENDS Integers, Sequences, FiniteSetsExt

CONSTANTS
    File, Dir, Root,    \* the resources; Dir is a child of Root
    None,               \* no resource
    Consumers,          \* ACTIVITYLOG_NUM_CONSUMERS goroutines
    Buffered,           \* the resources whose activities wait for
                        \* ACTIVITYLOG_WRITE_BUFFER_DURATION
    MaxActivities,      \* ACTIVITYLOG_MAX_ACTIVITIES
    MaxEvents,          \* bound: events
    MaxFailures         \* bound: failing requests to the gateway and the bucket

ASSUME ActivityAssumption ==
    /\ File # Dir /\ File # Root /\ Dir # Root
    /\ None \notin {File, Dir, Root} /\ None \notin Consumers
    /\ Buffered \subseteq {File, Dir, Root}
    /\ MaxActivities \in Nat /\ MaxEvents \in Nat /\ MaxFailures \in Nat

VARIABLES
    where,      \* the parent of File, None when it is in the trash
    events,     \* the events so far
    taken,      \* how many of them a consumer has taken
    consumer,   \* what each consumer does
    cache,      \* parentIdCache
    mutex,      \* the consumer in Debounce, None if there is none
    pending,    \* the item of each resource, 0 if there is none
    inProgress, \* the resources a callback writes
    item,       \* the queue items and the callbacks of their timers
    put,        \* the batches ever put in the bucket
    dropped,    \* how many of them were removed again, the oldest first
    noted,      \* history: what Debounce was given
    lost,       \* history: what could not be written
    late,       \* history: what Debounce added to an item already removed
    failures    \* history: the failures so far

debouncerVars == <<mutex, pending, inProgress, item, noted, late>>
bucketVars == <<put, dropped, lost>>
vars == <<where, events, taken, consumer, cache, debouncerVars, bucketVars, failures>>

Resources == {File, Dir, Root}
Items == DOMAIN item

Idle == [pc |-> "idle", ev |-> 0, at |-> None, up |-> None, info |-> None, item |-> 0]

Init ==
    /\ where = Dir
    /\ events = <<>> /\ taken = 0
    /\ consumer = [w \in Consumers |-> Idle]
    /\ cache = [k \in Resources |-> None]
    /\ mutex = None /\ pending = [k \in Resources |-> 0] /\ inProgress = {} /\ item = <<>>
    /\ put = [k \in Resources |-> <<>>] /\ dropped = [k \in Resources |-> 0]
    /\ noted = [k \in Resources |-> {}] /\ lost = [k \in Resources |-> {}]
    /\ late = [k \in Resources |-> {}]
    /\ failures = 0

-----------------------------------------------------------------------------
(* The space.  An event names the parent (UploadReady, FileTouched) or not *)
(* (shares and links); that of a move or a deletion refers to a path.      *)

Publish(kind, dir) ==
    /\ Len(events) < MaxEvents
    /\ events' = Append(events, [kind |-> kind, dir |-> dir])

Change ==
    /\ where # None
    /\ \E dir \in {where, None} : Publish("changed", dir)
    /\ UNCHANGED where

Move ==
    /\ where # None
    /\ where' = IF where = Dir THEN Root ELSE Dir
    /\ Publish("moved", where')

Trash ==
    /\ where # None
    /\ where' = None
    /\ Publish("trashed", where)

\* ItemPurged
Purge == where = None /\ Publish("purged", None) /\ UNCHANGED where

\* SpaceShared and SpaceUnshared
ShareSpace == Publish("space", None) /\ UNCHANGED where

Users ==
    /\ Change \/ Move \/ Trash \/ Purge \/ ShareSpace
    /\ UNCHANGED <<taken, consumer, cache, debouncerVars, bucketVars, failures>>

-----------------------------------------------------------------------------
(* StoreActivity, under the lock: Put and enforceMaxActivities.            *)

Fail == failures < MaxFailures /\ failures' = failures + 1

\* The count of all the activities in the batches.
Total(batches) ==
    LET count[n \in 0 .. Len(batches)] ==
            IF n = 0 THEN 0 ELSE count[n - 1] + Cardinality(batches[n])
    IN  count[Len(batches)]

Kept(batches, n) == SubSeq(batches, n + 1, Len(batches))

\* Mutant: a batch goes although fewer than MaxActivities are left then.
ExcessTooMuch(batches, n) ==
    IF MaxActivities = 0 THEN n
    ELSE Max({n} \cup {i \in n + 1 .. Len(batches) :
                          Total(Kept(batches, i - 1)) >= MaxActivities})

\* How many batches are gone after the loop over the oldest ones; n were gone
\* before.
Excess(batches, n) ==
    IF MaxActivities = 0 THEN n
    ELSE Max({n} \cup {i \in n + 1 .. Len(batches) :
                          Total(Kept(batches, i)) >= MaxActivities})

StoreActivity(k, acts) ==
    \/ /\ put' = [put EXCEPT ![k] = Append(@, acts)]
       /\ \/ dropped' = [dropped EXCEPT ![k] = Excess(put'[k], @)] /\ UNCHANGED failures
          \/ /\ Fail      \* watching, or deleting a batch, fails
             /\ \E n \in dropped[k] .. Excess(put'[k], dropped[k]) - 1 :
                   dropped' = [dropped EXCEPT ![k] = n]
       /\ UNCHANGED lost
    \/ /\ Fail
       /\ lost' = [lost EXCEPT ![k] = @ \cup acts]
       /\ UNCHANGED <<put, dropped>>

-----------------------------------------------------------------------------
(* Debouncer.  item[i].pc is "armed", or where the callback of its timer   *)
(* is: "reset", "delete", "mark", "store", or "done".                      *)

Goto(w, pc) == consumer' = [consumer EXCEPT ![w].pc = pc]

\* AddActivity goes on after Debounce, and ends at the root.
Ascend(w) ==
    consumer' = [consumer EXCEPT ![w] =
        IF @.at = Root THEN Idle ELSE [@ EXCEPT !.pc = "parent", !.item = 0]]

\* Without a write buffer the activity is stored at once.
DebounceNothing(w) ==
    /\ consumer[w].pc = "load" /\ consumer[w].at \notin Buffered
    /\ StoreActivity(consumer[w].at, {consumer[w].ev})
    /\ Ascend(w)
    /\ UNCHANGED <<where, events, taken, cache, debouncerVars>>

DebounceLoad(w) ==
    /\ consumer[w].pc = "load" /\ consumer[w].at \in Buffered /\ mutex = None
    /\ mutex' = w
    /\ LET k == consumer[w].at
           e == consumer[w].ev
           i == pending[k] IN
       /\ noted' = [noted EXCEPT ![k] = @ \cup {e}]
       /\ IF i # 0
          THEN /\ consumer' = [consumer EXCEPT ![w].pc = "append", ![w].item = i]
               /\ UNCHANGED item
          ELSE /\ item' = Append(item, [key |-> k, acts |-> {e}, snap |-> {}, pc |-> "armed"])
               /\ consumer' = [consumer EXCEPT ![w].pc = "store", ![w].item = Len(item) + 1]
    /\ UNCHANGED <<where, events, taken, cache, pending, inProgress, late, bucketVars, failures>>

\* What Debounce adds now no callback reads.
TooLate(i) == item[i].pc \notin {"armed", "reset", "delete", "mark"}

\* Mutant: the timer of an item that was written is started again.
DebounceAppendRestarts(w) ==
    /\ consumer[w].pc = "append"
    /\ LET i == consumer[w].item IN
       /\ item' = [item EXCEPT ![i].acts = @ \cup {consumer[w].ev},
                               ![i].pc = IF @ = "done" THEN "armed" ELSE @]
       /\ late' = [late EXCEPT ![item[i].key] = @ \cup {consumer[w].ev}]
    /\ Goto(w, "store")
    /\ UNCHANGED <<where, events, taken, cache, mutex, pending, inProgress, noted, bucketVars,
                   failures>>

DebounceAppend(w) ==
    /\ consumer[w].pc = "append"
    /\ LET i == consumer[w].item
           e == consumer[w].ev IN
       /\ item' = [item EXCEPT ![i].acts = @ \cup {e}]
       /\ late' = IF TooLate(i) THEN [late EXCEPT ![item[i].key] = @ \cup {e}] ELSE late
    /\ Goto(w, "store")
    /\ UNCHANGED <<where, events, taken, cache, mutex, pending, inProgress, noted, bucketVars,
                   failures>>

DebounceStore(w) ==
    /\ consumer[w].pc = "store"
    /\ pending' = [pending EXCEPT ![consumer[w].at] = consumer[w].item]
    /\ mutex' = None
    /\ Ascend(w)
    /\ UNCHANGED <<where, events, taken, cache, inProgress, item, noted, late, bucketVars,
                   failures>>

ItemTo(i, pc) == item' = [item EXCEPT ![i].pc = pc]

\* The timer fires and its callback looks whether another one is writing.
Fire(i) ==
    /\ item[i].pc = "armed"
    /\ ItemTo(i, IF item[i].key \in inProgress THEN "reset" ELSE "delete")
    /\ UNCHANGED <<mutex, pending, inProgress, noted, late, bucketVars, failures>>

\* Mutant: the timer is not started again.
RescheduleDropped(i) ==
    /\ item[i].pc = "reset" /\ mutex = None
    /\ ItemTo(i, "done")
    /\ UNCHANGED <<mutex, pending, inProgress, noted, late, bucketVars, failures>>

Reschedule(i) ==
    /\ item[i].pc = "reset" /\ mutex = None
    /\ LET p == pending[item[i].key] IN
       item' = [j \in Items |-> IF j = p THEN [item[j] EXCEPT !.pc = "armed"]
                                ELSE IF j = i THEN [item[j] EXCEPT !.pc = "done"] ELSE item[j]]
    /\ UNCHANGED <<mutex, pending, inProgress, noted, late, bucketVars, failures>>

RemoveItem(i) ==
    /\ item[i].pc = "delete"
    /\ pending' = [pending EXCEPT ![item[i].key] = 0]
    /\ ItemTo(i, "mark")
    /\ UNCHANGED <<mutex, inProgress, noted, late, bucketVars, failures>>

\* inProgress is set, and the activities of the item are what f is given.
MarkInProgress(i) ==
    /\ item[i].pc = "mark"
    /\ inProgress' = inProgress \cup {item[i].key}
    /\ item' = [item EXCEPT ![i].pc = "store", ![i].snap = item[i].acts]
    /\ UNCHANGED <<mutex, pending, noted, late, bucketVars, failures>>

\* f writes, and inProgress is reset.  Its error is ignored.
WriteBatch(i) ==
    /\ item[i].pc = "store"
    /\ StoreActivity(item[i].key, item[i].snap)
    /\ inProgress' = inProgress \ {item[i].key}
    /\ item' = [item EXCEPT ![i].pc = "done", ![i].snap = {}]
    /\ UNCHANGED <<mutex, pending, noted, late>>

Callback(i) ==
    /\ Fire(i) \/ Reschedule(i) \/ RemoveItem(i) \/ MarkInProgress(i) \/ WriteBatch(i)
    /\ UNCHANGED <<where, events, taken, consumer, cache>>

-----------------------------------------------------------------------------
(* processEvent.                                                           *)

\* A consumer takes the next event and walks from its resource.
Begin(w, kind, walk) ==
    /\ consumer[w].pc = "idle" /\ taken < Len(events)
    /\ events[taken + 1].kind = kind
    /\ taken' = taken + 1
    /\ consumer' = [consumer EXCEPT ![w] = IF walk = Idle THEN Idle
                                           ELSE [walk EXCEPT !.ev = taken + 1]]

HandleChanged(w) ==
    /\ taken < Len(events)
    /\ Begin(w, "changed", [Idle EXCEPT !.pc = "load", !.at = File, !.up = events[taken + 1].dir])
    /\ UNCHANGED <<cache, bucketVars, failures>>

\* GetResource of a path, or of an id.
Found(dir) == dir = where

\* Mutant: the cached parent of a moved file stays.
HandleMovedCached(w) ==
    /\ taken < Len(events)
    /\ Begin(w, "moved", [Idle EXCEPT !.pc = "resolve", !.at = File, !.up = None])
    /\ UNCHANGED <<cache, bucketVars, failures>>

\* removeCachedParentID: a file that is not found keeps its cached parent.
HandleMoved(w) ==
    /\ taken < Len(events)
    /\ Begin(w, "moved", [Idle EXCEPT !.pc = "resolve", !.at = File])
    /\ \/ /\ Found(events[taken + 1].dir)
          /\ cache' = [cache EXCEPT ![File] = None]
          /\ UNCHANGED failures
       \/ /\ (~Found(events[taken + 1].dir) /\ UNCHANGED failures) \/ Fail
          /\ UNCHANGED cache
    /\ UNCHANGED bucketVars

\* AddActivityTrashed: stored at once on the file, then the walk begins at the
\* directory it was in.
HandleTrashed(w) ==
    /\ taken < Len(events)
    /\ StoreActivity(File, {taken + 1})
    /\ Begin(w, "trashed", IF lost' # lost THEN Idle
                           ELSE [Idle EXCEPT !.pc = "resolve", !.at = events[taken + 1].dir])
    /\ UNCHANGED cache

\* AddSpaceActivity
HandleSpace(w) ==
    /\ StoreActivity(Root, {taken + 1})
    /\ Begin(w, "space", Idle)
    /\ UNCHANGED cache

\* RemoveResource deletes a key that nothing is stored under.
HandlePurged(w) ==
    /\ Begin(w, "purged", Idle)
    /\ UNCHANGED <<cache, bucketVars, failures>>

Handle(w) ==
    /\ HandleChanged(w) \/ HandleMoved(w) \/ HandleTrashed(w) \/ HandleSpace(w)
       \/ HandlePurged(w)
    /\ UNCHANGED <<where, events, debouncerVars>>

-----------------------------------------------------------------------------
(* AddActivity: the walk to the root, one Debounce per resource.           *)

\* The id of a path; the answer has the parent too.
Resolve(w) ==
    /\ consumer[w].pc = "resolve"
    /\ LET k == consumer[w].at
           dir == events[consumer[w].ev].dir
           parent == IF k = File THEN where ELSE IF k = Dir THEN Root ELSE None IN
       \/ /\ k = File => Found(dir)
          /\ consumer' = [consumer EXCEPT ![w].pc = "load", ![w].info = parent]
          /\ UNCHANGED failures
       \/ /\ (k = File /\ ~Found(dir) /\ UNCHANGED failures) \/ Fail
          /\ consumer' = [consumer EXCEPT ![w] = Idle]
    /\ UNCHANGED cache

WalkTo(w, parent) ==
    consumer' = [consumer EXCEPT ![w] = [Idle EXCEPT !.pc = "load", !.ev = consumer[w].ev, !.at = parent]]

FindParent(w) ==
    /\ consumer[w].pc = "parent"
    /\ LET c == consumer[w] IN
       \/ c.up # None /\ WalkTo(w, c.up)
       \/ c.up = None /\ cache[c.at] # None /\ WalkTo(w, cache[c.at])
       \/ /\ c.up = None /\ cache[c.at] = None
          /\ Goto(w, IF c.info = None THEN "ask" ELSE "set")
    /\ UNCHANGED <<cache, failures>>

AskParent(w) ==
    /\ consumer[w].pc = "ask"
    /\ LET parent == IF consumer[w].at = File THEN where ELSE Root IN
       \/ /\ parent # None
          /\ consumer' = [consumer EXCEPT ![w].pc = "set", ![w].info = parent]
          /\ UNCHANGED failures
       \/ /\ (parent = None /\ UNCHANGED failures) \/ Fail
          /\ consumer' = [consumer EXCEPT ![w] = Idle]
    /\ UNCHANGED cache

CacheParent(w) ==
    /\ consumer[w].pc = "set"
    /\ cache' = [cache EXCEPT ![consumer[w].at] = consumer[w].info]
    /\ WalkTo(w, consumer[w].info)
    /\ UNCHANGED failures

Walk(w) ==
    /\ Resolve(w) \/ FindParent(w) \/ AskParent(w) \/ CacheParent(w)
    /\ UNCHANGED <<where, events, taken, debouncerVars, bucketVars>>

\* The TTL of a cached parent ends.
Expire(k) ==
    /\ cache[k] # None
    /\ cache' = [cache EXCEPT ![k] = None]
    /\ UNCHANGED <<where, events, taken, consumer, debouncerVars, bucketVars, failures>>

-----------------------------------------------------------------------------
Consume(w) == Handle(w) \/ Walk(w) \/ DebounceNothing(w) \/ DebounceLoad(w)
              \/ DebounceAppend(w) \/ DebounceStore(w)

Next ==
    \/ Users
    \/ \E w \in Consumers : Consume(w)
    \/ \E i \in Items : Callback(i)
    \/ \E k \in Resources : Expire(k)

Spec == Init /\ [][Next]_vars

-----------------------------------------------------------------------------
(* Properties. *)

\* It was put in the bucket, a callback is going to put it there, or Debounce
\* is still at work.
Remembered(k, e) ==
    \/ \E n \in 1 .. Len(put[k]) : e \in put[k][n]
    \/ \E i \in Items :
          /\ item[i].key = k
          /\ \/ e \in item[i].snap
             \/ e \in item[i].acts /\ ~TooLate(i)
    \/ \E w \in Consumers :
          consumer[w].pc = "append" /\ consumer[w].at = k /\ consumer[w].ev = e

\* Nothing that is recorded is forgotten.  The exceptions are a failed Put,
\* whose error is ignored, and what Debounce added to an item after the
\* callback had read it (debouncer.go, Debounce).
ActivityKept ==
    \A k \in Resources : \A e \in noted[k] \ (lost[k] \cup late[k]) : Remembered(k, e)

\* debouncer_test.go: whatever the timing, the activities of the batches add up
\* to the calls of Debounce.
EveryActivityWritten == \A k \in Resources : \A e \in noted[k] \ lost[k] : Remembered(k, e)

\* No activity is written twice.
WrittenOnce ==
    \A k \in Resources : \A m, n \in 1 .. Len(put[k]) :
        m # n => put[k][m] \cap put[k][n] = {}

\* The limit costs only the oldest activities: as long as there are
\* MaxActivities of a resource, so many are kept (enforceMaxActivities).
NewestKept ==
    \A k \in Resources :
        LET all == Total(put[k]) IN
        MaxActivities > 0 =>
            Total(Kept(put[k], dropped[k])) >= Min({all, MaxActivities})

\* config.go: "The maximum number of activities to keep in the store per
\* resource."  With the batches of a write buffer it is not one: the loop of
\* enforceMaxActivities spares the oldest batch when fewer than MaxActivities
\* would be left without it.
AtMostMaxActivities ==
    failures = 0 /\ MaxActivities > 0 =>
        \A k \in Resources : Total(Kept(put[k], dropped[k])) <= MaxActivities

\* The cached parent of a file is its parent, unless a move has not been
\* handled yet (events/service.go, processEvent: ItemMoved) or the gateway
\* failed: nothing the walk of another event caches outlives the move.  This
\* is so with one consumer, the default of ACTIVITYLOG_NUM_CONSUMERS; with two,
\* one may cache the parent it asked for before the move that the other handles.
CacheCurrent ==
    where # None /\ failures = 0 =>
        \/ cache[File] \in {None, where}
        \/ \E e \in taken + 1 .. Len(events) : events[e].kind = "moved"
================================================================================
