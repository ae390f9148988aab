----------------------------- MODULE SearchEvents -----------------------------
(***************************************************************************)
(* How the search index follows the spaces: the event consumer             *)
(* (services/search/pkg/service/event/service.go) with its debouncer, the  *)
(* marks of skipped spaces (pkg/search/skippedspaces.go) and the reindex   *)
(* request that sets them (pkg/service/grpc/v0/service.go), a durable      *)
(* JetStream consumer, and crashes.                                        *)
(*                                                                         *)
(* A space has a version that every change increases; the index has the    *)
(* version it covers.  Operations on single items (purge, label, upsert)   *)
(* are not modelled, nor is the deletion of a space.                       *)
(***************************************************************************)
EXTENDS SpaceDebouncer, Sequences

CONSTANTS
    Consumers,      \* SEARCH_EVENTS_NUM_CONSUMERS goroutines
    Reindexers,     \* concurrent reindex requests
    MaxMessages,    \* bound: events
    MaxToggles,     \* bound: disabling a space
    MaxCrashes,     \* bound: crashes
    MaxRedeliveries,    \* bound: redeliveries after AckWait
    MaxFailures     \* bound: failing index runs and KV requests

ASSUME SearchAssumption ==
    /\ MaxMessages \in Nat /\ MaxToggles \in Nat /\ MaxCrashes \in Nat
    /\ MaxRedeliveries \in Nat /\ MaxFailures \in Nat

VARIABLES
    version, disabled,  \* the spaces
    indexed,            \* the version of each space the index covers
    msgs,               \* the messages so far: their event and their state
    consumer,           \* the goroutines that process events
    mark,               \* the bucket: "none", "shallow" or "forced"
    reindex,            \* the reindex requests
    givenUp,            \* history: the last version that a run saw and did not index
    owed,               \* history: the reindexing a skipped space is owed
    toggles, crashes, redeliveries, failures    \* history: counters for the bounds

spaceVars == <<version, disabled, toggles>>
indexVars == <<indexed, givenUp>>
faultVars == <<crashes, redeliveries>>
vars == <<debouncerVars, spaceVars, indexVars, msgs, consumer, mark, reindex,
          owed, faultVars, failures>>

Idle == [pc |-> "idle", msg |-> 0, force |-> FALSE]
NoReindex == [pc |-> "idle", space |-> 0, force |-> FALSE]

Messages == 1 .. Len(msgs)

Init ==
    /\ DebouncerInit
    /\ version = [s \in Spaces |-> 0] /\ indexed = [s \in Spaces |-> 0]
    /\ disabled = {}
    /\ msgs = <<>>
    /\ consumer = [w \in Consumers |-> Idle]
    /\ mark = [s \in Spaces |-> "none"]
    /\ reindex = [x \in Reindexers |-> NoReindex]
    /\ givenUp = [s \in Spaces |-> 0] /\ owed = [s \in Spaces |-> "none"]
    /\ toggles = 0 /\ crashes = 0 /\ redeliveries = 0 /\ failures = 0

-----------------------------------------------------------------------------
(* The spaces.  A disabled space cannot be changed; its being disabled is  *)
(* an event that the search service does not listen to.                    *)

Publish(s, kind) ==
    /\ Len(msgs) < MaxMessages
    /\ msgs' = Append(msgs, [kind |-> kind, space |-> s, state |-> "stream"])

Change(s) ==
    /\ s \notin disabled
    /\ version' = [version EXCEPT ![s] = @ + 1]
    /\ Publish(s, "changed")
    /\ UNCHANGED <<debouncerVars, disabled, toggles, indexVars, consumer, mark,
                   reindex, owed, faultVars, failures>>

Disable(s) ==
    /\ s \notin disabled /\ toggles < MaxToggles
    /\ disabled' = disabled \cup {s} /\ toggles' = toggles + 1
    /\ UNCHANGED <<debouncerVars, version, indexVars, msgs, consumer, mark,
                   reindex, owed, faultVars, failures>>

Enable(s) ==
    /\ s \in disabled
    /\ disabled' = disabled \ {s}
    /\ Publish(s, "enabled")
    /\ UNCHANGED <<debouncerVars, version, toggles, indexVars, consumer, mark,
                   reindex, owed, faultVars, failures>>

-----------------------------------------------------------------------------
(* The durable consumer of the stream.                                     *)

SetState(m, state) == msgs' = [msgs EXCEPT ![m].state = state]

Unacked(m) == msgs[m].state \in {"stream", "out"}

Ack(m) ==
    /\ m \in acking
    /\ acking' = acking \ {m}
    /\ SetState(m, "acked")
    /\ UNCHANGED <<pending, inProgress, item, call, spaceVars, indexVars, consumer,
                   mark, reindex, owed, faultVars, failures>>

Redeliver(m) ==
    /\ m \in Messages /\ msgs[m].state = "out"
    /\ redeliveries < MaxRedeliveries /\ redeliveries' = redeliveries + 1
    /\ SetState(m, "stream")
    /\ UNCHANGED <<debouncerVars, spaceVars, indexVars, consumer, mark, reindex,
                   owed, crashes, failures>>

-----------------------------------------------------------------------------
(* processEvent.                                                           *)

Delivered(w, m, kind) ==
    /\ consumer[w].pc = "idle"
    /\ m \in Messages /\ msgs[m].state = "stream" /\ msgs[m].kind = kind

\* Mutant: processEvent acknowledges what it has handed to the debouncer.
HandleChangedAcked(w, m) ==
    /\ Delivered(w, m, "changed")
    /\ SetState(m, "acked")
    /\ Debounce(msgs[m].space, m, FALSE)
    /\ UNCHANGED <<spaceVars, indexVars, consumer, mark, reindex, owed, faultVars,
                   failures>>

\* The events that change a space.
HandleChanged(w, m) ==
    /\ Delivered(w, m, "changed")
    /\ SetState(m, "out")
    /\ Debounce(msgs[m].space, m, FALSE)
    /\ UNCHANGED <<spaceVars, indexVars, consumer, mark, reindex, owed, faultVars,
                   failures>>

Fail == failures < MaxFailures /\ failures' = failures + 1

\* SpaceEnabled: IsMarked.  An event for a space without a mark is
\* acknowledged at once, and so is one whose mark cannot be read.
HandleEnabled(w, m) ==
    /\ Delivered(w, m, "enabled")
    /\ LET s == msgs[m].space IN
       \/ /\ mark[s] # "none"
          /\ SetState(m, "out")
          /\ consumer' = [consumer EXCEPT ![w] =
                [pc |-> "unmark", msg |-> m, force |-> mark[s] = "forced"]]
          /\ UNCHANGED failures
       \/ /\ (mark[s] = "none" /\ UNCHANGED failures) \/ Fail
          /\ SetState(m, "acked")
          /\ UNCHANGED consumer
    /\ UNCHANGED <<debouncerVars, spaceVars, indexVars, mark, reindex, owed, faultVars>>

\* Unmark.  A failure is logged.
Unmark(w) ==
    /\ consumer[w].pc = "unmark"
    /\ \/ /\ mark' = [mark EXCEPT ![msgs[consumer[w].msg].space] = "none"]
          /\ UNCHANGED failures
       \/ Fail /\ UNCHANGED mark
    /\ consumer' = [consumer EXCEPT ![w].pc = "debounce"]
    /\ UNCHANGED <<debouncerVars, spaceVars, indexVars, msgs, reindex, owed, faultVars>>

DebounceMarked(w) ==
    /\ consumer[w].pc = "debounce"
    /\ Debounce(msgs[consumer[w].msg].space, consumer[w].msg, consumer[w].force)
    /\ consumer' = [consumer EXCEPT ![w] = Idle]
    /\ UNCHANGED <<spaceVars, indexVars, msgs, mark, reindex, owed, faultVars, failures>>

-----------------------------------------------------------------------------
(* The runs of the debouncer.  IndexSpace fails, or cannot index a space   *)
(* that is disabled: the message is acknowledged like any other, and no    *)
(* mark is set.  What the run saw is indexed with a later run, if any.     *)

Paid(s, force) == IF force \/ owed[s] = "shallow" THEN "none" ELSE owed[s]

Timer(i) ==
    /\ TimerFires(i) \/ TimeoutFires(i)
    /\ UNCHANGED <<spaceVars, indexVars, msgs, consumer, mark, reindex, owed,
                   faultVars, failures>>

Work(c) ==
    /\ \/ Load(c) \/ Reschedule(c)
       \/ call[c].pc = "lock" /\ Take(c, version[SpaceOf(c)])
    /\ UNCHANGED <<spaceVars, indexVars, msgs, consumer, mark, reindex, owed,
                   faultVars, failures>>

IndexSpace(c) ==
    /\ Finish(c)
    /\ LET s == SpaceOf(c) IN
       \/ /\ s \notin disabled
          /\ indexed' = [indexed EXCEPT ![s] = Max({@, call[c].snap})]
          /\ owed' = [owed EXCEPT ![s] = Paid(s, call[c].force)]
          /\ UNCHANGED <<givenUp, failures>>
       \/ /\ (s \in disabled /\ UNCHANGED failures) \/ Fail
          /\ givenUp' = [givenUp EXCEPT ![s] = Max({@, call[c].snap})]
          /\ UNCHANGED <<indexed, owed>>
    /\ UNCHANGED <<spaceVars, msgs, consumer, mark, reindex, faultVars>>

-----------------------------------------------------------------------------
(* A reindex request lists the spaces and then goes through them: it       *)
(* indexes a space, or marks it if it was disabled when it was listed.     *)

ListSpaces(x, s, force) ==
    /\ reindex[x].pc = "idle"
    /\ reindex' = [reindex EXCEPT ![x] =
          [pc |-> IF s \in disabled THEN "mark" ELSE "index", space |-> s, force |-> force]]
    /\ UNCHANGED <<debouncerVars, spaceVars, indexVars, msgs, consumer, mark, owed,
                   faultVars, failures>>

ReindexSpace(x) ==
    /\ reindex[x].pc = "index"
    /\ LET s == reindex[x].space IN
       IF s \in disabled THEN UNCHANGED <<indexed, owed>>
       ELSE /\ indexed' = [indexed EXCEPT ![s] = version[s]]
            /\ owed' = [owed EXCEPT ![s] = Paid(s, reindex[x].force)]
    /\ reindex' = [reindex EXCEPT ![x] = NoReindex]
    /\ UNCHANGED <<debouncerVars, spaceVars, givenUp, msgs, consumer, mark, faultVars,
                   failures>>

\* Mark reads first unless the reindexing is a forced one.
MarkRead(x) ==
    /\ reindex[x].pc = "mark" /\ ~reindex[x].force
    /\ reindex' = [reindex EXCEPT ![x] =
          IF mark[@.space] = "forced" THEN NoReindex ELSE [@ EXCEPT !.pc = "put"]]
    /\ UNCHANGED <<debouncerVars, spaceVars, indexVars, msgs, consumer, mark, owed,
                   faultVars, failures>>

MarkPut(x) ==
    /\ reindex[x].pc = "put" \/ (reindex[x].pc = "mark" /\ reindex[x].force)
    /\ LET s == reindex[x].space
           kind == IF reindex[x].force THEN "forced" ELSE "shallow" IN
       /\ mark' = [mark EXCEPT ![s] = kind]
       /\ owed' = [owed EXCEPT ![s] = IF @ = "forced" THEN @ ELSE kind]
    /\ reindex' = [reindex EXCEPT ![x] = NoReindex]
    /\ UNCHANGED <<debouncerVars, spaceVars, indexVars, msgs, consumer, faultVars, failures>>

\* Reading or writing the mark fails: logged.
MarkFails(x) ==
    /\ reindex[x].pc \in {"mark", "put"} /\ Fail
    /\ reindex' = [reindex EXCEPT ![x] = NoReindex]
    /\ UNCHANGED <<debouncerVars, spaceVars, indexVars, msgs, consumer, mark, owed,
                   faultVars>>

-----------------------------------------------------------------------------
\* The process dies and is started again; what it had not acknowledged is
\* delivered again.
Crash ==
    /\ crashes < MaxCrashes /\ crashes' = crashes + 1
    /\ pending' = [s \in Spaces |-> NoItem] /\ inProgress' = {}
    /\ item' = [i \in Items |-> IdleItem] /\ call' = [c \in Calls |-> IdleCall]
    /\ acking' = {}
    /\ consumer' = [w \in Consumers |-> Idle]
    /\ reindex' = [x \in Reindexers |-> NoReindex]
    /\ msgs' = [m \in Messages |->
                  IF msgs[m].state = "out" THEN [msgs[m] EXCEPT !.state = "stream"] ELSE msgs[m]]
    /\ UNCHANGED <<spaceVars, indexVars, mark, owed, redeliveries, failures>>

Handle(w) ==
    \/ \E m \in Messages : HandleChanged(w, m) \/ HandleEnabled(w, m)
    \/ Unmark(w) \/ DebounceMarked(w)

Next ==
    \/ \E s \in Spaces : Change(s) \/ Disable(s) \/ Enable(s)
    \/ \E m \in Messages : Ack(m) \/ Redeliver(m)
    \/ \E w \in Consumers : Handle(w)
    \/ \E i \in Items : Timer(i)
    \/ \E c \in Calls : Work(c) \/ IndexSpace(c)
    \/ \E x \in Reindexers :
          \/ \E s \in Spaces, force \in BOOLEAN : ListSpaces(x, s, force)
          \/ ReindexSpace(x) \/ MarkRead(x) \/ MarkPut(x) \/ MarkFails(x)
    \/ Crash

Spec == Init /\ [][Next]_vars

\* Timers fire, goroutines run, indexing ends, and acknowledgements arrive.
Fairness ==
    /\ \A w \in Consumers : WF_vars(Handle(w))
    /\ \A i \in Items : WF_vars(Timer(i))
    /\ \A c \in Calls : WF_vars(Work(c) \/ IndexSpace(c))
    /\ \A m \in 1 .. MaxMessages : WF_vars(Ack(m))

FairSpec == Spec /\ Fairness

-----------------------------------------------------------------------------
(* Properties. *)

\* The index does not have the last change of the space.
Behind(s) == indexed[s] < version[s]

\* A run saw the last change of the space and did not index it: it failed, or
\* found the space disabled.
GivenUp(s) == givenUp[s] >= version[s]

\* A run that has not begun, or that sees the space as it is.
WillRun(s) ==
    \/ \E i \in Items : /\ item[i].space = s
                        /\ item[i].t \/ item[i].timeout
    \/ \E c \in Calls : /\ call[c].pc # "idle" /\ SpaceOf(c) = s
                        /\ \/ call[c].pc \in {"load", "lock"}
                           \/ call[c].pc = "again" /\ pending[s] # NoItem
                           \/ call[c].pc = "run" /\ call[c].snap = version[s]

\* A space that is scheduled is going to be indexed: a timer of its item runs,
\* or a call is on its way to take the item or to restart its timer
\* (debouncer.go, Debounce and work).  Otherwise every later event of the space
\* would be acknowledged and the space never indexed.
ScheduledWillRun ==
    \A s \in Spaces : pending[s] # NoItem =>
        \/ item[pending[s]].t \/ item[pending[s]].timeout
        \/ \E c \in Calls : call[c].pc \in {"load", "again", "lock"} /\ SpaceOf(c) = s

\* The space is going to be indexed, or an event of it is not acknowledged and
\* comes back.
Covered(s) ==
    \/ WillRun(s)
    \/ \E m \in Messages : msgs[m].kind = "changed" /\ msgs[m].space = s /\ Unacked(m)

\* A change that is not in the index is never forgotten (debouncer.go, Debounce
\* acknowledges an event because "the according space is already scheduled for
\* indexing").  So it is as long as every run indexes what it sees: a run that
\* fails, or that finds its space disabled, is acknowledged all the same, and
\* with such runs only LaterChangeCovered holds.
ChangeCovered == \A s \in Spaces : Behind(s) => Covered(s)

\* A run that fails, or that finds its space disabled, costs the index only
\* what it saw: a change that came after it had begun is not forgotten with it,
\* although the event may have been debounced into, or acknowledged for, that
\* very item (debouncer.go, work takes the item out of pending before it runs).
LaterChangeCovered == \A s \in Spaces : Behind(s) /\ ~GivenUp(s) => Covered(s)

\* Every change gets into the index, unless a run that saw it failed or found
\* the space disabled.
ChangeIndexed == \A s \in Spaces : Behind(s) ~> (~Behind(s) \/ GivenUp(s))

\* service.go, processEvent: "A space that was skipped during (re)indexing
\* while it was disabled needs to be reindexed now that it is enabled again."
\* As long as a space is owed its reindexing there is a mark, or somebody who
\* has read it, or a run.
SkippedRemembered ==
    \A s \in Spaces : owed[s] # "none" =>
        \/ mark[s] # "none"
        \/ \E w \in Consumers : consumer[w].pc # "idle" /\ msgs[consumer[w].msg].space = s
        \/ WillRun(s)
        \/ \E c \in Calls : call[c].pc = "run" /\ SpaceOf(c) = s
=============================================================================
