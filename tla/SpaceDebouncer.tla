---------------------------- MODULE SpaceDebouncer ----------------------------
(***************************************************************************)
(* The debouncer of the search service                                     *)
(* (services/search/pkg/service/event/debouncer.go).  The events of a      *)
(* space share one work item, whose timer is restarted by every event and  *)
(* whose timeout is not.  A timer that fires calls work in a goroutine of  *)
(* its own; an item can have several such calls at once.  Everything under *)
(* the mutex is one step, inProgress is read outside of it.                *)
(***************************************************************************)
EXTENDS Naturals, FiniteSets, FiniteSetsExt

CONSTANTS
    Spaces,     \* the spaces
    MaxItems,   \* bound: work items in memory at once
    MaxCalls    \* bound: calls of work at once

ASSUME DebouncerAssumption == MaxItems \in Nat \ {0} /\ MaxCalls \in Nat \ {0}

VARIABLES
    pending,    \* the item each space is scheduled with, NoItem if none
    inProgress, \* the spaces marked as being worked on
    item,       \* the work items: are the timers t and timeout running?
    call,       \* the calls of work
    acking      \* the messages that goroutines are about to acknowledge

debouncerVars == <<pending, inProgress, item, call, acking>>

Items  == 1 .. MaxItems
NoItem == 0
Calls  == 1 .. MaxCalls

IdleItem == [space |-> 0, force |-> FALSE, t |-> FALSE, timeout |-> FALSE, msg |-> 0]
IdleCall == [pc |-> "idle", item |-> NoItem, force |-> FALSE, snap |-> 0]

DebouncerInit ==
    /\ pending = [s \in Spaces |-> NoItem]
    /\ inProgress = {}
    /\ item = [i \in Items |-> IdleItem]
    /\ call = [c \in Calls |-> IdleCall]
    /\ acking = {}

\* The garbage collector: the items its that the schedule sched, a call or
\* a running timer refers to; the others are free again.
Reachable(its, sched, calls) ==
    [i \in Items |->
        IF \/ its[i].t \/ its[i].timeout
           \/ \E s \in Spaces : sched[s] = i
           \/ \E c \in Calls : calls[c].item = i
        THEN its[i] ELSE IdleItem]

FreeItems == {i \in Items : item[i] = IdleItem}

IdleCalls == {c \in Calls : call[c].pc = "idle"}

SpaceOf(c) == item[call[c].item].space

-----------------------------------------------------------------------------
\* Mutant: an event of a space that is being worked on is acknowledged too.
DebounceBusy(s, m, force) ==
    /\ \/ /\ pending[s] # NoItem \/ s \in inProgress
          /\ item' = [i \in Items |-> IF i # pending[s] THEN item[i] ELSE
                        [item[i] EXCEPT !.force = @ \/ force, !.t = TRUE]]
          /\ acking' = acking \cup {m}
          /\ UNCHANGED pending
       \/ /\ pending[s] = NoItem /\ s \notin inProgress
          /\ FreeItems # {}
          /\ LET i == CHOOSE x \in FreeItems : TRUE IN
             /\ item' = [item EXCEPT ![i] = [space |-> s, force |-> force, t |-> TRUE,
                                             timeout |-> TRUE, msg |-> m]]
             /\ pending' = [pending EXCEPT ![s] = i]
          /\ UNCHANGED acking
    /\ UNCHANGED <<inProgress, call>>

\* Debounce: a scheduled space is scheduled again and the message m of the
\* event acknowledged, any other gets a new item that keeps m.
Debounce(s, m, force) ==
    /\ \/ /\ pending[s] # NoItem
          /\ item' = [item EXCEPT ![pending[s]].force = @ \/ force,
                                  ![pending[s]].t = TRUE]
          /\ acking' = acking \cup {m}
          /\ UNCHANGED pending
       \/ /\ pending[s] = NoItem
          /\ FreeItems # {}
          /\ LET i == CHOOSE x \in FreeItems : TRUE IN
             /\ item' = [item EXCEPT ![i] = [space |-> s, force |-> force, t |-> TRUE,
                                             timeout |-> TRUE, msg |-> m]]
             /\ pending' = [pending EXCEPT ![s] = i]
          /\ UNCHANGED acking
    /\ UNCHANGED <<inProgress, call>>

-----------------------------------------------------------------------------
(* The timers.  Stopping a timer does not stop a call that it has started. *)

StartCall(i) ==
    /\ IdleCalls # {}
    /\ LET c == CHOOSE x \in IdleCalls : TRUE IN
       call' = [call EXCEPT ![c] = [IdleCall EXCEPT !.pc = "load", !.item = i]]
    /\ UNCHANGED <<pending, inProgress, acking>>

TimerFires(i) ==
    /\ item[i].t
    /\ item' = [item EXCEPT ![i].t = FALSE]
    /\ StartCall(i)

TimeoutFires(i) ==
    /\ item[i].timeout
    /\ item' = [item EXCEPT ![i].timeout = FALSE, ![i].t = FALSE]
    /\ StartCall(i)

-----------------------------------------------------------------------------
(* work: it looks whether the space is being worked on and then either     *)
(* restarts the timer of the scheduled item or takes the item and runs.    *)

Load(c) ==
    /\ call[c].pc = "load"
    /\ call' = [call EXCEPT ![c].pc =
                   IF SpaceOf(c) \in inProgress THEN "again" ELSE "lock"]
    /\ UNCHANGED <<pending, inProgress, item, acking>>

\* Mutant: a run that finds the space in progress is dropped.
RescheduleDropped(c) ==
    /\ call[c].pc = "again"
    /\ call' = [call EXCEPT ![c] = IdleCall]
    /\ UNCHANGED <<pending, inProgress, item, acking>>

\* A space that is in progress: restart the timer of its scheduled item.
Reschedule(c) ==
    /\ call[c].pc = "again"
    /\ call' = [call EXCEPT ![c] = IdleCall]
    /\ LET i == pending[SpaceOf(c)] IN
       item' = Reachable(IF i = NoItem THEN item ELSE [item EXCEPT ![i].t = TRUE],
                         pending, call')
    /\ UNCHANGED <<pending, inProgress, acking>>

\* The run begins; snap is what it will see of the space at least.
Take(c, snap) ==
    /\ call[c].pc = "lock"
    /\ LET i == call[c].item IN
       /\ item' = [item EXCEPT ![i].timeout = FALSE]
       /\ call' = [call EXCEPT ![c].pc = "run", ![c].force = item[i].force, ![c].snap = snap]
    /\ pending' = [pending EXCEPT ![SpaceOf(c)] = NoItem]
    /\ inProgress' = inProgress \cup {SpaceOf(c)}
    /\ UNCHANGED acking

\* Mutant: the space stays in progress.
FinishInProgress(c) ==
    /\ call[c].pc = "run"
    /\ acking' = acking \cup {item[call[c].item].msg}
    /\ call' = [call EXCEPT ![c] = IdleCall]
    /\ item' = Reachable(item, pending, call')
    /\ UNCHANGED <<pending, inProgress>>

\* f has returned: the message the item was made for is acknowledged.
Finish(c) ==
    /\ call[c].pc = "run"
    /\ acking' = acking \cup {item[call[c].item].msg}
    /\ inProgress' = inProgress \ {SpaceOf(c)}
    /\ call' = [call EXCEPT ![c] = IdleCall]
    /\ item' = Reachable(item, pending, call')
    /\ UNCHANGED pending

================================================================================
