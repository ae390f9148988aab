-------------------------- MODULE SearchEventsProofs --------------------------
(***************************************************************************)
(* Why the search index does not lose a change.                            *)
(*                                                                         *)
(* The debouncer's part (Wired): a scheduled item, and the item of a call, *)
(* is in use and belongs to the space.  From it, ScheduledWillRun.         *)
(*                                                                         *)
(* That a change which no run has given up is covered has two arguments,   *)
(* one for each kind of fault.  As long as the process does not die        *)
(* (Followed), the last change of a space is behind the schedule or the    *)
(* run that covers it.  When it dies the schedule is lost and only the     *)
(* stream remembers (Recoverable): a change that is not covered has an     *)
(* event that nobody is about to acknowledge, unless the run that will     *)
(* acknowledge it sees the space as it is.  Without failures and disabled  *)
(* spaces nothing is given up (NothingGivenUp), and every change that is   *)
(* not in the index is covered.                                            *)
(***************************************************************************)
EXTENDS SearchEvents, SequenceTheorems, TLAPS

ItemStates == [space : Spaces \cup {0}, force : BOOLEAN, t : BOOLEAN,
               timeout : BOOLEAN, msg : Nat]
CallStates == [pc : {"idle", "load", "again", "lock", "run"},
               item : Items \cup {NoItem}, force : BOOLEAN, snap : Nat]
MessageStates == [kind : {"changed", "enabled"}, space : Spaces,
                  state : {"stream", "out", "acked"}]
ConsumerStates == [pc : {"idle", "unmark", "debounce"}, msg : Nat, force : BOOLEAN]
ReindexStates == [pc : {"idle", "index", "mark", "put"}, space : Spaces \cup {0},
                  force : BOOLEAN]

DebouncerTyped ==
    /\ pending \in [Spaces -> Items \cup {NoItem}]
    /\ item \in [Items -> ItemStates]
    /\ call \in [Calls -> CallStates]

WorldTyped ==
    /\ msgs \in Seq(MessageStates)
    /\ consumer \in [Consumers -> ConsumerStates]
    /\ reindex \in [Reindexers -> ReindexStates]
    /\ version \in [Spaces -> Nat] /\ indexed \in [Spaces -> Nat]
    /\ givenUp \in [Spaces -> Nat]
    /\ toggles \in Nat /\ crashes \in Nat /\ redeliveries \in Nat

\* The values of the variables that the arguments are about.
Typed == DebouncerTyped /\ WorldTyped

\* An item in use was made for a message of its space.
ItemsWired ==
    /\ \A i \in Items, m \in Nat : (item[i].msg = m /\ m # 0) =>
          (m \in Messages /\ msgs[m].space = item[i].space)
    /\ \A i \in Items : (item[i].t \/ item[i].timeout) => item[i].msg # 0

\* The schedule and the calls refer to items in use.
RefsWired ==
    /\ \A s \in Spaces, i \in Items : pending[s] = i =>
          (item[i].msg # 0 /\ item[i].space = s)
    /\ \A c \in Calls : call[c].pc # "idle" =>
          /\ call[c].item \in Items
          /\ \A i \in Items : call[c].item = i => item[i].msg # 0

\* A consumer has a SpaceEnabled event in hand, a reindex request a space.
HandsWired ==
    /\ \A w \in Consumers : consumer[w].pc # "idle" =>
          /\ consumer[w].msg \in Messages
          /\ \A m \in Messages : consumer[w].msg = m => msgs[m].kind = "enabled"
    /\ \A x \in Reindexers : reindex[x].pc # "idle" => reindex[x].space \in Spaces

Wired == ItemsWired /\ RefsWired /\ HandsWired /\ acking \subseteq Messages

DebouncerInv == Typed /\ Wired /\ ScheduledWillRun

-----------------------------------------------------------------------------
(* A change and its messages. *)

Lags(s) == indexed[s] < version[s] /\ givenUp[s] < version[s]

\* Nobody is about to acknowledge m.
Open(m) == Unacked(m) /\ m \notin acking

Announces(m, s) == msgs[m].kind = "changed" /\ msgs[m].space = s

\* m is the event of the last change of s.
Latest(m, s) ==
    /\ m \in Messages /\ Announces(m, s)
    /\ \A n \in Messages : Announces(n, s) => n <= m

\* Call c indexes space s; it will acknowledge m.
RunsOn(c, s) ==
    call[c].pc = "run" /\ \E i \in Items : call[c].item = i /\ item[i].space = s

RunsFor(c, m) ==
    call[c].pc = "run" /\ \E i \in Items : call[c].item = i /\ item[i].msg = m

\* Without crashes: a change is covered by its event, the schedule or a run.
Followed ==
    /\ \A s \in Spaces : Lags(s) =>
          \/ \E m \in Messages : Latest(m, s) /\ Open(m)
          \/ pending[s] # NoItem
          \/ \E c \in Calls : RunsOn(c, s) /\ call[c].snap = version[s]
    /\ \A s \in Spaces, c \in Calls, m \in Messages :
          (RunsFor(c, m) /\ Latest(m, s)) => call[c].snap = version[s]

\* Without redeliveries a message is in one place.
OnePlace ==
    /\ \A m \in Messages : msgs[m].kind = "changed"
    /\ \A m \in Messages : msgs[m].state = "stream" =>
          /\ m \notin acking
          /\ \A i \in Items : item[i].msg # m
    /\ \A i, j \in Items : (item[i].msg = item[j].msg /\ item[i].msg # 0) => i = j

\* The message of a scheduled item is open, and no run has taken it.
ScheduleOpen ==
    \A s \in Spaces, i \in Items, m \in Messages :
        (pending[s] = i /\ item[i].msg = m) =>
            (Open(m) /\ \A c \in Calls : ~RunsFor(c, m))

\* What the stream remembers of a change.
Recoverable ==
    \A s \in Spaces : Lags(s) =>
        \E m \in Messages :
            /\ Announces(m, s) /\ Open(m)
            /\ \A c \in Calls : RunsFor(c, m) => call[c].snap = version[s]

CrashInv == OnePlace /\ ScheduleOpen /\ Recoverable

-----------------------------------------------------------------------------
(* The kinds of steps. *)

ItemKept(i) == item'[i].msg = item[i].msg /\ item'[i].space = item[i].space

Ticks(i) == item[i].t \/ item[i].timeout

\* The garbage collector has taken item i.
ItemFreed(i) ==
    /\ item'[i] = IdleItem /\ ~Ticks(i)
    /\ \A s \in Spaces : pending[s] # i
    /\ \A c \in Calls : call'[c].item # i

OthersKept(c) == \A d \in Calls \ {c} : call'[d] = call[d]

\* The version a space is indexed up to does not fall behind.
NotLater == version' = version /\ \A s \in Spaces : Lags(s)' => Lags(s)

\* A new item for message m.
Schedules(s, m) ==
    /\ pending[s] = NoItem
    /\ call' = call /\ acking' = acking
    /\ \E i \in Items :
          /\ item[i].msg = 0
          /\ pending' = [pending EXCEPT ![s] = i]
          /\ item'[i].msg = m /\ item'[i].space = s /\ item'[i].t
          /\ \A j \in Items \ {i} : item'[j] = item[j]

\* The space is scheduled: its timer is restarted and m acknowledged.
Joins(s, m) ==
    /\ pending[s] # NoItem
    /\ pending' = pending /\ call' = call /\ acking' = acking \cup {m}
    /\ \A j \in Items : ItemKept(j)
    /\ \A j \in Items : pending[s] = j => item'[j].t
    /\ \A j \in Items : pending[s] # j => item'[j] = item[j]

Debounces(s, m) == s \in Spaces /\ (Schedules(s, m) \/ Joins(s, m)) /\ NotLater

Fires(i, c) ==
    /\ Ticks(i) /\ call[c].pc = "idle"
    /\ pending' = pending /\ acking' = acking /\ msgs' = msgs /\ NotLater
    /\ \A j \in Items : ItemKept(j)
    /\ \A j \in Items \ {i} : item'[j] = item[j]
    /\ call'[c].pc = "load" /\ call'[c].item = i
    /\ OthersKept(c)

Looks(c) ==
    /\ call[c].pc = "load" /\ call'[c].pc \in {"again", "lock"}
    /\ call'[c].item = call[c].item /\ OthersKept(c)
    /\ pending' = pending /\ item' = item /\ acking' = acking /\ msgs' = msgs /\ NotLater

Restarts(c) ==
    /\ call[c].pc = "again" /\ call'[c].pc = "idle" /\ OthersKept(c)
    /\ pending' = pending /\ acking' = acking /\ msgs' = msgs /\ NotLater
    /\ \A j \in Items :
          \/ ItemFreed(j)
          \/ /\ ItemKept(j) /\ (Ticks(j) => Ticks(j)')
             /\ Ticks(j)' => (Ticks(j) \/ \E s \in Spaces : pending[s] = j)
    /\ \A s \in Spaces, j \in Items : (s = SpaceOf(c) /\ pending[s] = j) => item'[j].t

Takes(c) ==
    /\ call[c].pc = "lock" /\ call'[c].pc = "run"
    /\ call'[c].item = call[c].item /\ OthersKept(c)
    /\ \A s \in Spaces : s = SpaceOf(c) =>
          (pending'[s] = NoItem /\ call'[c].snap = version[s])
    /\ \A s \in Spaces : s # SpaceOf(c) => pending'[s] = pending[s]
    /\ acking' = acking /\ msgs' = msgs /\ NotLater
    /\ \A j \in Items : ItemKept(j) /\ (Ticks(j)' => Ticks(j))
    /\ \A j \in Items : call[c].item # j => item'[j] = item[j]

Finishes(c) ==
    /\ call[c].pc = "run" /\ call'[c].pc = "idle" /\ OthersKept(c)
    /\ pending' = pending /\ msgs' = msgs /\ NotLater
    /\ acking' = acking \cup {item[call[c].item].msg}
    /\ \A j \in Items : ItemFreed(j) \/ item'[j] = item[j]
    /\ \A s \in Spaces : (s = SpaceOf(c) /\ Lags(s)') => call[c].snap # version[s]

Crashes ==
    /\ crashes' = crashes + 1
    /\ \A s \in Spaces : pending'[s] = NoItem
    /\ \A i \in Items : item'[i] = IdleItem
    /\ \A c \in Calls : call'[c] = IdleCall
    /\ acking' = {} /\ NotLater
    /\ Len(msgs') = Len(msgs)
    /\ \A n \in Messages :
          /\ msgs'[n].kind = msgs[n].kind /\ msgs'[n].space = msgs[n].space
          /\ msgs'[n].state # "out"
          /\ msgs[n].state \in {"stream", "out"} => msgs'[n].state = "stream"

DebouncerSame == pending' = pending /\ item' = item /\ call' = call /\ acking' = acking

Publishes(s, kind) ==
    /\ DebouncerSame
    /\ Len(msgs') = Len(msgs) + 1
    /\ \A n \in Messages : msgs'[n] = msgs[n]
    /\ msgs'[Len(msgs) + 1] = [kind |-> kind, space |-> s, state |-> "stream"]

Changes(s) ==
    /\ Publishes(s, "changed")
    /\ version' = [version EXCEPT ![s] = @ + 1]
    /\ indexed' = indexed /\ givenUp' = givenUp

Enables(s) == s \in disabled /\ Publishes(s, "enabled") /\ NotLater

\* Message m, and no other, gets another state.
Moves(m, state) ==
    /\ Len(msgs') = Len(msgs)
    /\ \A n \in Messages : /\ msgs'[n].kind = msgs[n].kind
                           /\ msgs'[n].space = msgs[n].space
                           /\ n # m => msgs'[n].state = msgs[n].state
    /\ msgs'[m].state = state

Acknowledges(m) ==
    /\ m \in acking /\ acking' = acking \ {m} /\ Moves(m, "acked") /\ NotLater
    /\ pending' = pending /\ item' = item /\ call' = call

Redelivers(m) ==
    /\ redeliveries' = redeliveries + 1 /\ msgs[m].state = "out"
    /\ Moves(m, "stream") /\ DebouncerSame /\ NotLater

TakesEnabled(m) ==
    /\ msgs[m].kind = "enabled" /\ DebouncerSame /\ NotLater
    /\ Moves(m, "out") \/ Moves(m, "acked")

TakesChanged(m) ==
    /\ msgs[m].kind = "changed" /\ msgs[m].state = "stream"
    /\ Moves(m, "out") /\ Debounces(msgs[m].space, m)

DebouncesEnabled(m) ==
    /\ msgs[m].kind = "enabled" /\ msgs' = msgs /\ Debounces(msgs[m].space, m)

Quiet == DebouncerSame /\ msgs' = msgs /\ NotLater

MessageStep ==
    \/ \E s \in Spaces : Changes(s) \/ Enables(s)
    \/ \E m \in Messages : \/ Acknowledges(m) \/ Redelivers(m) \/ TakesEnabled(m)
                           \/ TakesChanged(m) \/ DebouncesEnabled(m)

CallStep ==
    \/ \E i \in Items, c \in Calls : Fires(i, c)
    \/ \E c \in Calls : Looks(c) \/ Restarts(c) \/ Takes(c) \/ Finishes(c)

Kinds == MessageStep \/ CallStep \/ Crashes \/ Quiet

-----------------------------------------------------------------------------
(* Lemmas on messages and versions. *)

\* The greater of two versions.
LEMMA MaxOfTwo ==
    ASSUME NEW a \in Nat, NEW b \in Nat
    PROVE  Max({a, b}) \in Nat /\ Max({a, b}) >= a /\ Max({a, b}) >= b
           /\ (Max({a, b}) = a \/ Max({a, b}) = b)
<1>1. \E x \in {a, b} : \A y \in {a, b} : x >= y
  <2>1. CASE a >= b
    BY <2>1
  <2>2. CASE b >= a
    BY <2>2
  <2> QED
    BY <2>1, <2>2
<1>2. Max({a, b}) \in {a, b} /\ \A y \in {a, b} : Max({a, b}) >= y
  BY <1>1 DEF Max
<1> QED
  BY <1>2

\* A space lags when it is behind and no run has given its last change up.
LEMMA BehindLags ==
    ASSUME Typed, NEW s \in Spaces
    PROVE  (Behind(s) /\ ~GivenUp(s)) <=> Lags(s)
<1>1. indexed[s] \in Nat /\ givenUp[s] \in Nat /\ version[s] \in Nat
  BY DEF Typed, WorldTyped
<1> QED
  BY <1>1 DEF Behind, GivenUp, Lags

\* Giving a message another state.
LEMMA SetStateMoves ==
    ASSUME Typed, NEW m \in Messages, NEW st \in {"stream", "out", "acked"},
           SetState(m, st)
    PROVE  msgs' \in Seq(MessageStates) /\ Moves(m, st)
<1>1. msgs \in Seq(MessageStates) /\ m \in 1 .. Len(msgs) /\ Len(msgs) \in Nat
  BY DEF Typed, WorldTyped, Messages
<1>2. PICK a \in MessageStates : a = msgs[m]
  BY <1>1, ElementOfSeq
<1>3. PICK b : b = [a EXCEPT !.state = st]
  OBVIOUS
<1>4. b \in MessageStates /\ b.kind = a.kind /\ b.space = a.space /\ b.state = st
  BY <1>2, <1>3 DEF MessageStates
<1>5. msgs' = [msgs EXCEPT ![m] = b]
  BY <1>2, <1>3 DEF SetState
<1>6. /\ msgs' \in Seq(MessageStates) /\ Len(msgs') = Len(msgs)
      /\ \A n \in 1 .. Len(msgs) : msgs'[n] = IF n = m THEN b ELSE msgs[n]
  BY <1>1, <1>4, <1>5, ExceptSeq
<1> QED
  BY <1>1, <1>2, <1>4, <1>6 DEF Moves, Messages

\* Publishing an event.
LEMMA PublishAppends ==
    ASSUME Typed, NEW s \in Spaces, NEW kind \in {"changed", "enabled"}, Publish(s, kind)
    PROVE  /\ msgs' \in Seq(MessageStates) /\ Len(msgs') = Len(msgs) + 1
           /\ \A n \in Messages : msgs'[n] = msgs[n]
           /\ msgs'[Len(msgs) + 1] = [kind |-> kind, space |-> s, state |-> "stream"]
<1>1. msgs \in Seq(MessageStates)
  BY DEF Typed, WorldTyped
<1>2. PICK e : e = [kind |-> kind, space |-> s, state |-> "stream"]
  OBVIOUS
<1>3. e \in MessageStates /\ msgs' = Append(msgs, e)
  BY <1>2 DEF MessageStates, Publish
<1> QED
  BY <1>1, <1>2, <1>3, AppendProperties DEF Messages

\* After a crash what was out is in the stream again.
LEMMA CrashMessages ==
    ASSUME Typed, Crash
    PROVE  /\ msgs' \in Seq(MessageStates) /\ Len(msgs') = Len(msgs)
           /\ \A n \in Messages :
                 /\ msgs'[n].kind = msgs[n].kind /\ msgs'[n].space = msgs[n].space
                 /\ msgs'[n].state # "out"
                 /\ msgs[n].state \in {"stream", "out"} => msgs'[n].state = "stream"
<1>1. msgs \in Seq(MessageStates) /\ Len(msgs) \in Nat
  BY DEF Typed, WorldTyped
<1>2. \A n \in Messages : msgs[n] \in MessageStates
  BY <1>1, ElementOfSeq DEF Messages
<1>3. msgs' = [m \in Messages |->
        IF msgs[m].state = "out" THEN [msgs[m] EXCEPT !.state = "stream"] ELSE msgs[m]]
  BY DEF Crash
<1>4. \A n \in Messages :
        /\ msgs'[n] \in MessageStates
        /\ msgs'[n].kind = msgs[n].kind /\ msgs'[n].space = msgs[n].space
        /\ msgs'[n].state # "out"
        /\ msgs[n].state \in {"stream", "out"} => msgs'[n].state = "stream"
  <2> TAKE n \in Messages
  <2>1. PICK a \in MessageStates : a = msgs[n]
    BY <1>2
  <2>2. PICK b : b = [a EXCEPT !.state = "stream"]
    OBVIOUS
  <2>3. b \in MessageStates /\ b.kind = a.kind /\ b.space = a.space /\ b.state = "stream"
    BY <2>1, <2>2 DEF MessageStates
  <2>4. msgs'[n] = IF a.state = "out" THEN b ELSE a
    BY <1>3, <2>1, <2>2
  <2> QED
    BY <2>1, <2>3, <2>4
<1>5. msgs' \in [1 .. Len(msgs) -> MessageStates]
  BY <1>3, <1>4 DEF Messages
<1>6. msgs' \in Seq(MessageStates) /\ Len(msgs') = Len(msgs)
  BY <1>1, <1>5, SeqDef
<1> QED
  BY <1>4, <1>6

-----------------------------------------------------------------------------
(* What the debouncer's operations do. *)

\* No item has the number that stands for none.
LEMMA NoItemIsNone == NoItem \notin Items
BY DEF NoItem, Items

\* Debounce.
LEMMA DebounceKind ==
    ASSUME DebouncerTyped, NEW s \in Spaces, NEW m \in Nat, NEW force \in BOOLEAN,
           Debounce(s, m, force)
    PROVE  DebouncerTyped' /\ (Schedules(s, m) \/ Joins(s, m))
<1>1. CASE pending[s] # NoItem
  <2>1. PICK i \in Items : i = pending[s]
    BY <1>1 DEF DebouncerTyped
  <2>2. PICK a \in ItemStates : a = item[i]
    BY DEF DebouncerTyped
  <2>3. PICK b : b = [a EXCEPT !.force = a.force \/ force, !.t = TRUE]
    OBVIOUS
  <2>4. b \in ItemStates /\ b.msg = a.msg /\ b.space = a.space /\ b.t
    BY <2>2, <2>3 DEF ItemStates
  <2>5. item' = [item EXCEPT ![i] = b]
    <3>1. item' = [item EXCEPT ![i].force = @ \/ force, ![i].t = TRUE]
      BY <1>1, <2>1 DEF Debounce
    <3>2. [item EXCEPT ![i].force = @ \/ force, ![i].t = TRUE] = [item EXCEPT ![i] = b]
      BY <2>2, <2>3 DEF DebouncerTyped, ItemStates
    <3> QED
      BY <3>1, <3>2
  <2>6. pending' = pending /\ call' = call /\ acking' = acking \cup {m}
    BY <1>1 DEF Debounce
  <2>7. DebouncerTyped'
    BY <2>4, <2>5, <2>6 DEF DebouncerTyped
  <2>8. \A j \in Items : item'[j] = IF j = i THEN b ELSE item[j]
    BY <2>5 DEF DebouncerTyped
  <2> QED
    BY <1>1, <2>1, <2>2, <2>4, <2>6, <2>7, <2>8 DEF Joins, ItemKept
<1>2. CASE pending[s] = NoItem
  <2>1. PICK i : i = CHOOSE x \in FreeItems : TRUE
    OBVIOUS
  <2>2. i \in Items /\ item[i] = IdleItem
    BY <1>2, <2>1 DEF Debounce, FreeItems
  <2>3. PICK b : b = [space |-> s, force |-> force, t |-> TRUE, timeout |-> TRUE, msg |-> m]
    OBVIOUS
  <2>4. b \in ItemStates /\ b.msg = m /\ b.space = s /\ b.t
    BY <2>3 DEF ItemStates
  <2>5. /\ item' = [item EXCEPT ![i] = b] /\ pending' = [pending EXCEPT ![s] = i]
        /\ call' = call /\ acking' = acking
    BY <1>2, <2>1, <2>3 DEF Debounce
  <2>6. DebouncerTyped'
    BY <2>2, <2>4, <2>5 DEF DebouncerTyped
  <2>7. \A j \in Items : item'[j] = IF j = i THEN b ELSE item[j]
    BY <2>5 DEF DebouncerTyped
  <2>8. item[i].msg = 0
    BY <2>2 DEF IdleItem
  <2> QED
    BY <1>2, <2>2, <2>4, <2>5, <2>6, <2>7, <2>8 DEF Schedules
<1> QED
  BY <1>1, <1>2

\* A timer or a timeout fires.
LEMMA TimerKind ==
    ASSUME DebouncerTyped, NEW i \in Items, TimerFires(i) \/ TimeoutFires(i)
    PROVE  /\ DebouncerTyped' /\ Ticks(i)
           /\ pending' = pending /\ acking' = acking
           /\ \A j \in Items : ItemKept(j)
           /\ \A j \in Items \ {i} : item'[j] = item[j]
           /\ \E c \in Calls : /\ call[c].pc = "idle" /\ OthersKept(c)
                               /\ call'[c].pc = "load" /\ call'[c].item = i
<1>1. StartCall(i) /\ Ticks(i)
  BY DEF TimerFires, TimeoutFires, Ticks
<1>2. PICK c : c = CHOOSE x \in IdleCalls : TRUE
  OBVIOUS
<1>3. c \in Calls /\ call[c].pc = "idle"
  BY <1>1, <1>2 DEF StartCall, IdleCalls
<1>4. PICK d : d = [IdleCall EXCEPT !.pc = "load", !.item = i]
  OBVIOUS
<1>5. d \in CallStates /\ d.pc = "load" /\ d.item = i
  BY <1>4 DEF CallStates, IdleCall, NoItem
<1>6. call' = [call EXCEPT ![c] = d] /\ pending' = pending /\ acking' = acking
  BY <1>1, <1>2, <1>4 DEF StartCall
<1>7. PICK a \in ItemStates : a = item[i]
  BY DEF DebouncerTyped
<1>8. \E b \in ItemStates : item' = [item EXCEPT ![i] = b] /\ b.msg = a.msg /\ b.space = a.space
  <2>1. CASE TimerFires(i)
    <3>1. PICK b : b = [a EXCEPT !.t = FALSE]
      OBVIOUS
    <3>2. b \in ItemStates /\ b.msg = a.msg /\ b.space = a.space
      BY <1>7, <3>1 DEF ItemStates
    <3>3. item' = [item EXCEPT ![i] = b]
      BY <2>1, <1>7, <3>1 DEF TimerFires
    <3> QED
      BY <3>2, <3>3
  <2>2. CASE TimeoutFires(i)
    <3>1. PICK b : b = [a EXCEPT !.timeout = FALSE, !.t = FALSE]
      OBVIOUS
    <3>2. b \in ItemStates /\ b.msg = a.msg /\ b.space = a.space
      BY <1>7, <3>1 DEF ItemStates
    <3>3. item' = [item EXCEPT ![i] = b]
      <4>1. item' = [item EXCEPT ![i].timeout = FALSE, ![i].t = FALSE]
        BY <2>2 DEF TimeoutFires
      <4>2. [item EXCEPT ![i].timeout = FALSE, ![i].t = FALSE] = [item EXCEPT ![i] = b]
        BY <1>7, <3>1 DEF DebouncerTyped, ItemStates
      <4> QED
        BY <4>1, <4>2
    <3> QED
      BY <3>2, <3>3
  <2> QED
    BY <2>1, <2>2
<1>9. PICK b \in ItemStates : item' = [item EXCEPT ![i] = b] /\ b.msg = a.msg /\ b.space = a.space
  BY <1>8
<1>10. DebouncerTyped'
  BY <1>3, <1>5, <1>6, <1>9 DEF DebouncerTyped
<1>11. \A j \in Items : item'[j] = IF j = i THEN b ELSE item[j]
  BY <1>9 DEF DebouncerTyped
<1>12. \A e \in Calls : call'[e] = IF e = c THEN d ELSE call[e]
  BY <1>6 DEF DebouncerTyped
<1> QED
  BY <1>1, <1>3, <1>5, <1>6, <1>7, <1>9, <1>10, <1>11, <1>12 DEF ItemKept, OthersKept

\* What the garbage collector does to the items its.
LEMMA ReachableItems ==
    ASSUME NEW its \in [Items -> ItemStates], NEW calls \in [Calls -> CallStates],
           NEW i \in Items
    PROVE  /\ Reachable(its, pending, calls)[i] \in ItemStates
           /\ \/ Reachable(its, pending, calls)[i] = its[i]
              \/ /\ Reachable(its, pending, calls)[i] = IdleItem
                 /\ ~(its[i].t \/ its[i].timeout)
                 /\ \A s \in Spaces : pending[s] # i
                 /\ \A c \in Calls : calls[c].item # i
<1>1. IdleItem \in ItemStates
  BY DEF IdleItem, ItemStates
<1>2. Reachable(its, pending, calls)[i] =
        IF (its[i].t \/ its[i].timeout \/ (\E s \in Spaces : pending[s] = i)
              \/ (\E c \in Calls : calls[c].item = i))
        THEN its[i] ELSE IdleItem
  BY DEF Reachable
<1> QED
  BY <1>1, <1>2

\* A call whose record is replaced.
LEMMA CallReplaced ==
    ASSUME DebouncerTyped, NEW c \in Calls, NEW d \in CallStates,
           call' = [call EXCEPT ![c] = d]
    PROVE  call' \in [Calls -> CallStates] /\ call'[c] = d /\ OthersKept(c)
BY DEF DebouncerTyped, OthersKept

\* A call that has ended.
LEMMA CallEnds ==
    ASSUME DebouncerTyped, NEW c \in Calls, call' = [call EXCEPT ![c] = IdleCall]
    PROVE  call' \in [Calls -> CallStates] /\ call'[c].pc = "idle" /\ OthersKept(c)
<1>1. IdleCall \in CallStates /\ IdleCall.pc = "idle"
  BY DEF IdleCall, CallStates, NoItem
<1> QED
  BY <1>1, CallReplaced

\* Load.
LEMMA LoadKind ==
    ASSUME DebouncerTyped, NEW c \in Calls, Load(c), msgs' = msgs, NotLater
    PROVE  DebouncerTyped' /\ Looks(c)
<1>1. PICK a \in CallStates : a = call[c]
  BY DEF DebouncerTyped
<1>2. PICK st \in {"again", "lock"} : st = IF SpaceOf(c) \in inProgress THEN "again" ELSE "lock"
  OBVIOUS
<1>3. PICK b : b = [a EXCEPT !.pc = st]
  OBVIOUS
<1>4. b \in CallStates /\ b.pc = st /\ b.item = a.item
  BY <1>1, <1>2, <1>3 DEF CallStates
<1>5. call' = [call EXCEPT ![c] = b]
  BY <1>1, <1>2, <1>3 DEF Load
<1>6. call' \in [Calls -> CallStates] /\ call'[c] = b /\ OthersKept(c)
  BY <1>4, <1>5, CallReplaced
<1>7. call[c].pc = "load" /\ pending' = pending /\ item' = item /\ acking' = acking
  BY DEF Load
<1> QED
  BY <1>1, <1>2, <1>4, <1>6, <1>7 DEF Looks, DebouncerTyped

\* Reschedule.
LEMMA RescheduleKind ==
    ASSUME DebouncerTyped, NEW c \in Calls, Reschedule(c), msgs' = msgs, NotLater,
           SpaceOf(c) \in Spaces
    PROVE  DebouncerTyped' /\ Restarts(c)
<1>1. call[c].pc = "again" /\ pending' = pending /\ acking' = acking
  BY DEF Reschedule
<1>2. call' = [call EXCEPT ![c] = IdleCall]
  BY DEF Reschedule
<1>3. call' \in [Calls -> CallStates] /\ call'[c].pc = "idle" /\ OthersKept(c)
  BY <1>2, CallEnds
<1>4. PICK p : p = pending[SpaceOf(c)]
  OBVIOUS
<1>5. p \in Items \cup {NoItem}
  BY <1>4 DEF DebouncerTyped
<1>6. PICK its : its = IF p = NoItem THEN item ELSE [item EXCEPT ![p].t = TRUE]
  OBVIOUS
<1>7. item' = Reachable(its, pending, call')
  BY <1>4, <1>6 DEF Reschedule
<1>8. its \in [Items -> ItemStates] /\ \A j \in Items :
        /\ its[j].msg = item[j].msg /\ its[j].space = item[j].space
        /\ j = p => its[j].t
        /\ j # p => its[j] = item[j]
  <2>1. CASE p = NoItem
    BY <1>6, <2>1, NoItemIsNone DEF DebouncerTyped
  <2>2. CASE p \in Items
    <3>1. PICK a \in ItemStates : a = item[p]
      BY <2>2 DEF DebouncerTyped
    <3>2. PICK b : b = [a EXCEPT !.t = TRUE]
      OBVIOUS
    <3>3. b \in ItemStates /\ b.msg = a.msg /\ b.space = a.space /\ b.t
      BY <3>1, <3>2 DEF ItemStates
    <3>4. its = [item EXCEPT ![p] = b]
      BY <1>6, <2>2, <3>1, <3>2, NoItemIsNone
    <3>5. its \in [Items -> ItemStates] /\ \A j \in Items : its[j] = IF j = p THEN b ELSE item[j]
      BY <2>2, <3>3, <3>4 DEF DebouncerTyped
    <3> QED
      BY <3>1, <3>3, <3>5
  <2> QED
    BY <1>5, <2>1, <2>2
<1>9. \A j \in Items :
        /\ item'[j] \in ItemStates
        /\ \/ item'[j] = its[j]
           \/ /\ item'[j] = IdleItem /\ ~(its[j].t \/ its[j].timeout)
              /\ \A s \in Spaces : pending[s] # j
              /\ \A d \in Calls : call'[d].item # j
  BY <1>3, <1>7, <1>8, ReachableItems
<1>10. item' \in [Items -> ItemStates]
  BY <1>7, <1>9 DEF Reachable
<1>11. \A j \in Items :
          \/ ItemFreed(j)
          \/ /\ ItemKept(j) /\ (Ticks(j) => Ticks(j)')
             /\ Ticks(j)' => (Ticks(j) \/ \E s \in Spaces : pending[s] = j)
  <2> TAKE j \in Items
  <2>1. CASE item'[j] = its[j]
    BY <1>4, <1>8, <2>1 DEF ItemKept, Ticks
  <2>2. CASE item'[j] # its[j]
    <3>1. j # p
      BY <1>9, <2>2, <1>4
    <3> QED
      BY <3>1, <1>8, <1>9, <2>2 DEF ItemFreed, Ticks
  <2> QED
    BY <2>1, <2>2
<1>12. \A s \in Spaces, j \in Items : (s = SpaceOf(c) /\ pending[s] = j) => item'[j].t
  BY <1>4, <1>8, <1>9
<1> QED
  BY <1>1, <1>3, <1>10, <1>11, <1>12 DEF Restarts, DebouncerTyped

\* Take.
LEMMA TakeKind ==
    ASSUME DebouncerTyped, NEW c \in Calls, NEW v \in Nat, Take(c, v), msgs' = msgs,
           NotLater, call[c].item \in Items, SpaceOf(c) \in Spaces, v = version[SpaceOf(c)]
    PROVE  DebouncerTyped' /\ Takes(c)
<1>1. PICK i \in Items : i = call[c].item
  OBVIOUS
<1>2. PICK a \in ItemStates : a = item[i]
  BY DEF DebouncerTyped
<1>3. PICK b : b = [a EXCEPT !.timeout = FALSE]
  OBVIOUS
<1>4. b \in ItemStates /\ b.msg = a.msg /\ b.space = a.space /\ b.t = a.t /\ b.timeout = FALSE
  BY <1>2, <1>3 DEF ItemStates
<1>5. item' = [item EXCEPT ![i] = b]
  BY <1>1, <1>2, <1>3 DEF Take
<1>6. item' \in [Items -> ItemStates] /\ \A j \in Items : item'[j] = IF j = i THEN b ELSE item[j]
  BY <1>4, <1>5 DEF DebouncerTyped
<1>7. PICK x \in CallStates : x = call[c]
  BY DEF DebouncerTyped
<1>8. PICK y : y = [x EXCEPT !.pc = "run", !.force = a.force, !.snap = v]
  OBVIOUS
<1>9. y \in CallStates /\ y.pc = "run" /\ y.item = x.item /\ y.snap = v
  BY <1>2, <1>7, <1>8 DEF CallStates, ItemStates
<1>10. call' = [call EXCEPT ![c] = y]
  <2>1. call' = [call EXCEPT ![c].pc = "run", ![c].force = a.force, ![c].snap = v]
    BY <1>1, <1>2 DEF Take
  <2>2. [call EXCEPT ![c].pc = "run", ![c].force = a.force, ![c].snap = v]
          = [call EXCEPT ![c] = y]
    BY <1>7, <1>8 DEF DebouncerTyped, CallStates
  <2> QED
    BY <2>1, <2>2
<1>11. call' \in [Calls -> CallStates] /\ call'[c] = y /\ OthersKept(c)
  BY <1>9, <1>10, CallReplaced
<1>12. /\ call[c].pc = "lock" /\ acking' = acking
       /\ pending' = [pending EXCEPT ![SpaceOf(c)] = NoItem]
  BY DEF Take
<1>13. /\ pending' \in [Spaces -> Items \cup {NoItem}]
       /\ \A s \in Spaces : pending'[s] = IF s = SpaceOf(c) THEN NoItem ELSE pending[s]
  BY <1>12 DEF DebouncerTyped
<1>14. DebouncerTyped'
  BY <1>6, <1>11, <1>13 DEF DebouncerTyped
<1>15. \A j \in Items : ItemKept(j) /\ (Ticks(j)' => Ticks(j))
  BY <1>2, <1>4, <1>6 DEF ItemKept, Ticks
<1>16. \A j \in Items : call[c].item # j => item'[j] = item[j]
  BY <1>1, <1>6
<1> QED
  BY <1>7, <1>9, <1>11, <1>12, <1>13, <1>14, <1>15, <1>16 DEF Takes

\* Finish.
LEMMA FinishKind ==
    ASSUME DebouncerTyped, NEW c \in Calls, Finish(c)
    PROVE  /\ DebouncerTyped' /\ call[c].pc = "run" /\ call'[c].pc = "idle" /\ OthersKept(c)
           /\ pending' = pending /\ acking' = acking \cup {item[call[c].item].msg}
           /\ \A j \in Items : ItemFreed(j) \/ item'[j] = item[j]
<1>1. /\ call[c].pc = "run" /\ pending' = pending
      /\ acking' = acking \cup {item[call[c].item].msg}
      /\ call' = [call EXCEPT ![c] = IdleCall] /\ item' = Reachable(item, pending, call')
  BY DEF Finish
<1>2. call' \in [Calls -> CallStates] /\ call'[c].pc = "idle" /\ OthersKept(c)
  BY <1>1, CallEnds
<1>3. \A j \in Items :
        /\ item'[j] \in ItemStates
        /\ \/ item'[j] = item[j]
           \/ /\ item'[j] = IdleItem /\ ~(item[j].t \/ item[j].timeout)
              /\ \A s \in Spaces : pending[s] # j
              /\ \A d \in Calls : call'[d].item # j
  <2>1. PICK its \in [Items -> ItemStates] : its = item
    BY DEF DebouncerTyped
  <2>2. item' = Reachable(its, pending, call')
    BY <1>1, <2>1
  <2>3. \A j \in Items :
          /\ item'[j] \in ItemStates
          /\ \/ item'[j] = its[j]
             \/ /\ item'[j] = IdleItem /\ ~(its[j].t \/ its[j].timeout)
                /\ \A s \in Spaces : pending[s] # j
                /\ \A d \in Calls : call'[d].item # j
    BY <1>2, <2>2, ReachableItems
  <2> QED
    BY <2>1, <2>3
<1>4. item' \in [Items -> ItemStates]
  BY <1>1, <1>3 DEF Reachable
<1>5. DebouncerTyped'
  BY <1>1, <1>2, <1>4 DEF DebouncerTyped
<1> QED
  BY <1>1, <1>2, <1>3, <1>5 DEF ItemFreed, Ticks

-----------------------------------------------------------------------------
(* Every step is of one of the kinds. *)

Sound == Typed' /\ HandsWired' /\ Kinds

\* What the consumers and the requests hold stays valid.
LEMMA HandsKept ==
    ASSUME Typed, HandsWired, consumer' = consumer, reindex' = reindex,
           Len(msgs') \in Nat, Len(msgs') >= Len(msgs),
           \A n \in Messages : msgs'[n].kind = msgs[n].kind
    PROVE  HandsWired'
<1>1. Len(msgs) \in Nat
  BY DEF Typed, WorldTyped
<1> QED
  BY <1>1 DEF HandsWired, Messages

\* Steps that leave the versions alone.
LEMMA SameVersions ==
    ASSUME version' = version, indexed' = indexed, givenUp' = givenUp
    PROVE  NotLater
BY DEF NotLater, Lags

\* The users and the stream.
LEMMA StreamKind ==
    ASSUME Typed, Wired,
           \/ \E s \in Spaces : Change(s) \/ Disable(s) \/ Enable(s)
           \/ \E m \in Messages : Ack(m) \/ Redeliver(m)
    PROVE  Sound
<1>0. HandsWired /\ DebouncerTyped /\ WorldTyped /\ Len(msgs) \in Nat
  BY DEF Wired, Typed, WorldTyped
<1>1. ASSUME NEW s \in Spaces, Change(s) PROVE Sound
  <2>1. Publish(s, "changed") /\ version' = [version EXCEPT ![s] = @ + 1]
    BY <1>1 DEF Change
  <2>2. /\ consumer' = consumer /\ reindex' = reindex /\ DebouncerSame
        /\ indexed' = indexed /\ givenUp' = givenUp
        /\ toggles' = toggles /\ crashes' = crashes /\ redeliveries' = redeliveries
    BY <1>1 DEF Change, debouncerVars, indexVars, faultVars, DebouncerSame
  <2>3. /\ msgs' \in Seq(MessageStates) /\ Len(msgs') = Len(msgs) + 1
        /\ \A n \in Messages : msgs'[n] = msgs[n]
        /\ msgs'[Len(msgs) + 1] = [kind |-> "changed", space |-> s, state |-> "stream"]
    BY <2>1, PublishAppends
  <2>4. HandsWired'
    BY <1>0, <2>2, <2>3, HandsKept
  <2>5. version' \in [Spaces -> Nat]
    BY <1>0, <2>1 DEF WorldTyped
  <2>6. Typed'
    BY <1>0, <2>2, <2>3, <2>5 DEF Typed, DebouncerTyped, WorldTyped, DebouncerSame
  <2>7. Changes(s)
    BY <2>1, <2>2, <2>3 DEF Changes, Publishes
  <2> QED
    BY <2>4, <2>6, <2>7 DEF Sound, Kinds, MessageStep
<1>2. ASSUME NEW s \in Spaces, Disable(s) PROVE Sound
  <2>1. /\ consumer' = consumer /\ reindex' = reindex /\ DebouncerSame /\ msgs' = msgs
        /\ version' = version /\ indexed' = indexed /\ givenUp' = givenUp
        /\ toggles' = toggles + 1 /\ crashes' = crashes /\ redeliveries' = redeliveries
    BY <1>2 DEF Disable, debouncerVars, indexVars, faultVars, DebouncerSame
  <2>2. HandsWired'
    BY <1>0, <2>1, HandsKept
  <2>3. Typed'
    BY <1>0, <2>1 DEF Typed, DebouncerTyped, WorldTyped, DebouncerSame
  <2>4. Quiet
    BY <2>1, SameVersions DEF Quiet
  <2> QED
    BY <2>2, <2>3, <2>4 DEF Sound, Kinds
<1>3. ASSUME NEW s \in Spaces, Enable(s) PROVE Sound
  <2>1. Publish(s, "enabled") /\ s \in disabled
    BY <1>3 DEF Enable
  <2>2. /\ consumer' = consumer /\ reindex' = reindex /\ DebouncerSame
        /\ version' = version /\ indexed' = indexed /\ givenUp' = givenUp
        /\ toggles' = toggles /\ crashes' = crashes /\ redeliveries' = redeliveries
    BY <1>3 DEF Enable, debouncerVars, indexVars, faultVars, DebouncerSame
  <2>3. /\ msgs' \in Seq(MessageStates) /\ Len(msgs') = Len(msgs) + 1
        /\ \A n \in Messages : msgs'[n] = msgs[n]
        /\ msgs'[Len(msgs) + 1] = [kind |-> "enabled", space |-> s, state |-> "stream"]
    BY <2>1, PublishAppends
  <2>4. HandsWired'
    BY <1>0, <2>2, <2>3, HandsKept
  <2>5. Typed'
    BY <1>0, <2>2, <2>3 DEF Typed, DebouncerTyped, WorldTyped, DebouncerSame
  <2>6. Enables(s)
    BY <2>1, <2>2, <2>3, SameVersions DEF Enables, Publishes
  <2> QED
    BY <2>4, <2>5, <2>6 DEF Sound, Kinds, MessageStep
<1>4. ASSUME NEW m \in Messages, Ack(m) PROVE Sound
  <2>1. SetState(m, "acked") /\ m \in acking /\ acking' = acking \ {m}
    BY <1>4 DEF Ack
  <2>2. /\ consumer' = consumer /\ reindex' = reindex
        /\ pending' = pending /\ item' = item /\ call' = call
        /\ version' = version /\ indexed' = indexed /\ givenUp' = givenUp
        /\ toggles' = toggles /\ crashes' = crashes /\ redeliveries' = redeliveries
    BY <1>4 DEF Ack, spaceVars, indexVars, faultVars
  <2>3. msgs' \in Seq(MessageStates) /\ Moves(m, "acked")
    BY <2>1, SetStateMoves
  <2>4. HandsWired'
    BY <1>0, <2>2, <2>3, HandsKept DEF Moves
  <2>5. Typed'
    BY <1>0, <2>2, <2>3 DEF Typed, DebouncerTyped, WorldTyped
  <2>6. Acknowledges(m)
    BY <2>1, <2>2, <2>3, SameVersions DEF Acknowledges
  <2> QED
    BY <2>4, <2>5, <2>6 DEF Sound, Kinds, MessageStep
<1>5. ASSUME NEW m \in Messages, Redeliver(m) PROVE Sound
  <2>1. /\ SetState(m, "stream") /\ msgs[m].state = "out"
        /\ redeliveries < MaxRedeliveries /\ redeliveries' = redeliveries + 1
    BY <1>5 DEF Redeliver
  <2>2. /\ consumer' = consumer /\ reindex' = reindex /\ DebouncerSame
        /\ version' = version /\ indexed' = indexed /\ givenUp' = givenUp
        /\ toggles' = toggles /\ crashes' = crashes
    BY <1>5 DEF Redeliver, spaceVars, indexVars, debouncerVars, DebouncerSame
  <2>3. msgs' \in Seq(MessageStates) /\ Moves(m, "stream")
    BY <2>1, SetStateMoves
  <2>4. HandsWired'
    BY <1>0, <2>2, <2>3, HandsKept DEF Moves
  <2>5. Typed'
    BY <1>0, <2>1, <2>2, <2>3 DEF Typed, DebouncerTyped, WorldTyped, DebouncerSame
  <2>6. Redelivers(m)
    BY <2>1, <2>2, <2>3, SameVersions DEF Redelivers
  <2> QED
    BY <2>4, <2>5, <2>6 DEF Sound, Kinds, MessageStep
<1> QED
  BY <1>1, <1>2, <1>3, <1>4, <1>5

\* The consumers.
LEMMA HandleKind ==
    ASSUME Typed, Wired, NEW w \in Consumers, Handle(w)
    PROVE  Sound
<1>0. HandsWired /\ DebouncerTyped /\ WorldTyped /\ Len(msgs) \in Nat
  BY DEF Wired, Typed, WorldTyped
<1>m. \A n \in Messages : msgs[n] \in MessageStates /\ n \in Nat
  BY <1>0, ElementOfSeq DEF WorldTyped, Messages
<1>i. Idle \in ConsumerStates /\ Idle.pc = "idle"
  BY DEF Idle, ConsumerStates
<1>1. ASSUME NEW m \in Messages, HandleChanged(w, m) PROVE Sound
  <2>1. /\ msgs[m].kind = "changed" /\ msgs[m].state = "stream"
        /\ SetState(m, "out") /\ Debounce(msgs[m].space, m, FALSE)
    BY <1>1 DEF HandleChanged, Delivered
  <2>2. /\ consumer' = consumer /\ reindex' = reindex
        /\ version' = version /\ indexed' = indexed /\ givenUp' = givenUp
        /\ toggles' = toggles /\ crashes' = crashes /\ redeliveries' = redeliveries
    BY <1>1 DEF HandleChanged, spaceVars, indexVars, faultVars
  <2>3. PICK s \in Spaces : s = msgs[m].space
    BY <1>m DEF MessageStates
  <2>4. DebouncerTyped' /\ (Schedules(s, m) \/ Joins(s, m))
    BY <1>0, <1>m, <2>1, <2>3, DebounceKind
  <2>5. msgs' \in Seq(MessageStates) /\ Moves(m, "out")
    BY <2>1, SetStateMoves
  <2>6. HandsWired'
    BY <1>0, <2>2, <2>5, HandsKept DEF Moves
  <2>7. Typed'
    BY <1>0, <2>2, <2>4, <2>5 DEF Typed, WorldTyped
  <2>8. NotLater
    BY <2>2, SameVersions
  <2>9. TakesChanged(m)
    BY <2>1, <2>3, <2>4, <2>5, <2>8 DEF TakesChanged, Debounces
  <2> QED
    BY <2>6, <2>7, <2>9 DEF Sound, Kinds, MessageStep
<1>2. ASSUME NEW m \in Messages, HandleEnabled(w, m) PROVE Sound
  <2>1. msgs[m].kind = "enabled"
    BY <1>2 DEF HandleEnabled, Delivered
  <2>2. /\ reindex' = reindex /\ DebouncerSame
        /\ version' = version /\ indexed' = indexed /\ givenUp' = givenUp
        /\ toggles' = toggles /\ crashes' = crashes /\ redeliveries' = redeliveries
    BY <1>2 DEF HandleEnabled, spaceVars, indexVars, faultVars, debouncerVars, DebouncerSame
  <2>3. \E c \in ConsumerStates :
          /\ c.pc # "idle" => c.msg = m
          /\ \/ SetState(m, "out") /\ consumer' = [consumer EXCEPT ![w] = c]
             \/ SetState(m, "acked") /\ consumer' = consumer
    <3>1. CASE SetState(m, "acked") /\ consumer' = consumer
      BY <1>i, <3>1
    <3>2. CASE ~(SetState(m, "acked") /\ consumer' = consumer)
      <4>1. PICK f \in BOOLEAN : f = (mark[msgs[m].space] = "forced")
        OBVIOUS
      <4>2. PICK c : c = [pc |-> "unmark", msg |-> m, force |-> f]
        OBVIOUS
      <4>3. c \in ConsumerStates /\ c.msg = m
        BY <4>2, <1>m DEF ConsumerStates
      <4>4. SetState(m, "out") /\ consumer' = [consumer EXCEPT ![w] = c]
        BY <1>2, <3>2, <4>1, <4>2 DEF HandleEnabled
      <4> QED
        BY <4>3, <4>4
    <3> QED
      BY <3>1, <3>2
  <2>4. PICK c \in ConsumerStates :
          /\ c.pc # "idle" => c.msg = m
          /\ \/ SetState(m, "out") /\ consumer' = [consumer EXCEPT ![w] = c]
             \/ SetState(m, "acked") /\ consumer' = consumer
    BY <2>3
  <2>5. msgs' \in Seq(MessageStates) /\ (Moves(m, "out") \/ Moves(m, "acked"))
    BY <2>4, SetStateMoves
  <2>6. consumer' \in [Consumers -> ConsumerStates]
        /\ \A v \in Consumers : consumer'[v] = consumer[v] \/ consumer'[v] = c
    BY <1>0, <2>4 DEF WorldTyped
  <2>7. Len(msgs') = Len(msgs) /\ \A n \in Messages : msgs'[n].kind = msgs[n].kind
    BY <2>5 DEF Moves
  <2>8. HandsWired'
    BY <1>0, <2>1, <2>2, <2>4, <2>6, <2>7 DEF HandsWired, Messages
  <2>9. Typed'
    BY <1>0, <2>2, <2>5, <2>6 DEF Typed, DebouncerTyped, WorldTyped, DebouncerSame
  <2>10. TakesEnabled(m)
    BY <2>1, <2>2, <2>5, SameVersions DEF TakesEnabled
  <2> QED
    BY <2>8, <2>9, <2>10 DEF Sound, Kinds, MessageStep
<1>3. CASE Unmark(w)
  <2>1. /\ consumer[w].pc = "unmark" /\ consumer' = [consumer EXCEPT ![w].pc = "debounce"]
        /\ reindex' = reindex /\ DebouncerSame /\ msgs' = msgs
        /\ version' = version /\ indexed' = indexed /\ givenUp' = givenUp
        /\ toggles' = toggles /\ crashes' = crashes /\ redeliveries' = redeliveries
    BY <1>3 DEF Unmark, spaceVars, indexVars, faultVars, debouncerVars, DebouncerSame
  <2>2. PICK a \in ConsumerStates : a = consumer[w]
    BY <1>0 DEF WorldTyped
  <2>3. PICK b : b = [a EXCEPT !.pc = "debounce"]
    OBVIOUS
  <2>4. b \in ConsumerStates /\ b.msg = a.msg
    BY <2>2, <2>3 DEF ConsumerStates
  <2>5. consumer' = [consumer EXCEPT ![w] = b]
    BY <2>1, <2>2, <2>3
  <2>6. /\ consumer' \in [Consumers -> ConsumerStates] /\ consumer'[w].msg = consumer[w].msg
        /\ \A v \in Consumers : v # w => consumer'[v] = consumer[v]
    BY <1>0, <2>2, <2>4, <2>5 DEF WorldTyped
  <2>7. HandsWired'
    BY <1>0, <2>1, <2>6 DEF HandsWired, Messages
  <2>8. Typed'
    BY <1>0, <2>1, <2>6 DEF Typed, DebouncerTyped, WorldTyped, DebouncerSame
  <2>9. Quiet
    BY <2>1, SameVersions DEF Quiet
  <2> QED
    BY <2>7, <2>8, <2>9 DEF Sound, Kinds
<1>4. CASE DebounceMarked(w)
  <2>1. /\ consumer[w].pc = "debounce" /\ consumer' = [consumer EXCEPT ![w] = Idle]
        /\ Debounce(msgs[consumer[w].msg].space, consumer[w].msg, consumer[w].force)
        /\ reindex' = reindex /\ msgs' = msgs
        /\ version' = version /\ indexed' = indexed /\ givenUp' = givenUp
        /\ toggles' = toggles /\ crashes' = crashes /\ redeliveries' = redeliveries
    BY <1>4 DEF DebounceMarked, spaceVars, indexVars, faultVars
  <2>2. PICK m \in Messages : m = consumer[w].msg
    BY <1>0, <2>1 DEF HandsWired
  <2>3. msgs[m].kind = "enabled"
    BY <1>0, <2>1, <2>2 DEF HandsWired
  <2>4. PICK f \in BOOLEAN : f = consumer[w].force
    BY <1>0 DEF WorldTyped, ConsumerStates
  <2>5. PICK s \in Spaces : s = msgs[m].space
    BY <1>m DEF MessageStates
  <2>6. Debounce(s, m, f)
    BY <2>1, <2>2, <2>4, <2>5
  <2>7. DebouncerTyped' /\ (Schedules(s, m) \/ Joins(s, m))
    BY <1>0, <1>m, <2>6, DebounceKind
  <2>8. /\ consumer' \in [Consumers -> ConsumerStates] /\ consumer'[w].pc = "idle"
        /\ \A v \in Consumers : v # w => consumer'[v] = consumer[v]
    BY <1>0, <1>i, <2>1 DEF WorldTyped
  <2>9. HandsWired'
    BY <1>0, <2>1, <2>8 DEF HandsWired, Messages
  <2>10. Typed'
    BY <1>0, <2>1, <2>7, <2>8 DEF Typed, WorldTyped
  <2>11. NotLater
    BY <2>1, SameVersions
  <2>12. DebouncesEnabled(m)
    BY <2>1, <2>3, <2>5, <2>7, <2>11 DEF DebouncesEnabled, Debounces
  <2> QED
    BY <2>9, <2>10, <2>12 DEF Sound, Kinds, MessageStep
<1> QED
  BY <1>1, <1>2, <1>3, <1>4 DEF Handle

\* The space of a call that is not idle.
LEMMA CallOnSpace ==
    ASSUME Typed, Wired, NEW c \in Calls, call[c].pc # "idle"
    PROVE  /\ call[c].item \in Items /\ SpaceOf(c) \in Spaces
           /\ item[call[c].item].msg \in Messages
           /\ msgs[item[call[c].item].msg].space = SpaceOf(c)
<1>1. PICK i \in Items : call[c].item = i /\ item[i].msg # 0
  BY DEF Wired, RefsWired
<1>2. PICK m \in Nat : m = item[i].msg
  BY DEF Typed, DebouncerTyped, ItemStates
<1>3. m \in Messages /\ msgs[m].space = item[i].space
  BY <1>1, <1>2 DEF Wired, ItemsWired
<1>4. msgs[m] \in MessageStates
  BY <1>3, ElementOfSeq DEF Typed, WorldTyped, Messages
<1> QED
  BY <1>1, <1>2, <1>3, <1>4 DEF SpaceOf, MessageStates

\* Everything but the debouncer and the index is as it was.
WorldSame ==
    /\ msgs' = msgs /\ consumer' = consumer /\ reindex' = reindex /\ version' = version
    /\ toggles' = toggles /\ crashes' = crashes /\ redeliveries' = redeliveries

\* Such a step is sound when its kind is known.
LEMMA WorldSameSound ==
    ASSUME Typed, Wired, WorldSame, DebouncerTyped', CallStep,
           indexed' \in [Spaces -> Nat], givenUp' \in [Spaces -> Nat]
    PROVE  Sound
<1>1. HandsWired'
  <2>1. HandsWired /\ Len(msgs) \in Nat
    BY DEF Wired, Typed, WorldTyped
  <2> QED
    BY <2>1, HandsKept DEF WorldSame
<1>2. Typed'
  BY DEF Typed, WorldTyped, WorldSame
<1> QED
  BY <1>1, <1>2 DEF Sound, Kinds

\* The runs of the debouncer.
LEMMA RunKind ==
    ASSUME Typed, Wired,
           \/ \E i \in Items : Timer(i)
           \/ \E c \in Calls : Work(c) \/ IndexSpace(c)
    PROVE  Sound
<1>0. /\ DebouncerTyped /\ indexed \in [Spaces -> Nat] /\ givenUp \in [Spaces -> Nat]
      /\ version \in [Spaces -> Nat]
  BY DEF Typed, WorldTyped
<1>1. ASSUME NEW i \in Items, Timer(i) PROVE Sound
  <2>1. TimerFires(i) \/ TimeoutFires(i)
    BY <1>1 DEF Timer
  <2>2. WorldSame /\ indexed' = indexed /\ givenUp' = givenUp
    BY <1>1 DEF Timer, WorldSame, spaceVars, indexVars, faultVars
  <2>3. NotLater /\ msgs' = msgs
    BY <2>2, SameVersions DEF WorldSame
  <2>4. /\ DebouncerTyped' /\ Ticks(i)
        /\ pending' = pending /\ acking' = acking
        /\ \A j \in Items : ItemKept(j)
        /\ \A j \in Items \ {i} : item'[j] = item[j]
        /\ \E c \in Calls : /\ call[c].pc = "idle" /\ OthersKept(c)
                            /\ call'[c].pc = "load" /\ call'[c].item = i
    BY <1>0, <2>1, TimerKind
  <2>5. \E c \in Calls : Fires(i, c)
    BY <2>3, <2>4 DEF Fires
  <2> QED
    BY <1>0, <2>2, <2>4, <2>5, WorldSameSound DEF CallStep
<1>2. ASSUME NEW c \in Calls, Work(c) PROVE Sound
  <2>1. WorldSame /\ indexed' = indexed /\ givenUp' = givenUp
    BY <1>2 DEF Work, WorldSame, spaceVars, indexVars, faultVars
  <2>2. NotLater /\ msgs' = msgs
    BY <2>1, SameVersions DEF WorldSame
  <2>3. CASE Load(c)
    <3>1. DebouncerTyped' /\ Looks(c)
      BY <1>0, <2>2, <2>3, LoadKind
    <3> QED
      BY <1>0, <2>1, <3>1, WorldSameSound DEF CallStep
  <2>4. CASE Reschedule(c)
    <3>1. SpaceOf(c) \in Spaces
      BY <2>4, CallOnSpace DEF Reschedule
    <3>2. DebouncerTyped' /\ Restarts(c)
      BY <1>0, <2>2, <2>4, <3>1, RescheduleKind
    <3> QED
      BY <1>0, <2>1, <3>2, WorldSameSound DEF CallStep
  <2>5. CASE Take(c, version[SpaceOf(c)])
    <3>1. call[c].item \in Items /\ SpaceOf(c) \in Spaces
      BY <2>5, CallOnSpace DEF Take
    <3>2. PICK v \in Nat : v = version[SpaceOf(c)]
      BY <1>0, <3>1
    <3>3. Take(c, v)
      BY <2>5, <3>2
    <3>4. DebouncerTyped' /\ Takes(c)
      BY <1>0, <2>2, <3>1, <3>2, <3>3, TakeKind
    <3> QED
      BY <1>0, <2>1, <3>4, WorldSameSound DEF CallStep
  <2> QED
    BY <1>2, <2>3, <2>4, <2>5 DEF Work
<1>3. ASSUME NEW c \in Calls, IndexSpace(c) PROVE Sound
  <2>1. Finish(c) /\ WorldSame
    BY <1>3 DEF IndexSpace, WorldSame, spaceVars, faultVars
  <2>2. /\ DebouncerTyped' /\ call[c].pc = "run" /\ call'[c].pc = "idle" /\ OthersKept(c)
        /\ pending' = pending /\ acking' = acking \cup {item[call[c].item].msg}
        /\ \A j \in Items : ItemFreed(j) \/ item'[j] = item[j]
    BY <1>0, <2>1, FinishKind
  <2>3. PICK s \in Spaces : s = SpaceOf(c)
    BY <2>2, CallOnSpace
  <2>4. PICK v \in Nat : v = call[c].snap
    BY <1>0 DEF DebouncerTyped, CallStates
  <2>5. PICK a \in Nat : a = Max({indexed[s], v})
    BY <1>0, MaxOfTwo
  <2>6. PICK b \in Nat : b = Max({givenUp[s], v})
    BY <1>0, MaxOfTwo
  <2>7. a >= v /\ a >= indexed[s] /\ b >= v /\ b >= givenUp[s]
    BY <1>0, <2>5, <2>6, MaxOfTwo
  <2>8. \/ indexed' = [indexed EXCEPT ![s] = a] /\ givenUp' = givenUp
        \/ givenUp' = [givenUp EXCEPT ![s] = b] /\ indexed' = indexed
    BY <1>3, <2>3, <2>4, <2>5, <2>6 DEF IndexSpace
  <2>9. indexed' \in [Spaces -> Nat] /\ givenUp' \in [Spaces -> Nat]
    BY <1>0, <2>8
  <2>10. \A r \in Spaces : Lags(r)' => (Lags(r) /\ (r = s => v # version[r]))
    <3>1. version' = version
      BY <2>1 DEF WorldSame
    <3>2. CASE indexed' = [indexed EXCEPT ![s] = a] /\ givenUp' = givenUp
      BY <1>0, <2>7, <3>1, <3>2 DEF Lags
    <3>3. CASE givenUp' = [givenUp EXCEPT ![s] = b] /\ indexed' = indexed
      BY <1>0, <2>7, <3>1, <3>3 DEF Lags
    <3> QED
      BY <2>8, <3>2, <3>3
  <2>11. Finishes(c)
    <3>1. NotLater /\ msgs' = msgs
      BY <2>1, <2>10 DEF NotLater, WorldSame
    <3> QED
      BY <2>2, <2>3, <2>4, <2>10, <3>1 DEF Finishes
  <2> QED
    BY <2>1, <2>2, <2>9, <2>11, WorldSameSound DEF CallStep
<1> QED
  BY <1>1, <1>2, <1>3

\* A reindex request that goes on.
LEMMA ReindexReplaced ==
    ASSUME Typed, Wired, NEW x \in Reindexers, NEW r \in ReindexStates,
           reindex' = [reindex EXCEPT ![x] = r], r.pc # "idle" => r.space \in Spaces,
           consumer' = consumer, msgs' = msgs, DebouncerSame,
           toggles' = toggles, crashes' = crashes, redeliveries' = redeliveries,
           indexed' \in [Spaces -> Nat], givenUp' = givenUp, NotLater
    PROVE  Sound
<1>1. HandsWired /\ DebouncerTyped /\ WorldTyped /\ version' = version
  BY DEF Wired, Typed, NotLater
<1>2. reindex' \in [Reindexers -> ReindexStates]
      /\ \A y \in Reindexers : reindex'[y] = IF y = x THEN r ELSE reindex[y]
  BY <1>1 DEF WorldTyped
<1>3. HandsWired'
  BY <1>1, <1>2 DEF HandsWired, Messages
<1>4. Typed'
  BY <1>1, <1>2 DEF Typed, DebouncerTyped, WorldTyped, DebouncerSame
<1> QED
  BY <1>3, <1>4 DEF Sound, Kinds, Quiet

\* The reindex requests.
LEMMA ReindexKind ==
    ASSUME Typed, Wired, NEW x \in Reindexers,
           \/ \E s \in Spaces, force \in BOOLEAN : ListSpaces(x, s, force)
           \/ ReindexSpace(x) \/ MarkRead(x) \/ MarkPut(x) \/ MarkFails(x)
    PROVE  Sound
<1>0. HandsWired /\ WorldTyped
  BY DEF Wired, Typed
<1>n. NoReindex \in ReindexStates /\ NoReindex.pc = "idle"
  BY DEF NoReindex, ReindexStates
<1>1. CASE \E s \in Spaces, force \in BOOLEAN : ListSpaces(x, s, force)
  <2>1. PICK s \in Spaces, force \in BOOLEAN : ListSpaces(x, s, force)
    BY <1>1
  <2>2. PICK r : r = [pc |-> IF s \in disabled THEN "mark" ELSE "index",
                      space |-> s, force |-> force]
    OBVIOUS
  <2>3. r \in ReindexStates /\ r.space = s
    BY <2>2 DEF ReindexStates
  <2>4. /\ reindex' = [reindex EXCEPT ![x] = r]
        /\ consumer' = consumer /\ msgs' = msgs /\ DebouncerSame
        /\ version' = version /\ indexed' = indexed /\ givenUp' = givenUp
        /\ toggles' = toggles /\ crashes' = crashes /\ redeliveries' = redeliveries
    BY <2>1, <2>2 DEF ListSpaces, spaceVars, indexVars, faultVars, debouncerVars, DebouncerSame
  <2>5. NotLater /\ indexed' \in [Spaces -> Nat]
    BY <1>0, <2>4, SameVersions DEF WorldTyped
  <2> QED
    BY <2>3, <2>4, <2>5, ReindexReplaced
<1>2. CASE ReindexSpace(x)
  <2>1. /\ reindex' = [reindex EXCEPT ![x] = NoReindex]
        /\ consumer' = consumer /\ msgs' = msgs /\ DebouncerSame
        /\ version' = version /\ givenUp' = givenUp
        /\ toggles' = toggles /\ crashes' = crashes /\ redeliveries' = redeliveries
    BY <1>2 DEF ReindexSpace, spaceVars, indexVars, faultVars, debouncerVars, DebouncerSame
  <2>2. PICK s \in Spaces : s = reindex[x].space
    BY <1>0, <1>2 DEF HandsWired, ReindexSpace
  <2>3. indexed' = indexed \/ indexed' = [indexed EXCEPT ![s] = version[s]]
    BY <1>2, <2>2 DEF ReindexSpace
  <2>4. indexed' \in [Spaces -> Nat]
    BY <1>0, <2>3 DEF WorldTyped
  <2>5. NotLater
    <3>1. version \in [Spaces -> Nat] /\ indexed \in [Spaces -> Nat]
      BY <1>0 DEF WorldTyped
    <3>2. \A r \in Spaces : indexed'[r] = indexed[r] \/ indexed'[r] = version[r]
      BY <2>3, <3>1
    <3> QED
      BY <2>1, <3>1, <3>2 DEF NotLater, Lags
  <2> QED
    BY <1>n, <2>1, <2>4, <2>5, ReindexReplaced
<1>3. CASE MarkRead(x)
  <2>1. PICK a \in ReindexStates : a = reindex[x]
    BY <1>0 DEF WorldTyped
  <2>2. PICK b : b = [a EXCEPT !.pc = "put"]
    OBVIOUS
  <2>3. b \in ReindexStates /\ b.space = a.space
    BY <2>1, <2>2 DEF ReindexStates
  <2>4. a.pc = "mark" /\ a.space \in Spaces
    BY <1>0, <1>3, <2>1 DEF MarkRead, HandsWired
  <2>5. PICK r : r = IF mark[a.space] = "forced" THEN NoReindex ELSE b
    OBVIOUS
  <2>6. r \in ReindexStates /\ (r.pc # "idle" => r.space \in Spaces)
    BY <1>n, <2>3, <2>4, <2>5
  <2>7. reindex' = [reindex EXCEPT ![x] = r]
    BY <1>3, <2>1, <2>2, <2>5 DEF MarkRead
  <2>8. /\ consumer' = consumer /\ msgs' = msgs /\ DebouncerSame
        /\ version' = version /\ indexed' = indexed /\ givenUp' = givenUp
        /\ toggles' = toggles /\ crashes' = crashes /\ redeliveries' = redeliveries
    BY <1>3 DEF MarkRead, spaceVars, indexVars, faultVars, debouncerVars, DebouncerSame
  <2>9. NotLater /\ indexed' \in [Spaces -> Nat]
    BY <1>0, <2>8, SameVersions DEF WorldTyped
  <2> QED
    BY <2>6, <2>7, <2>8, <2>9, ReindexReplaced
<1>4. CASE MarkPut(x) \/ MarkFails(x)
  <2>1. /\ reindex' = [reindex EXCEPT ![x] = NoReindex]
        /\ consumer' = consumer /\ msgs' = msgs /\ DebouncerSame
        /\ version' = version /\ indexed' = indexed /\ givenUp' = givenUp
        /\ toggles' = toggles /\ crashes' = crashes /\ redeliveries' = redeliveries
    BY <1>4 DEF MarkPut, MarkFails, spaceVars, indexVars, faultVars, debouncerVars, DebouncerSame
  <2>2. NotLater /\ indexed' \in [Spaces -> Nat]
    BY <1>0, <2>1, SameVersions DEF WorldTyped
  <2> QED
    BY <1>n, <2>1, <2>2, ReindexReplaced
<1> QED
  BY <1>1, <1>2, <1>3, <1>4

\* A crash.
LEMMA CrashKind ==
    ASSUME Typed, Wired, Crash
    PROVE  Sound
<1>0. WorldTyped
  BY DEF Typed
<1>1. /\ crashes < MaxCrashes /\ crashes' = crashes + 1
      /\ pending' = [s \in Spaces |-> NoItem] /\ item' = [i \in Items |-> IdleItem]
      /\ call' = [c \in Calls |-> IdleCall] /\ acking' = {}
      /\ consumer' = [w \in Consumers |-> Idle]
      /\ reindex' = [x \in Reindexers |-> NoReindex]
      /\ version' = version /\ indexed' = indexed /\ givenUp' = givenUp
      /\ toggles' = toggles /\ redeliveries' = redeliveries
  BY DEF Crash, spaceVars, indexVars
<1>2. /\ IdleItem \in ItemStates /\ IdleCall \in CallStates /\ Idle \in ConsumerStates
      /\ NoReindex \in ReindexStates /\ Idle.pc = "idle" /\ NoReindex.pc = "idle"
  BY DEF IdleItem, ItemStates, IdleCall, CallStates, Idle, ConsumerStates, NoReindex,
         ReindexStates, NoItem
<1>3. /\ msgs' \in Seq(MessageStates) /\ Len(msgs') = Len(msgs)
      /\ \A n \in Messages :
            /\ msgs'[n].kind = msgs[n].kind /\ msgs'[n].space = msgs[n].space
            /\ msgs'[n].state # "out"
            /\ msgs[n].state \in {"stream", "out"} => msgs'[n].state = "stream"
  BY CrashMessages
<1>4. Typed'
  BY <1>0, <1>1, <1>2, <1>3 DEF Typed, DebouncerTyped, WorldTyped
<1>5. HandsWired'
  BY <1>1, <1>2 DEF HandsWired
<1>6. Crashes
  BY <1>1, <1>3, SameVersions DEF Crashes
<1> QED
  BY <1>4, <1>5, <1>6 DEF Sound, Kinds

\* Every step is of one of the kinds.
LEMMA NextKind ==
    ASSUME Typed, Wired, [Next]_vars
    PROVE  Sound
<1>1. CASE Next
  BY <1>1, StreamKind, HandleKind, RunKind, ReindexKind, CrashKind DEF Next
<1>2. CASE UNCHANGED vars
  <2>1. /\ pending' = pending /\ item' = item /\ call' = call /\ acking' = acking
        /\ msgs' = msgs /\ consumer' = consumer /\ reindex' = reindex
        /\ version' = version /\ indexed' = indexed /\ givenUp' = givenUp
        /\ toggles' = toggles /\ crashes' = crashes /\ redeliveries' = redeliveries
    BY <1>2 DEF vars, debouncerVars, spaceVars, indexVars, faultVars
  <2>2. Typed'
    BY <2>1 DEF Typed, DebouncerTyped, WorldTyped
  <2>3. HandsWired'
    BY <2>1 DEF Wired, HandsWired, Messages
  <2>4. Quiet
    BY <2>1, SameVersions DEF Quiet, DebouncerSame
  <2> QED
    BY <2>2, <2>3, <2>4 DEF Sound, Kinds
<1> QED
  BY <1>1, <1>2

-----------------------------------------------------------------------------
(* ScheduledWillRun. *)

\* What holds of an item that is not in use.
LEMMA IdleItemFields == IdleItem.msg = 0 /\ ~IdleItem.t /\ ~IdleItem.timeout
BY DEF IdleItem

\* Messages keep their kind and space.
LEMMA MessagesStay ==
    ASSUME Typed, Sound
    PROVE  /\ Messages \subseteq Messages'
           /\ \A m \in Messages : msgs'[m].kind = msgs[m].kind /\ msgs'[m].space = msgs[m].space
<1>1. Len(msgs) \in Nat
  BY DEF Typed, WorldTyped
<1>2. CASE MessageStep
  <2>1. ASSUME NEW s \in Spaces, Changes(s) \/ Enables(s)
        PROVE  /\ Messages \subseteq Messages' /\ \A m \in Messages : msgs'[m] = msgs[m]
    BY <1>1, <2>1 DEF Changes, Enables, Publishes, Messages
  <2>2. ASSUME NEW m \in Messages,
               \/ Acknowledges(m) \/ Redelivers(m) \/ TakesEnabled(m)
               \/ TakesChanged(m) \/ DebouncesEnabled(m)
        PROVE  msgs' = msgs \/ Moves(m, "acked") \/ Moves(m, "stream") \/ Moves(m, "out")
    BY <2>2 DEF Acknowledges, Redelivers, TakesEnabled, TakesChanged, DebouncesEnabled
  <2>3. CASE \E s \in Spaces : Changes(s) \/ Enables(s)
    BY <2>1, <2>3
  <2>4. CASE \E m \in Messages : msgs' = msgs \/ Moves(m, "acked")
                                 \/ Moves(m, "stream") \/ Moves(m, "out")
    BY <1>1, <2>4 DEF Moves, Messages
  <2> QED
    BY <1>2, <2>2, <2>3, <2>4 DEF MessageStep
<1>3. CASE CallStep \/ Quiet
  <2>1. msgs' = msgs
    BY <1>3 DEF CallStep, Quiet, Fires, Looks, Restarts, Takes, Finishes
  <2> QED
    BY <2>1 DEF Messages
<1>4. CASE Crashes
  BY <1>4 DEF Crashes, Messages
<1> QED
  BY <1>2, <1>3, <1>4 DEF Sound, Kinds

\* The items in use, and who refers to them.
LEMMA ItemsStep ==
    ASSUME Typed, Wired, Sound
    PROVE  ItemsWired' /\ RefsWired'
<1>0. ItemsWired /\ RefsWired /\ DebouncerTyped /\ Typed' /\ DebouncerTyped'
  BY DEF Wired, Sound, Typed
<1>s. /\ Messages \subseteq Messages'
      /\ \A m \in Messages : msgs'[m].kind = msgs[m].kind /\ msgs'[m].space = msgs[m].space
  BY MessagesStay
<1>1. CASE DebouncerSame \/ \E m \in Messages : Acknowledges(m)
  <2>1. pending' = pending /\ item' = item /\ call' = call
    BY <1>1 DEF DebouncerSame, Acknowledges
  <2> QED
    BY <1>0, <1>s, <2>1 DEF ItemsWired, RefsWired
<1>2. ASSUME NEW m \in Messages, NEW s \in Spaces, s = msgs[m].space, Schedules(s, m)
      PROVE  ItemsWired' /\ RefsWired'
  <2>1. PICK i \in Items :
          /\ item[i].msg = 0
          /\ pending' = [pending EXCEPT ![s] = i]
          /\ item'[i].msg = m /\ item'[i].space = s /\ item'[i].t
          /\ \A j \in Items \ {i} : item'[j] = item[j]
    BY <1>2 DEF Schedules
  <2>2. call' = call /\ m # 0 /\ m \in Nat
    BY <1>2 DEF Schedules, Messages
  <2>3. ItemsWired'
    BY <1>0, <1>2, <1>s, <2>1, <2>2 DEF ItemsWired
  <2>4. \A r \in Spaces, j \in Items : pending'[r] = j => (item'[j].msg # 0 /\ item'[j].space = r)
    BY <1>0, <2>1, <2>2 DEF RefsWired, DebouncerTyped
  <2>5. \A c \in Calls : call'[c].pc # "idle" =>
          /\ call'[c].item \in Items
          /\ \A j \in Items : call'[c].item = j => item'[j].msg # 0
    BY <1>0, <2>1, <2>2 DEF RefsWired
  <2> QED
    BY <2>3, <2>4, <2>5 DEF RefsWired
<1>3. ASSUME NEW m, NEW s \in Spaces, Joins(s, m) PROVE ItemsWired' /\ RefsWired'
  <2>1. pending' = pending /\ call' = call /\ \A j \in Items : ItemKept(j)
    BY <1>3 DEF Joins
  <2>2. \A j \in Items : (item'[j].t \/ item'[j].timeout) => item'[j].msg # 0
    BY <1>0, <1>3 DEF Joins, ItemKept, ItemsWired, RefsWired
  <2>3. ItemsWired'
    BY <1>0, <1>s, <2>1, <2>2 DEF ItemsWired, ItemKept
  <2> QED
    BY <1>0, <2>1, <2>3 DEF RefsWired, ItemKept
<1>4. CASE MessageStep
  <2>1. ASSUME NEW m \in Messages, TakesChanged(m) \/ DebouncesEnabled(m)
        PROVE  ItemsWired' /\ RefsWired'
    <3>1. PICK s \in Spaces : s = msgs[m].space /\ (Schedules(s, m) \/ Joins(s, m))
      BY <2>1 DEF TakesChanged, DebouncesEnabled, Debounces
    <3> QED
      BY <3>1, <1>2, <1>3
  <2>2. ASSUME NEW s \in Spaces, Changes(s) \/ Enables(s) PROVE DebouncerSame
    BY <2>2 DEF Changes, Enables, Publishes
  <2>3. ASSUME NEW m \in Messages, Redelivers(m) \/ TakesEnabled(m) PROVE DebouncerSame
    BY <2>3 DEF Redelivers, TakesEnabled
  <2> QED
    BY <1>1, <1>4, <2>1, <2>2, <2>3 DEF MessageStep
<1>5. ASSUME NEW i \in Items, NEW c \in Calls, Fires(i, c) PROVE ItemsWired' /\ RefsWired'
  <2>1. /\ pending' = pending /\ Ticks(i) /\ (\A j \in Items : ItemKept(j))
        /\ (\A j \in Items \ {i} : item'[j] = item[j])
        /\ call'[c].item = i /\ OthersKept(c)
    BY <1>5 DEF Fires
  <2>2. item[i].msg # 0
    BY <1>0, <2>1 DEF ItemsWired, Ticks
  <2>3. ItemsWired'
    BY <1>0, <1>s, <2>1, <2>2 DEF ItemsWired, ItemKept
  <2> QED
    BY <1>0, <2>1, <2>2, <2>3 DEF RefsWired, ItemKept, OthersKept
<1>6. ASSUME NEW c \in Calls, Looks(c) PROVE ItemsWired' /\ RefsWired'
  <2>1. /\ pending' = pending /\ item' = item /\ call[c].pc = "load"
        /\ call'[c].item = call[c].item /\ OthersKept(c)
    BY <1>6 DEF Looks
  <2> QED
    BY <1>0, <1>s, <2>1 DEF ItemsWired, RefsWired, OthersKept
<1>7. ASSUME NEW c \in Calls, Restarts(c) PROVE ItemsWired' /\ RefsWired'
  <2>1. /\ pending' = pending /\ call'[c].pc = "idle" /\ OthersKept(c)
        /\ \A j \in Items :
             \/ ItemFreed(j)
             \/ ItemKept(j) /\ (Ticks(j)' => (Ticks(j) \/ \E s \in Spaces : pending[s] = j))
    BY <1>7 DEF Restarts
  <2>2. \A j \in Items : (item'[j].t \/ item'[j].timeout) => item'[j].msg # 0
    BY <1>0, <2>1, IdleItemFields DEF ItemsWired, RefsWired, ItemFreed, ItemKept, Ticks
  <2>3. ItemsWired'
    BY <1>0, <1>s, <2>1, <2>2, IdleItemFields DEF ItemsWired, ItemKept, ItemFreed
  <2>4. \A s \in Spaces, j \in Items : pending'[s] = j => (item'[j].msg # 0 /\ item'[j].space = s)
    BY <1>0, <2>1 DEF RefsWired, ItemFreed, ItemKept
  <2>5. \A d \in Calls : call'[d].pc # "idle" =>
          /\ call'[d].item \in Items
          /\ \A j \in Items : call'[d].item = j => item'[j].msg # 0
    BY <1>0, <2>1 DEF RefsWired, ItemFreed, ItemKept, OthersKept
  <2> QED
    BY <2>3, <2>4, <2>5 DEF RefsWired
<1>8. ASSUME NEW c \in Calls, Takes(c) PROVE ItemsWired' /\ RefsWired'
  <2>1. /\ call[c].pc = "lock" /\ call'[c].item = call[c].item /\ OthersKept(c)
        /\ \A s \in Spaces : pending'[s] = NoItem \/ pending'[s] = pending[s]
        /\ \A j \in Items : ItemKept(j) /\ (Ticks(j)' => Ticks(j))
    BY <1>8 DEF Takes
  <2>2. ItemsWired'
    BY <1>0, <1>s, <2>1 DEF ItemsWired, ItemKept, Ticks
  <2> QED
    BY <1>0, <2>1, <2>2, NoItemIsNone DEF RefsWired, ItemKept, OthersKept
<1>9. ASSUME NEW c \in Calls, Finishes(c) PROVE ItemsWired' /\ RefsWired'
  <2>1. /\ pending' = pending /\ call'[c].pc = "idle" /\ OthersKept(c)
        /\ \A j \in Items : ItemFreed(j) \/ item'[j] = item[j]
    BY <1>9 DEF Finishes
  <2>2. ItemsWired'
    BY <1>0, <1>s, <2>1, IdleItemFields DEF ItemsWired, ItemFreed
  <2>3. \A s \in Spaces, j \in Items : pending'[s] = j => (item'[j].msg # 0 /\ item'[j].space = s)
    BY <1>0, <2>1 DEF RefsWired, ItemFreed
  <2>4. \A d \in Calls : call'[d].pc # "idle" =>
          /\ call'[d].item \in Items
          /\ \A j \in Items : call'[d].item = j => item'[j].msg # 0
    BY <1>0, <2>1 DEF RefsWired, ItemFreed, OthersKept
  <2> QED
    BY <2>2, <2>3, <2>4 DEF RefsWired
<1>10. CASE Crashes
  <2>1. /\ \A s \in Spaces : pending'[s] = NoItem
        /\ \A i \in Items : item'[i] = IdleItem
        /\ \A c \in Calls : call'[c].pc = "idle"
    BY <1>10 DEF Crashes, IdleCall
  <2> QED
    BY <2>1, IdleItemFields, NoItemIsNone DEF ItemsWired, RefsWired
<1>11. CASE Quiet
  BY <1>1, <1>11 DEF Quiet
<1> QED
  BY <1>4, <1>5, <1>6, <1>7, <1>8, <1>9, <1>10, <1>11 DEF Sound, Kinds, CallStep

\* Only messages are acknowledged.
LEMMA AckingStep ==
    ASSUME Typed, Wired, Sound
    PROVE  (acking \subseteq Messages)'
<1>0. acking \subseteq Messages
  BY DEF Wired
<1>1. Messages \subseteq Messages'
  BY MessagesStay
<1>2. acking' \subseteq Messages
  <2>1. CASE MessageStep
    <3>1. ASSUME NEW s \in Spaces, Changes(s) \/ Enables(s) PROVE acking' = acking
      BY <3>1 DEF Changes, Enables, Publishes, DebouncerSame
    <3>2. ASSUME NEW m \in Messages,
                 \/ Acknowledges(m) \/ Redelivers(m) \/ TakesEnabled(m)
                 \/ TakesChanged(m) \/ DebouncesEnabled(m)
          PROVE  acking' \subseteq acking \cup {m}
      BY <3>2 DEF Acknowledges, Redelivers, TakesEnabled, TakesChanged, DebouncesEnabled,
                  Debounces, Schedules, Joins, DebouncerSame
    <3> QED
      BY <1>0, <2>1, <3>1, <3>2 DEF MessageStep
  <2>2. ASSUME NEW c \in Calls, Finishes(c) PROVE acking' \subseteq Messages
    <3>1. item[call[c].item].msg \in Messages /\ acking' = acking \cup {item[call[c].item].msg}
      BY <2>2, CallOnSpace DEF Finishes
    <3> QED
      BY <1>0, <3>1
  <2>3. CASE CallStep
    BY <1>0, <2>2, <2>3 DEF CallStep, Fires, Looks, Restarts, Takes
  <2>4. CASE Crashes \/ Quiet
    BY <1>0, <2>4 DEF Crashes, Quiet, DebouncerSame
  <2> QED
    BY <2>1, <2>3, <2>4 DEF Sound, Kinds
<1> QED
  BY <1>1, <1>2

\* Call c is on its way to the schedule of s.
Coming(c, s) ==
    /\ call[c].pc \in {"load", "again", "lock"}
    /\ \E j \in Items : call[c].item = j /\ item[j].space = s

\* ScheduledWillRun, item by item.
Awaited ==
    \A s \in Spaces, i \in Items : pending[s] = i =>
        (Ticks(i) \/ \E c \in Calls : Coming(c, s))

\* Awaited is ScheduledWillRun, put in terms of items.
LEMMA AwaitedIsScheduled ==
    ASSUME Typed, Wired
    PROVE  Awaited <=> ScheduledWillRun
<1>1. \A s \in Spaces : pending[s] # NoItem <=> \E i \in Items : pending[s] = i
  BY NoItemIsNone DEF Typed, DebouncerTyped
<1>2. \A c \in Calls, s \in Spaces :
        Coming(c, s) <=> (call[c].pc \in {"load", "again", "lock"} /\ SpaceOf(c) = s)
  BY CallOnSpace DEF Coming, SpaceOf
<1> QED
  BY <1>1, <1>2 DEF Awaited, ScheduledWillRun, Ticks

\* What is scheduled is taken.
LEMMA AwaitedStep ==
    ASSUME Typed, Wired, Awaited, Sound
    PROVE  Awaited'
<1>0. ItemsWired /\ RefsWired /\ DebouncerTyped /\ DebouncerTyped'
  BY DEF Wired, Sound, Typed
<1> SUFFICES ASSUME NEW s \in Spaces, NEW i \in Items, pending'[s] = i
             PROVE  Ticks(i)' \/ \E c \in Calls : Coming(c, s)'
  BY DEF Awaited
<1>1. CASE DebouncerSame \/ \E m \in Messages : Acknowledges(m)
  <2>1. pending' = pending /\ item' = item /\ call' = call
    BY <1>1 DEF DebouncerSame, Acknowledges
  <2> QED
    BY <2>1 DEF Awaited, Ticks, Coming
<1>2. ASSUME NEW m \in Messages, NEW r \in Spaces, Schedules(r, m)
      PROVE  Ticks(i)' \/ \E c \in Calls : Coming(c, s)'
  <2>1. PICK k \in Items :
          /\ item[k].msg = 0
          /\ pending' = [pending EXCEPT ![r] = k]
          /\ item'[k].t
          /\ \A j \in Items \ {k} : item'[j] = item[j]
    BY <1>2 DEF Schedules
  <2>2. CASE i = k
    BY <2>1, <2>2 DEF Ticks
  <2>3. CASE i # k
    <3>1. pending[s] = i /\ item'[i] = item[i]
      BY <1>0, <2>1, <2>3 DEF DebouncerTyped
    <3>2. ASSUME NEW c \in Calls, Coming(c, s) PROVE Coming(c, s)'
      <4>1. call' = call
        BY <1>2 DEF Schedules
      <4>2. \A j \in Items : call[c].item = j => item'[j] = item[j]
        BY <1>0, <2>1, <3>2 DEF RefsWired, Coming
      <4> QED
        BY <3>2, <4>1, <4>2 DEF Coming
    <3> QED
      BY <3>1, <3>2 DEF Awaited, Ticks
  <2> QED
    BY <2>2, <2>3
<1>3. ASSUME NEW m, NEW r \in Spaces, Joins(r, m)
      PROVE  Ticks(i)' \/ \E c \in Calls : Coming(c, s)'
  <2>1. /\ pending' = pending /\ call' = call /\ \A j \in Items : ItemKept(j)
        /\ \A j \in Items : item'[j].t \/ item'[j] = item[j]
    BY <1>3 DEF Joins
  <2>2. \A c \in Calls : Coming(c, s) => Coming(c, s)'
    BY <2>1 DEF Coming, ItemKept
  <2> QED
    BY <2>1, <2>2 DEF Awaited, Ticks
<1>4. CASE MessageStep
  <2>1. ASSUME NEW m \in Messages, TakesChanged(m) \/ DebouncesEnabled(m)
        PROVE  \E r \in Spaces : Schedules(r, m) \/ Joins(r, m)
    BY <2>1 DEF TakesChanged, DebouncesEnabled, Debounces
  <2>2. ASSUME NEW r \in Spaces, Changes(r) \/ Enables(r) PROVE DebouncerSame
    BY <2>2 DEF Changes, Enables, Publishes
  <2>3. ASSUME NEW m \in Messages, Redelivers(m) \/ TakesEnabled(m) PROVE DebouncerSame
    BY <2>3 DEF Redelivers, TakesEnabled
  <2> QED
    BY <1>1, <1>2, <1>3, <1>4, <2>1, <2>2, <2>3 DEF MessageStep
<1>5. ASSUME NEW k \in Items, NEW c \in Calls, Fires(k, c)
      PROVE  Ticks(i)' \/ \E d \in Calls : Coming(d, s)'
  <2>1. /\ pending' = pending /\ Ticks(k) /\ (\A j \in Items : ItemKept(j))
        /\ (\A j \in Items \ {k} : item'[j] = item[j])
        /\ call[c].pc = "idle" /\ call'[c].item = k /\ call'[c].pc = "load" /\ OthersKept(c)
    BY <1>5 DEF Fires
  <2>2. CASE i = k
    <3>1. item'[k].space = s
      BY <1>0, <2>1, <2>2 DEF RefsWired, ItemKept
    <3>2. Coming(c, s)'
      BY <2>1, <3>1 DEF Coming
    <3> QED
      BY <3>2
  <2>3. CASE i # k
    <3>1. \A d \in Calls : Coming(d, s) => Coming(d, s)'
      BY <2>1 DEF Coming, ItemKept, OthersKept
    <3> QED
      BY <2>1, <2>3, <3>1 DEF Awaited, Ticks
  <2> QED
    BY <2>2, <2>3
<1>6. ASSUME NEW c \in Calls, Looks(c)
      PROVE  Ticks(i)' \/ \E d \in Calls : Coming(d, s)'
  <2>1. /\ pending' = pending /\ item' = item /\ call'[c].pc \in {"again", "lock"}
        /\ call'[c].item = call[c].item /\ OthersKept(c)
    BY <1>6 DEF Looks
  <2>2. \A d \in Calls : Coming(d, s) => Coming(d, s)'
    BY <2>1 DEF Coming, OthersKept
  <2> QED
    BY <2>1, <2>2 DEF Awaited, Ticks
<1>7. ASSUME NEW c \in Calls, Restarts(c)
      PROVE  Ticks(i)' \/ \E d \in Calls : Coming(d, s)'
  <2>1. /\ pending' = pending /\ call'[c].pc = "idle" /\ OthersKept(c)
        /\ \A j \in Items : ItemFreed(j) \/ (ItemKept(j) /\ (Ticks(j) => Ticks(j)'))
        /\ \A r \in Spaces, j \in Items : (r = SpaceOf(c) /\ pending[r] = j) => item'[j].t
    BY <1>7 DEF Restarts
  <2>2. CASE s = SpaceOf(c)
    BY <2>1, <2>2 DEF Ticks
  <2>3. CASE s # SpaceOf(c)
    <3>1. Ticks(i) => Ticks(i)'
      BY <2>1 DEF ItemFreed
    <3>2. ASSUME NEW d \in Calls, Coming(d, s) PROVE Coming(d, s)'
      <4>1. d # c
        BY <2>3, <3>2 DEF Coming, SpaceOf
      <4>2. call'[d] = call[d]
        BY <2>1, <4>1 DEF OthersKept
      <4>3. \A j \in Items : call[d].item = j => item'[j].space = item[j].space
        BY <2>1, <4>2 DEF ItemFreed, ItemKept
      <4> QED
        BY <3>2, <4>2, <4>3 DEF Coming
    <3> QED
      BY <2>1, <3>1, <3>2 DEF Awaited
  <2> QED
    BY <2>2, <2>3
<1>8. ASSUME NEW c \in Calls, Takes(c)
      PROVE  Ticks(i)' \/ \E d \in Calls : Coming(d, s)'
  <2>1. /\ call[c].pc = "lock" /\ call'[c].item = call[c].item /\ OthersKept(c)
        /\ \A r \in Spaces : r = SpaceOf(c) => pending'[r] = NoItem
        /\ \A r \in Spaces : r # SpaceOf(c) => pending'[r] = pending[r]
        /\ \A j \in Items : ItemKept(j)
        /\ \A j \in Items : call[c].item # j => item'[j] = item[j]
    BY <1>8 DEF Takes
  <2>2. s # SpaceOf(c) /\ pending[s] = i
    BY <2>1, NoItemIsNone
  <2>3. call[c].item # i
    BY <1>0, <2>2 DEF RefsWired, SpaceOf
  <2>4. Ticks(i) => Ticks(i)'
    BY <2>1, <2>3 DEF Ticks
  <2>5. ASSUME NEW d \in Calls, Coming(d, s) PROVE Coming(d, s)'
    <3>1. d # c
      BY <2>2, <2>5 DEF Coming, SpaceOf
    <3> QED
      BY <2>1, <2>5, <3>1 DEF Coming, OthersKept, ItemKept
  <2> QED
    BY <2>2, <2>4, <2>5 DEF Awaited
<1>9. ASSUME NEW c \in Calls, Finishes(c)
      PROVE  Ticks(i)' \/ \E d \in Calls : Coming(d, s)'
  <2>1. /\ pending' = pending /\ call[c].pc = "run" /\ OthersKept(c)
        /\ \A j \in Items : ItemFreed(j) \/ item'[j] = item[j]
    BY <1>9 DEF Finishes
  <2>2. Ticks(i) => Ticks(i)'
    BY <2>1 DEF Ticks, ItemFreed
  <2>3. ASSUME NEW d \in Calls, Coming(d, s) PROVE Coming(d, s)'
    <3>1. call'[d] = call[d]
      BY <2>1, <2>3 DEF Coming, OthersKept
    <3>2. \A j \in Items : call[d].item = j => item'[j] = item[j]
      BY <2>1, <3>1 DEF ItemFreed
    <3> QED
      BY <2>3, <3>1, <3>2 DEF Coming
  <2> QED
    BY <2>1, <2>2, <2>3 DEF Awaited
<1>10. CASE Crashes
  BY <1>10, NoItemIsNone DEF Crashes
<1>11. CASE Quiet
  BY <1>1, <1>11 DEF Quiet
<1> QED
  BY <1>4, <1>5, <1>6, <1>7, <1>8, <1>9, <1>10, <1>11 DEF Sound, Kinds, CallStep

\* The beginning.
LEMMA DebouncerInitially == Init => DebouncerInv
<1> SUFFICES ASSUME Init PROVE DebouncerInv
  OBVIOUS
<1>1. /\ pending = [s \in Spaces |-> NoItem] /\ item = [i \in Items |-> IdleItem]
      /\ call = [c \in Calls |-> IdleCall] /\ acking = {}
      /\ version = [s \in Spaces |-> 0] /\ indexed = [s \in Spaces |-> 0]
      /\ givenUp = [s \in Spaces |-> 0] /\ msgs = <<>>
      /\ consumer = [w \in Consumers |-> Idle] /\ reindex = [x \in Reindexers |-> NoReindex]
      /\ toggles = 0 /\ crashes = 0 /\ redeliveries = 0
  BY DEF Init, DebouncerInit
<1>2. /\ IdleItem \in ItemStates /\ IdleCall \in CallStates /\ Idle \in ConsumerStates
      /\ NoReindex \in ReindexStates /\ Idle.pc = "idle" /\ NoReindex.pc = "idle"
      /\ IdleCall.pc = "idle"
  BY DEF IdleItem, ItemStates, IdleCall, CallStates, Idle, ConsumerStates, NoReindex,
         ReindexStates, NoItem
<1>3. msgs \in Seq(MessageStates)
  BY <1>1, EmptySeq
<1>4. Typed
  BY <1>1, <1>2, <1>3 DEF Typed, DebouncerTyped, WorldTyped
<1>5. Wired
  BY <1>1, <1>2, IdleItemFields, NoItemIsNone
     DEF Wired, ItemsWired, RefsWired, HandsWired
<1>6. ScheduledWillRun
  BY <1>1 DEF ScheduledWillRun
<1> QED
  BY <1>4, <1>5, <1>6 DEF DebouncerInv

\* Every step keeps the debouncer's invariant, and is of a known kind.
LEMMA DebouncerStep == DebouncerInv /\ [Next]_vars => DebouncerInv' /\ Sound
<1> SUFFICES ASSUME DebouncerInv, [Next]_vars PROVE DebouncerInv' /\ Sound
  OBVIOUS
<1>1. Typed /\ Wired /\ Awaited
  BY AwaitedIsScheduled DEF DebouncerInv
<1>2. Sound
  BY <1>1, NextKind
<1>3. Wired'
  BY <1>1, <1>2, ItemsStep, AckingStep DEF Sound, Wired
<1>4. Awaited' /\ Typed'
  BY <1>1, <1>2, AwaitedStep DEF Sound
<1>5. ScheduledWillRun'
  BY <1>3, <1>4, AwaitedIsScheduled, PTL
<1> QED
  BY <1>2, <1>3, <1>4, <1>5 DEF DebouncerInv

\* In every behaviour of the search service's event consumer, with any number
\* of spaces, consumers, crashes, redeliveries and failures, a scheduled space
\* has a timer or a call that will take it (debouncer.go, Debounce and work).
THEOREM ScheduledWillRunAlways == Spec => []ScheduledWillRun
<1>1. DebouncerInv => ScheduledWillRun
  BY DEF DebouncerInv
<1> QED
  BY <1>1, DebouncerInitially, DebouncerStep, PTL DEF Spec

-----------------------------------------------------------------------------
(* What becomes of runs, of open messages and of the schedule. *)

\* A run begins with Takes and ends with Finishes or a crash; in between its
\* item stays.
RunStays(c) ==
    /\ call[c].pc = "run" <=> call'[c].pc = "run"
    /\ call[c].pc = "run" =>
          (call'[c] = call[c] /\ \A j \in Items : call[c].item = j => ItemKept(j))

\* A call that is not concerned by a step keeps its run.
LEMMA RunsStay ==
    ASSUME Typed, Wired, Sound, NEW c \in Calls
    PROVE  Takes(c) \/ Finishes(c) \/ Crashes \/ RunStays(c)
<1>0. RefsWired
  BY DEF Wired
<1>1. CASE DebouncerSame \/ \E m \in Messages : Acknowledges(m)
  BY <1>1 DEF DebouncerSame, Acknowledges, RunStays, ItemKept
<1>2. ASSUME NEW m \in Messages, NEW s \in Spaces, Schedules(s, m) \/ Joins(s, m)
      PROVE  RunStays(c)
  <2>1. call' = call
    BY <1>2 DEF Schedules, Joins
  <2>2. CASE Joins(s, m)
    BY <2>1, <2>2 DEF Joins, RunStays
  <2>3. CASE Schedules(s, m)
    <3>1. PICK i \in Items : item[i].msg = 0 /\ \A j \in Items \ {i} : item'[j] = item[j]
      BY <2>3 DEF Schedules
    <3>2. \A j \in Items : (call[c].pc = "run" /\ call[c].item = j) => j # i
      BY <1>0, <3>1 DEF RefsWired
    <3> QED
      BY <2>1, <3>1, <3>2 DEF RunStays, ItemKept
  <2> QED
    BY <1>2, <2>2, <2>3
<1>3. CASE MessageStep
  <2>1. ASSUME NEW m \in Messages, TakesChanged(m) \/ DebouncesEnabled(m)
        PROVE  \E r \in Spaces : Schedules(r, m) \/ Joins(r, m)
    BY <2>1 DEF TakesChanged, DebouncesEnabled, Debounces
  <2>2. ASSUME NEW r \in Spaces, Changes(r) \/ Enables(r) PROVE DebouncerSame
    BY <2>2 DEF Changes, Enables, Publishes
  <2>3. ASSUME NEW m \in Messages, Redelivers(m) \/ TakesEnabled(m) PROVE DebouncerSame
    BY <2>3 DEF Redelivers, TakesEnabled
  <2> QED
    BY <1>1, <1>2, <1>3, <2>1, <2>2, <2>3 DEF MessageStep
<1>4. ASSUME NEW i \in Items, NEW d \in Calls, Fires(i, d) PROVE RunStays(c)
  BY <1>4 DEF Fires, OthersKept, RunStays
<1>5. ASSUME NEW d \in Calls, Looks(d) PROVE RunStays(c)
  BY <1>5 DEF Looks, OthersKept, RunStays, ItemKept
<1>6. ASSUME NEW d \in Calls, Restarts(d) PROVE RunStays(c)
  <2>1. /\ call[d].pc = "again" /\ call'[d].pc = "idle" /\ OthersKept(d)
        /\ \A j \in Items : ItemFreed(j) \/ ItemKept(j)
    BY <1>6 DEF Restarts
  <2> QED
    BY <2>1 DEF OthersKept, RunStays, ItemFreed
<1>7. ASSUME NEW d \in Calls, Takes(d), d # c PROVE RunStays(c)
  BY <1>7 DEF Takes, OthersKept, RunStays
<1>8. ASSUME NEW d \in Calls, Finishes(d), d # c PROVE RunStays(c)
  <2>1. /\ OthersKept(d) /\ \A j \in Items : ItemFreed(j) \/ item'[j] = item[j]
    BY <1>8 DEF Finishes
  <2>2. call'[c] = call[c]
    BY <1>8, <2>1 DEF OthersKept
  <2> QED
    BY <2>1, <2>2 DEF RunStays, ItemFreed, ItemKept
<1>9. CASE Quiet
  BY <1>1, <1>9 DEF Quiet
<1> QED
  BY <1>3, <1>4, <1>5, <1>6, <1>7, <1>8, <1>9 DEF Sound, Kinds, CallStep

\* An open message stays open until the run it was kept for ends, or until it
\* is acknowledged because its space is scheduled.
LEMMA OpenStays ==
    ASSUME Typed, Wired, Sound, NEW n \in Messages, Open(n), msgs[n].kind = "changed"
    PROVE  \/ Open(n)'
           \/ \E c \in Calls : Finishes(c) /\ RunsFor(c, n)
           \/ TakesChanged(n) /\ Joins(msgs[n].space, n)
<1>0. Unacked(n) /\ n \notin acking
  BY DEF Open
<1>1. ASSUME acking' = acking, msgs'[n].state = msgs[n].state PROVE Open(n)'
  BY <1>0, <1>1 DEF Open, Unacked
<1>2. CASE MessageStep
  <2>1. ASSUME NEW s \in Spaces, Changes(s) \/ Enables(s) PROVE Open(n)'
    BY <1>1, <2>1 DEF Changes, Enables, Publishes, DebouncerSame
  <2>2. ASSUME NEW m \in Messages, Acknowledges(m) PROVE Open(n)'
    BY <1>0, <2>2 DEF Acknowledges, Moves, Open, Unacked
  <2>3. ASSUME NEW m \in Messages, Redelivers(m) PROVE Open(n)'
    BY <1>0, <2>3 DEF Redelivers, DebouncerSame, Moves, Open, Unacked
  <2>4. ASSUME NEW m \in Messages, TakesEnabled(m) PROVE Open(n)'
    <3>1. m # n
      BY <2>4 DEF TakesEnabled
    <3> QED
      BY <1>1, <2>4, <3>1 DEF TakesEnabled, DebouncerSame, Moves
  <2>5. ASSUME NEW m \in Messages, TakesChanged(m)
        PROVE  Open(n)' \/ (TakesChanged(n) /\ Joins(msgs[n].space, n))
    <3>1. msgs'[n].state = msgs[n].state \/ msgs'[n].state = "out"
      BY <2>5 DEF TakesChanged, Moves
    <3>2. acking' = acking \/ (acking' = acking \cup {m} /\ Joins(msgs[m].space, m))
      BY <2>5 DEF TakesChanged, Debounces, Schedules, Joins
    <3> QED
      BY <1>0, <2>5, <3>1, <3>2 DEF Open, Unacked
  <2>6. ASSUME NEW m \in Messages, DebouncesEnabled(m) PROVE Open(n)'
    <3>1. m # n /\ msgs' = msgs
      BY <2>6 DEF DebouncesEnabled
    <3>2. acking' = acking \/ acking' = acking \cup {m}
      BY <2>6 DEF DebouncesEnabled, Debounces, Schedules, Joins
    <3> QED
      BY <1>0, <3>1, <3>2 DEF Open, Unacked
  <2> QED
    BY <1>2, <2>1, <2>2, <2>3, <2>4, <2>5, <2>6 DEF MessageStep
<1>3. ASSUME NEW c \in Calls, Finishes(c) PROVE Open(n)' \/ RunsFor(c, n)
  <2>1. /\ call[c].pc = "run" /\ msgs' = msgs
        /\ acking' = acking \cup {item[call[c].item].msg}
    BY <1>3 DEF Finishes
  <2>2. call[c].item \in Items
    BY <2>1, CallOnSpace
  <2> QED
    BY <1>0, <2>1, <2>2 DEF Open, Unacked, RunsFor
<1>4. ASSUME NEW c \in Calls, Looks(c) \/ Restarts(c) \/ Takes(c) PROVE Open(n)'
  BY <1>1, <1>4 DEF Looks, Restarts, Takes
<1>5. ASSUME NEW i \in Items, NEW c \in Calls, Fires(i, c) PROVE Open(n)'
  BY <1>1, <1>5 DEF Fires
<1>6. CASE Crashes
  BY <1>0, <1>6 DEF Crashes, Open, Unacked
<1>7. CASE Quiet
  BY <1>1, <1>7 DEF Quiet, DebouncerSame
<1> QED
  BY <1>2, <1>3, <1>4, <1>5, <1>6, <1>7 DEF Sound, Kinds, CallStep

\* How the schedule of a space changes.
LEMMA PendingStays ==
    ASSUME Typed, Wired, Sound, NEW s \in Spaces
    PROVE  \/ pending'[s] = pending[s]
           \/ pending'[s] = NoItem /\ (Crashes \/ \E c \in Calls : Takes(c) /\ s = SpaceOf(c))
           \/ \E m \in Messages : /\ TakesChanged(m) \/ DebouncesEnabled(m)
                                  /\ msgs[m].space = s /\ Schedules(s, m)
<1>0. DebouncerTyped
  BY DEF Typed
<1>1. CASE MessageStep
  <2>1. ASSUME NEW r \in Spaces, Changes(r) \/ Enables(r) PROVE pending' = pending
    BY <2>1 DEF Changes, Enables, Publishes, DebouncerSame
  <2>2. ASSUME NEW m \in Messages, Acknowledges(m) \/ Redelivers(m) \/ TakesEnabled(m)
        PROVE  pending' = pending
    BY <2>2 DEF Acknowledges, Redelivers, TakesEnabled, DebouncerSame
  <2>3. ASSUME NEW m \in Messages, TakesChanged(m) \/ DebouncesEnabled(m)
        PROVE  \/ pending'[s] = pending[s]
               \/ msgs[m].space = s /\ Schedules(s, m)
    <3>1. Schedules(msgs[m].space, m) \/ Joins(msgs[m].space, m)
      BY <2>3 DEF TakesChanged, DebouncesEnabled, Debounces
    <3>2. CASE Joins(msgs[m].space, m)
      BY <3>2 DEF Joins
    <3>3. CASE Schedules(msgs[m].space, m) /\ msgs[m].space # s
      BY <1>0, <3>3 DEF Schedules, DebouncerTyped
    <3> QED
      BY <3>1, <3>2, <3>3
  <2> QED
    BY <1>1, <2>1, <2>2, <2>3 DEF MessageStep
<1>2. ASSUME NEW c \in Calls, Takes(c)
      PROVE  pending'[s] = pending[s] \/ (pending'[s] = NoItem /\ s = SpaceOf(c))
  BY <1>2 DEF Takes
<1>3. ASSUME NEW c \in Calls, Looks(c) \/ Restarts(c) \/ Finishes(c) PROVE pending' = pending
  BY <1>3 DEF Looks, Restarts, Finishes
<1>4. ASSUME NEW i \in Items, NEW c \in Calls, Fires(i, c) PROVE pending' = pending
  BY <1>4 DEF Fires
<1>5. CASE Crashes
  BY <1>5 DEF Crashes
<1>6. CASE Quiet
  BY <1>6 DEF Quiet, DebouncerSame
<1> QED
  BY <1>1, <1>2, <1>3, <1>4, <1>5, <1>6 DEF Sound, Kinds, CallStep

\* A space that is not changed does not fall behind, and its last change
\* stays the last one.
SpaceStays(s) ==
    /\ version'[s] = version[s] /\ (Lags(s)' => Lags(s))
    /\ \A m \in Nat : Latest(m, s)' <=> Latest(m, s)

\* A space that is not changed by a step keeps its version and its messages.
LEMMA SpacesStay ==
    ASSUME Typed, Sound, NEW s \in Spaces
    PROVE  Changes(s) \/ SpaceStays(s)
<1>0. Len(msgs) \in Nat /\ version \in [Spaces -> Nat]
  BY DEF Typed, WorldTyped
<1>1. /\ Messages \subseteq Messages'
      /\ \A m \in Messages : msgs'[m].kind = msgs[m].kind /\ msgs'[m].space = msgs[m].space
  BY MessagesStay
<1>2. ASSUME \A n \in Messages' : n \in Messages \/ ~Announces(n, s)',
             version'[s] = version[s], Lags(s)' => Lags(s)
      PROVE  SpaceStays(s)
  BY <1>1, <1>2 DEF SpaceStays, Latest, Announces
<1>3. ASSUME NEW r \in Spaces, r # s, Changes(r) PROVE SpaceStays(s)
  <2>1. /\ version' = [version EXCEPT ![r] = @ + 1] /\ indexed' = indexed
        /\ givenUp' = givenUp /\ Len(msgs') = Len(msgs) + 1
        /\ msgs'[Len(msgs) + 1] = [kind |-> "changed", space |-> r, state |-> "stream"]
    BY <1>3 DEF Changes, Publishes
  <2>2. version'[s] = version[s] /\ (Lags(s)' => Lags(s))
    BY <1>0, <1>3, <2>1 DEF Lags
  <2>3. \A n \in Messages' : n \in Messages \/ n = Len(msgs) + 1
    BY <1>0, <2>1 DEF Messages
  <2>4. \A n \in Messages' : n \in Messages \/ ~Announces(n, s)'
    BY <1>3, <2>1, <2>3 DEF Announces
  <2> QED
    BY <1>2, <2>2, <2>4
<1>4. ASSUME NEW r \in Spaces, Enables(r) PROVE SpaceStays(s)
  <2>1. /\ Len(msgs') = Len(msgs) + 1
        /\ msgs'[Len(msgs) + 1] = [kind |-> "enabled", space |-> r, state |-> "stream"]
        /\ NotLater
    BY <1>4 DEF Enables, Publishes
  <2>2. \A n \in Messages' : n \in Messages \/ n = Len(msgs) + 1
    BY <1>0, <2>1 DEF Messages
  <2>3. \A n \in Messages' : n \in Messages \/ ~Announces(n, s)'
    BY <2>1, <2>2 DEF Announces
  <2> QED
    BY <1>2, <2>1, <2>3 DEF NotLater
<1>5. ASSUME NotLater, Len(msgs') = Len(msgs) PROVE SpaceStays(s)
  BY <1>2, <1>5 DEF NotLater, Messages
<1>6. CASE MessageStep
  <2>1. ASSUME NEW m \in Messages,
               \/ Acknowledges(m) \/ Redelivers(m) \/ TakesEnabled(m)
               \/ TakesChanged(m) \/ DebouncesEnabled(m)
        PROVE  NotLater /\ Len(msgs') = Len(msgs)
    BY <2>1 DEF Acknowledges, Redelivers, TakesEnabled, TakesChanged, DebouncesEnabled,
                Debounces, Moves
  <2> QED
    BY <1>3, <1>4, <1>5, <1>6, <2>1 DEF MessageStep
<1>7. CASE CallStep \/ Crashes \/ Quiet
  <2>1. NotLater /\ Len(msgs') = Len(msgs)
    BY <1>7 DEF CallStep, Fires, Looks, Restarts, Takes, Finishes, Crashes, Quiet
  <2> QED
    BY <1>5, <2>1
<1> QED
  BY <1>6, <1>7 DEF Sound, Kinds

\* The event of a change is new, open, and the last one of its space.
LEMMA ChangeOpens ==
    ASSUME Typed, Wired, NEW s \in Spaces, Changes(s), Sound
    PROVE  \E n \in Messages' : /\ n \notin Messages /\ Latest(n, s)' /\ Open(n)'
                               /\ msgs'[n].state = "stream" /\ msgs'[n].kind = "changed"
                               /\ Messages' = Messages \cup {n}
<1>1. Len(msgs) \in Nat /\ acking \subseteq Messages
  BY DEF Typed, WorldTyped, Wired
<1>2. PICK n : n = Len(msgs) + 1
  OBVIOUS
<1>3. /\ Len(msgs') = n /\ acking' = acking
      /\ msgs'[n] = [kind |-> "changed", space |-> s, state |-> "stream"]
  BY <1>2 DEF Changes, Publishes, DebouncerSame
<1>4. n \in Messages' /\ n \notin Messages /\ \A k \in Messages' : k <= n
  BY <1>1, <1>2, <1>3 DEF Messages
<1>5. msgs'[n].kind = "changed" /\ msgs'[n].space = s /\ msgs'[n].state = "stream"
  BY <1>3
<1>6. Latest(n, s)'
  BY <1>4, <1>5 DEF Latest, Announces
<1>7. Open(n)'
  BY <1>1, <1>3, <1>4, <1>5 DEF Open, Unacked
<1>8. Messages' = Messages \cup {n}
  BY <1>1, <1>2, <1>3 DEF Messages
<1> QED
  BY <1>4, <1>5, <1>6, <1>7, <1>8

\* What a run works on.
LEMMA RunPlace ==
    ASSUME Typed, Wired, NEW c \in Calls, call[c].pc = "run"
    PROVE  /\ \A s \in Spaces : RunsOn(c, s) <=> SpaceOf(c) = s
           /\ \A m \in Nat : RunsFor(c, m) => (m \in Messages /\ msgs[m].space = SpaceOf(c))
<1>1. /\ call[c].item \in Items /\ SpaceOf(c) \in Spaces
      /\ item[call[c].item].msg \in Messages
      /\ msgs[item[call[c].item].msg].space = SpaceOf(c)
  BY CallOnSpace
<1> QED
  BY <1>1 DEF RunsOn, RunsFor, SpaceOf

-----------------------------------------------------------------------------
(* The counters. *)

\* What has happened once is never forgotten.
LEMMA CountersGrow ==
    ASSUME Typed, [Next]_vars
    PROVE  /\ crashes' = 0 => crashes = 0
           /\ redeliveries' = 0 => redeliveries = 0
           /\ toggles' = 0 => toggles = 0 /\ (disabled = {} => disabled' = {})
<1>0. toggles \in Nat /\ crashes \in Nat /\ redeliveries \in Nat
  BY DEF Typed, WorldTyped
<1> DEFINE Same == crashes' = crashes /\ redeliveries' = redeliveries
           Still == toggles' = toggles /\ disabled' = disabled
<1>1. ASSUME NEW s \in Spaces, Change(s) \/ Disable(s) \/ Enable(s)
      PROVE  /\ Same
             /\ toggles' = 0 => toggles = 0 /\ (disabled = {} => disabled' = {})
  BY <1>0, <1>1 DEF Change, Disable, Enable, faultVars
<1>2. ASSUME NEW m \in Messages, Ack(m) \/ Redeliver(m)
      PROVE  crashes' = crashes /\ (redeliveries' = 0 => redeliveries = 0) /\ Still
  BY <1>0, <1>2 DEF Ack, Redeliver, spaceVars, faultVars
<1>3. ASSUME NEW w \in Consumers, Handle(w) PROVE Same /\ Still
  BY <1>3 DEF Handle, HandleChanged, HandleEnabled, Unmark, DebounceMarked, spaceVars, faultVars
<1>4. ASSUME NEW i \in Items, Timer(i) PROVE Same /\ Still
  BY <1>4 DEF Timer, spaceVars, faultVars
<1>5. ASSUME NEW c \in Calls, Work(c) \/ IndexSpace(c) PROVE Same /\ Still
  BY <1>5 DEF Work, IndexSpace, spaceVars, faultVars
<1>6. ASSUME NEW x \in Reindexers,
             \/ \E s \in Spaces, force \in BOOLEAN : ListSpaces(x, s, force)
             \/ ReindexSpace(x) \/ MarkRead(x) \/ MarkPut(x) \/ MarkFails(x)
      PROVE  Same /\ Still
  BY <1>6 DEF ListSpaces, ReindexSpace, MarkRead, MarkPut, MarkFails, spaceVars, faultVars
<1>7. CASE Crash
  BY <1>0, <1>7 DEF Crash, spaceVars
<1>8. CASE UNCHANGED vars
  BY <1>8 DEF vars, spaceVars, faultVars
<1> QED
  BY <1>1, <1>2, <1>3, <1>4, <1>5, <1>6, <1>7, <1>8 DEF Next

-----------------------------------------------------------------------------
(* Without crashes. *)

LEMMA FollowedStep ==
    ASSUME crashes' = 0, Typed, Wired, Followed, Sound
    PROVE  Followed'
<1>0. ~Crashes
  BY DEF Crashes, Typed, WorldTyped
<1>n. Messages \subseteq Nat /\ Messages' \subseteq Nat
  BY DEF Messages, Sound, Typed, WorldTyped
<1>1. ASSUME NEW s \in Spaces, Lags(s)'
      PROVE  \/ \E m \in Messages' : Latest(m, s)' /\ Open(m)'
             \/ pending'[s] # NoItem
             \/ \E c \in Calls : RunsOn(c, s)' /\ call'[c].snap = version'[s]
  <2>1. CASE Changes(s)
    BY <2>1, ChangeOpens
  <2>2. CASE SpaceStays(s)
    <3>0. Lags(s) /\ version'[s] = version[s]
      BY <1>1, <2>2 DEF SpaceStays
    <3>1. CASE \E m \in Messages : Latest(m, s) /\ Open(m)
      <4>1. PICK m \in Messages : Latest(m, s) /\ Open(m)
        BY <3>1
      <4>2. m \in Messages' /\ Latest(m, s)' /\ msgs[m].kind = "changed" /\ msgs[m].space = s
        BY <1>n, <2>2, <4>1, MessagesStay DEF SpaceStays, Latest, Announces
      <4>3. ASSUME NEW c \in Calls, Finishes(c), RunsFor(c, m) PROVE FALSE
        <5>1. call[c].snap = version[s]
          BY <4>1, <4>3 DEF Followed
        <5>2. SpaceOf(c) = s
          BY <1>n, <4>2, <4>3, RunPlace DEF Finishes
        <5> QED
          BY <1>1, <4>3, <5>1, <5>2 DEF Finishes
      <4>4. CASE Joins(s, m)
        BY <4>4 DEF Joins
      <4> QED
        BY <4>1, <4>2, <4>3, <4>4, OpenStays
    <3>2. CASE pending[s] # NoItem
      <4>1. ASSUME NEW c \in Calls, Takes(c), s = SpaceOf(c)
            PROVE  RunsOn(c, s)' /\ call'[c].snap = version'[s]
        <5>1. call[c].item \in Items
          BY <4>1, CallOnSpace DEF Takes
        <5>2. call'[c].snap = version[s] /\ call'[c].item = call[c].item /\ call'[c].pc = "run"
          BY <4>1 DEF Takes
        <5>3. PICK i \in Items : i = call[c].item
          BY <5>1
        <5>4. item'[i].space = s
          BY <4>1, <5>3 DEF Takes, ItemKept, SpaceOf
        <5> QED
          BY <3>0, <5>2, <5>3, <5>4 DEF RunsOn
      <4>2. ASSUME NEW m \in Messages, Schedules(s, m) PROVE FALSE
        BY <3>2, <4>2 DEF Schedules
      <4> QED
        BY <1>0, <3>2, <4>1, <4>2, PendingStays
    <3>3. CASE \E c \in Calls : RunsOn(c, s) /\ call[c].snap = version[s]
      <4>1. PICK c \in Calls : RunsOn(c, s) /\ call[c].snap = version[s]
        BY <3>3
      <4>2. call[c].pc = "run" /\ SpaceOf(c) = s
        BY <4>1, RunPlace DEF RunsOn
      <4>3. ~Takes(c) /\ ~Finishes(c)
        BY <1>1, <4>1, <4>2 DEF Takes, Finishes
      <4>4. RunStays(c)
        BY <1>0, <4>3, RunsStay
      <4>5. call'[c] = call[c] /\ RunsOn(c, s)'
        BY <4>1, <4>2, <4>4 DEF RunStays, RunsOn, ItemKept
      <4> QED
        BY <3>0, <4>1, <4>5
    <3> QED
      BY <3>0, <3>1, <3>2, <3>3 DEF Followed
  <2> QED
    BY <2>1, <2>2, SpacesStay
<1>2. ASSUME NEW s \in Spaces, NEW c \in Calls, NEW m \in Messages',
             RunsFor(c, m)', Latest(m, s)'
      PROVE  call'[c].snap = version'[s]
  <2>0. PICK i \in Items : call'[c].item = i /\ item'[i].msg = m /\ call'[c].pc = "run"
    BY <1>2 DEF RunsFor
  <2>1. CASE Takes(c)
    <3>1. call[c].item = i /\ item[i].msg = m /\ version' = version /\ call[c].pc = "lock"
      BY <2>0, <2>1 DEF Takes, ItemKept, NotLater
    <3>2. m \in Messages /\ msgs[m].space = SpaceOf(c)
      BY <3>1, CallOnSpace
    <3>3. s = SpaceOf(c)
      BY <1>2, <3>2, MessagesStay DEF Latest, Announces
    <3> QED
      BY <2>1, <3>1, <3>3 DEF Takes
  <2>2. CASE RunStays(c)
    <3>1. call[c] = call'[c] /\ call[c].pc = "run" /\ RunsFor(c, m)
      BY <2>0, <2>2 DEF RunStays, ItemKept, RunsFor
    <3>2. m \in Messages
      BY <1>n, <3>1, RunPlace
    <3>3. CASE Changes(s)
      <4>1. PICK n \in Messages' : n \notin Messages /\ Latest(n, s)'
        BY <3>3, ChangeOpens
      <4>2. n <= m /\ m <= n
        BY <1>2, <4>1 DEF Latest
      <4> QED
        BY <1>n, <3>2, <4>1, <4>2
    <3>4. CASE SpaceStays(s)
      BY <1>2, <1>n, <3>1, <3>2, <3>4 DEF SpaceStays, Followed
    <3> QED
      BY <3>3, <3>4, SpacesStay
  <2>3. ~Finishes(c)
    BY <2>0 DEF Finishes
  <2> QED
    BY <1>0, <2>1, <2>2, <2>3, RunsStay
<1> QED
  BY <1>1, <1>2 DEF Followed

\* A change that is followed is covered.
LEMMA FollowedCovers == DebouncerInv /\ Followed => LaterChangeCovered
<1> SUFFICES ASSUME DebouncerInv, Followed, NEW s \in Spaces, Behind(s), ~GivenUp(s)
             PROVE  \/ WillRun(s)
                    \/ \E m \in Messages : /\ msgs[m].kind = "changed" /\ msgs[m].space = s
                                           /\ Unacked(m)
  BY DEF LaterChangeCovered, Covered
<1>0. Typed /\ Wired /\ ScheduledWillRun /\ Lags(s)
  BY BehindLags DEF DebouncerInv
<1>1. CASE \E m \in Messages : Latest(m, s) /\ Open(m)
  BY <1>1 DEF Latest, Announces, Open
<1>2. CASE pending[s] # NoItem
  <2>1. CASE \E c \in Calls : call[c].pc \in {"load", "again", "lock"} /\ SpaceOf(c) = s
    BY <1>2, <2>1 DEF WillRun
  <2>2. CASE item[pending[s]].t \/ item[pending[s]].timeout
    <3>1. PICK i \in Items : pending[s] = i
      BY <1>0, <1>2 DEF Typed, DebouncerTyped
    <3>2. item[i].space = s
      BY <1>0, <3>1 DEF Wired, RefsWired
    <3> QED
      BY <2>2, <3>1, <3>2 DEF WillRun
  <2> QED
    BY <1>0, <1>2, <2>1, <2>2 DEF ScheduledWillRun
<1>3. CASE \E c \in Calls : RunsOn(c, s) /\ call[c].snap = version[s]
  <2>1. PICK c \in Calls : RunsOn(c, s) /\ call[c].snap = version[s]
    BY <1>3
  <2>2. call[c].pc = "run" /\ SpaceOf(c) = s
    BY <1>0, <2>1, RunPlace DEF RunsOn
  <2> QED
    BY <2>1, <2>2 DEF WillRun
<1> QED
  BY <1>0, <1>1, <1>2, <1>3 DEF Followed

\* As long as the search service has not died, a run that fails or finds its
\* space disabled costs only the changes it saw: one that came after it had
\* begun still has its event or a run, whatever the number of spaces, consumers,
\* redeliveries, disabled spaces and failures (debouncer.go, work takes the item
\* out of pending before it runs and acknowledges whatever the run returns).
THEOREM LaterChangeCoveredWithoutCrash ==
    Spec => [](crashes = 0 => LaterChangeCovered)
<1> DEFINE Inv == crashes = 0 => Followed
<1>1. Init => Inv
  <2> SUFFICES ASSUME Init PROVE Followed
    OBVIOUS
  <2>1. /\ version = [s \in Spaces |-> 0] /\ indexed = [s \in Spaces |-> 0]
        /\ call = [c \in Calls |-> IdleCall]
    BY DEF Init, DebouncerInit
  <2>2. \A s \in Spaces : ~Lags(s)
    BY <2>1 DEF Lags
  <2>3. \A c \in Calls : call[c].pc # "run"
    BY <2>1 DEF IdleCall
  <2> QED
    BY <2>2, <2>3 DEF Followed, RunsFor
<1>2. DebouncerInv /\ Inv /\ [Next]_vars => Inv'
  <2> SUFFICES ASSUME DebouncerInv, Inv, [Next]_vars, crashes' = 0 PROVE Followed'
    OBVIOUS
  <2>1. Typed /\ Wired /\ Sound
    BY DebouncerStep DEF DebouncerInv
  <2>2. Followed
    BY <2>1, CountersGrow
  <2> QED
    BY <2>1, <2>2, FollowedStep
<1>3. DebouncerInv /\ Inv => (crashes = 0 => LaterChangeCovered)
  BY FollowedCovers
<1> QED
  BY <1>1, <1>2, <1>3, DebouncerInitially, DebouncerStep, PTL DEF Spec

-----------------------------------------------------------------------------
(* Crashes. *)

\* No space is ever disabled.
NeverDisabled == disabled = {}

\* All messages announce changes.
LEMMA OnlyChanges ==
    ASSUME Typed, Wired, Sound, NeverDisabled, OnePlace
    PROVE  \A m \in Messages' : msgs'[m].kind = "changed"
<1>1. \A m \in Messages : msgs[m].kind = "changed" /\ msgs'[m].kind = msgs[m].kind
  BY MessagesStay DEF OnePlace
<1>2. CASE \E s \in Spaces : Changes(s)
  <2>1. PICK n \in Messages' : msgs'[n].kind = "changed" /\ Messages' = Messages \cup {n}
    BY <1>2, ChangeOpens
  <2> QED
    BY <1>1, <2>1
<1>3. CASE Len(msgs') = Len(msgs)
  BY <1>1, <1>3 DEF Messages
<1>4. CASE MessageStep
  <2>1. ASSUME NEW s \in Spaces, Enables(s) PROVE FALSE
    BY <2>1 DEF Enables, NeverDisabled
  <2>2. ASSUME NEW m \in Messages,
               \/ Acknowledges(m) \/ Redelivers(m) \/ TakesEnabled(m)
               \/ TakesChanged(m) \/ DebouncesEnabled(m)
        PROVE  Len(msgs') = Len(msgs)
    BY <2>2 DEF Acknowledges, Redelivers, TakesEnabled, TakesChanged, DebouncesEnabled, Moves
  <2> QED
    BY <1>2, <1>3, <1>4, <2>1, <2>2 DEF MessageStep
<1>5. CASE CallStep \/ Crashes \/ Quiet
  <2>1. Len(msgs') = Len(msgs)
    BY <1>5 DEF CallStep, Fires, Looks, Restarts, Takes, Finishes, Crashes, Quiet
  <2> QED
    BY <1>3, <2>1
<1> QED
  BY <1>4, <1>5 DEF Sound, Kinds

\* How the message of an item changes: a message from the stream, or the item
\* is free.
LEMMA ItemMessages ==
    ASSUME Typed, Wired, Sound, OnePlace, NEW i \in Items
    PROVE  \/ item'[i].msg = item[i].msg
           \/ item'[i].msg = 0
           \/ \E m \in Messages : /\ TakesChanged(m) /\ Schedules(msgs[m].space, m)
                                  /\ item[i].msg = 0 /\ item'[i].msg = m
                                  /\ \A j \in Items \ {i} : item'[j] = item[j]
                                  /\ pending' = [pending EXCEPT ![msgs[m].space] = i]
<1>1. CASE DebouncerSame \/ \E m \in Messages : Acknowledges(m)
  BY <1>1 DEF DebouncerSame, Acknowledges
<1>2. CASE MessageStep
  <2>1. ASSUME NEW m \in Messages, TakesChanged(m)
        PROVE  \/ item'[i].msg = item[i].msg
               \/ /\ TakesChanged(m) /\ Schedules(msgs[m].space, m)
                  /\ item[i].msg = 0 /\ item'[i].msg = m
                  /\ \A j \in Items \ {i} : item'[j] = item[j]
                  /\ pending' = [pending EXCEPT ![msgs[m].space] = i]
    <3>1. CASE Joins(msgs[m].space, m)
      BY <3>1 DEF Joins, ItemKept
    <3>2. CASE Schedules(msgs[m].space, m)
      BY <2>1, <3>2 DEF Schedules
    <3> QED
      BY <2>1, <3>1, <3>2 DEF TakesChanged, Debounces
  <2>2. ASSUME NEW m \in Messages, DebouncesEnabled(m) PROVE FALSE
    BY <2>2 DEF DebouncesEnabled, OnePlace
  <2>3. ASSUME NEW r \in Spaces, Changes(r) \/ Enables(r) PROVE DebouncerSame
    BY <2>3 DEF Changes, Enables, Publishes
  <2>4. ASSUME NEW m \in Messages, Redelivers(m) \/ TakesEnabled(m) PROVE DebouncerSame
    BY <2>4 DEF Redelivers, TakesEnabled
  <2> QED
    BY <1>1, <1>2, <2>1, <2>2, <2>3, <2>4 DEF MessageStep
<1>3. CASE CallStep \/ Crashes \/ Quiet
  BY <1>1, <1>3, IdleItemFields
     DEF CallStep, Fires, Looks, Restarts, Takes, Finishes, Crashes, Quiet, ItemKept, ItemFreed
<1> QED
  BY <1>2, <1>3 DEF Sound, Kinds

\* Messages in the stream were there before, or are new, or came back with a
\* crash.
LEMMA StreamMessages ==
    ASSUME redeliveries' = 0, Typed, Wired, Sound, OnePlace, NEW m \in Messages',
           msgs'[m].state = "stream"
    PROVE  \/ Crashes
           \/ m \notin Messages /\ DebouncerSame
           \/ m \in Messages /\ msgs[m].state = "stream" /\ ~TakesChanged(m)
<1>0. redeliveries \in Nat /\ Len(msgs) \in Nat
  BY DEF Typed, WorldTyped
<1>1. CASE msgs' = msgs
  <2>1. ~TakesChanged(m)
    BY DEF TakesChanged, Moves
  <2> QED
    BY <1>1, <2>1 DEF Messages
<1>2. CASE MessageStep
  <2>1. ASSUME NEW r \in Spaces, Changes(r) \/ Enables(r)
        PROVE  \/ m \notin Messages /\ DebouncerSame
               \/ m \in Messages /\ msgs[m].state = "stream"
    BY <2>1 DEF Changes, Enables, Publishes
  <2>2. ASSUME NEW n \in Messages, Acknowledges(n) \/ TakesEnabled(n) \/ TakesChanged(n)
        PROVE  m \in Messages /\ msgs[m].state = "stream"
    <3>1. Moves(n, "out") \/ Moves(n, "acked")
      BY <2>2 DEF Acknowledges, TakesEnabled, TakesChanged
    <3> QED
      BY <3>1 DEF Moves, Messages
  <2>3. ASSUME NEW n \in Messages, Redelivers(n) PROVE FALSE
    BY <1>0, <2>3 DEF Redelivers
  <2>4. ASSUME NEW n \in Messages, DebouncesEnabled(n) PROVE msgs' = msgs
    BY <2>4 DEF DebouncesEnabled
  <2>5. ~TakesChanged(m)
    BY DEF TakesChanged, Moves
  <2> QED
    BY <1>1, <1>2, <2>1, <2>2, <2>3, <2>4, <2>5 DEF MessageStep
<1>3. CASE CallStep \/ Quiet
  BY <1>1, <1>3 DEF CallStep, Fires, Looks, Restarts, Takes, Finishes, Quiet
<1> QED
  BY <1>2, <1>3 DEF Sound, Kinds

\* The messages that are about to be acknowledged.
LEMMA AckingMessages ==
    ASSUME Typed, Wired, Sound, OnePlace, NEW m \in acking'
    PROVE  \/ m \in acking \/ TakesChanged(m)
           \/ \E i \in Items : item[i].msg = m /\ msgs' = msgs
<1>1. CASE MessageStep
  <2>1. ASSUME NEW r \in Spaces, Changes(r) \/ Enables(r) PROVE acking' = acking
    BY <2>1 DEF Changes, Enables, Publishes, DebouncerSame
  <2>2. ASSUME NEW n \in Messages, Acknowledges(n) \/ Redelivers(n) \/ TakesEnabled(n)
        PROVE  acking' \subseteq acking
    BY <2>2 DEF Acknowledges, Redelivers, TakesEnabled, DebouncerSame
  <2>3. ASSUME NEW n \in Messages, TakesChanged(n)
        PROVE  acking' \subseteq acking \cup {n}
    BY <2>3 DEF TakesChanged, Debounces, Schedules, Joins
  <2>4. ASSUME NEW n \in Messages, DebouncesEnabled(n) PROVE FALSE
    BY <2>4 DEF DebouncesEnabled, OnePlace
  <2> QED
    BY <1>1, <2>1, <2>2, <2>3, <2>4 DEF MessageStep
<1>2. ASSUME NEW c \in Calls, Finishes(c)
      PROVE  m \in acking \/ \E i \in Items : item[i].msg = m /\ msgs' = msgs
  <2>1. call[c].item \in Items
    BY <1>2, CallOnSpace DEF Finishes
  <2> QED
    BY <1>2, <2>1 DEF Finishes
<1>3. CASE CallStep
  BY <1>2, <1>3 DEF CallStep, Fires, Looks, Restarts, Takes
<1>4. CASE Crashes \/ Quiet
  BY <1>4 DEF Crashes, Quiet, DebouncerSame
<1> QED
  BY <1>1, <1>3, <1>4 DEF Sound, Kinds

\* A message is in one place.
LEMMA OnePlaceStep ==
    ASSUME redeliveries' = 0, Typed, Wired, Sound, NeverDisabled, OnePlace
    PROVE  OnePlace'
<1>0. /\ acking \subseteq Messages /\ ItemsWired /\ Len(msgs) \in Nat /\ DebouncerTyped
      /\ Len(msgs') \in Nat
  BY DEF Wired, Typed, WorldTyped, Sound
<1>t. \A i \in Items : item[i].msg \in Nat /\ (item[i].msg # 0 => item[i].msg \in Messages)
  BY <1>0 DEF ItemsWired, DebouncerTyped, ItemStates
<1>z. 0 \notin Messages /\ 0 \notin Messages'
  BY <1>0 DEF Messages
<1>1. \A m \in Messages' : msgs'[m].kind = "changed"
  BY OnlyChanges
<1>2. ASSUME NEW m \in Messages', msgs'[m].state = "stream"
      PROVE  m \notin acking' /\ \A i \in Items : item'[i].msg # m
  <2>1. CASE Crashes
    BY <1>z, <2>1, IdleItemFields DEF Crashes
  <2>2. CASE m \notin Messages /\ DebouncerSame
    BY <1>0, <1>2, <1>t, <1>z, <2>2 DEF DebouncerSame
  <2>3. CASE m \in Messages /\ msgs[m].state = "stream" /\ ~TakesChanged(m)
    <3>1. m \notin acking /\ \A i \in Items : item[i].msg # m
      BY <2>3 DEF OnePlace
    <3>2. m \notin acking'
      BY <2>3, <3>1, AckingMessages
    <3>3. \A i \in Items : item'[i].msg # m
      BY <1>z, <2>3, <3>1, ItemMessages
    <3> QED
      BY <3>2, <3>3
  <2> QED
    BY <1>2, <2>1, <2>2, <2>3, StreamMessages
<1>3. ASSUME NEW i \in Items, NEW j \in Items, i # j, item'[i].msg = item'[j].msg,
             item'[i].msg # 0
      PROVE  FALSE
  <2>1. ASSUME NEW k \in Items, NEW l \in Items, k # l, item'[k].msg = item'[l].msg,
               NEW m \in Messages, TakesChanged(m), item'[k].msg = m,
               \A h \in Items \ {k} : item'[h] = item[h]
        PROVE  FALSE
    <3>1. item[l].msg = m
      BY <2>1
    <3>2. msgs[m].state = "stream"
      BY <2>1 DEF TakesChanged
    <3> QED
      BY <3>1, <3>2 DEF OnePlace
  <2>2. item'[i].msg = item[i].msg
    BY <1>3, <2>1, ItemMessages
  <2>3. item'[j].msg = item[j].msg
    BY <1>3, <2>1, ItemMessages
  <2> QED
    BY <1>3, <2>2, <2>3 DEF OnePlace
<1> QED
  BY <1>1, <1>2, <1>3 DEF OnePlace

\* The item of a schedule that stays keeps its message.
LEMMA ScheduledItemKept ==
    ASSUME Typed, Wired, Sound, NEW s \in Spaces, NEW i \in Items,
           pending[s] = i, pending'[s] = i
    PROVE  item'[i].msg = item[i].msg
<1>0. item[i].msg # 0 /\ DebouncerTyped
  BY DEF Wired, RefsWired, Typed
<1>1. CASE DebouncerSame \/ \E m \in Messages : Acknowledges(m)
  BY <1>1 DEF DebouncerSame, Acknowledges
<1>2. CASE MessageStep
  <2>1. ASSUME NEW m \in Messages, TakesChanged(m) \/ DebouncesEnabled(m)
        PROVE  item'[i].msg = item[i].msg
    <3>1. Schedules(msgs[m].space, m) \/ Joins(msgs[m].space, m)
      BY <2>1 DEF TakesChanged, DebouncesEnabled, Debounces
    <3> QED
      BY <1>0, <3>1 DEF Schedules, Joins, ItemKept
  <2>2. ASSUME NEW r \in Spaces, Changes(r) \/ Enables(r) PROVE DebouncerSame
    BY <2>2 DEF Changes, Enables, Publishes
  <2>3. ASSUME NEW m \in Messages, Redelivers(m) \/ TakesEnabled(m) PROVE DebouncerSame
    BY <2>3 DEF Redelivers, TakesEnabled
  <2> QED
    BY <1>1, <1>2, <2>1, <2>2, <2>3 DEF MessageStep
<1>3. CASE CallStep \/ Quiet
  BY <1>1, <1>3 DEF CallStep, Fires, Looks, Restarts, Takes, Finishes, Quiet, ItemKept, ItemFreed
<1>4. CASE Crashes
  BY <1>4, NoItemIsNone DEF Crashes
<1> QED
  BY <1>2, <1>3, <1>4 DEF Sound, Kinds

\* The message of a scheduled item stays open.
LEMMA ScheduleOpenStep ==
    ASSUME Typed, Wired, Sound, OnePlace, ScheduleOpen
    PROVE  ScheduleOpen'
<1>0. ItemsWired /\ RefsWired /\ DebouncerTyped /\ DebouncerTyped'
  BY DEF Wired, Typed, Sound
<1>n. Messages \subseteq Nat /\ 0 \notin Messages
  BY DEF Messages, Typed, WorldTyped
<1> SUFFICES ASSUME NEW s \in Spaces, NEW i \in Items, NEW m \in Messages',
                    pending'[s] = i, item'[i].msg = m
             PROVE  Open(m)' /\ \A c \in Calls : ~RunsFor(c, m)'
  BY DEF ScheduleOpen
<1>1. ~Crashes
  BY NoItemIsNone DEF Crashes
<1>2. CASE pending'[s] = pending[s]
  <2>1. item[i].msg = m /\ item[i].space = s /\ m # 0
    BY <1>0, <1>2, ScheduledItemKept DEF RefsWired
  <2>2. m \in Messages
    <3>1. m \in Nat
      BY <1>0, <2>1 DEF DebouncerTyped, ItemStates
    <3> QED
      BY <1>0, <2>1, <3>1 DEF ItemsWired
  <2>3. Open(m) /\ msgs[m].kind = "changed" /\ \A c \in Calls : ~RunsFor(c, m)
    BY <1>2, <2>1, <2>2 DEF ScheduleOpen, OnePlace
  <2>4. ~TakesChanged(m)
    BY <2>1, <2>2 DEF TakesChanged, OnePlace
  <2>5. Open(m)'
    BY <2>2, <2>3, <2>4, OpenStays
  <2>6. ASSUME NEW c \in Calls, RunsFor(c, m)' PROVE FALSE
    <3>1. PICK j \in Items : call'[c].item = j /\ item'[j].msg = m /\ call'[c].pc = "run"
      BY <2>6 DEF RunsFor
    <3>2. CASE Takes(c)
      <4>1. call[c].item = j /\ item[j].msg = m
        BY <3>1, <3>2 DEF Takes, ItemKept
      <4>2. j = i
        BY <2>1, <4>1 DEF OnePlace
      <4>3. s = SpaceOf(c)
        BY <2>1, <4>1, <4>2 DEF SpaceOf
      <4> QED
        BY <3>2, <4>3, NoItemIsNone DEF Takes
    <3>3. CASE RunStays(c)
      <4>1. RunsFor(c, m)
        BY <3>1, <3>3 DEF RunStays, ItemKept, RunsFor
      <4> QED
        BY <2>3, <4>1
    <3>4. ~Finishes(c)
      BY <3>1 DEF Finishes
    <3> QED
      BY <1>1, <3>2, <3>3, <3>4, RunsStay
  <2> QED
    BY <2>5, <2>6
<1>3. ASSUME NEW n \in Messages, TakesChanged(n) \/ DebouncesEnabled(n), msgs[n].space = s,
             Schedules(s, n)
      PROVE  Open(m)' /\ \A c \in Calls : ~RunsFor(c, m)'
  <2>1. TakesChanged(n)
    BY <1>3 DEF DebouncesEnabled, OnePlace
  <2>2. PICK k \in Items :
          /\ item[k].msg = 0
          /\ pending' = [pending EXCEPT ![s] = k]
          /\ item'[k].msg = n
          /\ \A j \in Items \ {k} : item'[j] = item[j]
    BY <1>3 DEF Schedules
  <2>3. k = i /\ m = n
    BY <1>0, <2>2 DEF DebouncerTyped
  <2>4. n \notin acking /\ \A j \in Items : item[j].msg # n
    BY <2>1 DEF TakesChanged, OnePlace
  <2>5. acking' = acking /\ call' = call /\ msgs'[n].state = "out"
    BY <1>3, <2>1 DEF Schedules, TakesChanged, Moves
  <2>6. Open(m)'
    BY <2>3, <2>4, <2>5 DEF Open, Unacked
  <2>7. ASSUME NEW c \in Calls, RunsFor(c, m)' PROVE FALSE
    <3>1. PICK j \in Items : call[c].item = j /\ item'[j].msg = n /\ call[c].pc = "run"
      BY <2>3, <2>5, <2>7 DEF RunsFor
    <3>2. j = k
      BY <2>2, <2>4, <3>1
    <3> QED
      BY <1>0, <2>2, <3>1, <3>2 DEF RefsWired
  <2> QED
    BY <2>6, <2>7
<1> QED
  BY <1>1, <1>2, <1>3, PendingStays, NoItemIsNone

\* The stream goes on remembering the changes.
LEMMA RecoverableStep ==
    ASSUME Typed, Wired, Sound, OnePlace, ScheduleOpen, Recoverable
    PROVE  Recoverable'
<1>0. ItemsWired /\ RefsWired /\ DebouncerTyped
  BY DEF Wired, Typed
<1>n. Messages \subseteq Nat
  BY DEF Messages, Typed, WorldTyped
<1> SUFFICES ASSUME NEW s \in Spaces, Lags(s)'
             PROVE  \E m \in Messages' :
                      /\ Announces(m, s)' /\ Open(m)'
                      /\ \A c \in Calls : RunsFor(c, m)' => call'[c].snap = version'[s]
  BY DEF Recoverable
<1>1. CASE Changes(s)
  <2>1. PICK n \in Messages' : n \notin Messages /\ Latest(n, s)' /\ Open(n)'
    BY <1>1, ChangeOpens
  <2>2. Announces(n, s)' /\ n \in Nat
    BY <2>1 DEF Latest, Messages, Sound, Typed, WorldTyped
  <2>3. ASSUME NEW c \in Calls, RunsFor(c, n)' PROVE FALSE
    <3>1. RunsFor(c, n) /\ call[c].pc = "run"
      BY <1>1, <2>3 DEF Changes, Publishes, DebouncerSame, RunsFor
    <3> QED
      BY <2>1, <2>2, <3>1, RunPlace
  <2> QED
    BY <2>1, <2>2, <2>3
<1>2. CASE SpaceStays(s)
  <2>0. Lags(s) /\ version'[s] = version[s]
    BY <1>2 DEF SpaceStays
  <2>1. PICK m \in Messages :
          /\ Announces(m, s) /\ Open(m)
          /\ \A c \in Calls : RunsFor(c, m) => call[c].snap = version[s]
    BY <2>0 DEF Recoverable
  <2>2. m \in Messages' /\ Announces(m, s)' /\ msgs[m].kind = "changed" /\ msgs[m].space = s
    BY <2>1, MessagesStay DEF Announces
  <2>3. CASE Open(m)'
    <3>1. ASSUME NEW c \in Calls, RunsFor(c, m)' PROVE call'[c].snap = version'[s]
      <4>1. PICK j \in Items : call'[c].item = j /\ item'[j].msg = m /\ call'[c].pc = "run"
        BY <3>1 DEF RunsFor
      <4>2. CASE Takes(c)
        <5>1. call[c].item = j /\ item[j].msg = m /\ call[c].pc = "lock"
          BY <4>1, <4>2 DEF Takes, ItemKept
        <5>2. SpaceOf(c) = s
          BY <2>2, <5>1, CallOnSpace
        <5> QED
          BY <2>0, <4>2, <5>2 DEF Takes
      <4>3. CASE RunStays(c)
        <5>1. RunsFor(c, m) /\ call'[c] = call[c]
          BY <4>1, <4>3 DEF RunStays, ItemKept, RunsFor
        <5> QED
          BY <2>0, <2>1, <5>1
      <4>4. ~Finishes(c) /\ ~Crashes
        BY <4>1 DEF Finishes, Crashes, IdleCall
      <4> QED
        BY <4>2, <4>3, <4>4, RunsStay
    <3> QED
      BY <2>2, <2>3, <3>1
  <2>4. ASSUME NEW c \in Calls, Finishes(c), RunsFor(c, m) PROVE FALSE
    <3>1. call[c].snap = version[s]
      BY <2>1, <2>4
    <3>2. SpaceOf(c) = s
      BY <1>n, <2>2, <2>4, RunPlace DEF Finishes
    <3> QED
      BY <2>4, <3>1, <3>2 DEF Finishes
  <2>5. CASE TakesChanged(m) /\ Joins(s, m)
    <3>1. PICK i \in Items : pending[s] = i
      BY <1>0, <2>5 DEF Joins, DebouncerTyped
    <3>2. item[i].msg # 0 /\ item[i].space = s
      BY <1>0, <3>1 DEF RefsWired
    <3>3. PICK n \in Nat : item[i].msg = n
      BY <1>0 DEF DebouncerTyped, ItemStates
    <3>4. n \in Messages /\ msgs[n].space = s /\ msgs[n].kind = "changed"
      BY <1>0, <3>2, <3>3 DEF ItemsWired, OnePlace
    <3>5. n # m
      BY <2>5, <3>3 DEF TakesChanged, OnePlace
    <3>6. Open(n) /\ \A c \in Calls : ~RunsFor(c, n)
      BY <3>1, <3>3, <3>4 DEF ScheduleOpen
    <3>7. n \in Messages' /\ Announces(n, s)'
      BY <3>4, MessagesStay DEF Announces
    <3>8. Open(n)'
      BY <2>5, <3>4, <3>5, <3>6 DEF TakesChanged, Moves, Joins, Open, Unacked
    <3>9. \A c \in Calls : ~RunsFor(c, n)'
      BY <2>5, <3>6 DEF Joins, ItemKept, RunsFor
    <3> QED
      BY <3>7, <3>8, <3>9
  <2> QED
    BY <2>1, <2>2, <2>3, <2>4, <2>5, OpenStays
<1> QED
  BY <1>1, <1>2, SpacesStay

\* Crashes, at whatever step and however many, cost no change that a failed run
\* has not given up, as long as the broker has not delivered a message twice to
\* the same process and no space was disabled: what a crash takes from the
\* schedule is still in the stream (service.go, processEvent leaves the
\* acknowledgement to the debouncer; debouncer.go, work acknowledges after the
\* run).
THEOREM LaterChangeCoveredAcrossCrashes ==
    Spec => [](redeliveries = 0 /\ toggles = 0 => LaterChangeCovered)
<1> DEFINE Inv == redeliveries = 0 /\ toggles = 0 => NeverDisabled /\ CrashInv
<1>1. Init => Inv
  <2> SUFFICES ASSUME Init PROVE NeverDisabled /\ CrashInv
    OBVIOUS
  <2>1. /\ version = [s \in Spaces |-> 0] /\ indexed = [s \in Spaces |-> 0]
        /\ pending = [s \in Spaces |-> NoItem] /\ item = [i \in Items |-> IdleItem]
        /\ msgs = <<>> /\ disabled = {}
    BY DEF Init, DebouncerInit
  <2>2. \A s \in Spaces : ~Lags(s)
    BY <2>1 DEF Lags
  <2>3. Messages = {}
    BY <2>1 DEF Messages
  <2>4. OnePlace
    BY <2>1, <2>3, IdleItemFields DEF OnePlace
  <2>5. ScheduleOpen
    BY <2>3 DEF ScheduleOpen
  <2>6. Recoverable
    BY <2>2 DEF Recoverable
  <2> QED
    BY <2>1, <2>4, <2>5, <2>6 DEF NeverDisabled, CrashInv
<1>2. DebouncerInv /\ Inv /\ [Next]_vars => Inv'
  <2> SUFFICES ASSUME DebouncerInv, Inv, [Next]_vars, redeliveries' = 0, toggles' = 0
               PROVE  NeverDisabled' /\ CrashInv'
    OBVIOUS
  <2>1. Typed /\ Wired /\ Sound
    BY DebouncerStep DEF DebouncerInv
  <2>2. NeverDisabled /\ CrashInv /\ disabled' = {}
    BY <2>1, CountersGrow DEF NeverDisabled
  <2>3. OnePlace' /\ ScheduleOpen' /\ Recoverable'
    BY <2>1, <2>2, OnePlaceStep, ScheduleOpenStep, RecoverableStep DEF CrashInv
  <2> QED
    BY <2>2, <2>3 DEF NeverDisabled, CrashInv
<1>3. DebouncerInv /\ Inv => (redeliveries = 0 /\ toggles = 0 => LaterChangeCovered)
  <2> SUFFICES ASSUME DebouncerInv, CrashInv, NEW s \in Spaces, Behind(s), ~GivenUp(s)
               PROVE  \E m \in Messages : /\ msgs[m].kind = "changed" /\ msgs[m].space = s
                                         /\ Unacked(m)
    BY DEF LaterChangeCovered, Covered
  <2>1. Lags(s)
    BY BehindLags DEF DebouncerInv
  <2> QED
    BY <2>1 DEF CrashInv, Recoverable, Announces, Open
<1> QED
  BY <1>1, <1>2, <1>3, DebouncerInitially, DebouncerStep, PTL DEF Spec

-----------------------------------------------------------------------------
(* Without failures and disabled spaces. *)

\* No run has failed and none has found its space disabled.
NothingFails == disabled = {} /\ \A s \in Spaces : givenUp[s] = 0

\* Only a failing run, or one of a disabled space, gives a change up.
LEMMA NothingGivenUp ==
    ASSUME Typed, failures \in Nat, NothingFails, [Next]_vars, failures' = 0, toggles' = 0
    PROVE  NothingFails'
<1>0. disabled = {} /\ disabled' = {}
  BY CountersGrow DEF NothingFails
<1> SUFFICES givenUp' = givenUp
  BY <1>0 DEF NothingFails
<1>1. ASSUME NEW s \in Spaces, Change(s) \/ Disable(s) \/ Enable(s) PROVE givenUp' = givenUp
  BY <1>1 DEF Change, Disable, Enable, indexVars
<1>2. ASSUME NEW m \in Messages, Ack(m) \/ Redeliver(m) PROVE givenUp' = givenUp
  BY <1>2 DEF Ack, Redeliver, indexVars
<1>3. ASSUME NEW w \in Consumers, Handle(w) PROVE givenUp' = givenUp
  BY <1>3 DEF Handle, HandleChanged, HandleEnabled, Unmark, DebounceMarked, indexVars
<1>4. ASSUME NEW i \in Items, Timer(i) PROVE givenUp' = givenUp
  BY <1>4 DEF Timer, indexVars
<1>5. ASSUME NEW c \in Calls, Work(c) PROVE givenUp' = givenUp
  BY <1>5 DEF Work, indexVars
<1>6. ASSUME NEW c \in Calls, IndexSpace(c) PROVE givenUp' = givenUp
  <2>1. ~Fail
    BY DEF Fail
  <2> QED
    BY <1>0, <1>6, <2>1 DEF IndexSpace
<1>7. ASSUME NEW x \in Reindexers,
             \/ \E s \in Spaces, force \in BOOLEAN : ListSpaces(x, s, force)
             \/ ReindexSpace(x) \/ MarkRead(x) \/ MarkPut(x) \/ MarkFails(x)
      PROVE  givenUp' = givenUp
  BY <1>7 DEF ListSpaces, ReindexSpace, MarkRead, MarkPut, MarkFails, indexVars
<1>8. CASE Crash
  BY <1>8 DEF Crash, indexVars
<1>9. CASE UNCHANGED vars
  BY <1>9 DEF vars, indexVars
<1> QED
  BY <1>1, <1>2, <1>3, <1>4, <1>5, <1>6, <1>7, <1>8, <1>9 DEF Next

\* What has failed once has failed.
LEMMA FailuresGrow ==
    ASSUME failures \in Nat, [Next]_vars
    PROVE  failures' \in Nat /\ (failures' = 0 => failures = 0)
<1> SUFFICES failures' = failures \/ failures' = failures + 1
  OBVIOUS
<1>1. ASSUME NEW s \in Spaces, Change(s) \/ Disable(s) \/ Enable(s) PROVE failures' = failures
  BY <1>1 DEF Change, Disable, Enable
<1>2. ASSUME NEW m \in Messages, Ack(m) \/ Redeliver(m) PROVE failures' = failures
  BY <1>2 DEF Ack, Redeliver
<1>3. ASSUME NEW w \in Consumers, Handle(w)
      PROVE  failures' = failures \/ failures' = failures + 1
  BY <1>3 DEF Handle, HandleChanged, HandleEnabled, Unmark, DebounceMarked, Fail
<1>4. ASSUME NEW i \in Items, Timer(i) PROVE failures' = failures
  BY <1>4 DEF Timer
<1>5. ASSUME NEW c \in Calls, Work(c) \/ IndexSpace(c)
      PROVE  failures' = failures \/ failures' = failures + 1
  BY <1>5 DEF Work, IndexSpace, Fail
<1>6. ASSUME NEW x \in Reindexers,
             \/ \E s \in Spaces, force \in BOOLEAN : ListSpaces(x, s, force)
             \/ ReindexSpace(x) \/ MarkRead(x) \/ MarkPut(x) \/ MarkFails(x)
      PROVE  failures' = failures \/ failures' = failures + 1
  BY <1>6 DEF ListSpaces, ReindexSpace, MarkRead, MarkPut, MarkFails, Fail
<1>7. CASE Crash
  BY <1>7 DEF Crash
<1>8. CASE UNCHANGED vars
  BY <1>8 DEF vars
<1> QED
  BY <1>1, <1>2, <1>3, <1>4, <1>5, <1>6, <1>7, <1>8 DEF Next

\* No change is forgotten as long as every run indexes what it sees: one that is
\* not in the index has a run that will see it or an event that comes back, over
\* any number of redeliveries without a crash and over any number of crashes
\* without a redelivery to the same process (debouncer.go, Debounce acknowledges
\* an event because "the according space is already scheduled for indexing").
THEOREM ChangeCoveredAlways ==
    Spec => [](failures = 0 /\ toggles = 0 /\ (crashes = 0 \/ redeliveries = 0)
                 => ChangeCovered)
<1> DEFINE Inv == failures \in Nat /\ (failures = 0 /\ toggles = 0 => NothingFails)
<1>1. Init => Inv
  BY DEF Init, NothingFails
<1>2. DebouncerInv /\ Inv /\ [Next]_vars => Inv'
  <2> SUFFICES ASSUME DebouncerInv, Inv, [Next]_vars PROVE Inv'
    OBVIOUS
  <2>1. Typed
    BY DEF DebouncerInv
  <2>2. failures' \in Nat /\ (failures' = 0 => failures = 0)
    BY FailuresGrow
  <2>3. ASSUME failures' = 0, toggles' = 0 PROVE NothingFails'
    <3>1. NothingFails
      BY <2>1, <2>2, <2>3, CountersGrow
    <3> QED
      BY <2>1, <2>3, <3>1, NothingGivenUp
  <2> QED
    BY <2>2, <2>3
<1>3. DebouncerInv /\ NothingFails /\ LaterChangeCovered => ChangeCovered
  <2> SUFFICES ASSUME DebouncerInv, NothingFails, LaterChangeCovered,
                      NEW s \in Spaces, Behind(s)
               PROVE  Covered(s)
    BY DEF ChangeCovered
  <2>1. givenUp[s] = 0 /\ indexed[s] \in Nat /\ version[s] \in Nat
    BY DEF DebouncerInv, Typed, WorldTyped, NothingFails
  <2>2. ~GivenUp(s)
    BY <2>1 DEF Behind, GivenUp
  <2> QED
    BY <2>2 DEF LaterChangeCovered
<1>4. Spec => [](DebouncerInv /\ Inv)
  BY <1>1, <1>2, DebouncerInitially, DebouncerStep, PTL DEF Spec
<1> QED
  BY <1>3, <1>4, LaterChangeCoveredWithoutCrash, LaterChangeCoveredAcrossCrashes, PTL
=============================================================================
