# A TLA+ verification of OpenCloud

OpenCloud is a set of services in one binary. Most of them translate requests
or configure a service of the reva library. A few carry a protocol of their
own: they keep state, react to events of a shared bus, and must get it right
when events come twice or late, when goroutines race and when the process dies
half way. This project models those parts in TLA+, checks the models with TLC
on small instances, and proves the most important results with TLAPS.

## 1. Inventory

### The parts that carry a protocol

| Part | State | Operations | Talks to |
|---|---|---|---|
| postprocessing (`services/postprocessing`) | one record per upload in a key-value store; goroutines that sleep | handle `BytesReceived`, `PostprocessingStepFinished`, `StartPostprocessingStep` (delay), `UploadReady`, `ResumePostprocessing`; write, publish with retries, acknowledge; stop | bus (JetStream, at least once), store, step services, storage provider |
| storage provider (reva `decomposedfs`) | upload sessions, nodes marked as processing | finish an upload, release or reject it, restart its postprocessing | bus |
| antivirus, policies, custom steps | none that survives | run a step, report an outcome | bus (acknowledge on hand-over) |
| search (`services/search/pkg/service/event`) | pending and running index jobs per space, marks of skipped spaces | debounce, time out, index, acknowledge | bus, key-value store, index |
| activitylog | pending batches, activities per resource | debounce, store, cap, remove | bus, key-value store |
| `pkg/runner` | one task with its result channel; groups of them | run, interrupt, time out, collect results | every service's main function |
| collaboration (WOPI) | none of its own: locks and versions of files are kept by the storage | lock, refresh, unlock, put, put under a name, rename, delete | gateway |
| auth-guest | one record per guest link, with a revision | create, redeem, renew, verify a PIN, clean up | file store, bus, gateway |
| settings | role assignments behind a cache | list, write, remove | metadata storage |
| userlog | a list of event ids per user | append, expire, delete | store, eventhistory |
| registry, sync cache | entries with a time to live | register, list, expire, evict | key-value store |

The other services (graph, proxy, web, idp, idm, webdav, ocs, the ones that
only configure a reva service) handle each request on its own or are I/O; they
are listed in `PROJECT.json` with the reason they are not modelled.

### What is hard

*Postprocessing.* Several workers take events from one durable consumer, so the
events of one upload are handled in any order and at the same time. A handler
reads the record, writes it back without a lock, publishes the next event and
acknowledges. Any of these may fail, the process may die between them, and an
event that is not acknowledged comes back. Backoffs and the delay step are
goroutines that exist only in memory. An administrator may resume or restart an
upload at any moment. What must hold all the same: no check is skipped, no
upload is forgotten, no readable file becomes unreadable.

*Debouncers (search, activitylog).* Timers, callbacks and new events race on
one item per key; an event is acknowledged because somebody else's run will
cover it.

*Runner.* A task, an interrupt and a timeout race for one result channel.

*WOPI locks, role assignments, guest links.* Several remote calls per request,
with other clients in between.

`PROJECT.json` lists the hazards one by one, each with its line.

## 2. The modules

    Postprocessing            the record of one upload and its functions
      PostprocessingService     workers, bus, store, timers, step services,
                                storage provider, administrator
        UploadLifecycle           what all this promises for a file
        PostprocessingInvariants  the inductive invariants
          MCPostprocessing          the instances for TLC
          PostprocessingProofs      types, AllStepsPassed
            PostprocessingRefinement  it implements UploadLifecycle
              PostprocessingProgress    NoUploadForgotten

    Runner                    tasks, interrupts, timeouts, results
      GroupRunner               groups of runners, and their inductive invariant
        MCRunner                  runners on their own or in a group, for TLC
        GroupRunnerProofs         the proofs

    SpaceDebouncer            work items, timers and runs of the search service
      SearchEvents              spaces, bus, marks of skipped spaces, crashes
        SearchEventsProofs        the proofs

    ActivityLog               events, parents, write debouncer, bucket
      ActivityLogProofs         the proofs
    WopiLocks                 WOPI requests about the files of a folder
      MCWopi                    the instance for TLC
      WopiLocksProofs           the proofs
    GuestToken                the guest links of one share
      MCGuestToken              the instance for TLC
      GuestTokenProofs          the proofs

**`Postprocessing`** is `postprocessing.go`: `Init`, `NextStep`, `CurrentStep`,
`next`, `step`, `finished` and `retry`, each as an operator that returns the
new record and the event to publish. A record keeps the current step, the last
outcome, the failures and the finished flag; names, URLs and users of an upload
play no role in the protocol.

**`PostprocessingService`** composes the service with everything it talks to.

| Variable | In the code |
|---|---|
| `store` | the key-value store; `NoPP` is a missing record |
| `bus` | how many copies of an event are waiting for their consumer |
| `worker` | a goroutine of `Run`: where it is in `processEvent`, the event it took, the record and the next event it has computed, the attempts of `publishWithRetry`, and whether the event would come back (`held`) |
| `timers` | the goroutines that sleep for a backoff or for the delay step |
| `stopped` | `Close` was called |
| `session`, `file` | the storage provider's upload session, and what readers see of its node |
| `handover` | the uploads whose `FinishUpload` has marked the node and persisted the session, and has not published yet |
| `passed`, `lost`, `faults`, `admin` | history, for the properties and the bounds |

`processEvent` is split where another goroutine or a crash can come in between:

| Action | Code |
|---|---|
| `HandleBytesReceived`, `HandleStepFinished`, `HandleStartDelay`, `HandleUploadReady`, `HandleResume` | the cases of the switch, up to the first write, including the reads of the store and the goroutines they start |
| `HandleUnknownUpload` | `getPP` fails: logged and acknowledged |
| `DeleteRecord`, `StoreRecord`, `StoreFails`, `MarkFatal` | `Delete`, `storePP` after the switch and in the failed case of `UploadReady`, and how each fails |
| `PublishNext`, `PublishAttemptFails`, `PublishStopped`, `PublishFatal` | `publishWithRetry` and what follows its error |
| `ResumePP` | one round of the loop in `handleResumePPEvent` |
| `Ack`, `Redeliver` | the deferred acknowledgement; `AckWait` |
| `TimerFires` | a sleeping goroutine publishes |
| `Close`, `Leave`, `Exit`, `Crash` | stopping, leaving the event loop, the end and the restart of the process |
| `RunStep`, `StepServiceDies` | antivirus, policies or a custom service |
| `FinishUpload`, `PublishBytesReceived`, `FinishUploadFails` | `FinishUploadDecomposed`: the node and the session first, then the event, and what can go wrong in between |
| `HandleFinished`, `FinalizeFails`, `ProviderDies`, `HandleRestart` | the storage provider |
| `Command` | `opencloud postprocessing resume` and `restart` |

Details of the code that the model keeps because they matter: the outcome of
the *record* and not of the event decides whether a backoff goroutine is
started; `next` finds a step by its name and does not ask for the current one;
`Delay` moves the record before it sleeps; after the deletion in `UploadReady`
the code still reaches the write behind the switch; an attempt to publish that
failed may have reached the bus; the acknowledgement is skipped for a failed
write but not for a failed read; a select between a closed stop channel and an
event may take either.

`FinishUploadFails` is the window between the persisted session and
`BytesReceived`: building the URL, reading the user and publishing may each
fail and return, or the process may die. The node then stays marked and the
session open with nothing on its way, and the upload is in `lost`; or the event
got onto the bus although publishing it was reported as failed, and the
postprocessing runs although the client was told otherwise.

The model is about uploads with content to a storage with asynchronous
postprocessing. For an upload without bytes, and on a synchronous storage,
`FinishUploadDecomposed` calls `Finalize` and `Cleanup` itself and starts no
postprocessing: such a file becomes readable without any check, which
`AllStepsPassed` and `UploadLifecycle` do not speak of. Nor is there an upload
whose node cannot be created: its session is marked as failed and stays so.

The consumers of the step services and of the storage provider acknowledge an
event when they take it, so for them one count of copies is enough. The
postprocessing service's own copy of a `StartPostprocessingStep` for another
step than delay, and the results of on-demand scans, which name no upload, are
acknowledged without effect and left out.

**`UploadLifecycle`** is the abstract specification: a file is processing, then
accessible once all checks have accepted it, or rejected; a rejected overwrite
may still be accepted later, as a version. `LifecycleSpec` says that the
service implements it. The refinement mapping (`INSTANCE UploadLifecycle WITH`)
takes `file`, what readers see of the node, for the abstract `content`, and
`passed`, the checks that have reported `continue`, for `accepted`; the set of
checks is computed from the configured steps. Records, events, workers, timers
and sessions are what the abstract specification does not know of.

**`Runner`** is `pkg/runner/runner.go`. `fn` is the task, `doTask` the goroutine
that waits for it, `watch` the one that `Interrupt` leaves behind for the
timeout, `caller` the one in `Run`; `interruptedCh` and the temporary channel
(part of `fn`) have one slot each, `Run`'s own channel has none, so sending on
it is one step with receiving. A `select` with several ready channels may take
any. A stopper is called in a step of its own after the interrupt was recorded,
and a second interrupt returns at once, as the compare-and-swap makes it. There
is no clock: a timeout may come any time after it was armed, which covers every
choice of durations.

**`GroupRunner`** is `grouprunner.go` on top of it: `group` is where `Run`, or
the goroutine of `RunAsync`, is; `sweep`, `todo` and `at` are the loop of
`Interrupt`, which looks at a runner in one step and interrupts it in another;
`timer` and `gich` are the group's timeout, whose channel is closed after its
value was sent. `async` is the choice between the two methods, made when the group is started. The group is
interrupted by others only after it was started, as its callers do.

**`SpaceDebouncer`** is `debouncer.go` of the search service. An item has its
two timers and the message it will acknowledge. What runs under the mutex is
one step; the look at `inProgress` happens before, so `Load` is a step of its
own and several calls of one item can be between it and `Take`. Items that
nothing refers to are collected, so that a small number of them is enough.

**`SearchEvents`** puts it between a durable consumer and the index. A space is
a version, the index the version it covers; a run covers at least what the
space was when the run began; the walk over its files is not looked into. A message is in the stream, out (delivered, not
acknowledged) or acknowledged. `HandleChanged` stands for all events that do
nothing but debounce their space. The handler of `SpaceEnabled` is split at its
requests to the bucket of marks, and so is `Mark` of a reindex request, which
uses the list of spaces it read at its beginning. A run that fails, and a run of
a space that is disabled, is acknowledged like any other and leaves no mark:
`givenUp` is the version such a run has seen.

**`ActivityLog`** is the activitylog service: `activitylog.go`, `debouncer.go`
and the event handlers. A file in a directory of a space is changed, moved,
trashed and purged; an event is the number of its place in the stream.
`AddActivity` is a walk (`consumer`): `Resolve` asks for the id of a path,
`FindParent` takes the parent from the event or from the cache, `AskParent` and
`CacheParent` ask the gateway and fill the cache. `Debounce` holds the mutex
from `DebounceLoad` to `DebounceStore`, but the callback of a timer (`Fire`,
`RemoveItem`, `MarkInProgress`, `WriteBatch`) takes it only to start a timer
again (`Reschedule`), so its steps come in between. `StoreActivity` is one step,
as it runs under a lock: a batch is put, and the oldest batches go until fewer
than `MaxActivities` would be left. Some resources may have no write buffer
(`Buffered`), which is the case `after == 0`.

**`WopiLocks`** is the file and content connector of the collaboration service.
Sessions lock, refresh, unlock, save, rename and delete the files of a folder,
which they know by their ids, and save under a name (`PutRelativeFile`, with a
suggested or a given name). `named` is the file that has the name all of them
ask for; `born` and `exists` are the files that there ever were and that there
are, `saved` the versions of each. A request is a record with the step it is at
and what it has learnt: the status of the call that decides, the etag and the
lock that `Stat` returned. Every call to the gateway is one action, and a call
by name looks the name up anew (`Target`).

A save is `PutStat`, `PutInitiate`, `PutUpload`, `PutWrite` or `PutCreate`, and
`PutStatAfter`. If `Stat` finds no file, the save goes on without an etag
(`NoEtag`), and neither `InitiateFileUpload` nor the write compares anything
then; a name that leads nowhere gets a new file (`PutCreate`), an id that does is
an error. The session of an upload remembers the file it was initiated for, so
from there on a renamed file is still the one that is written. A save without
bytes is written by `InitiateFileUpload`, is not postprocessed, and is not
followed by a `Stat`. After a save or a conflict under a name the id of the file
is asked for (`PutAdjust`).

The lock operations follow decomposedfs: reading an expired lock removes it,
refreshing and unlocking do not look at the time. An upload checks the lock when
it is initiated and when it begins, and compares the etag when it writes. A
delay is an `int64` given by its set of bits, so that `20ms << retries` can be
computed as the code does, beyond the range of TLC's integers.

**`GuestToken`** is auth-guest. The record of a share is read without a lock
and written under its file lock, if its revision is the one that was seen; a
request asks the gateway for the share in between. `Redeem`, `Rotate`,
`Rollback` and `verifyPinAttempt` are these writes, each with its conditions. A
clock of a few ticks drives expiry, cooldown and backoff with the formulas of
the code; a renewal uses the time of its beginning throughout. Publishing may be
reported as failed and have happened all the same. `current` is the history of
the links that were in the record, `orphaned` says that one was left there that
nobody was sent: `Stranded` and a crash between the write and the event are the
ways to it.

## 3. What TLC checks

| Run | Instance | Shows |
|---|---|---|
| `pp_steps` | one overwriting upload, a delay step and two checks (`virusscan`, `policies`), one worker, two faults, one resume or restart at any moment | `TypeOK`; `AllStepsPassed`: a file is readable only after every check accepted it; `NoUploadForgotten`: as long as the storage provider waits for an upload, an event, a worker or a timer will move it on or its `FinishUpload` is still to publish, except for the losses that the code itself logs, or reports to the client, and accepts, collected in `lost`; `LifecycleSpec` |
| `pp_live` | one check, two workers, retries, one fault, fair scheduling | `NoUploadForgotten`; `EveryUploadDecided`: every upload ends, or is in `lost`; the step may ask for a retry as often as it likes, and it is the counting of the failures that ends it |
| `group` | two runners, on their own or in a group, `Run` or `RunAsync`; others interrupt the group and one member; fair scheduling | `GroupTypeOK`; `NobodyAbandoned`: one result per runner, and no runner is left that was not told to stop; `OneResultEach`: one result per runner, and an honest one, with and without the group; `EndedNotStopped`: the runner whose end made the group interrupt the others is not interrupted itself; `GroupReturns`: all results are handed over and no goroutine is stuck; `AloneDelivers`: an interrupted runner of its own delivers |
| `search_crash` | three changes of a space, two crashes at any moment, fair scheduling | `ScheduledWillRun`: a scheduled space has a timer or a call that will take it; `ChangeCovered`: a change that is not in the index is scheduled, or an event of its space comes back; `ChangeIndexed`: every change gets into the index |
| `search_live` | two events of a space that is changed, disabled, reindexed and enabled, one failed request, one redelivery, one call of the debouncer at a time, fair scheduling | `LaterChangeCovered`: a run that fails or finds the space disabled costs only the changes it has seen; `ChangeIndexed`: every change gets into the index, unless such a run has seen it |
| `activity` | three events, one consumer, a write buffer for the root, two activities at most, one failure | `ActivityKept`: what is given to the debouncer before its timer fires is written; `WrittenOnce`; `NewestKept`: the limit costs only the oldest activities; `CacheCurrent`: a cached parent is the one of the last move, unless a later event of the file is still to come or the invalidation failed |
| `wopi` | two writing sessions and a reading one, two files of which the second is yet to be created, two lock ids, three requests of any kind, one failed call, one repeated deletion | `ToldMeansLocked`: who is told that it has the lock has it, unless a lock with that id ended in the meantime; `SavesAreSerial`: a save replaces the version it has seen, even if its lock expired or the name changed hands on the way, except a `PutRelativeFile` that saw no file; `UnlockedFillsEmpty`: a save without a lock id replaces an empty version, with the same exception |
| `guest` | two requests at a time, six in all, three links, two wrong guesses, three ticks, one crash or failure | `LinkRedeemedOnce`; `GuessesLimited`: one session, `MaxAttempts` wrong guesses and the growing wait between them per PIN; `RenewalsSpaced`; `NewestLinkWorks`: no failing renewal takes away the newest link that was published, unless a link that nobody was sent was left in the record before |

Four runs look for a violation and find it; each is a place where the code and
its own comments or tests disagree (`findings` in `PROJECT.json`):

* `search_skipped`: the mark of a skipped space is removed before its run; a
  crash in between loses the reindexing.
* `activity_lost`: the callback of the timer removes the item while `Debounce`
  is between its load and its append. The activity is added to a list that was
  already written, and the item is stored again with a timer that never fires:
  all later activities of the resource are collected there and lost.
* `activity_limit`: `enforceMaxActivities` removes the oldest batch only if
  `MaxActivities` activities are left without it, so a resource keeps up to the
  size of that batch less one more than the maximum that the configuration, the
  comment of the loop and a test promise. The test stores its activities one by
  one, where the two are the same.
* `wopi_delete_wait`: the waiting time of `DeleteFile` is shifted first and
  capped afterwards. At the 39th retry, some three minutes into the
  postprocessing of a file, it is negative, and the loop no longer waits.

The passing runs are limited where the models show the limits of the code:

* `search_crash` has crashes, but no redeliveries and no disabled spaces;
  `search_live` has those, but no crash, and one call of the debouncer at a time;
  two calls that race for one space are in `search_crash`. `ChangeCovered` holds across crashes
  because an item keeps the message it was made for until its run is over:
  whatever happens to the item, that message comes back. With a redelivery and a
  crash, the message may come back while its own item still waits (behind a run
  longer than `AckWait`), is acknowledged as "already scheduled", and the crash
  loses the change. With a space that is enabled and a crash, the item's message
  may be a `SpaceEnabled`, the event of a change is acknowledged because the
  space is scheduled, and when `SpaceEnabled` comes back its mark is gone.
* `ChangeCovered` is about runs that index what they see. An index run that
  fails, or that finds its space disabled, is acknowledged: the change is not in
  the index and nothing is on its way, until the space is changed again or, if a
  reindex request has marked it, enabled. With such runs `LaterChangeCovered`
  holds.
* `search_live` has the stale list of a reindex request: a space that is enabled
  after it was listed as disabled is marked too late, and is reindexed when it
  is enabled the next time.
* `EndedNotStopped` is about runners whose result the group has read. A task
  that ends between the group's look at it and the interrupt has its stopper
  called, although the comment of `Interrupt` says otherwise; harmless for
  stoppers that can be called late.
* `NoUploadForgotten` and `AllStepsPassed` say that a repeated step is
  harmless, not that there is none: a retried step that succeeds leaves the
  outcome `retry` in the record, so the step after it is started by the handler
  and once more by a backoff goroutine. A record that `UploadReady` deletes is
  written back by the `storePP` behind the switch.
* `SavesAreSerial` has its exception because the code has it. Two sessions
  that save under the same free name, or a session that renames a file to it
  meanwhile, overwrite each other unseen: `Stat` finds no file, so `IfMatch` is
  empty, and `storageprovider.go:365` and `store.go:320` compare etags only if
  there is one. The upload is then bound by locks alone. The comments of
  `PutRelativeFileSuggested` and `PutRelativeFileRelative` (`fileconnector.go`,
  664-666 and 794-796: "this method can only generate new files") do not hold
  then. If the name is still free when the upload is initiated, the one that
  comes second fails, because its new node finds the name taken.
* `UnlockedFillsEmpty` is about the size that `Stat` has seen, which the etag
  ties to the version that is replaced; without an etag it says nothing either.
* `activity` has one consumer, the default. With two, a walk may cache a parent
  that another consumer's move has just invalidated, and `CacheCurrent` fails.
* `guest` has one fault. Two renewals that both fail to publish can leave a link
  in the record that nobody was sent, and so does a crash between update and
  event (`orphaned`), or a created link whose event is lost: `CreateToken` finds
  the record when the event comes again. A failed renewal without a session can
  also find that a PIN was tried meanwhile; it is then not rolled back, and its
  unsent link blocks further renewals without a session until it expires.
  `NewestLinkWorks` says nothing from then on: `orphaned` is never taken back.
  The events of
  the share are handled by one consumer, and `ShareCreated` comes again only
  while the share exists: after the cleanup it would make a new record with
  revision 0, and a redemption that has seen the old one would be accepted twice.

**Bounds.** `MaxFaults` caps failures, crashes, redeliveries and shutdowns
together and `MaxAdmin` the commands; the `retry` results of a step are not
bounded, `MaxRetries` is the code's own limit. One upload is enough: records, events, timers and sessions of different
uploads share nothing but the workers, and a worker that serves another upload
is, for the one that is watched, an idle or a busy worker. Two workers are what
a race on a record takes. One fault at every possible point, or two with a
single worker, covers each failure handler and each pair of them. `pp_steps` leaves out the
`retry` results of its steps; `pp_live` has them.

For runners, two are enough for a race between a member and the rest; one of
them may be interrupted by others too. For the search service one space is enough:
spaces share only the mutex, under which nothing waits. Two calls and two items are what it takes for
one item to take another off the schedule (`MaxCalls`, `MaxItems`).
`MaxCrashes` and `MaxRedeliveries` cap the two faults apart from each other,
`MaxFailures` the failed requests and `MaxToggles` how often a space is disabled.

`activity` has a file, its directory and the root, the shortest walk in which a
parent is asked for, cached and used again; three events make a batch beyond the
limit. In `wopi` a third request is what it takes to come between two calls of
one request twice; two files are what it takes for a name to lead elsewhere. The
writing sessions are interchangeable and so are the lock ids, which is declared
as a symmetry. `guest` needs a created link, its session, a renewal with a
PIN and two guesses of it, or two renewals and a redemption, and one request
more; its two requests at a time are interchangeable, which is declared as a
symmetry, and its limits are small enough to be reached. `MaxRetries` is 1 in
`wopi` and large in `wopi_delete_wait`, which makes no other request than the
save and the deletion it needs.

**Deadlock** is not checked: when all uploads are decided, all results
delivered or all events acknowledged, the system rests.

**Fairness** (`pp_live`): weak fairness of each worker (goroutines are
scheduled, the bus delivers), of timers (`time.Sleep` returns), of the step
services and of the storage provider (they handle what they are sent), and of
`Exit` (the supervisor restarts a service that ended). No fault and no command
is fair, and nothing is assumed about the order of events.

The runs of the runners assume that goroutines are scheduled, that timers fire,
that stoppers return and that the channel of `RunAsync` is read, all of which
the comments of the code ask for; a task never has to end. The runs of the
search service assume the same of goroutines and timers, that indexing ends, and that the bus delivers
a message again until it is acknowledged.

## 4. What is proved

TLAPS checks the theorems below for every value of the constants that satisfies
the named assumptions. The bounds (`MaxFaults`, `MaxRequests`, ...) are
constants too, so a theorem holds for any number of faults or requests. All
proofs share a layout: the actions are first reduced to a few *kinds of steps*
(what is taken from the bus, what one worker or request becomes, what is
written), and the parts of the inductive invariant are proved about the kinds.

### Postprocessing

For every set of uploads, every list of distinct steps, every number of workers,
retries, faults and commands:

* `TypeCorrect`: `Spec => []TypeOK`. Beyond shapes this says that a record whose
  steps are done always knows how they ended, so `CurrentStep` never publishes
  an empty outcome. `TypeOK` is inductive as it stands; `TypeStep` has one step
  per action, and the operators of `Postprocessing` have a lemma each.
* `AllStepsPassedAlways`: `Spec => []AllStepsPassed`. The invariant says nothing
  about events that are still on their way, so it is not inductive.
  `StepOrder` strengthens it: every `StartPostprocessingStep`, every result,
  every final event and every record, wherever it is (on the bus, in a timer,
  in the store, in the hands of a worker), was preceded by the acceptance of
  all checks before it (`JustEvent`, `JustRecord`). A stale or repeated event is
  then harmless: it is still justified, because acceptances are never undone
  (`JustGrows`). `NextJust` is the heart of it: what `next` returns for a step
  that was reached and accepted is the step after it, which is reached too.
* `ImplementsLifecycle`: `Spec => LifecycleSpec`. Every step of the service, the
  step services and the storage provider is a step of `UploadLifecycle` or
  changes nothing of it. Besides `StepOrder` this needs `OnlyReceived`: nothing
  is around for an upload that was not received, and a session that can be read
  has not released its bytes.
* `NoUploadForgottenAlways`: `Spec => []NoUploadForgotten`. What is on its way
  for an upload must have a successor after every step, and the difficult step
  is a `retry` result: its worker publishes nothing that moves the upload on,
  only the backoff goroutine does, and that goroutine starts the step the
  *record* names. If the record says `finished` nothing useful is started; the
  upload is saved because a record that is finished (and was not driven there by
  its failures) was finished by an event that is itself still on its way
  (`FinishedRecord`, `FinishPending`). `Finishing` are the events that end the
  postprocessing whatever the record says, and each is succeeded by one of its
  kind (`Follows`, `MovesOn`). The other danger is an event that is acknowledged
  because its record is missing: a record is missing only before anything but
  `BytesReceived` was published for the upload (`Untouched`), or after the
  storage provider has decided (`ReadyDecided`). `Progress` is the conjunction.

Assumptions: the steps are distinct and none is called `finished`
(`StepsAssumption`; `next` finds a step by its name, and `finished` marks a
record that is done), the set of workers is finite, step services report one of
the four outcomes, and the constants that stand for nothing are no events or
records (`NoEventAssumption`, `NoPPAssumption`).

### Groups of runners

For every finite set of runners, none of which has the id `_unknown_`, for `Run`
and for `RunAsync` and whatever others interrupt:

* `GroupTypeCorrect`, `OneResultEachAlways`, `EndedNotStoppedAlways`;
* `NobodyAbandonedAlways`: `GroupSpec => []NobodyAbandoned`. The invariant is
  `GroupInv`. When others interrupt the group, `Run` does not wait for their
  loop and may read results while it is under way, so "the loop is over" does
  not hold when `Run` returns. `Patient` says that a result is only given up
  after the loop, because the timeout starts there. So either the loop is over,
  and `Swept` says that every runner has ended or was interrupted; or all
  results are the runners' own, and since they are as many as the runners
  (`Counted`) and different (`Distinct`), every runner has one
  (`EveryoneReported`, by counting), which `Honest` says is true of it.
* `RunnerDeliversOnce`: `RunnerSpec => []OneResultEach`, for runners that no
  group manages, run with `Run` or `RunAsync`, their contexts and other callers
  interrupting them at any moment. `RunnerInv` has the parts of `GroupInv` that
  speak of a runner alone: `RunnerHonest` (what `doTask` and the goroutine of
  `Interrupt` know is so), `ResultsHonest` and `Distinct`. All steps but three
  only move a runner forward (`RunnerMoves`), which keeps what is known about
  it; `Send` and `RunReturns` deliver the first result of their runner, because
  every result that was delivered before belongs to a runner that is done
  (`DeliversSound`); `Receive` carries a result over (`ReceiveSound`).

### Search

For any spaces, items, calls, consumers, reindex requests and failures:

* `ScheduledWillRunAlways`: with any number of crashes and redeliveries, a
  scheduled space has a timer or a call that will take it. `Wired` says that a
  scheduled item, and the item of a call, is in use and belongs to its space, so
  that no item is given to somebody else while a call still refers to it.
* `LaterChangeCoveredWithoutCrash`: `Spec => [](crashes = 0 =>
  LaterChangeCovered)`. As long as the process has not crashed, a change is lost
  only to a run that saw it and failed or found the space disabled. The
  invariant is `Followed`: the event of the *last* change is open, or the space
  is scheduled, or a run has seen the space as it is now; and a run that will
  acknowledge that event has seen it.
* `LaterChangeCoveredAcrossCrashes`:
  `Spec => [](redeliveries = 0 /\ toggles = 0 => LaterChangeCovered)`. The same
  across crashes, as long as no message has come twice and no space was
  disabled. A crash takes the schedule, so the argument rests on the stream
  (`Recoverable`): there is an event of the space that nobody is about to
  acknowledge, unless the run that will do so sees the space as it is. It needs
  that the message of a scheduled item is open (`ScheduleOpen`) and that a
  message is in one place only (`OnePlace`).
* `ChangeCoveredAlways`: `Spec => [](failures = 0 /\ toggles = 0 /\ (crashes = 0
  \/ redeliveries = 0) => ChangeCovered)`. As long as every run indexes what it
  sees, nothing is given up (`NothingFails`), and no change is forgotten.

These three speak about every behaviour up to its first crash, or up to its
first redelivery, failure or disabled space, and not about instances without them: the
counters only grow (`CountersGrow`), so a state in which one of them is 0 was
reached without that fault. The conditions are needed, not convenient: with a crash and a
redelivery, or a crash and an enabled space, TLC finds the lost changes that
section 3 describes.

### Activity log

For any number of events, consumers, items and failures, any set of buffered
resources and any limit:

* `ActivityKeptAlways`: what is given to the debouncer in time reaches the
  bucket. `Guarded` says what the mutex protects between the lookup of an item
  and its storing, and `Scheduled` that an item whose callback has not removed
  it is the scheduled one or is about to be; so what it holds is not forgotten.
* `WrittenOnceAlways`: no activity is written twice to a resource. `OnceInv`
  says that what is in the bucket, and what each item holds, are pairwise
  disjoint, and that all of it was recorded by walks that have passed the
  resource (`Seen`): a walk only goes up (`Walking`), so it never records a
  second time.
* `CacheCurrentAlways`: with one consumer, the default, the cached parent is
  that of the last move. `CacheInv` adds what the walk itself knows. The
  theorem's hypothesis is that all consumers are one; with two it is false.
* `NewestKeptAlways`: for batches of any sizes, what `enforceMaxActivities`
  leaves is enough. The invariant is `BucketInv`: the deleted batches are a
  prefix of the stored ones, and what is left is `Enough`. A stored batch keeps enough (`AppendEnough`), the loop stops
  before it takes too much (`ExcessStops`), and where a deletion fails fewer
  batches are gone than it could have taken (`LessEnough`). Batches are finite
  because events are numbered as they are taken (`BatchesFinite`). How many
  batches the loop deletes is a maximum, what a sequence of batches adds up to a
  recursive function over it. Its equations (`Counts`, `TotalCounts`) and what
  follows from them for prefixes and suffixes (`CountsPart`, `KeptLess`, `AppendCounts`) are proved without the library's
  induction rules, by least counterexample: `LeastNat` gets the least element of
  a set of naturals from the well-foundedness of `<`.

Assumptions: the file, its directory and the root are three resources, and the
constant for nothing is neither a resource nor a consumer.

### WOPI locks

For any sessions, files, lock ids, kinds of requests, failures and retries:

* `ToldMeansLockedAlways`: a session that is told that it has the lock has it,
  unless a lock with that id ended since it asked. `Honest` extends this to the
  requests that are about to be told.
* `SavesAreSerialAlways`: a save replaces the version it has seen, or is a
  `PutRelativeFile` that saw no file. For `PutFile` the second cannot be:
  `Knows` says that a `PutFile` that saw no file refers to one that is gone for
  good, because an id is used once (`Grown`), and that a new file is created
  without an etag only.
* `UnlockedFillsEmptyAlways`: a save without a lock id replaces an empty version
  or saw no file. `Knows` carries the size that `Stat` saw, which belongs to the
  etag, up to the write that compares it.

The assumptions that matter are that "no lock" is not a lock id and "no file"
is not a file.

### Guest links

For any number of requests, links and faults, and any cooldowns, caps and
lifetimes:

* `LinkRedeemedOnceAlways`, `GuessesLimitedAlways`, `RenewalsSpacedAlways` and
  `NewestLinkWorksAlways`.

The argument is about two kinds of records: the one on disk, and the one a
failing renewal may put back. `Locked` says that a record that is seen again
with its revision is the same record, that the record of a share is created
once, and that at most one renewal can put a record back, the one that wrote
last. `Fresh` says that links and PINs are new when they are issued. Both kinds
of records then have to account for the past: `LinkAccounted` (a link that was
exchanged is marked as redeemed), `PinAccounted` (the backoff state counts the
guesses, and says when the next may come), `QuotaAccounted` (the quota is not
available before the cooldown of every renewal that was published or is about
to be) and `NewestInv` (no link younger than the record's was published). A
roll-back restores a record that accounts for everything except the renewal
that failed, which is why the restored quota is right.

Assumptions: the lifetimes and the parameters of the backoff are positive,
cooldowns, windows and caps are natural numbers, and no record is a record that
is not there (`NoRecordAssumption`).

### What stays with TLC

* Liveness (`EveryUploadDecided`, `AloneDelivers`, `GroupReturns`,
  `ChangeIndexed`): fairness and `ENABLED` are out of the prover's reach. The
  safety halves are proved: `NoUploadForgotten`, `NobodyAbandoned`,
  `ScheduledWillRun`, `ChangeCovered` and `LaterChangeCovered` say that somebody who will act is
  always there.
* The four runs that find a violation.

TLC evaluates every named assumption on the instances of the runs. `StepOrder`,
`Progress` and `GroupInv` are in modules that the modules of the runs extend, so
that TLC can check them on an instance, too.

## 5. What is not modelled

Time (a backoff is over some time; its length and a possible overflow are not
looked at), metrics, tracing, the content of files and messages, the layout of
the store, the configuration, and of the storage provider everything that the
postprocessing protocol does not depend on: trees, quotas, blobs, empty and
synchronous uploads.
Of the search service: the engines, the operations on single items and the
deletion of a space. Of activitylog: reading the activities, and the removal of
a resource's activities, which writes a key that no reader uses. Of
collaboration: `CheckFileInfo`, `GetFile`, and the names that `PutRelativeFile`
and `RenameFile` generate when theirs is taken, which are taken as free; writers
that do not come through WOPI and files restored from the trash; an upload whose
postprocessing rejects it, or that goes on after its client has timed out; and
`isLockModificationAllowed`, which always passes for locks of the same app. Of
auth-guest: hashing, the session tokens, the file lock itself, which is taken as
exclusive, and a roll-back whose write fails, which leaves the record as a crash
before it does. Concurrent uploads to the same node,
where the later session owns the processing mark, are left out.

settings, userlog, the registry and the sync cache keep state of their own and
could be modelled the same way. Most of the remaining code (graph, proxy, web,
webdav, thumbnails, the generated code under `protogen`, the query language and
the index engines) translates requests, documents and configuration; it has no
protocol that a model checker could explore.

## 6. What could follow

1. `SearchEvents`: the deletion of a space.
2. `SettingsStore` (role assignments and their cache), then userlog, registry,
   sync cache: the hazards without a property in `PROJECT.json`.

Every invariant and the refinement that the passing runs check are proved; what
is left to TLC is the liveness of section 4.
