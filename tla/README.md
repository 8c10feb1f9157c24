# TLA+ models of pyobs-core

pyobs runs an observatory as a set of *modules* (processes, or objects in one
process) that call each other's methods, publish states and send events.  The
modules in this directory model the parts of it where concurrency decides
whether the hardware is used correctly: asyncio tasks that share a device,
requests to servers that take time or fail, timeouts, and aborts.  TLC checks
them on small instances; TLAPS proves the main safety properties for any
number of tasks, clients and observations.

## 1. The system

| component | state | operations | interacts by | what is hard |
|---|---|---|---|---|
| `LockWithAbort` | an asyncio lock and an abort event, shared by the handlers of a device | enter (1 s, then abort and 10 s), leave | every motion handler of roof and telescope | several waiters, lost aborts, timeouts that race with the end of a motion |
| Roof (`DummyRoof`, `BaseRoof`) | position, motion status | `init`, `park`, `stop_motion` | RPC, events, published states, weather | aborted motions go on as finished ones; publishes suspend and fail |
| `MotionStatusMixin` | status, status per interface | `_change_motion_status` | events, states `IMotion`, `IReady` | status set before it is published; combined status |
| `WeatherAwareMixin` | weather flag, failures, its own lock | bad and good weather events, check every 10 s | `IWeather` state, calls `park` | lost events, overlapping park tasks, statuses left by failures |
| Camera (`BaseCamera`, `DummyCamera`) | status, exposure, abort events, sequence counter and task | `grab_data`, `grab_sequence`, `abort_sequence`, `abort`, settings | RPC, events, states, file system | no lock: checks of a status that is set after an await |
| Telescope (`BaseTelescope`, `DummyTelescope`) | motion status, tracking mode, offsets | moves, tracking, park, init, stop | lock, `WaitForMotionMixin`, weather | status checked before a wait of eleven seconds, tracking refresh in the background |
| Module lifecycle (`Object`, `Module`, `Application`) | STARTING / READY / ERROR, exception counts | open, close, execute, `reset_error`, `quit` | everything | errors during start, children that fail to open |
| `BackgroundTask` | the task, a count of fast failures | start, stop, restart | modules | state left behind by the run that failed |
| `Comm`, `Proxy` | proxies, cached states, subscriptions | proxy, subscribe, set state, events | backends | two tasks asking for one proxy, late unsubscribe |
| `XmppComm`, `XmppClient` | online clients, futures of their interfaces, subscriptions | presence, discovery, publish and subscribe, reconnect | XMPP server | presence that changes while a handler awaits; cleanup on disconnect |
| `RPC` | a future per call | call, answer, fault, timeout message | XMPP server | late and missing answers |
| `LocalComm` | states and handlers of one process | the same as XMPP, without suspending | other modules | handlers called in the middle of a caller |
| `Mastermind` | current task, number, running flag | loop over observations, `start`, `stop` | archives, scripts, events | failures between two requests, stale copies |
| Observation and task archives (backend, LCO, file, memory) | copies of schedule and tasks, markers | poll, add, clear, update | HTTP servers, files | download races with updates; matching by ID |
| `Scheduler` | known tasks, update flag, start time | update, run, worker | archives, task events, weather | triggers that arrive while others are handled |
| Planning algorithms, merits, constraints | none (computation) | `schedule` | scheduler | numerical |
| Scripts | running sub-scripts | sequential, parallel, conditional, selector | proxies | one of several fails, abort |
| Guiding, acquisition, focus, flat field | loop state, offsets, series | start, stop, abort, loops of exposures | camera, telescope | abort between exposure and correction |
| Weather | status, sensors | polling, `set` of the active flag | HTTP server, events | outages, stale values |
| Video, spectrograph, pipeline camera | as camera, plus streams | as camera | as camera | several consumers of one frame |
| Image pipeline, file system, command line, utilities | little | computation, I/O | - | out of scope |

What makes the components correct: a device is used by one task at a time; a
status that others act on is true, or about to be corrected by somebody; an
abort is final; a call that has begun returns; bad weather ends with a closed
roof; an observation that has begun is ended for the server; a copy of a
server's data catches up.  `PROJECT.json` lists under `hazards` the lines of
the code where each of these could go wrong.

## 2. The modules

| module | models | |
|---|---|---|
| `ExclusiveUse` | the promise of a device class: users come one after the other | abstract |
| `AtMostOnce` | the promise of a remote call: it runs at most once and ends once, with an outcome that is true | abstract |
| `LockWithAbort` | `utils/threads/lockwithabort.py`, with the waiting line of `asyncio.Lock` | component |
| `Roof` | `DummyRoof` + `BaseRoof` + the two mixins, on `LockWithAbort` | composition |
| `Telescope` | `BaseTelescope` + `_DummyTelescopeBase` + three mixins, on `LockWithAbort` | composition |
| `Camera` | `BaseCamera` + `DummyCamera` on either backend | component |
| `Mastermind` | `Mastermind` + `BackendObservationArchive` + the schedule on the server | composition |
| `Scheduler` | `Scheduler` + `BackendTaskArchive` + what it submits to the server | composition |
| `Presence` | what `XmppComm` and `Comm` keep about peers: presence, discovery, proxies, subscriptions, reconnects | composition |
| `Calls` | `RPC` and `XmppComm.execute` on one side, `RPC`, `Module.execute` and the life of a module on the other | composition |
| `LockProofs`, `RoofProofs`, `TelescopeProofs`, `CameraProofs`, `MastermindProofs`, `SchedulerProofs`, `PresenceProofs`, `CallsProofs` | theorems | proofs |
| `MCRoof`, `MCTelescope`, `MCCamera`, `MCMastermind`, `MCScheduler`, `MCPresence`, `MCCalls` | instances for TLC | |

`Roof`, `Telescope`, `Camera` and `Mastermind` each implement `ExclusiveUse`: the
refinement mapping names the tasks inside the lock's block, the tasks that use
the detector, and the observations that are in progress.  `Calls` implements
`AtMostOnce`: what has become of the method is read off the module, the outcome
off the caller.

Conventions: an asyncio task runs until it awaits something, so an action takes
a task from one await to the next, and `pc[t]` (or `pc`) names the await.
Several publishes in a row are one await.  Timeouts are actions that are enabled
whenever their wait lasts.  Definitions ending in a phrase such as `Idle`,
`Unchecked` or `Late` and marked "wrong on purpose" are not part of a
specification: each is a plausible slip of the definition after it, with which a
property must fail.

### Roof and its lock

`stage`, `ahead` and `asked` are the lock: where a task is in `__aenter__`,
which tasks it waits for, and the tasks that have set the abort event since it
was last cleared; the event itself is `abortSet`.  A task that times out in its
first try leaves the line and joins its end (`FirstTimeout`), as
`asyncio.wait_for` cancels the waiter.  In `GiveUp` a second timeout counts as a
fault only if nobody has got the lock since the task asked: the same holder has
then ignored the event for ten seconds, stuck in a publish.  Where others were
served meanwhile it is an ordinary step, also if one of them has set the event
again.  `status` and `position` are the roof; `pc` and `op` say
which handler a task runs and at which await.  `init`, `park` and `stop_motion`
are `BeginInit`, `BeginPark`, `BeginStop` (before the lock), `GetLock`,
`Started`, `MoveStep`, `MoveAborted`, `SetFinalStatus`, `SendOpened` and
`Return`.  `ChangeStatus` is `_change_motion_status`: it sets the status at
once and, if it is a new one, awaits its publication (event and two states,
taken together as one await).  Publishing always may suspend here, which covers
both backends.  `PublishFails` is an exception out of it; it ends the handler
and releases the lock.

Of the weather the roof sees `alarm`: a task for `__set_bad_weather` was
created.  `WeatherCheck` is one round of the ten-second check, including its
failures, which either count up or order to park; `SkyChanges` stands for the
weather module and its event, which may be lost.  Good weather never moves the
roof.  `SetBadWeather` contains the check of the mixin's lock and of the status.

### Telescope

The lock is the one of the roof.  `status` and `single` are the combined status
and those of the interfaces `ITelescope` and `IFilters` (`Combine`); `dest`,
`simStatus`, `arriving` and `lost` are the simulated mount: whether it has a
destination, what it thinks it does, that it has arrived and is publishing so,
and that `_position` has become `None`.  `tracked` is a body to be followed.

`BeginMove`, `GetLock`, `Announced`, `Slew`, `SlewEnds`, `DomeFollowed` and
`Return` are `move_radec` and `move_altaz`; `BeginTrack`, `BodyResolved`,
`TrackMoved` and `TrackUnmoved` are `track_body` and `track_orbital_elements`
around a move, which end in a first tick of the refresh; `RefreshTick` and
`TickDispatched` are the background task and its slew back onto the body.
`ParkStarts` and `ParkDone` are `park`.  `init` and `set_filter` do not take the
lock.  `SimReaches` and `SimArrives` are the halves of an arrival, between which
the status is published: a stop in between leaves the mount without a position
(`lost`), a new move in between without a destination (`Overtaken`).  Of the
weather only its orders to park are modelled.

Left out: coordinates, offsets, derotator, `set_focus` (a lock of its own), the
refresh of the Sun's position, following a dome, and closing.

### Presence

`avail` and `greet` are the server: the peers online, and those whose presence it
has still to send after a (re)connect.  A number `d` is one run of `_got_online`,
at `pc[d]`, for the peer `about[d]`; the same number is the future that this run
puts into `_interface_cache` (`cache`).  `online` and `known` are
`_online_clients` and `_client_states`.  `listening` and `keys` are one
registered event and the subscriptions to it.  A number `r` is a call of
`_get_client` and the proxy that it builds; `held`, `nodes`, `closing` and
`doomed` are the subscriptions to states: those that `Comm` knows, those
registered, tasks of `_client_disconnected` to be run, and what the running ones
have still to undo.

`Disconnected` contains the loop of `_disconnected` as it is: it removes from the
list that it iterates over, so half of the clients stay (any half, since the list
is a set here).  `ModuleFound` lists the peer wherever it may be by now.  Who
waits for a future that has been replaced or deleted waits on
(`InterfacesKnown` needs a result); the code gives no such waiter a timeout.
Not modelled is that a caller of `_get_client` is cancelled: `get_interfaces`
awaits the shared future unshielded (`xmppcomm.py:492`), so this would cancel it
for every caller, and `_got_online` gives a future that is done no result (lines
704-706).  Outside of closing a module nothing in the repository cancels such a
caller.  `keys` has a subscription from the step that makes its task
(`ModuleFound`, `RegisterEvent`), while the code records it when that task first
runs; as only `unregister_event` removes one, this changes nothing but the moment.

Left out: the values of states and the contents of stanzas, fetching of
capabilities, presence subscriptions, `unregister_event`, and the order in
which retried requests to subscribe and unsubscribe reach the server.  After a
conflict or a failed login the module quits, which is a connection that stays
down.

### Calls

`pc[i]`, `future`, `timers` and `table` are the caller: `RPC.call` in its two
awaits (the acknowledgement of `iq.send()`, then the future), the future with its
timer, and `RPC._futures`.  `wire` keeps the answers of a call in order and may
lose them; `tasks` are handlers of stanzas that have been started, which asyncio
may run before or after the wake-up of `iq.send()`.  `serve[i]` is the call at the
module.  `state`, `opened`, `recovered` and `severe` are the module: its state,
whether `open` has ended, whether `reset_error` has been run before that, and the
callbacks of severe exceptions that are still to be run.

`Deliver` is RPC's handler up to the announcement of a timeout; `Refuse`,
`Begin`, `GetPermittedMethods` and `ResetError` are `Module.execute` with its
conditions in their order: `Starting`, which passes over the two methods of
`_STARTING_WHITELIST` (`Whitelist`), `InError`, and the ACL (`AclDenied`), which
passes over `get_permitted_methods`.  `Return` and `Raise` end a method.  `Startup`,
`ErrorCallback`, `Quit` and `Restart` are the life of the module.  The lengths of
timers are left out; a caller that tries again makes another call.  Also left
out: the ACL's log mode, the methods for labels and logs, `MultiModule`, and the
local backend, whose calls do not leave the process.

### Camera

`running` is the task that has not been suspended: with `LocalComm` the methods
of the backend are coroutines that never wait, so that a task that has come to
one of them continues before anybody else (`Await`, `Resumes`).  With
`XmppComm` they wait for the server.  The backend is chosen in `Init`.
`CallGrab`, `CallSequence`, `CallAbortSequence` and `CallAbort` are the
handlers up to their first await; `CallAbort` is also `_abort_weather`.
`SetStatus` and `StatusPublished` are the halves of `_change_exposure_status`
(event, then assignment and state), `change[t]` says on whose behalf.
`StartExposure` to `Saved` are `__expose` and `DummyCamera._expose`; `CreateRun`,
`RunTurn`, `RunCounted` and `RunEnds` are the sequence.  Failures of the
backend and of reading and saving an image leave exactly the state the
exception handlers leave.  `aborted` is a history variable for one property.
The length of an exposure, FITS headers, file names and progress are left out;
`request_fits_headers` is one await.

### Mastermind

`schedule` is the server (external; modelled from how the archive uses it) and
`moved` says that its marker is beyond the archive's `_last_marker`. `poll`,
`answer` and `cache` are the archive: the marker is read, the download is
answered, the answer replaces the copy if it differs. `pc`, `held`, `state` and
`linked` are the loop of `Mastermind`: the observation it took is an object in
the copy (`linked`) until a download replaces the copy, and setting its state
changes the copy, too. `LoopFails` is an exception outside of `run_task`, after
which `BackgroundTask` starts the loop anew; `Restart` is a restart of the
module. `failed` remembers that either has happened. The scheduler appears as
the two requests it makes; it cancels only observations whose window lies
ahead, because it starts planning from now plus its safety time. The end of a
window and the server's sweep that marks what is still pending then
(`MarkExpired`) are two steps; in between a download leaves the observation out
(`end_after`), and the copy may lack it although it is pending
(`ShowsPending`). Numbering, FITS headers and the resolution of a task by its
ID are left out, and a download page by page is one answer.

### Scheduler

`tasks`, `moved` and `schedule` are the server.  `poll`, `answer` and `known` are
the task archive: when a download differs from its copy it calls
`_update_schedule`, which runs without suspending (the archives answer from
their copies) and is therefore part of `PollApplies`.  `Wanted` is its decision;
as Scheduler turns off the download of the schedule (`scheduler.py:106`) the
copy in which it looks for removed tasks is empty (`CopiedSchedule`), and so is
its search for a current observation.  `need`, `updated` and `from` are
`_need_update`, `_initial_update_done` and `_schedule_start`.

The worker goes through `Begin` (choose the start, reset the request),
"clearing" (`clear_schedule`), "planning" (`Yield`, one observation at a time),
"submitting" (the first observation) and "completing" (the others);
`Interrupted` is the `break` and the `continue`.  `Effects` is what the request
under way may do to the schedule, whether or not its answer arrives.
`RequestRepeated` is one of the retries of `http_request_with_retries`: the
attempt that failed may have been served, so that a POST that is repeated stores
its observations twice (`try` tells the two apart).

Time is a number of slots, and an observation takes one or several of them.  A
round may start in the middle of an observation that is under way or still
ahead: clearing the schedule takes what starts from the round's start on and
leaves what begins before (`Remains`), and the planner does not know of it.  The
planner is free: any tasks that it was given, any times, also overlapping ones;
it only yields each observation once.  For the properties an observation carries
the start of its round (`since`), which of the round's two requests submitted it
(`post`) and the attempt.  Assumed of the server: it cancels what is pending from
the given time on, may or may not cancel what is in progress, does not move what
it has been given, and serves a request while the client waits for it or never.
The last is an assumption on the network, too: a POST that is served after its
last attempt was given up could land in the time of a later round.
`requested`, `ignored` and `failed` are history variables.

Left out: `start` and `stop` only publish a state, the worker plans all the
same; that the only task removed is the one started last makes no difference
while removals count for nothing; projects and the contents of tasks (equal
sets of tasks may still differ in contents, which is a choice).

## 3. What TLC checks

| run | instance | properties |
|---|---|---|
| `roof` | 2 clients and the weather, 2 steps to open, 3 calls, 1 fault | `TypeOK`, `LineIsOrdered`, `MotionIsVisible`, `ParkedAtRestIsClosed`, `OneMotionAtATime`, `BadWeatherClosesRoof`, `CallsReturn` |
| `roof_opened_event` | 2 calls, no fault | `OpenedEventMeansOpen`: violated |
| `camera` | 2 clients, 2 sequence tasks, sequences of up to 2, 3 calls, 1 fault, both backends | `TypeOK`, `IdleMeansFree`, `AtRestIsClean`, `OneExposureAtATime`, `AbortIsFinal`, `EverythingEnds` |
| `camera_overlap` | the same | `BusyCameraRefuses`: violated |
| `camera_two_sequences` | the same | `OneSequenceAtATime`: violated |
| `mastermind` | 2 observations, 1 fault | `TypeOK`, `CacheIsFresh`, `OneObservationAtATime`, `CacheCatchesUp`, `StartedEnds` |
| `scheduler` | 1 task, 2 slots, plans of up to 2, 2 attempts at a request, 2 calls of `run` or events, 1 change of the tasks, 1 fault | `TypeOK`, `PlansOwnTheirTime`, `PlanIsCurrent`, `OutdatedPlanIsGivenUp`, `ComesToRest`, `TasksCatchUp` |
| `scheduler_request_lost` | 1 request, 1 change, no fault | `RequestIsKept`: violated |
| `telescope` | 2 clients with 7 handlers between them, weather, refresh, simulator; 2 calls, 1 fault | `TypeOK`, `ParkedAtRestIsStill`, `OneMotionAtATime`, `BadWeatherParks`, `CallsEnd` |
| `telescope_parked` | the same, no fault | `MoveSparesParked`: violated |
| `presence` | 2 peers, one publishes and is asked for; 2 presences, 2 requests, 1 fault, 1 further attempt | `TypeOK`, `PendingHasDiscovery`, `ListedHasState`, `CachedProxyIsFed`, `CallbacksAreOwned`, `PublishersAreHeard` |
| `calls` | 2 calls that choose among 6 methods (slow, denied, of `IModule`, on the whitelist, unknown), 1 severe exception at a time, 1 fault | `TypeOK`, `PendingIsListed`, `RunsOnlyOpened`, `CallsAreAtMostOnce`, `CallsEnd` |

**Bounds.**  `MaxCalls` bounds the calls of clients in a behaviour, `MaxFaults`
the failures, `Top` the steps of the roof, `MaxCount` the images of a sequence.
Three calls are the least with which one handler holds the lock, a second has
aborted it and a third is behind that one in the line; the weather task comes
in addition, in every state.  Two steps give the roof a position in between.
Two images give a sequence a delay and a last image; with three calls a grab,
a sequence and an abort, or a sequence, its abort and a second sequence meet.
One failure reaches every exception path; two observations are enough for one
to be in progress when another is taken, added or cancelled.  `countLeft` needs
no bound of its own: it goes to -1 with one backend and to -2 where grabs
overlap.  The scheduler starts with any set of tasks, so that its first update
is one request more; two more may interrupt the plan that it caused and the
next one.  `Horizon` ends time; two slots and plans of two observations give a
plan a first observation and a rest, a start that is not the earliest, and an
observation that reaches over it.  One task is enough, since an observation is
told from another by its slots as well; the fault is a failed or repeated
request, or a restart.  With a single fault a request is repeated once.

Two calls suffice for the telescope, because weather and refresh contend for its
lock without being called: with both calls waiting there are four tasks in the
line.  The clients are given different handlers: each handler of one can meet
each of the other's, and the weather's park all of them.  Two presences let a discovery be overtaken by
another one of the same peer, or both peers be discovered at once; two requests
race for one proxy; the fault is a lost connection or an answer that does not
come.  Remote calls share nothing but the module, so two of them, one of which
may be `reset_error`, are enough for one to change what the other meets, and one
fault is enough to lose any stanza of either or to end the module under them.

**Deadlock** is checked for roof and Mastermind.  The behaviours of the
others end when calls, requests, presences or slots are used up, so there
`CHECK_DEADLOCK FALSE` is set; `EverythingEnds`, `ComesToRest` and the two
`CallsEnd` say that nothing else can stop camera, scheduler, telescope and calls.
Presence has no such property: who waits for a future that has been replaced
waits for ever, in the code too.

**Fairness.** Weak fairness of the steps of a task: asyncio resumes every task
whose await has ended, and timers fire.  The lock grants in order, so weak
fairness of each task's progress is enough; timeouts get none.  The weather check
comes every ten seconds: weak fairness makes it find lasting bad weather, since
even a failing check counts as bad weather the third time in a row; in good
weather it is never made to order a park.  The archive polls every five seconds,
and requests are answered or fail, failures being bounded by `MaxFaults`.  No
client or event is assumed to come, no observation to be found, and no task to succeed.
The telescope's lock is granted as soon as it is free and the weather task is at
the head of the line, which is strong fairness of that step: while the refresh
keeps the lock busy it is enabled again and again.  `BadWeatherParks` takes the repeated orders of the weather check for a
premise, as they are the environment's.  For remote calls only the tasks and
timers of the caller are fair: nothing is asked of the module or the connection,
and every call ends all the same.
In the telescope the second timeout of a waiter fires after its ten seconds: it is
fair unless it would count as a fault (`t \notin asked`).

**What the runs show.**  With `LockWithAbort` motions of the roof exclude each
other through every interleaving of timeouts, aborts and failures; a roof that
stands parked is closed (`ParkedAtRestIsClosed`) because whoever aborts a
motion also replaces its status; lasting bad weather closes the roof, whatever
clients do.  The last two hold only while no publish fails or gets stuck: a
park that fails after setting PARKING leaves a roof that the weather task does
not touch again (`weatheraware.py:79`).  The camera keeps its promises with
`LocalComm` (`IdleMeansFree`, `OneExposureAtATime` and `AbortIsFinal` are about
this backend).  With `XmppComm` it still cleans up (`AtRestIsClean`), but
exposures may overlap and an abort may be lost.  Cleaning up and coming to an
end (`AtRestIsClean`, `EverythingEnds`) exclude failing publishes, which can leave
EXPOSING or a positive counter behind (`basecamera.py:385` and `428`).  Mastermind's copy of the schedule may be replaced by an
answer that is older than its own request, so an observation may be offered
again; but then the marker has moved and the next poll repairs it
(`CacheIsFresh`, `CacheCatchesUp`).  What Mastermind's properties say holds up to
the first failure of its loop or restart of the module (`failed`): after one, an
observation may stay in progress for ever (`mastermind.py:202`), or be in
progress in the copy and pending on the server (line 200).

From its start on the last round of the scheduler owns the schedule: once it has
cleared it, all that is to come there is its plan, and of any two rounds'
observations only one that begins before the other round's start can reach into
its time (`PlansOwnTheirTime`).  That much the code does not prevent: an
observation that begins earlier is neither cancelled nor known to the planner.
Nor is the doubling of observations by a POST that is repeated; it goes no
further than that request, and the next clearing takes the doubles along.  A plan
that was outdated before it was complete is not submitted
(`OutdatedPlanIsGivenUp`).  At rest the schedule reflects
the tasks and requests (`PlanIsCurrent`) with two exceptions that the property
names: a round that failed is not repeated, and an update that adds no task may
reset a request and leave a removed task on the schedule.

A telescope has one motion at a time, and every call of it ends, except that a
move whose predecessor's arrival took its destination away waits until it is
aborted.  In bad weather it is parked and still again and again: not for ever,
because park does not forget the tracked body and the refresh may move the
telescope away once more; `ParkedAtRestIsStill` therefore speaks of telescopes
that follow no body.  The combined status always is that of the interfaces.

What a module knows of its peers is consistent with itself, whatever the order of
presences, discoveries, disconnects and requests: a future in the cache has a
discovery that will resolve it, a proxy in the cache is fed, no callback is left
behind, no listed publisher is missed.  It need not be true: peers that are gone
may be listed, after a disconnect or because a discovery ended late, and a state
that changes during the discovery is dropped.

A remote call runs at most once, and what its caller learns is true of what the
module did; a caller that gives up learns nothing, and the method may run
afterwards.  While a module starts, no method runs but `get_permitted_methods`
and `reset_error`, unless `reset_error` has been called, which sets READY.

**Disagreements with the documentation** (runs that are expected to be
violated): `RoofOpenedEvent`, "to be sent when the roof has finished opening",
is also sent when the opening was aborted; `grab_data` promises
`DeviceBusyError` "if the camera is already busy", but with `XmppComm` two calls
may pass the check, because the event is awaited before the status is set;
`grab_sequence` promises it for a camera "already running a sequence", but
accepts a second sequence after `abort_sequence` or `abort` while the first task
is alive;
`run` of the scheduler is to "trigger a re-schedule", but an update of the tasks
that finds nothing new resets its request; `move_radec` is to "do nothing, if
initializing, parking or parked", but asks before it waits for the lock, and
slews a telescope that another task, a client's or that of the weather, has
parked meanwhile.

## 4. What is proved

All theorems are for arbitrary finite or infinite sets of tasks, clients,
sequences (a finite set) and observations, and for any bounds; the only
assumptions are the named ones on the constants (`RoofAssumption`,
`TelescopeAssumption`, `CameraAssumption`, `MastermindAssumption`,
`SchedulerAssumption`, `PresenceAssumption`, `CallsAssumption`).  Each module first
proves an inductive invariant and then what follows from it.

- `LockProofs`.  The lock is held by one task at most and its line is an order
  (`LockSafety`).  Mutual exclusion alone is inductive, since a grant needs a free
  lock; the line needs that only waiting tasks stand in it, which is part of
  `LineIsOrdered`.  From the order follows that waiting tasks are served first
  come, first served, up to the timeout that sends one to the end of the line
  (`LockServesInOrder`), and the lock implements `ExclusiveUse` with its holders as
  users (`LockImplementsExclusiveUse`).  The step lemmas are stated for single
  actions of the lock, so that a device can use them for its own steps.
- `RoofProofs`: `RoofTypes`, `RoofLineIsOrdered`, `MotionAlwaysVisible`,
  `ParkedRoofIsClosed`, `RoofImplementsExclusiveUse`.  The invariant `RoofInv` ties
  `pc` to the lock (a task in the block is the holder, a task at "locking" is out
  or in the line), and the status to the motion of the holder.  For
  `ParkedRoofIsClosed` it says in addition that as long as nothing failed, a parked
  status on a roof that is not closed means that a task is still on its way to
  replace it: whoever has set the abort event since it was last cleared waits, and
  gives up only with a fault.  Further:
  `RoofUsesLock` shows every step of the roof to be one of the lock's or none, so
  that the roof implements `LockSpec` and inherits its order (`RoofServesInOrder`:
  also the weather is not overtaken).  `RoofHasOpenedUnlessAborted` is how much of
  the doc of `RoofOpenedEvent` is true: whoever sends it has opened the roof, or
  the event that aborted its motion is still set (nobody clears it before the
  handler returns, which is what `EndsAtTarget` says).  `RoofAtRestIsReady` is the
  safety half of `BadWeatherClosesRoof`: without a failed or stuck publish a roof
  at rest is never left in PARKING, INITIALIZING or ABORTING, and PARKED means
  closed, so that `SetBadWeather` is not refused for a status left behind.  It
  needs `MotionHasTask`: a status that is not final belongs to a task that is at
  that motion, or to a stop which announces itself before it has the lock and whose
  request nobody has consumed.
- `TelescopeProofs`: `TelescopeTypes`, `ParkedTelescopeIsStill`,
  `TelescopeImplementsExclusiveUse`, on the step lemmas of `LockProofs`.
  `TelescopeInv` ties `pc` to the lock, says that the status is the one that the
  interfaces combine to (`CombinedStatusAgrees`), that a mount being parked or
  stopped has no destination (`StoppedMountStandsStill`), and (`ParkedMoves`) that a
  destination under a parked status belongs to a move that will replace the
  status.  `TelescopeUsesLock` and `TelescopeServesInOrder` are as for the roof, with
  the refresh of the tracking as one more task in the line.
  `MountMovesForItsOwner` is about steps: the mount is given a destination only by
  the holder of the lock, in a move or in the refresh of a body that is tracked
  at that moment.  `TelescopeAtRestListens` says that without faults a telescope at
  rest does not say that it parks or initializes, although `init` and `set_filter`
  set statuses without the lock: the last one to set such a status replaces it for
  all interfaces (`ShownHasTask`).  SLEWING may be left behind, by an aborted refresh;
  it does not keep the weather or a move from the telescope.
- `CameraProofs`: `CameraTypes`, `IdleCameraIsFree`,
  `CameraImplementsExclusiveUse`, `AbortedCameraStaysAborted`.  `CameraInv` says
  for `LocalComm` that a task at an await of the backend is the one that is
  running, that one task at most is in `grab_data`, that a grab that has set the
  status can be seen, and that after an abort the counter is not positive and
  nobody is about to start.  `IdleMeansFree` by itself is not inductive: it says
  nothing of a task between its check and the assignment, which is what
  `NotSuspended` is for.  Also for `LocalComm`: `BusyLocalCameraRefuses`, the promise
  of `grab_data` that a run refutes for XMPP, and `LocalAbortAndCount`: an exposure
  under way at an abort finds the event set and the detector stopped, and the
  counter of a sequence goes below zero by one at most.  `RestingCameraIsClean` is
  for either backend: each thing that a call or a sequence has changed has a task
  on its way that will reset it, not necessarily the one that changed it, as grabs
  may overlap and sequences share a counter.
- `MastermindProofs`: `MastermindTypes`, `SleepingCacheIsFresh`,
  `MastermindImplementsExclusiveUse`.  `MastermindInv` adds to `CacheIsFresh` that
  an answer under way agrees with the server unless the marker moved, that the
  object in the copy agrees with what the loop believes (`LinkedAgrees`), and
  that an observation in progress is held by the loop at an await that will end
  it (`InProgressIsHeld`).  From the same invariant: `ProgressBelongsToTheLoop`, the
  safety half of `StartedEnds`; `QuietArchiveOffersPending`, about the step that
  takes an observation; and, with a second invariant that holds through failures
  and restarts as well, `ObservationsLiveOrderly`: what may become of an
  observation on the server.  The life cycle is weaker than one would wish: a stale
  copy lets an observation be started that has just been canceled, has expired or
  has been run before.
- `SchedulerProofs`: `SchedulerTypes`, `RoundsOwnTheirTime`,
  `RestingPlanIsCurrent`, `OutdatedPlansAreGivenUp`.  `PlansOwnTheirTime` is not
  inductive by itself: `ScheduleInv` adds that neither in the plan nor on the
  schedule anything begins before the start of its own round (`PlanIsOrderly`), and
  how far the plan is at each await, the first observation being on the schedule
  unless it has begun (`PlanIsSubmitted`); `EffectsAreOrderly` says it of any request, whether served
  once, several times or not at all.  `NeedIsKept` says that a request, or tasks
  other than those given to the planner, mean that there is a need to plan
  unless an update was ignored; from both follow the two other theorems.
  `SleepingArchiveIsFresh` is the safety half of `TasksCatchUp`, and with
  `RestingPlanIsCurrent` it gives the result from one end of the chain to the other,
  `QuietScheduleServesTasks`: when neither the archive nor the worker has anything
  to do, the schedule ahead on the server is the plan made from the tasks that are
  on the server now.  `RoundsAreContained` says what any step, also a repeated request
  or one of a failing round, may take from the schedule or put there.
- `PresenceProofs`: one theorem for each invariant of the run, for any number of
  peers.  The invariant, `Bookkeeping`, falls into the sides of server, discovery,
  clients and proxies, and most steps touch one side only (the `Frame` lemmas).
  Beyond the properties it says that numbers not yet used are referred to nowhere
  and that a callback is either known to `Comm` or being undone, never both.
  `CallersGetTheirAnswers` follows the callers of `_get_client`, also those that
  hold a future which the cache has replaced: they wait for a discovery of the
  peer that they asked for and get what a discovery of that peer finds.
  `CallbacksLiveOrderly` is the life of a proxy's callback, from the step in which
  its proxy is cached to the request that undoes it.
- `CallsProofs`: `CallsTypes`, `NoFutureIsDropped`, `NothingRunsBeforeOpen`,
  `CallsImplementAtMostOnce`.  `CallsInv` follows an answer from the module to the
  caller: on the wire, in a handler's task, in the future and at the caller, it is
  vouched for by what the module did (`AnswersAreTrue`).  On top of it,
  `AnswersComeOnce` (at most one final answer per call is under way, and it finds
  its future unsettled), `SettledFuturesLeave` and, as the safety half of
  `CallsEnd`, `WaitersHaveTimers`.

With that every invariant, every refinement and every action property of the
passing runs is proved.  Model-checked only is liveness (`BadWeatherClosesRoof`,
`CallsReturn`, `EverythingEnds`, `CacheCatchesUp`, `StartedEnds`, `ComesToRest`,
`TasksCatchUp`, `BadWeatherParks` and the two `CallsEnd`), since TLAPS does not
reason about fairness and ENABLED here; for several of them the theorems above
state the part that is safety.  The invariants that only theorems state were
checked with TLC on the instances of the runs before they were proved.

## 5. Plan

The order in which the project grew: the lock and the roof, the camera, the robotic
loop and the scheduler, then the telescope on the roof's lock, presence and remote
calls.  What is worth adding next, in this order:

1. `Robotic`: `Scheduler` and `Mastermind` over one server, with both archives, so
   that the resolution of a task by its ID and its loss can be told.
2. The weather module and its three ways to reach a device (event, state, age of
   the state), in front of `Roof` and `Telescope`.
3. The image type of the camera: bad weather passes over darks, and the type may
   be changed during a sequence.
4. The order of retried requests to subscribe and unsubscribe in `Presence`.
5. Video cameras (several consumers of one frame), guiding and acquisition.

Runs stay at a minute or two each: two actors and the environment, two data
items, one fault, which is enough for each hazard listed.

## 6. Not modelled

The modules cover the part of pyobs in which tasks, processes and servers act on
the same state: device control, the robotic loop, scheduling, and the
communication below them.  That is a small share of the lines of the repository.
The rest falls into three kinds.

- Computation and input/output without shared state: planning algorithms, merits
  and constraints (astronomy over real numbers), image processing, FITS headers,
  the virtual file system, configuration and serialization, command line, user
  interfaces and data sinks.  There is nothing in them that interleaves, and what
  could be wrong in them is numerical or a matter of format.
- Variations of what is modelled: other cameras, archives of other portals and
  in files, the local backend's registry.  They repeat the pattern of a modelled
  component with other data.
- Sequential loops that use the modelled components by remote call: scripts,
  acquisition, guiding, focus and flat field series.

`PROJECT.json` names under `components` what of each part is left out and why, and
under `hazards` those that no property covers.  Some are not in a model: the
camera's image type during a sequence, and the order of retried subscriptions at
the server.  Others are, but the properties exclude them: a publish that fails
and leaves a status or a counter behind (roof and camera), a loop of Mastermind
that is cut off, and removals that the scheduler looks up in an empty copy.
