# SKYE: TLA+ models of the backend

SKYE locates people in a building from the Bluetooth beacons that Omada access
points (APs) hear, and watches over them: it raises alerts for people who lie
down, fall silent or come too near a forklift, checks that guards patrol their
routes, and manages the VIGI cameras that cover them. The backend is a Python
process (FastAPI and threads) over Firestore and Firebase's realtime database.

This directory models the parts of it that decide something over time, checks
them with TLC on small instances, and proves the main properties with TLAPS for
every value of the constants.

    tlc -workers 2 -config PatrolTracker_stable.cfg PatrolTrackerMC.tla
    tlapm PatrolTrackerProofs.tla

`PROJECT.json` maps every definition to the lines it models, lists the runs,
the mutant each property must reject, the hazards and the theorems.

## 1. The system

### Components

| Component | State | Operations | Model |
|---|---|---|---|
| Omada ingest (`omada_ingest_service.py`) | identity and AP caches (30 s), readings per beacon and AP (5 s), last emit and last solve times; `/beacon_scans`, `/ap_heartbeats` | one AP report: heartbeat, sweep of the scan nodes, resolve and buffer its beacons, decide on every buffered one | `BeaconIngest`, `Sightings`, `Heartbeats`, `FloorScale` |
| Beacon registry (`beacon_service.py`) | `beacons` in Firestore | create, update, delete, each with a cache invalidation; delete drops the live position | `BeaconIngest`, `Sightings` |
| Positioning (`positioning_service.py`, `kalman_service.py`, `proximity_service.py`, `multilateration.py`) | filter per person, `_last_exact_solve`, the floor's context | solve, proximity fallback, save to `/positions` | `BeaconIngest` (control), `FloorScale` (what is solved with) |
| Man-down detection (`safety_service.py`) | anchor per person, two latches, a 30 s suppressor | stillness check on every position; signal-loss sweep every 60 s in a thread of its own | `ManDown` |
| Patrol tracker (`patrol_tracker_service.py`) | cycle state per guard and floor, route cache (30 s) | one tick per position: enter, leave, skip, close the window | `PatrolTracker` |
| Window compliance (`safety_service.py:345-468`) | none | verdict per checkpoint, no-patrol verdict | steps of `PatrolTracker` |
| Collision prediction, safety settings | last alert per pair of people; one document and its cache | check on every position; update with invalidation | `CollisionAlerts` |
| Simulators (`simulation_{patrol,shift,events}.py`) | the floor's APs, one beacon per guard, script position, one-shot flags | set up, tick, `remove_ap` | `SimWalk`, `Heartbeats` |
| Simulation control and cleanup | `_task`, the tasks, the cleanup threads, `/positions` | start, stop, shutdown; start-up cleanup | `SimControl` |
| Floors, APs, zones, buildings | documents that name each other | create, update, delete, save a route, calibrate, activate | `SiteRegistry`, `FloorScale`, `FloorActivation` |
| Camera registry (`cctv_service.py`) | cameras in Firestore, a cache (30 s) | create, update, delete, unlink, floor deletion | `CameraRegistry`, `SiteRegistry` |
| Camera discovery and health | `/cctv_heartbeats`, what was found in the last rounds | liveness, OpenAPI check, discovery round with its prune | `CameraPresence` |
| VIGI alarm ingest (`vigi_service.py`, `camera_detection_buffer.py`) | a bounded buffer per camera | one push of an Alarm Server | `AlarmBuffer`, `CameraRegistry` |
| VIGI OpenAPI client | clients and tokens, a marker file, `.env`'s time | get, drop, call with its login | `VigiLogin` |
| Live view (`live_view_service.py`, `start.ps1`) | go2rtc's config, the stamps of the files it was started from | render and rewrite, relaunch | `LiveView` |
| Users and authentication | Firebase accounts and `users/` | sign up, register, approve, change role, delete, clean up, promote an owner | `Accounts` |
| Alerts and feedback, reports and RAG | `/alerts`, feedback, an embedding cache | feedback, delete, generate a report | `Incidents` |
| Capture log, limited log lines | parts of a file, pending lines, what each console refused; a map per limiter | write from any thread, roll over, exit | `CaptureLog`, `LogLimit` |
| Capture listener (`tools/vigi-listener`) | connections, one log file | accept, record, answer, stop | `CaptureListener` |
| Frontend, harness, probes | | rendering; tests of the backend | not modelled |

### How they interact

An AP posts a report. Under the one `pipeline_lock` the ingest resolves each
beacon to a person, buffers its reading, and for each beacon that is due solves
a position and saves it; `run_all_checks()` then runs the man-down check, the
patrol tracker and the collision check on that position. Everything a report
does is thus serialised with other reports, and with nothing else: registry
requests run in the request threads; the signal-loss sweep, camera discovery
and camera health in threads of their own; the simulators on the event loop,
posting telemetry to the process they live in. They meet in shared dictionaries
(caches, latches, lists of APs) and in the databases. No transaction is used
anywhere, only one batch (`set_active`). `run_all_checks()` swallows the
exceptions of each check, so a remote call that fails leaves a check half done;
a request that fails leaves its later calls undone.

### What is hard, and what makes it right

* Caches: a refresh that has read and not stored meets an invalidation.
  *What a cache says is the registry's, or was within its time to live.*
* Hold and degrade: an approximate position must not replace a fresh solve, and
  must replace an old one. *A standing solve stands; someone who is heard is
  positioned.*
* Two detectors share latches without a lock and with remote calls between test
  and set, and a restart forgets them. *Alerts are not repeated; every silence
  and every fall is reported.*
* Windows: real visits, skips, revisits and a backfill all file under one index,
  the route may change underneath, a save may fail in mid-tick. *Every checkpoint
  of a window is judged once, and never against a compliant visit; what fails or
  is edited in one window spoils no other; every window ends.*
* Logins that must be rationed across threads, crashes and edits of a file. *At
  most one failed login per save of `.env`; never held back without a cause.*
* Simulations are cancelled in the middle of a post, and clean up on threads
  that outlive them. *Every simulated record is somebody's to remove.*
* Deletions of several documents, one call at a time, against requests that
  found the documents there. *Nothing names what is gone.*
* One node per camera device with six writers. *It ends up telling the truth.*
* The tools that make the rest debuggable must survive what they report on.
  *Nothing that was printed or received is lost for a failing console or a
  connection that is reset.*

## 2. Modules

| Module | Models | Run | Proved in |
|---|---|---|---|
| `PatrolWindow` | what the tracker promises: windows, verdicts, reports | `tracker_stable`, as a property | `PatrolTrackerProofs`, as a refinement |
| `PatrolTracker` | the tracker's tick, save by save, with the verdicts | `tracker_stable`, `tracker_faults` | `PatrolTrackerProofs` |
| `ManDown` | stillness check and sweep, remote call by remote call | `mandown` | `ManDownProofs` |
| `BeaconIngest` | a report against registry requests | `ingest` | `BeaconIngestProofs` |
| `VigiLogin` | callers, clients, marker, `.env` and the camera | `vigi` | `VigiLoginProofs` |
| `AlarmBuffer` | pushes of a camera, their threads, the buffer | `vigi` | `VigiLoginProofs` |
| `SimControl` | tasks, `_task`, stops, cleanup threads, posts | `simulations` | `SimControlProofs` |
| `SimWalk` | walks, shifts, scripted events, `remove_ap` | `simulations` | `SimControlProofs` |
| `CameraRegistry` | camera requests, the cache, alarms that read it | `camera_registry` | `CameraRegistryProofs` |
| `CameraPresence` | the heartbeat node of one device | `faults`, `camera_presence` | `CameraRegistryProofs` |
| `LiveView` | config, requests, go2rtc and its script | `faults`, `live_view` | `CameraRegistryProofs` |
| `SiteRegistry` | floors, APs, routes, a camera's checkpoint | `site_registry` | `SiteRegistryProofs` |
| `FloorScale` | scale, metres, zones, contexts, readings, solves | `administration` | `AdministrationProofs` |
| `Accounts` | accounts, documents, roles | `administration` | `AdministrationProofs` |
| `FloorActivation` | the active floor, deletion of a building | `administration` | `AdministrationProofs` |
| `Incidents` | alerts, feedback, reports, embedding cache | `administration` | `AdministrationProofs` |
| `CollisionAlerts` | the check, its suppression, the settings' cache | `administration` | `AdministrationProofs` |
| `CaptureLog` | two tees, a file in parts, consoles | `faults` | `CameraRegistryProofs` |
| `CaptureListener` | connections of the capture tool | `faults` | `CameraRegistryProofs` |
| `Sightings` | `/beacon_scans` and its sweep | `ingest` | `BeaconIngestProofs` |
| `Heartbeats` | `/ap_heartbeats`, its writers and erasers | `ingest` | `BeaconIngestProofs` |
| `LogLimit` | the map behind "once every ten minutes" | `faults` | `CameraRegistryProofs` |

Conventions. Ages stand for timestamps, and saturate at the last value that the
code tells apart; this makes the state finite without bounding the behaviour.
What takes several remote calls is a sequence of actions, told by a `pc` or by
the record of a request; what cannot be seen from outside in between is one
action. Variables commented "history" are read by properties only. Many
properties have the form "this holds, unless x is in `slipped`": such histories
record that a named race or failure has happened, at the step where it does, so
that the property says exactly which causes there are. A definition commented
"Mutant" is a plausible bug of the definition after it; no specification uses
it.

### PatrolTracker

One guard on one floor, since `_states` is keyed by the pair. A tick is a walk
of `pc` through `closeCurrent, backfill, judge, noPatrol, replace` (the window
ends, patrol_tracker_service.py:249-319) or `skip, leave` and `Enter`
(321-355), with one step for each save, since each may raise (`SaveRaises`) and
the rest of the tick is then lost. `IndexRaises` is the `IndexError` of a state
that holds an index which an edited route no longer has. `state` is
`_GuardCycleState`; `keys` keeps the insertion order of its `visits` and equals
`logged_indices`. `ctx` is the cached floor. `EditFloor`, `Elapse` and `Restart`
are the environment. A position is given by its distances to the APs; a unit of
time is at least a second, and a guard ticks at most once per unit because
`EMIT_MIN_INTERVAL_S` is 1.8, so that a real visit lasts at least one unit.
`spoilt` is a history: within this window the cached route changed, or a save
raised after part of a walk or of a verdict was filed.

### ManDown

`Tick...` is `compute_position`'s save followed by `check_man_down`, `Sweep...`
is `check_man_down_stale` in the loop of `main.py`. A unit is 30 s: `Spacing`
is the suppressor, `SweepPeriod` the loop's 60 s; the other thresholds are
scaled down. Any number of ticks fits into a unit. No unit passes while a tick
or a sweep is under way (their remote calls take far less than 30 s), and a sweep
starts when it has slept. Places are
abstract, `Near` being "closer than epsilon", reflexive and not transitive. The
kinds of position are kept because the anchor treats them differently.
`RemoveRecord` is a stopped simulation that deletes its people's positions.
`Restart` keeps `/positions` and loses everything else. So does the history
`told`: a silence that goes on over a restart stays told of, and `here` counts
what this process has told of it.

### BeaconIngest, Sightings, Heartbeats

`BeaconIngest`: a unit is 1 s, and no unit passes during a report. Signal
strengths are left out: which reading is the strongest and whether a solve
succeeds is a choice (`Anchor`, `Solve`; `RadioMayFail`). A report is cut where
it reads Firestore (`Fetch`, and then the store in whatever step looks the
beacon up) and where it saves a position (`Write`), for that is where a registry
request may run. A registry request is `AdminSaves` or `AdminDeletes`,
`AdminInvalidates`, and for a delete `AdminDrops`; one runs at a time. Updates
that keep the owner change nothing the model sees and are left out, like APs
(they stay where they are). The safety checks after `Write` are `ManDown` and
`PatrolTracker`.

`Sightings` is the rest of the same report: the sweep at its beginning and the
node it writes for every beacon it lists, with the `registered` flag from the
same identity cache. Beacons meet only in the refresh of that cache and in the
sweep, which treat each alone, so one beacon is enough.

`Heartbeats` has the other nodes a report writes. A simulator writes them too,
for the APs it walks between, and a deletion erases the node first and tells the
simulator afterwards (`floor_service.py:147-151`), or not at all (`Forget`,
`EndsUntold`): a change of shift has no `remove_ap`, a floor's deletion calls
none, a call that raises skips it. `Online` is the dashboard's test
(`useAPHeartbeats.ts`). APs meet only in the simulator's list; the checked
instance has one, and one with two was explored as well.

### VigiLogin, AlarmBuffer

`VigiLogin` has one camera. `call[t]` is a thread's progress through `call()`
and `_login()`; each client has its `lock`, and `current` is the registry's
client. The marker is written in two steps, since `write_text` empties the file
first: a crash in between leaves a torn marker, which `blocked()` compares by
file times. A modification time is the number of saves of `.env`. `pw` is the
password that the process read when it started, `envPw` the one in the file
now. The camera accepts only `CameraPw`, and may refuse or not answer anything.
`Restart` may come between any two steps.

`AlarmBuffer` has the pushes of one camera. `push[s]` is stamped when it
arrives and handled in another order perhaps; a body is told by its parts and a
part by what the parser makes of it. `added` is what a buffer without expiry
would hold.

### SimControl, SimWalk

`SimControl` is cut at the awaits of the event loop. A task goes through
`SetUp`, `Post`, `Ends` or `Cancelled`, and its cleanup, which waits for a
thread and may give up on it (`CleanupTimesOut`); the thread goes on. `inflight`
are posts that the server handles when their sender may be gone. `left` collects
the records for which a cause is named, `slipped` the simulations that a late
stop hides.

`SimWalk` is what the task does. A behaviour is about one of the three
simulators, which keep their globals apart. `Deletes` and `RemovesFrom...` are
`remove_ap()` on a request's thread, guard by guard; the simulator's advance is
cut between the computation of the next index and its store, the place where
that thread can come in between. Histories name the causes: `torn` (an AP taken
from a guard who wanders at one), `raced` (in the middle of an advance, or while
a setup runs) and `unheard` (a setup had read the AP). A segment of the script
has fewer ticks than in the code and one normal patrol of the several, and a
guard stays at an AP for a tick. The missed-checkpoint event may not come about
in its ticks, so `OwnAlertOnce` says "at most". A route that names an AP twice
is excluded by the assumption on `Configs`: `remove_ap()` then takes both
occurrences from the floor and one from the guard's list. The lists, guards and
script are constants, typed by `WalkAssumption`; the run gives them the values
that `SimulationsMC` defines. A comprehension with a condition is `Only`, by the
places of what it keeps, which can be proved about where the library's
`SelectSeq` cannot.

### CameraRegistry, CameraPresence, LiveView

`CameraRegistry`: a camera's document is its identity (device, channel). A
request checks uniqueness, saves and invalidates in three steps, two requests
run at once, and alarms read the cache between them. The events of each identity
are independent, so `Watched` has one.

`CameraPresence` follows the node of one device through all its writers. Every
writer reads the registry through a cache (`seen`) and writes later; `todo` is
what the writers have begun. Devices meet only in a discovery round, which
treats each alone. Two cameras on the device are needed because a request that
leaves it looks for others: a camera in `todo` is that look, which does not count
the camera itself.

`LiveView`: `file` is the config on disk, `loaded` what go2rtc runs with,
`touched` and `envTouched` whether the script will see that a file is newer than
its stamps. `owed` and `missed` name the causes for which a file may be out of
date.

### SiteRegistry, FloorScale, FloorActivation

`SiteRegistry`: documents that name each other, and requests that write them in
the order of the code: a route loses an AP before the AP is deleted, cameras are
unlinked after, a floor's document goes last. `strays`, `slipped`, `late`,
`raced` and `half` name the requests that overlapped or stopped half way.

`FloorScale`: an AP's metres are modelled as the spot and the scale they were
derived from, so a mixture of scales is visible. The scale, the context cache of
positioning, the coordinate cache of the ingest and the buffered readings each
have their own life. Writers of the zones are the zone routes and
`FloorService.delete()`, which takes zones and APs one after another and may
stop before the floor; `rezoned` is a change of zones that no invalidation
followed. The module ends with the floor: when a deletion gets to the floor's
document, nothing of it is asked any more. It assumes that a floor's picture has
its dimensions, that a failed call has written nothing, that a report is done
within a unit of time, and that the AP cache is read and stored in one step (it
is refreshed under the ingest's lock).

`FloorActivation`: `set_active` lists and commits in two steps; a building's
deletion lists its floors and deletes one after the other.

### Accounts, Incidents

`Accounts`: registration runs on the event loop, admins on threads. An owner is
made when the collection is empty, or promoted at a start. `Incidents`: alerts
and feedback live in different databases, written one after the other; a report
is a thread that reads alerts, the feedback corpus and the embedding cache
entry by entry.

### CollisionAlerts, CaptureLog, CaptureListener, LogLimit

`CollisionAlerts`: predicted positions lie on a line; the check is cut at the
read of its settings and at each alert's save. `CaptureLog` cuts a write at the
file and at the console; a piece is known by its thread, stream and number, so
that a gap, a repetition or a mixture is visible. The re-entrancy flag, the
logging module's own error message and `install()` are left out, and so is a
rollover whose `close()` raises (the stream then stays closed and later entries
fail). `CaptureListener` has a thread per connection and a failing file.
`LogLimit` is the map that both rate limiters of log lines use.

## 3. Runs

Times are for two workers. Every run checks the type invariants of its modules,
either inside the first composite property or by proof.

| Run | Instance | Shows |
|---|---|---|
| `tracker_stable` | 3 checkpoints, 6 positions, window 4, soft close 2, dwell 2, cache 2, saves succeed | `OncePerCheckpoint`, `ClearedNeverReported`, `RecordsAreHonest`, refinement of `PatrolWindow`, `WindowCloses` |
| `mandown` | a worker and a forklift, 3 places in a row, exact and approximate, saves may raise | `AlertsAreNotRepeated`, `SilenceIsReported`, `DownIsReported` |
| `ingest` | 1 beacon, 1 person, 2 APs, all faults; apart from it a beacon's scan node, and an AP's heartbeat | `IdentityIsRecent`, `ExactStands`, `HeardIsPositioned`, `NodesHold` |
| `vigi` | 2 threads, 3 clients, 2 passwords, 2 saves of `.env`; apart from it 2 pushes at a time, a buffer of 3 | `RationedWhenShared`, `BlocksForCause`, `AlarmsAreHonest` |
| `simulations` | control: a simulator with 2 keys, 2 tasks, 2 stop requests; apart from it the walk: 4 APs, one of them deleted at any moment, 4 guards | `NobodyLeftBehind`, `HandleOwnsRunner`, `LoopsAreHonest`, `WalkIsSound`, `OwnAlertOnce` |
| `camera_registry` | 2 cameras, 2 channels, 2 requests, an alarm | `UniqueIdentity`, `CacheIsRegistry`, `EventsOfRegistered` |
| `camera_presence` | 2 cameras on one device, 2 addresses | `PresenceSettles` |
| `live_view` | 1 camera, 2 host addresses, 2 threads | `OpeningHeals` |
| `site_registry` | 2 floors, 2 APs, a MAC, 2 requests, a camera | `NothingDangles`, `MacsAreUnique` |
| `administration` | floor geometry: 1 AP, 2 scales, 2 spots, 2 layouts, 2 requests, failing calls; 2 users; 2 floors; 1 alert, 3 feedbacks; 1 worker and 2 forklifts | `ScaleHolds`, `AccountsHold`, `FloorsHold`, `IncidentsHold`, `CollisionsAreTold`, `StandingIsKept` |
| `tracker_faults` | routes of 3, 2 (disabled) and 1 checkpoints that replace each other, 4 positions, saves that raise, restarts | `VerdictsSurviveFaults` |
| `faults` | 2 threads with 3 writes; 2 connections; 3 sources; 2 cameras on one device with 2 addresses; 1 viewed camera, 2 host addresses, 2 requests | `LogsHold`, `OnlyGrows`, `ListenerTells`, `NodesAreOwned`, `PruneSparesRegistered`, `RelayFollows` |

`administration`, `simulations`, `ingest`, `faults` and `vigi` each hold several
modules that share no state. The run chooses one of them in its initial state
and the others stand still, so it explores the sum of their state spaces, not
the product; where it can, a part uses the variables `v1`, `v2`, ... of the MC
module that another part uses too, and some model values, so that one symmetry
serves all. The composite properties (`ScaleHolds`, `NodesHold`, ...) conjoin
the named parts stated in the modules, and are what the theorems of section 5
state. `camera_presence` and `live_view` check alone, and without symmetry, what
needs fairness; the safety of the same modules is checked in `faults`.

### Why the bounds are enough

* Three checkpoints allow a skip with something before and after it; six
  positions cover inside, between, edge with hysteresis, and a tie. Window 4 is
  long enough for visits shorter and longer than the dwell, revisits and an
  expired window held open by the soft close. The faulty instance keeps the
  three checkpoints, so that the loop can be cut off with verdicts before and
  after, and gives up two positions for the edits.
* Nothing in `ManDown` relates two people but the sweep, which may stop half way
  through its list; a forklift is there because it writes records and is never
  alerted. The theorems hold for any number.
* One beacon meets another only in the shared cache and in the loop over the
  report; changes of hands between two people are left to the theorem
  `RecentIdentity`. `MinAPs` is 2 with two APs (3 in the code): what matters is
  having fewer or enough. `BufferWindow` is shorter than `EmitInterval` so that
  a reading may age out between two decisions.
* Two threads are the smallest race; a client more than there are threads
  allows a replacement while all are in use. Two saves of `.env` allow a login
  that spans one and is followed by another.
* Two tasks and two stops are the smallest overlap in which a start comes
  between the end of a task and the return of the stop that awaited it. One
  simulator with two keys: tasks of different simulators write different keys,
  and what one removes of another's is what a second task of the same finds. The
  theorems hold for any number of simulators and keys.
* Two requests are the smallest race between writers of the same documents; a
  floor has two APs so that a deletion can stop between them. One MAC is enough
  for two APs to have the same. One camera: two share nothing in `SiteRegistry`
  and are in `CameraRegistry`.
* A line of text has at most the pieces that a thread's three writes make; a
  part holds two entries, so that rollovers happen in the middle.

Bounds on behaviour are `MaxEdits`, `MaxWrites`, `MaxLost`, `MaxFeedback`,
`MaxDelay` and `MaxCheck`; history counters stop one past what any property
allows. The theorems of section 5 hold without the bounds of their modules,
except `MaxEdits`, which is arbitrary there.

### Fairness

`PatrolTracker`: the clock runs, a begun tick runs on (it waits for nothing but
remote calls that answer or raise), and the guard's beacon goes on transmitting.
`ManDown`: the same for tick and sweep; strong fairness of `TickBegins` for each
person says that every beacon is heard now and then, though other people's ticks
keep taking the pipeline in between, and strong fairness of `Elapse` that time
passes however many ticks fit into a unit of it. `BeaconIngest`: the clock,
the report and the request; that a beacon is heard is not assumed but a premise
of `HeardIsPositioned`. `CameraPresence`: requests and writes end, the loops of
`main.py`'s lifespan go on, and strong fairness of `Record` says that not every
reply of a device is lost: ten minutes of lost answers in every round would let
a node age. `LiveView`: requests end, the backend is started again, the script
looks at the files; that somebody opens live view again and again is a premise
of `OpeningHeals`. The other modules have no liveness property: a camera may
refuse for ever, a cleanup may fail. `WindowCloses` supposes that admins leave
the floor alone from some time on, `DownIsReported` and `HeardIsPositioned` that
calls do not fail and the process does not restart for ever; `calm` is that
premise in `CameraPresence` and `LiveView`.

Deadlock is checked in every run but `live_view`: once `calm`, with a camera
that was deleted, there is nothing to open and nothing to do. `faults` lets the
parts that may end stand still (`Ended`): the capture log and the listener after
exit, live view once it is calm.

### What the properties say beyond their names

* `RationedWhenShared` is the docstring's promise, under the condition that
  makes it true: no client is replaced while somebody uses it. `BlocksForCause`
  is its counterpart: a client that never logs in would satisfy the first. A
  process that dies on a login counts as a cause.
* `IdentityIsRecent` allows the cache's time to live. The invalidation of a
  request can be lost to a refresh that has read and not stored yet, so nothing
  stronger holds. `FlagIsHonest` (`NodesHold`), `LimitIsRecent`
  (`CollisionsAreTold`), `ContextIsCurrent` (`ScaleHolds`) and `CacheIsRegistry`
  are the same question of four other caches.
* The properties of the two logs (`LinesAreWhole`, `NothingDropped`, `Grows`,
  `EveryConnectionIsTold`) speak of the places of entries (part and index): an
  entry is in the file at one place, and before another if its place is.
* `VerdictsSurviveFaults` has two parts. When a window is about to be replaced,
  every index of the route it was judged by has a compliant record or its
  checkpoint an alert, though any save may have raised and any edit have come
  before. And a window that was not `spoilt` has all that the stable run promises
  (`OncePerCheckpoint`, `ClearedNeverReported`, `RecordsAreHonest`), whatever
  happened in those before it; a restart and the next window end the spoiling.
* `AlertsAreNotRepeated` is of steps: an alert is saved only for a stillness that
  has none, and for a silence that has none from this process, and a signal-loss
  alert only a sweep's period after the last of the same person, of whichever
  process. "One per silence" would be false; see section 4.
* `ContextIsCurrent` (`ScaleHolds`) names three causes for a context that is not
  the floor's: an invalidation still to come, one that came while the context was
  being read, and, for the zones alone, a change that no invalidation followed.
* `SilenceIsReported` is of the process that runs: after a restart a silence is
  reported again, in time. It excludes a last position taken up during a sweep;
  see section 4.
* `DownIsReported` takes jitter into account: positions range over places that
  are pairwise near. It needs either the stillness alert or repeated
  signal-loss alerts, because the suppressor is shared by the two.
* `ImplementsPatrolWindow` maps `judged` to the keys the judging loop has passed
  and `reported` to the alerts saved, and so says that verdicts are complete
  when the next window opens.
* `NobodyLeftBehind`, `NodesAreOwned`, `ConfigCurrent` and `EventsOfRegistered`
  are of one kind: what may be wrong is on somebody's list, or was left for a
  cause that is named. Where the cause is the very race that a hazard describes
  (`torn`, `raced`, `orphan`, `slipped`, `during`, `owed` and the like), the
  property does not deny the race: it says that there is no other way, and the
  hazard's note in `PROJECT.json` says so.
* `NearIsAlerted`: however earlier checks failed half way, a check that runs to
  its end leaves no pair that is too near without an alert younger than the
  suppression.
* `GhostsFade` (`NodesHold`): an AP that is offered to be placed reported itself
  lately, or was deleted lately or without the simulator learning of it.
* `OwnerStaysOwner` holds because nobody but a start gives the owner's role to a
  document that has another. The exception, in its comment, is a person who is
  deleted, and registers with an old token as the first.
* `SaidOnce` is what is true of "at most once every 10 minutes": unless the map
  was full and emptied meanwhile.

## 4. Disagreements with the documentation

Met while modelling. Those marked with a formula were found by TLC: the formula
is kept beside its module's properties, it is violated, and no run lists it.

| Formula | What happens | What the code says of itself |
|---|---|---|
| `WindowCloses`, with a route that gets shorter | an index in the state is gone, and every later tick raises before the state is replaced: the window never closes | "a stationary guard must not hold a window open forever" (patrol_tracker_service.py:245-246) |
| `DarkAgainIsReported` (`ManDown`) | a position clears the signal-loss latch between the sweep's save and its latch; the next silence is not reported | "let it fire a signal-loss alert a second time if it goes dark again later" (safety_service.py:118-119) |
| `OneAlertPerSilence` (`ManDown`) | the latch is lost with the process and `/positions` keeps the silence: after a restart within a silence it is alerted again | "person_ids that have already fired a signal-loss man-down and haven't been seen again since" (safety_service.py:27-28) |
| `ZonesAreCurrent` (`FloorScale`) | a floor's deletion takes its zones without an invalidation (floor_service.py:99-102); when it then fails at an AP, the floor stands and its context, which never expires, keeps the zones. A zone's update whose read-back fails (zone_repository.py:51) has the same effect | "Call this after a floor scale, activation, or zone change" (positioning_service.py:158) |
| `DeletedIsGone` (`BeaconIngest`) | a report looked the beacon up before the delete, and saves its position after it | "Drop the live position too, or a deleted beacon's person keeps showing up" (beacon_service.py:72-74) |
| `OncePerChange` (`VigiLogin`) | the registry replaces a client in use; two clients of one camera pass the marker together, and two logins fail | "at most once per change to .env" (vigi_openapi_client.py:19-21) |
| `SavingAllowsAnAttempt` (`VigiLogin`) | saving the right password spends the one attempt on the old one, still in the process; the marker then holds back the new one | "saving the file allows one new attempt" (camera_health_service.py:168-169) |

Seen in the models, where the properties name them as causes, or in the source:

* The presence stamp of a new window is set by the tick that closed the last
  one (patrol_tracker_service.py:319), so a guard who then leaves is reported
  as not patrolling, against "Absence must never fire this"
  (safety_service.py:419).
* An alert save that fails in the judging loop repeats the alerts before it
  (`spoilt`).
* After a reorder of the route, visits are reported under the name of the
  checkpoint that now has their index.
* After an exact anchor, approximate positions neither move it nor count as
  stillness (safety_service.py:157-171), so someone whose beacon degrades to
  approximate positions is not reported as down.
* The sweep judges a snapshot of `/positions`, so it can report someone who has
  just come back.
* safety_service.py:286-287 speaks of 30 s between collision alerts; line 306
  has 10. The check takes two people on different floors for near each other,
  and a predicted position of any age.
* `_get_settings()` can return `None` when the cache is invalidated between its
  test and its return; the check of that position is then lost.
* "A registered camera's node is never removed here" (discovery's prune): a
  device that is registered between the prune's read and its deletion loses its
  node until the next round (`during`).
* "Registered beacons are kept regardless of age" (omada_ingest_service.py:115):
  the sweep trusts the flag of the node. A beacon that was heard before it was
  registered is pruned, and the node of a deleted one, flagged registered,
  stays for good.
* "Each rejected address is logged at most once every 10 minutes"
  (auth_middleware.py:51-52): 1000 other addresses empty the map.
* A new AP that is being placed while its floor is rescaled keeps the metres of
  the old scale; so does one placed after a rescale failed half way. Saving the
  scale again repairs both (`blurred`).
* A camera update reads the old camera outside the lock under which it tests
  uniqueness (cctv_service.py:191, 208-210): two updates of one camera can make
  an identity that neither checked (`torn`).
* The detection buffer is described as newest first and as the last 15 minutes;
  pushes that are handled out of order stand out of order, and an old one may
  hide behind a younger for as long as it was late.
* The safety report's prompt uses `zone_id` and `person_type`, which alerts do
  not have, and a guard's report takes the guard's alerts of all times.
* Feedback on an alert that is deleted meanwhile leaves a node with nothing but
  the flag (`residue`).
* Any admin may delete the owner's account; the next start promotes one.
* start.ps1 reads the password (line 114) before it stamps the file (131): a
  save in between goes unnoticed (`missed`).
* After a rollover whose `close()` raises, the capture log's stream stays closed.
* A floor whose deletion fails half way keeps its document without what was on
  it; while it is deleted, a request can still save an AP or a camera to it.

## 5. Proofs

All by TLAPS (SMT, Zenon and the PTL backend), for every value of the constants
that satisfies the assumptions. The assumptions type the constants, require
periods and windows to be positive where the code's are, and keep the values
that stand for nothing (`None`, `Idle`, `NoScale` and so on) apart from what
there can be; TLC evaluates them in the runs.

| Module | Theorem | Establishes |
|---|---|---|
| `PatrolTrackerProofs` | `TypeCorrect` | `[]TypeOK`, under all faults |
| | `FaultsAreContained` | `[]VerdictsSurviveFaults`, under all faults and edits, given `DistinctRoute` and `ParkedIsLong` |
| | `OncePerWindow`, `ClearedIsSafe` | `[]OncePerCheckpoint`, `[]ClearedNeverReported`, given `StableRoute` and `~SavesMayFail` |
| | `HonestRecords` | `[]RecordsAreHonest`, given these and `ParkedIsLong` |
| | `ImplementsWindow` | `ImplementsPatrolWindow`, the refinement of `PatrolWindow`, given `StableRoute` and `~SavesMayFail` |
| `ManDownProofs` | `TypeCorrect`, `NotRepeated` | `[]TypeOK`, `AlertsAreNotRepeated`, under all faults |
| | `SilenceReported` | `[]SilenceIsReported`, given `Punctual` |
| `BeaconIngestProofs` | `TypeCorrect`, `RecentIdentity`, `ExactIsHeld` | `[]TypeOK`, `[]IdentityIsRecent`, `ExactStands`, under all faults |
| | `NodesAreKept` | `[]NodesHold`, for any number of beacons' nodes and APs |
| `VigiLoginProofs` | `TypeCorrect`, `OncePerEdit`, `BlockedForCause` | `[]TypeOK`, `[]RationedWhenShared`, `[]BlocksForCause`, crashes and edits included |
| | `AlarmsTellTheTruth` | `[]AlarmsAreHonest`, for any limits and any number of pushes |
| `SimControlProofs` | `TypeCorrect`, `NobodyIsLeft`, `OneOwner` | `[]TypeOK`, `[]NobodyLeftBehind`, `[]HandleOwnsRunner`, under all faults |
| | `OwnAlertAlways` | `[]OwnAlertOnce`, for any walk, and an AP removed at any moment |
| | `WalkStaysSound`, `LoopsAreWhole` | `[]WalkIsSound`, `[]LoopsAreHonest`, for any APs, routes, guards and script, and any number of removals |
| `CameraRegistryProofs` | `TypeCorrect`, `IdentitiesApart`, `CacheTells`, `EventsHaveACamera` | `[]TypeOK`, `[]UniqueIdentity`, `[]CacheIsRegistry`, `[]EventsOfRegistered`, for any number of cameras, requests and alarms |
| | `NodesHaveOwners`, `RegisteredAreSpared` | `[]NodesAreOwned`, `PruneSparesRegistered`, for any number of cameras on the device |
| | `ViewersFollow` | `[]RelayFollows`, for any number of cameras, host addresses and requests |
| | `LogsAreKept`, `CaptureGrows` | `[]LogsHold`, `OnlyGrows`, for any number of threads and of sources |
| | `ConnectionsAreTold` | `[]ListenerTells`, for any number of connections |
| `SiteRegistryProofs` | `WhatIsNamedExists`, `MacsApart` | `[]NothingDangles` (with the type invariant), `[]MacsAreUnique`, for any number of floors, APs and requests, each of which may end half way |
| `AdministrationProofs` | `PositionsShareAScale` | `[]ScaleHolds`, under all faults, deletions that stop half way included, for any times of the caches |
| | `OneOwner`, `StandingStays` | `[]AccountsHold`, `StandingIsKept` |
| | `OneFloorIsActive` | `[]FloorsHold` |
| | `AlertsAndFeedbackAgree` | `[]IncidentsHold` |
| | `CollisionsTold` | `[]CollisionsAreTold`, for any workers, forklifts and limits |

Each theorem that states an invariant rests on an inductive one, which was
checked by TLC before it was proved. What has to be added, and why:

* **Tracker.** `DistinctRoute`: no AP is on a route twice; `StableRoute`: and all
  configurations have one route. `AlertInv` is of a window that is not `spoilt`
  and adds to the property that the state holds only indices
  of the route (`OnRoute`), that `keys` has no duplicates, that nothing has
  been alerted before judging starts (`SilentUnlessJudging`), and that what has
  been alerted belongs to keys the loop has passed (`ReportsAreJudged`). The
  last is why no checkpoint is reported twice. `ClearedIsSafe` follows from the
  verdict being that of the best visit. A window stands on a cached context
  (`Grounded`), and a step that puts another route there spoils it; with
  a stable route and saves that succeed nothing is ever spoilt (`NeverSpoilt`),
  so the theorems of the stable tracker follow from the same invariants.
* **Faults.** `LoopInv` is kept by every step, whatever fails or is edited:
  judging starts with a record for every checkpoint (`WindowIsComplete`), what
  the loop has passed has its verdict out (`VerdictsSoFar`), it is left for the
  no-patrol check only at its end (`AllJudged`), and a loop that is cut off
  starts again at its beginning. The alerts of an earlier attempt are never
  taken back, which is why cutting it off loses nothing.
* **Records.** `RecordInv` ties the visits to the keys (`KeysAreVisits`) and to
  the guard: he skips only between zones (`SkipsBetween`), what is filed as not
  reached in the window is filed when it closes (`BackfilledLast`), and the
  visit he is in is filed before that (`LastVisitFiled`). That a window is
  called "never patrolled" only when no checkpoint is reported on its own needs
  `ParkedIsLong`: the stay that makes it so (by default half of the floor's
  interval, which is in minutes) is no shorter than the dwell of a visit (30 s).
  With settings for which it is, a window can be reported both ways.
* **Refinement.** A tick's save maps to `Clear`, `Judge`, `Roll`, `Open`, a
  restart to `Forget`, and every other step to a stutter. That a window rolls
  only when every index is judged is an invariant of the loop at its last step.
* **Alerts.** That alerts are not repeated is not inductive: the latch is set
  after the save. `LossInv` and `StillInv` say that whoever was told is latched
  or about to be, and that whoever is about to be told was not. `SpacedInv`
  counts the other way: while the sweep sleeps nobody's last alert is younger
  than its sleep, so when it wakes, in whichever process, those on its list have
  had none for a period.
* **Silence.** `Punctual`: saves succeed and `0 < Stale`, `Spacing <= Stale`, as
  with 30 s and the default limit. `SilenceInv` relates three clocks: a record
  that was young at the last sweep is at most one period older now
  (`YoungAtLastSweep`), who is stale and untold is in the sweep's list
  (`StillToLookAt`), the latch implies the alert (`LatchMeansTold`), and a
  person who is suppressed has been told in this silence (`QuietMeansOld`).
* **Identity.** `CacheInv`: every entry of the cache, and of a refresh under
  way, is the registry's, or the registration is younger than the cache.
* **Hold.** `SolveInv`: the service's stamp of a solve is never older than the
  solve that was saved, and a report that is about to write has the stamp its
  kind calls for.
* **Rationing.** `RationInv`: who is past a client's lock holds it; as long as
  no client in use was replaced all calls are on one client, so there is one
  login at a time (`OneLogin`); a failure under the present `.env` has left its
  marker (`BadIsMarked`); a login under way is the first of its `.env`
  (`Clean`).
* **Cause.** `Owned`: a marker belongs to a login under way or to one that
  failed or was cut off. This needs no assumption on clients.
* **Detections.** `Honest`: the buffer is what was added last, but for a
  beginning whose entries are too old or were added before the start. What
  pruning and the limit take away is a beginning again (`Cuts`), old by the
  definition of the one, outside the last `MAX_ENTRIES_PER_CAMERA` by that of the
  other. `InTurn` bounds by its lateness how much older an entry can be than one
  before it, which is why what is shown behind a young entry is recent too.
* **Simulations.** Only simulated keys are ever positions here
  (`OnlySimulated`); a task that lives has its mode and uses its thread for its
  cleanup alone (`TasksInOrder`); and a stop that will reset `_task` under a
  newer task was there when that one started, which is what `slipped` notes
  (`ResetsSlipped`).
* **Camera identities.** Who saves holds the lock (`OneSaves`), so that no other
  camera has the identity that he looked for under it (`Checked`); a camera that
  is being created has no document yet and one creator (`NewIsFree`).
* **The cameras' cache and events.** What a reader has read for the cache is the
  registry, or an invalidation is still to come, or was slept through
  (`FillsAreFresh`). The events need no more than that a deletion of a floor
  drops none (`FloorDropsNothing`), which makes them strays with a name.
* **Sites.** `NamesKnown`: whatever is named was placed where its name says, on a
  floor that was made; an AP never changes its floor, so this survives every
  overlap. `NewIsMine`: an id belongs to one request until it is saved.
  `LeavingIsOff`: an AP is deleted only when the route has let it go, or was
  given it again behind the request's back. `ClosingEmpties`: what a floor's
  deletion has yet to delete is all that is on the floor, but for latecomers.
  `RacesNoted`: a MAC that two requests are placing is in `raced` before either
  saves.
* **Geometry.** `ScaleInv` has four parts. `Calibrated`: before the floor has a
  scale nothing is placed, heard or cached, so no context lacks one.
  `WritersInOrder`: a rescale that has met no other writer has the floor's
  scale, and an AP it has listed still has the listed spot, while those it has
  done match (`LoneRescales`); a placement that has met no rescale has the
  floor's scale (`LonePlacements`); `lone` is taken from a request by the one
  that clashes with it, at its beginning. `ReadsAreCurrent` carries the claim on
  the context back through the steps of a report that read the floor, the zones
  and stored both: for the scale, and for the zones while nothing is `rezoned`.
  `MetresAreRecent`: cached metres that are younger than the last change are the
  APs', and so are those of a reading that is younger by the life of the cache:
  the sum of the two lives is what `SolvedInOneScale` waits.
* **Accounts.** Who has a document has or had an account (`DocsHaveAccounts`);
  a registration runs alone, and if it found the collection empty nobody has
  filled it (`SigningIsAlone`); what an admin's request has found out stays true
  until it writes (`RequestsKnow`): who is given a role was not the owner, or
  has left. `StandingIsKept` is proved of each step from the same invariant.
* **Activation.** A floor that is there and was not listed was created since
  (`ActivationsKnow`, `DeletionsKnow`).
* **Incidents.** A request with feedback knows of its alert that it was raised
  and is there or was deleted since (`FeedbackInOrder`); only an alert that was
  raised, and marked since, has feedback (`AnsweredWasRaised`). The embedding
  cache is bounded because its length and the threads that may each add one
  entry are fewer than its size and all threads together (`PutsAreCounted`): a
  thread that makes room takes an entry out before it counts.

* **Collisions.** An inductive invariant of four parts: the ages of a check are
  no older than the check (`CheckAges`); what it read and is about to store was
  the document's when the time was taken (`ReadIsRecent`); a pair that is held
  back has an alert that was saved so long ago (`HeldForAnAlert`); and a pair
  that is near has its turn to come, or has it now, or had its alert
  (`PairsInTurn`), of which `NearIsAlerted` is the end of the loop.
* **Nodes.** `CacheAgrees`: the cache, and a refresh under way, have what has
  been registered, or not, for as long as the cache is old, from which
  `FlagIsHonest` follows at every write. `SweptSince`: a stranger's node is no
  older than the limit and the time since the last sweep, or this sweep will
  delete it. For APs, `WalkedIsExcused` says of every AP that a simulator walks
  by or is about to write that it is placed, is being deleted at this moment, or
  is in `slipped`; `GhostsAge`, that the young node of an AP that is not placed
  was written when it was heard or before it was deleted.
* **Presence.** `NodesAreOwned` is inductive. For the prune it is enough that a
  round that read the registry without the device knows of a registration since
  (`PruneKnows`).
* **Live view.** `RenderedIsWanted`: a config about to be written, during whose
  request the registry has not changed, is the registry's. `StampedPassword`:
  between the stamps of start.ps1 and go2rtc's start, a password that differs is
  seen by the stamp or in `missed`.
* **Capture log.** `PendingRuns`: what a thread has pending are its own last
  writes without a gap. `Accounted`: the numbers of what has left it are those
  in the file and those lost together, and in the file they grow from place to
  place. `FlushedInTurn` relates this to the exit, and `WarnedOnce` puts a
  warning nowhere or in one place. All actions change the file in one way, which
  one lemma describes (`Emitted`): an entry is added after all others, or lost.
* **Limits.** `MapTells`: what the map has of a source is how long ago its line
  was; a source it does not have has had none lately, or so many others have
  come since that it was emptied.
* **Listener.** `Traced`: by how far a connection is one can tell which of its
  four records are due; these are in the file or lost at one place each, the
  others at none. `Numbered`: `seq` counts the connections that have a number,
  and no two have the same; the count is of a set of any size.
* **Script.** `AlertsAreMarked`: an alert that the segment's marks do not tell of
  was not raised in it, and one that was is the segment's own.
* **Walk under removals.** `WalkShape`: the floor names an AP once, and a guard's
  list is 1, 2, ... without a gap, which `remove_ap()` restores by moving the
  later indices down (`WithoutOne`). `IndicesLead` says how long the list is:
  as long as the floor, or one longer while a removal has yet to reach the
  guard; and that the index it is at, or has computed and not stored, is one of
  the list's. `RemovalInOrder` gives the removal the index of an AP that was
  there. A guard that a removal met in the middle of its advance is in `raced`
  and outside of all this. `ListsAreRead`: what the floor has and Firestore does
  not is being removed, or was removed while a setup ran. What `Only` keeps is
  proved through ranks: the places kept are numbered from 1 without a gap
  (`Ranks`), so each number has one place (`NthPlace`), and the kept list has
  the elements, the order and the length it should (`OnlyKeeps`).
* **Loops and shifts.** A counter says how many steps, not where. `Toured` ties
  it to the floor: a guard that counts k steps has arrived at the k APs that lie
  behind its index (`Back`), round the end of the list, and at its own if it
  wanders; so with as many steps as APs it has been at all (`WholeLoop`). A
  removal ends the correspondence for that guard and sets the count of the
  patrol to 0, from where it holds again. `ShiftInv` adds what the shift makes of
  it: a guard that is complete stays frozen with a loop of all APs, the incoming
  ones take no turn before `triggered`, and that is set when all are complete.

Model-checked only:

* Liveness (`WindowCloses`, `DownIsReported`, `HeardIsPositioned`,
  `OpeningHeals`, `PresenceSettles`), which TLAPS cannot prove under fairness.

With these, every invariant and every step property that a run checks is stated
by a theorem; what a run adds is the liveness, and the evidence that the states
the theorems speak of come about.

## 6. Not modelled, and why

* Floating point: path loss, multilateration, the Kalman filter, and the
  geometry of collisions. The models choose among the outcomes.
* The databases: a read or a save of one document is atomic, and a save that
  raises is not stored.
* Values that are not validated (a patrol interval of zero,
  floor_routes.py:152), and the man-down limit as a setting.
* The tracker's health counter, which is shared by all guards
  (safety_service.py:515).
* Readings of APs on different floors that meet in one solve
  (omada_ingest_service.py:619-644, against 98-100).
* A change of a beacon's owner leaves the old owner's position until it is
  stale; label patches and the exists-then-save of a create
  (beacon_service.py:60) race as the registries in `SiteRegistry` do.
* Malformed records and timestamps in `/positions`.
* In `VigiLogin`: an unset password and a marker that vanishes between the test
  and the read (both end the call without a login), and a missing `.env`.
* Parsing and rendering, image upload and the zone detector (one call to an
  external service), redaction (text to text), text generation, the frontend
  (it keeps no state that the backend depends on), the harness and the probes.
* More than one simulator or removal at a time: `start` refuses a second
  simulator, and the removals of two requests differ only in what they remove.

## 7. Plan

Done, in this order: `PatrolTracker` over `PatrolWindow`, `ManDown`,
`BeaconIngest`, `VigiLogin`, `SimControl`, `CameraRegistry`, each with its
proofs; `CameraPresence`, `LiveView`, `SiteRegistry`, `FloorScale`, `SimWalk`,
and the modules of `faults` and `administration`; the refinement of
`PatrolWindow`, the tracker's records, the cameras' cache and events, and the
proofs of `SiteRegistry` and of all of `administration`, `ingest`, `faults`,
`vigi` and `simulations`.

Next:

1. Abstract specifications for `ManDown` (episodes and alerts) and `VigiLogin`
   (attempts per save), with refinements.
2. `Pipeline`: `BeaconIngest`'s writes driving `ManDown` and `PatrolTracker`, to
   show what a check that raises takes with it; and a version of
   `RecentIdentity` for several registry requests at once.
