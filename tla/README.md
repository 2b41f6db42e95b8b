# wandr-arbiter in TLA+

wandr runs a phone's user interface without the Java framework: WebAssembly
apps, each in a host process forked by a zygote, and one daemon, the
*arbiter* (`src/runtime/wandr-arbiter`), that decides which app is visible, who
has the keyboard, who may sound, when the panel is dark, what is locked and
which alarm is due. The arbiter is the part of the repository that keeps state
and makes decisions for every other part, and it is what this project models.

## 1. Inventory

### How the arbiter runs

One process, several threads. The main thread accepts the connections of the control
socket one after the other (`run_daemon`, `handle_client`); commands wait in the accept
queue meanwhile. Beside it run a subscriber to the zygote's death notices, a 5 s poller, a
timer thread for alarms, sensor and screen pollers, and a 1 s thread per
power-key press. They share one `Store` and one module bus, and every handler
takes the process-wide `arbiter_lock` before its first read and gives it back
after its last effect. So **a handler is one step**, and the interleavings that
matter are those of whole handlers, of processes that die between them, of the
file that is written at the end of most of them, and of a crash of the daemon at
any point.

A handler calls modules over the bus. A module mutates the store, emits events,
which other modules see in a fixed order (window manager, shell,
alarm, notify, power, keyguard, audio, ...), and requests effects: signals to hosts, lines on host
sockets, launches through the zygote, a save.

### Components

| Component | State | Operations | What makes it correct |
|---|---|---|---|
| Surface model (`core/surface.rs`) | per display: surfaces in a Vec with a role each, editor focus, IME | put, set role, remove, queries | one focused surface; pointers at tracked surfaces |
| Shell (`shell/`) | none of its own | foreground, kill, task-kill, back, cycle-task, set-ime, attach/detach-editor, overlay | roles and signals agree; the keyboard is up when wanted; focus follows foreground |
| Daemon (`bin/main.rs`) | registry, home | launch, wake, set-home, go-home, child exit, start-up | the screen is never empty; exits clean up |
| Saved state (`core/registry.rs`, `bin/state.rs`) | a JSON file | save (write and rename), restore with liveness probes, seed | a restart builds a state the rest relies on |
| Keyguard and power menu (`keyguard/`) | locked, covered app, muted process, twice | lock, unlock, power-menu, pm-* | what was covered comes back; input is never lost |
| Alarms (`alarm/`, `core/alarm.rs`) | alarms by (app, id) | schedule, cancel, tick | due alarms fire, once, with their period, across restarts |
| Power (`power/`) | panel, blank, comms set, doze classes | screen state, proximity, idle, backlight | a blanked panel always comes back |
| Audio (`audio/`) | focus stack, call session, ringer | focus request/abandon, call start/end, ring | each owner was last told what its place in the stack says |
| Sensors and driver (`sensors/`, `bin/sensor_driver.rs`) | holders per sensor, near or far; the request queue, the enabled count | acquire, release, sample; enable worker, poll thread | a sensor is on exactly while somebody holds it |
| Events (`events/`) | subscribers and retained value per topic | subscribe, unsubscribe, publish | a subscriber has the last value, whenever it came |
| Connectivity (`net/`) | link state, subscribers, saved networks and their file | report, subscribe, saved-add/update/remove/auto | hosts know the state; ids are unique |
| Notifications (`notify/`, `core/notify.rs`) | notifications by app and id | post, cancel, click | badges agree with calls |
| Media session (`media-session/`) | sessions by pid, the active one | set-*, clear, now-playing, action | taps reach a registered player |
| POWER key (`bin/main.rs`) | the pending press | power-down, power-up, 1 s timer | one press, one outcome |
| Wi-Fi daemon (`wandr-net`) | the owned link; two threads and a lock | monitor, control socket, reports | services converge to its link; no deadlock with the arbiter |
| Window manager | input-window list, geometry | push | not modelled |
| HAL crates, C++ services, guests, toolkits, SDK crates | - | - | outside the arbiter |

`PROJECT.json` lists every component with its sources and status, and under
`hazards` each place where the code is hard to test, with its line.

### What is hard

* A process dies between two commands and its exit is handled commands later,
  when the split, the editor focus or the foreground have moved on.
* Roles are kept twice: in the model and, by signals, in the hosts.
* The state file is written after the effects. A crash in between leaves a file
  of the past while the processes are of the present.
* Two modal overlays (lock screen and power menu) each remember what they
  covered, open over each other and close in any order.
* Alarms of dead owners need a relaunch that may fail, with a flag that is not
  saved; ticks change state and save nothing.
* Ids, fire times and periods of alarms are `u64` and read back as `i64`, and `now + repeat`
  wraps around.
* Kills prune the model at once, so the exit that follows is of an unknown pid.
* Several modules drive one host switch (`input-suppress`): power and keyguard.
* A call is one fact kept in five places: the audio session, the power manager's
  comms set, the sensor's holders, the badge and the focus stack. Each is
  changed by calls, rings, exits, kills and relaunches in an order of its own, and the
  badge by the app and the user as well.
* The sensor is switched by a FIFO worker and read by another thread; samples
  taken before a switch arrive after it. `sensor-hold` switches the light sensor beside
  the power service.
* The arbiter, holding its lock, waits for the Wi-Fi daemon, whose monitor waits
  for the arbiter; reports between them are lost and overtake each other.
* Every host forwards the POWER key; a timer and the releases race.

## 2. Modules

| Module | Extends | Models |
|---|---|---|
| `SurfaceModel` | - | a display as a record; queries, mutations and the role orchestration of `shell/shared.rs` as operators from display to display |
| `Shell` | SurfaceModel | the verbs of am.rs and ime.rs, launch, wake, home and child exit |
| `Persist` | Shell | save, failed save, crash, restore and seed, boot into home |
| `Keyguard` | Shell | lock screen and power menu composed with every step of Shell |
| `Alarm` | - | alarm store, tick, relaunch, saved alarms |
| `Hosts` | - | the life of host processes as the services see it: unborn, up, exited (dead, still registered), cut (alive, killed from the registry), gone |
| `Audio`, `Power`, `Sensors`, `Notify` | Hosts | one service each, as operators over its own variables |
| `Calls` | the four | their composition: one action per command, tick, sample, exit; the properties of a call |
| `FocusPromise` | - | the abstract promise of audio focus, which `Calls` implements |
| `Net`, `Broker`, `Media`, `Press` | Hosts | connectivity and saved networks, event broker, media sessions, POWER key |
| `Wifi` | Net | the Wi-Fi daemon's two threads, the sockets between the daemons, the relay |
| `Services` | the five, Notify | their composition with deaths and restarts of both daemons |
| `MCShell`, `MCPersist`, `MCKeyguard`, `MCAlarm`, `MCCalls`, `MCServices` | the module | the instances for TLC |
| `SurfaceProofs`, `ShellProofs`, `PersistProofs`, `KeyguardProofs`, `AlarmProofs`, `FocusProofs`, `CallsProofs`, `ServicesProofs` | the module (`PersistProofs` and `KeyguardProofs`: `ShellProofs` as well), TLAPS | theorems and their proofs |

### SurfaceModel and Shell

The code mutates one `DisplayState` through a chain of calls, so each helper is
an operator that returns the display after the call and keeps its Rust name in
TLA+ spelling (`PromoteToForeground` is `promote_to_foreground`). The order of
calls is the order of nesting. The bus cascade is inlined: `ForegroundChanged`,
emitted by a promotion, is handled by the shell after the handler, which is
`OnForegroundChanged` around the result.

`role` and `rank` are the Vec of surfaces: queries return the *first* surface
in a role, and `rank` keeps the Vec's order. `host` is what each process was
last told by a role signal (`apply_role`), and `told` the processes last sent
`editor-attached`. These two are what the outside world has heard; nothing in
the arbiter reads them.

`Shell` adds the registry, the home designation and the processes. `Die` is the
process's own step. `HandleChildExit` comes later or never, from the zygote's
push or the poller. `EnsureHomeForeground` has its four outcomes as disjuncts,
the failed launch included.

Bounds are constants: `MaxPid` processes are ever started; `LaunchModes`,
`ImeApps`, `HomeApps`, `EditorApps` restrict what is asked for; `Enabled`
turns the operator verbs on, since some properties hold only without them.

What the model takes for granted:

* pids are not reused;
* `register-chrome` comes from a process the arbiter does not know yet, under a
  chrome id;
* a launch without an app id (the developer's `<dev-cwasm>`) is left out;
* a wake-up launch may come for an app that is already registered (two alarms of
  one owner in one tick), so `WakeLaunch` has no guard on the registry;
* a tap on a notification is a wake-up launch and a promotion in two steps here;
  `Notify` has what it does to the notifications and the launch.

### Persist

`phase` separates a handler's effects from its save: `Handler` leaves the
arbiter in "save", then `Save`, `SaveFails` or `Crash` happens, and only
processes move meanwhile. The write-and-rename is atomic, as in `save_to`.
`TimerWake` saves nothing, as in the timer thread. `Restart` restores and seeds:
saved pids are probed, the registry is a HashMap so the seeded order is any
order (`Orders`), and no signal is sent. The death watchers start before the
daemon boots into home, so `ExitHandler` and `TimerWake` may come between
`Restart` and `Boot`. `BootsHome` says what the boot does; `BootShowsHome`, what its
comment promises, is one of the findings.

### Keyguard

The four verbs are operators on the display, the module's fields and the set of
processes told `input-suppress 1`, because the menu's lock button runs two of
them in one step. `KeyguardExit` follows the dispatch order: the shell has
already removed the pid from the registry when the keyguard looks it up, so the
lookup finds nothing and the covered app is not forgotten. The initial state is a booted system.

### Alarm

An owner is a registry entry and a process that runs or not. `Tick(t)` is the
whole of `on_tick` with its effects: deliver and reschedule or drop where the
owner is registered, mark and relaunch once where it is not. Ids, times and periods are
any `u64`. `Wrapped` is the sum of two in a release build (a debug build panics there).
`PickInt` is `pick_int`: a number above `i64::MAX` reads back as 0. It is applied to the id
as well (`ReadBack`), so alarms may collide in a restart, and `RestoredAlarms(from)` keeps
the one that was read last, in any order (`ReadOrders`). The 64-bit widths are constants,
small in the runs (3 and 7), in the relation `U64Max = 2 * I64Max + 1` that a width in bits
gives them. Assumed: the wall clock does not go backwards; a user launches an owner only
when it is not registered. Whether the host reads the line it is sent is not modelled.

### Hosts and the compositions

`Calls` and `Services` compose services that meet in three ways: a command's
cascade (`audio-call-start` emits `CommsActive`, which the power manager turns
into `SensorAcquire`), the exit of a host (`SurfaceRemoved` reaches each of
them), and the kill that prunes the registry with no event at all. A service
module has operators over its own variables; an action of the composition is
their conjunction, one whole handler.

`Hosts` keeps the difference between a process and its registration. `Die` is the
process's own step; `Exit` is the handling of it, later or never; `Cut` is
`kill`, after which the process may live on unregistered and its exit is of an
unknown pid. A pid is a host of an app (`AppId`), and apps have hosts one after the
other: the registry has one entry for an app, so `Launch` of a second one cuts the first.
What is keyed by app, the notifications, is thus inherited by a later host.
`Heard(p)` says that a line of `p` may be read: a process may have
written it before it died, since lines wait in the accept queue.

What hosts were told is kept in history variables (`focus`, `micGate`,
`cadence`, `suppressed`, `netTold`, `evtTold`), which nothing in the arbiter
reads. They are what the properties are about: whether the two sides agree. Three more tell apart what a property excepts: `declined` (hosts that declined a
ring in a call), `stray` (apps whose call badge another hand was on) and `held` (sensors
that `sensor-hold` switched beside their usual master).

A *mix* is a set of topics, such as `{"call", "ear", "die", "kill"}`. Each behaviour
chooses one and only the actions of its topics happen. This keeps the product of
unrelated topics (backlight with mute switches) out of a run, while each hazard
has a mix with everything it needs. The proofs do not depend on the mixes: they
hold for every set of them, in particular for the one with all topics.

### Audio, Power, Sensors, Notify

The focus stack is a sequence of pids, the owner last. The kind of an entry
decides only what the one below it is told. `Power` measures time in the steps
its decisions compare with (screen off for less than the doze grace, more, more
than the sensor's warm time) and brightness in four levels, with the dead band
two of them. The appliers of `main.rs` are included, since the daemon's default
on a wake is part of what the backlight shows. `noArt` chooses between the
phone without the framework, where the arbiter owns the display and its own
state drives doze, and with it, where the screen poller does.

In `Power` `NoLevel` is "auto" or "not known yet", so 0 is a level that can be asked for,
and `byDefault` remembers that the panel is lit with the default because no level was
known. `Notify` has the verbs of apps and of the user: post, cancel, and the click, which
takes the entry and launches the owner if it is not registered. A host that left the
registry calls and rings as the unknown app.

`Sensors` has the service (holders of each kind, hysteresis with a `None` start) and the
driver for proximity, light and orientation; the accelerometer, which only `sensor-hold`
asks for, is left out. `sensor-hold` takes any kind, as in the code. In the driver,
requests go through a queue to the enable worker, which the HAL may
refuse (`failures`), and the poll thread reads on-change samples while the
enabled count is positive. `Unclogged` bounds the queue, `MaxFailures` the
refusals.

### FocusPromise

The promise of audio focus in terms of what hosts are told: one owner at most;
whoever waits was told; when the owner leaves, one that waits regains, in the
same step. It knows no stack, no kinds and no calls. `Calls` implements it under
`owners <- told "own"`, `waiting <- told to pause or to duck`.

### Net, Broker, Media, Press, Wifi, Services

`Wifi` gives each thread of the daemon a program counter (`at`), since a bring-up
takes seconds and everything else happens meanwhile. The link lock is what
`Holds` says: held over a bring-up of the control thread, taken and given back
at once by the monitor. The arbiter's accept queue is a sequence of reports,
queries and commands to relay; a relay sets `relay`, and `Free` (no relay, and
up) guards every handler of the arbiter. `Respawn` and `Crash` restart either
daemon at any point. A name of a network is reported at white space
(`FirstWord`), which is what the arbiter then knows it by. Scans, leases,
carrier and the supplicant are outcomes.

`Media` keeps, for the stamps `seq` of the sessions, the order they put the
sessions in: `older` has the pairs of an older and a more recent one, and a touch makes
its session the newest. `Newest` is what `recompute_active` maximises.

`Press` counts presses as `POWER_GEN` does, with one timer thread each; hosts
forward DOWN and UP in any interleaving, after a restart of the arbiter too.

Assumed: pids are not reused; the host sends its own pid; a host applies the
lines of the arbiter in order.

## 3. Runs

| Run | Checks | Size |
|---|---|---|
| `shell_core` | `BehindUnique`, `HostAgrees`, `NeverEmpty`, `SwitchShows`, `FinishInput`, `KeyboardReconciled`, `ImeTold` | 3 apps, 3 processes, two of them able to serve as the IME, no operator verbs; 301,952 states |
| `shell_all` | `TypeOK`, `SlotUnique`, `PointersTracked` | 3 apps, 3 processes, one IME, all verbs, no home; 366,067 states |
| `persist` | `PersistTypeOK`, `PointersTracked`, `RestoreSound`, `BootsHome` | 2 apps, 3 processes, kill; 1,411,452 states |
| `keyguard` | `KeyguardTypeOK`, `InputRestored`, `UnlockRestores`, `OverlayHidesKeyboard` | keyguard, menu, launcher, keyboard, no home; 330,762 states |
| `alarm` | `AlarmTypeOK`, `CrashLosesNothing`, `PeriodKept`, `DueFires` | one owner, ids 0 and 4, periods 0, 1 and 6, times 0..2, widths 3 and 7; 199,778 states |
| `calls` | `CallsTypeOK`, `FocusKept`, `BlankJustified`, `PanelTrue`, `CallsStayAwake`, `SensorsFollow`, `CallHoldsSensor`, `MicGateTrue`, `BadgesTrue`, `PanelReturns` | 2 hosts (3 in the focus crowd) and a later one of the first's app, 18 mixes; 239,214 states |
| `services` | `ServicesTypeOK`, `HostsTold`, `SavedSound`, `PressOnce`, `ActiveSession`, `RelayReturns`, `StatusConverges` | 2 hosts (3 in the media crowd) and a later one, launched by a click; 3 names, 15 mixes; 333,951 states |
| `never_empty`, `lock_stuck`, `alarm_stuck`, `boot_hidden`, `badge_left` | violations, see below | 1 to 3 s each |

Why the bounds are enough. A split needs an overlay, an app behind it and a
third surface to interfere: three apps. Three processes let every app run, and
let one be relaunched while two run. In `persist` two apps with three processes
give a stale pid, its successor and another app, which is what a stale file can
confuse. The keyguard needs its own app, the menu, an app to cover and a
keyboard. There every process of the instance runs from the start, so that no
covered app is started again; what the properties say of that is left to the proofs. Of the alarms of one
owner two are needed for the double launch, two clock steps for one late tick after a
period of 1. Of the widths, an id beyond the `i64` bound (4) reads back as the other
one (0), a period beyond it (6) reads back as none, its next time wraps when it is
added to a time of 2, and does not fit an `i64` when added to 1. No symmetry is used: app
ids are ordered by the task ring, and pids by age.

In `calls` two hosts give two calls at once, a call over a ring and a dead caller
beside a live one; a third matters for focus alone, where one below the top
leaves, and a later host of an app for what its predecessor left behind. A request queue
of 2 lets a release and an acquire wait for the worker
together, and `MaxFailures` = 2 lets an enable fail and fail again. In `services`
the names are the empty one, one word and two words; two saved networks give
removal and re-use of an id; `Reannounce` = 2 lets a tick pass without an
announcement; an inbox of 2 (and room for the control thread) lets reports of
the two threads overtake each other; a third press of `MaxGen` = 3 finds the
timers of two older ones.

Deadlock is checked in the first five runs: there a command is always possible.
In `calls` and `services` a mix may end (every host dead, every id given out),
so it is not checked; that the arbiter and the Wi-Fi daemon do not block each
other is `RelayReturns`.

### Fairness

`Alarm`. `SF(Tick)`: the timer thread loops for ever and takes
`arbiter_lock`; between ticks handlers compete for the lock, so a tick is
disabled again and again, and strong fairness says that it gets the lock
eventually, which a futex mutex gives in practice. `WF(save)`: a handler that
holds the lock finishes its save, with success or without. Nothing is assumed
of users, owners, clocks or crashes: no restart need ever happen, no owner need
ever be launched by hand. `DueFires` holds in the `alarm` run with
`Faults = {}`, that is, while every relaunch succeeds and no owner dies while
one of its alarms is due.

`Calls`. `WF(Worker)`, `WF(Poll)`: the two driver threads loop on a channel and on
the HAL and wait for nothing else (`sensor_driver.rs:145-206`). `WF(ProximitySample)`: a
sample that was drained waits for `arbiter_lock` only. `WF(HostExit)`: the death
watchers report every registered process that ended. Nothing is assumed of
users and hosts: calls may last for ever. `PanelReturns` then says that, once the
phone stays away from the ear, the panel comes back and stays.

`Services`. `WF(Control)`, `WF(ArbiterReads)`: the control thread and the accept loop
block on their sockets and locks only. `SF(Monitor)`: the monitor needs the link
lock, which relayed connects take again and again; between two of them it is
free, and a futex mutex lets the monitor in eventually. `StatusConverges` is
conditional on the link staying as it is. No restart need ever happen.

### Findings

* `never_empty`. `task-kill` of the visible app prunes the registry at once; the
  exit is then of an unknown pid and the home fallback is not reached.
* `lock_stuck`. Unlock while the power menu covers the lock screen, then dismiss
  the menu: the lock screen returns, unlocked, and `unlock` refuses.
* `alarm_stuck`. A relaunch that fails leaves `pending_deliver` set, and no later
  tick tries again.
* `boot_hidden`. `seed_surface_model` marks the saved foreground app
  Foreground without a signal, "it is already running in that state". After a
  crash between a switch and its save it is not: it was hidden by the switch. If it is
  home itself, the boot finds home in the slot and does nothing, and the device comes up
  with home hidden; any other app is replaced by home at boot, if one is designated, and
  without one the screen stays empty.
* `badge_left`. The audio service clears the badge of a call when the owner dies, says its
  comment, and a test of it uses a pid that is still registered. The event
  comes after the pid left the registry, the app is not found, and the badge stays, also
  for the next host of the app.

### Where the code falls short of a comment, without a run

Each of these is an exception that a property names, or a hazard with a note:

* An alarm id beyond `i64::MAX` reads back as 0 after a restart, so the alarm is lost or
  collides with another one; a period beyond it reads back as 0 and leaves a one-shot.
  `core/src/alarm.rs:10` says that alarms survive a restart, of all of them.
  `CrashLosesNothing` is about ids that fit, and that no wider one reads back to.
* A repeating alarm whose next time wraps at `u64::MAX` fires at every tick, against "no
  burst catch-up" (`alarm/src/lib.rs:11`). `PeriodKept` excepts it by that sum.
* "The covered app exited while locked -> unlock reveals home, not it"
  (`keyguard/src/lib.rs:234`). The lookup of the exited pid comes after the shell
  removed it and finds nothing, so the app is not forgotten, and when it was started again
  in the meantime the unlock shows it. `UnlockRestores` says so.
* A failed enable is not added to the enabled count, but the disable that follows is
  subtracted (`sensor_driver.rs:69` calls it the number of enabled sensors).
  `SensorsFollow` holds until the first failure.
* A second ring replaces the first, whose `ring-stop` is then refused: its sensor stays on,
  although it is "released on decline/miss" (`audio/src/lib.rs:340`). `SensorsFollow`
  takes the holders as the wish.
* A second `audio-call-start` replaces the session and the first caller stays a caller
  until it exits, although the doc says "one call at a time" (`audio/src/lib.rs:252`).
* `wandr-net/src/main.rs:466` says that the link lock keeps the monitor from racing a
  re-associate; the monitor's own bring-up takes no lock, so its late result can replace
  the link of a connect. `StatusConverges` is about the daemon's link, not about the
  associated network.

These contradict no document, and are exceptions all the same: `set-ime` does not
re-derive the overlay (`KeyboardReconciled` excludes a change of IME); `overlay` during a
split leaves two apps behind it (`BehindUnique` is checked without the operator
verbs); a call host that also declines a second ring loses its sensor
(`CallHoldsSensor`, `PanelReturns`); a wake with no level known keeps the default
brightness while readings stay near the level applied before (`PanelTrue`, which requires
just that: no override, the default lit for want of a level, nothing applied since);
`sensor-hold` of the light or the orientation sensor switches it beside its master, and
the count with it (`SensorsFollow`); an app that posts, cancels or clears its call badge,
or a user that taps it during the call, is taken at its word (`BadgesTrue`, until the
next call of the app starts or ends); a DOWN that a host forwards after the outcome of the
press starts another (`PressOnce`).

## 4. Proofs

The theorems hold for every number of apps, processes, hosts, networks and alarms and
every choice of the other constants, under the assumptions named where the constants
are declared: counts are naturals, sets are sets of apps or of names, the overlay
apps are chrome and distinct. Three say more. `WidthAssumption` gives the integer
widths of the alarm store the relation that bits give them (`U64Max = 2 * I64Max + 1`);
ids, times and periods are any `u64`, and their sums wrap. `BootAssumption` gives every app of the keyguard's instance a
process. `WifiAssumption` has the network of the framework's file, if there is one, among the
names. Mixes are arbitrary in `Calls` and `Services`, so the theorems hold for the mix
of all topics, too.

| Module | Theorems | Hypothesis |
|---|---|---|
| `ShellProofs` | `ShellTypeOK`, `ShellSlotUnique`, `ShellPointersTracked` | - |
| | `ShellCoherent`, `ShellBehindUnique`, `ShellHostAgrees`, `ShellSwitchShows`, `ShellFinishInput`, `ShellKeyboardReconciled`, `ShellImeTold`, `ShellNeverEmpty` | `Enabled = {}` |
| `PersistProofs` | `PersistTypes`, `PersistSlotUnique`, `PersistPointersTracked`, `PersistRestoreSound`, `PersistBootsHome` | - |
| `KeyguardProofs` | `KeyguardInvariant`, `KeyguardTyped`, `InputComesBack` | - |
| | `OrdinaryInvariant`, `OverlaysAgree`, `UnlockShows`, `NoKeyboardAbove` | `Ordinary` |
| `AlarmProofs` | `AlarmInvariant`, `AlarmsTyped`, `CrashesLoseNothing`, `PeriodsAreKept` | - |
| `FocusProofs` | `FocusIsKept` | - |
| `CallsProofs` | `CallsInvariant`, `CallsTyped`, `BlankIsJustified`, `PanelIsTrue`, `CallersStayAwake`, `CallersHoldSensor`, `SensorsAreAsWanted`, `BadgesAreTrue`, `MicGatesAreTrue` | - |
| `ServicesProofs` | `SubscribersAreTold`, `OnePressOneOutcome`, `SavedIdsAreSound`, `SessionsAreOrdered`, `TapsReachPlayers`, `ServicesTyped` | - |

`Enabled = {}` leaves out kill, task-kill and overlay. They change roles that the
shell does not reconcile, and the theorems are false with them: kill breaks
`BehindUnique` and `SwitchShows`, task-kill `NeverEmpty` (run `never_empty`), overlay
`HostAgrees` and `FinishInput`. `Ordinary` adds that neither the lock screen nor the power
menu is ever designated the keyboard.

### The shell

The argument has three layers. `SurfaceProofs` states for each operator of
`SurfaceModel` what it keeps (`Keeps`: the display's type, its surfaces, its
IME, its editor or none) or adds (`Grows`), and that it leaves at most one
focused surface when it found at most one. `PromoteToOverlay` is the delicate
one: it is safe because the Foreground app it finds is the only focused surface,
which is why `SlotUnique` and `PointersTracked` are proved together.

`ShellProofs` carries this to the handlers. `SlotUnique` and `PointersTracked`
are not inductive: a fork needs to know that the new pid owns no surface and is
in no registry entry. `IInv` adds `Surfaces(ds) \subseteq 1 .. started` and that
each registered process was started for the app it is registered under.

Without the operator verbs more is true. `Neat` says that a display has one of two
shapes: one Foreground app, or an overlay with at most one app behind it and none in
the foreground. It is what makes the queries, which return the first surface with a
role, mean what their names say. `Coherent` adds that every surface was last told
its role, with `HostedBut` for the middle of a handler, where the surface that is
being moved was not told yet. `BehindUnique`, `HostAgrees` and `SwitchShows` follow from it.

`FinishInput`, `KeyboardReconciled`, `ImeTold` and `NeverEmpty` are about steps. `Kept(d, e)`
collects what a handler that turns display d into e does: an overlay stays above an
app (`Backed`), an overlay that was up exactly when wanted stays so (`Settled`), an app
that is left loses the input focus, the IME hears of it. It is proved of each
operator and composed along a handler. `ShellNeverEmpty` rests on `Backed`: a
handler that takes the visible app away takes the keyboard down too, so home finds
an empty slot and not an overlay in it.

### The saved state

`PersistProofs` adds what is true of the file (`SavedOK`): every pid in it was
started, for the app it is saved under. Forks keep that since they take fresh
pids; a save establishes it from `IInv`; a restart needs it to show that the
seeded display is consistent (`SeedOK`) and that two apps cannot be restored to
one process. `BootInv` is about the time
from the seed to the accept loop, in which exits and wake-ups are handled already: the
display is `Plain`, without overlay, keyboard or editor, so that the slot
`ensure_home_foreground` looks at is the one Foreground app, and only the file can have put
an app there that was not told to show (`SlotSeen`). Hence `PersistBootsHome`: a home app
that is registered when the accept loop starts holds the slot and was told to show, except
where the file named it; one that could not be started leaves everything as restored. This
one needs no hypothesis on the verbs, since no command is read yet.

### The lock screen and the power menu

`KInv` says whom the module muted: only processes that one of the overlays which are up
remembers (`Ignoring`), and only running ones. Input comes back because each way down
forgets and un-mutes in one step, and an exit takes the process out of the set
(`InputComesBack`). `KFit` adds `Coherent` and that only apps that are ever designated
the IME are overlays (`Served`): the lock screen is above the app it covered and not
above a keyboard. From it, unlocking shows what was covered (`UnlockShows`), and coming
up takes the keyboard and the editor down, in whatever order the two overlays open
(`NoKeyboardAbove`).

### Alarms

`AlarmInv` joins the types with two facts. `NextKept`: an alarm that fired repeats, and
is due exactly one period after the tick that last fired it, wrapped like the sum. `CrashLosesNothing`: while no
handler is between its effects and its save, and no save failed, the file has every
alarm of the memory that reads back as itself, with its period, if that fits, and due no later. Ticks save nothing, so the file
falls behind them; it stays good because a tick drops alarms or moves them later, and
never earlier - but for a next time that wrapped, where the file's was due
already (`Keeps`). What a restart reads is then a matter of the ids: one that fits an `i64`
reads back as itself, and alone. `PeriodsAreKept` follows from `NextKept`: an alarm that fires
again has a period and was due, so at least one period has passed, however late
the tick before it was, or the sum wrapped.

### Calls

`FocusProofs` shows the refinement (`FocusIsKept`: `Spec => FocusKept`). `FocusInv` says that
the record of what hosts were told *is* the stack: nobody is
stacked twice, the owner is the one told "own", those below are the ones told to
wait. It is needed because an abandon tells the new top only: that the others
need no word follows from what they were told when they were covered. The
lemmas about `Without` (`Vec::retain`) carry the argument; each step of `Calls` is
then a `TakeOver`, a `TakeForGood`, a `Leave` or a stutter.

`CallsProofs` proves `CallsInv`, the conjunction of `FocusInv`; `PanelInv` (power
alone: `lit` is what `panelOn` and `blanked` say, a blank has a caller and no video,
the backlight is faithful to the wish, or lit with the default under exactly the conditions
of the exception); `ToldInv` (over the life of hosts:
a host that is not registered yet was told nothing, so one that is launched in
doze or under a blank starts awake and with touch); `BadgeInv` (badges are by app, and no
app has two registered hosts, so a launch, which cuts the app's former host, and a start or
end of a call settle the badge of one host and disturb no other) and `GateInv` (the
microphone gates); `CallHoldsSensor`; and the types. The steps are
grouped by what they change (`PowerStep`, `OwedStep`), so that a handler that leaves a
part alone is dealt with once.

`SensorsAreAsWanted` is about a wish that the enable worker has not caught up with.
`FollowInv` says that the queued requests *lead* from the sensors the HAL has to those
wanted (`Leads`): of each kind the first request switches the HAL, each next one switches back,
and the last one is as wanted; without a request the two are equal. It holds while
no enable failed, of the kinds that `sensor-hold` left to their masters (`held`), proximity
always among them: its master is the holders. The enabled count is in it while `sensor-hold`
left all of them alone: one for each sensor that is on, the device-orientation sensor
included.

### Services

`ServicesProofs` has an invariant for each of several views of the step. `TellInv`
(`SubscribersAreTold`) is over launches, deaths and restarts: a host that is not born yet has
subscribed to nothing, so one that is launched was owed nothing (`SubscribersBorn`). `PressInv` says that before its
outcome a smooth press is pending or not yet begun, and after it is over, so that
no timer or release can add a second outcome (`OnePressOneOutcome`). `SavedInv` orders
the entries by id and bounds those in memory by `next_id` - the file, which may be
older, only needs to be ordered, as a restart counts from its largest id
(`SavedIdsAreSound`). `MediaTypeOK` has the order of the stamps: of any sessions one is
the newest, so that the maximum `recompute_active` takes exists and is one of them
(`SessionsAreOrdered`, `TapsReachPlayers`).

`ServicesTyped` contains one fact that is not about types: the queue at the arbiter's
socket is bounded. A host or the monitor connects only while there is room (the bound
`MaxInbox`), but the control thread's reports always go through, so the length alone is
not inductive. `Lines` counts what is owed as if it were queued: a job that the control
thread serves owes two lines until it said the first (`Owed`), one until it said the second,
and a command that waits to be relayed, or was relayed and not accepted yet, owes the
two of its job. A relay trades the waiting command for its job, an accept the job for
the thread's place, a report the debt for a line; and a new command finds none of the three
but the thread, since it needs `relay = NoJob`. Four lines above the bound are room enough,
over restarts of either daemon.

### Only model-checked

`DueFires`, `PanelReturns`, `RelayReturns` and `StatusConverges` are liveness under fairness,
which is outside what the prover handles; TLC checks them on the instances of section 3.
The five violations of section 3 (`NeverEmpty` with task-kill, `LockscreenOnlyLocked`,
`DueFires` with faults, `BootShowsHome`, `DeathClearsBadge`) are no theorems
either. Every other property that a run checks is one. Those under a hypothesis are checked
in runs that satisfy it: `shell_core` and `keyguard`.

## 5. Not modelled

Pixel geometry, editor hints, launch times and log lines (data no property tells
apart); the text of commands and of the JSON files, except the integer range and
the white space in a reported name; the routing of typed text, which changes no
role; tones and volume, which keep nothing; titles and artwork of media
sessions; passphrases and security types; the scan cache and the DHCP packets of
the Wi-Fi daemon and its one-shot command lines; simulated sensor readings; the
display, lights and Wi-Fi HALs (one call per request); the C++ services. The
guests, their toolkits and the SDK crates (audio player, Signal, Jellyfin,
media engine, games) are the larger part of the repository's lines and single
users of the arbiter: user interfaces and protocol clients whose logic does not
reach the state modelled here. The host and the zygote are a submodule that is
not in this tree; they appear as the signals, lines and pids the arbiter
exchanges with them.

## 6. Plan

In order of importance:

1. `Power` composed with `Keyguard`: an uncover under the lock screen un-mutes the
   covered app. `Persist` composed with `Keyguard`: a restart while locked.
2. `InputWindows`: the list pushed to the input dispatcher against the surface
   model, with failed pushes and the paths that do not push.
3. `Bus`: the cascade and its depth bound, against the inlined cascades here.
4. Whether a delivered alarm is read: the host's socket life cycle in `Alarm`.
5. Proofs: the invariants of what 1 to 4 add; which of the shell's properties a
   restored display has at once, with the keyboard and the split, and which only
   after the first switch.
6. `dhcp.rs` (retransmission and lease decoding) and `wandr-step-executor`.
