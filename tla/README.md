# A TLA+ model of the VPN client core

This directory models the Windows VPN client (`internal/`, `cmd/vpnclient`) in
TLA+: nearly everything of it that keeps state, except the web UI. TLC checks
the models on small instances; TLAPS proves the main safety results for every
value of the constants. Where a comment of the code promises something the code
does not do, the promise is written down as a property and a configuration
shows a run that breaks it.

File references are to the repository; `app.go` is `internal/app/app.go`,
`multiproxy.go` is `internal/app/multiproxy.go`.

Contents: 1 the system, 2 the modules and the code, 3 the runs, 4 fairness,
5 the proofs, 6 known divergences, 7 what is not modelled, 8 what is left.

## 1. The system

A background process serves a local HTTP API to a web UI and a tray. It logs in
to a backend, gets credentials of VPN nodes, and runs `xray` (proxy mode) or
`sing-box` (TUN mode) as a subprocess; it points the Windows system proxy at
the former and may lock the firewall around the latter. Almost everything that
can go wrong goes wrong between two goroutines or between two external effects,
because `App.mu` and `App.multiMu` are never held over a call.

| Component | State | Operations | Talks to | Hard behaviour | Correct when |
|---|---|---|---|---|---|
| process managers (`xray/manager.go`, `singbox/manager.go`) | `cmd`, `gen`, `done`, temp config | Start, Stop, watcher goroutine, WaitReady | OS processes, exit callback into App | kill is asynchronous; a crash races Stop and Start; a dead process holds the handle | a crash is reported once, a planned stop never; no process or config is lost |
| kill-switch guard (`killswitch/`) | `engaged`; the firewall policy and rules outlive the process | Engage, Disengage, CleanupStale | `netsh`, one command at a time | any command may fail; the process may end between two | never blocked without exits; engaged means blocked; a restart recovers |
| connection (`app.go`) | `state`, `mode`, `wantConnected`, `reconnecting`, `proxyOn`, `expiresAt`, `refreshing`, `refreshStop`, last server and mode | Connect, Disconnect, onEngineExit, reconnectLoop, refreshLoop/maybeRefresh | managers, guard, system proxy, backend, custom servers | overlapping calls, crashes, reconnects and refreshes; failures at every step | one loop of each kind; status, engines, proxy and firewall agree; nothing left after a disconnect |
| multi-proxy (`multiproxy.go`) | `multi`, `multiMainPort`, `multiRefreshStop`, mappings in the settings | Start, Stop, Add, Update, Remove, stopAllMulti, onMultiExit, reconnectMulti, multiRefreshLoop | one manager per mapping, settings, system proxy, connection | start against stop, stale instances, three records of who is main | list is what runs; the system proxy has an owner |
| token session (`backend.go`, `tokenstore/`) | access and refresh token in memory and on disk, `refreshMu` | authenticated requests with refresh on 401, Login, ClearTokens, Load/Save/Clear | backend, disk | single-use refresh tokens, lost replies, saves out of order, restarts | single flight; no token used twice; logout is final |
| startup and shutdown (`main.go`, `singleinstance/`, `procutil/`, `sysproxy/`) | named mutex, engine processes, system proxy, lockdown, `settings.json` | Acquire, loads, three cleanups, Quit, signal, panic, kill, shutdown | all of the above | an exit in the middle of anything; a second launch; proxies of other programs | the next start repairs, and touches nothing of others |
| settings store (`settings/`, `SaveSettings`, `multiproxy.go`) | settings in memory and on disk, ports in force, Run key | Load, Get, Save, SaveSettings, add, update, remove and start of mappings | App, multi-proxy, control API, registry | read-modify-write in several steps by several callers; a write cut off | normalised, disk as memory, mappings apart, runs as configured |
| engine configurations (`routing/`, `xray/config.go`, `singbox/config.go`) | - | the rules and their order | engines, geo databases | first match wins; two generators | what the user excluded goes direct, and its name is resolved direct |
| custom servers and pinger (`customserver/`, `app/pinger.go`) | list in memory and on disk, cached round trips | add, remove, load, probe in the background | connection, control API, network | failed and torn writes; a probe under way while the TUN comes up | list survives; a ping is measured off the tunnel |
| updater (`updater/`, `app.go`) | `lastUpdate`, `updateRunning` | CheckLatest, loop, ApplyUpdate | GitHub, installer | overlapping checks, failing download | a newer version found is not forgotten; only a newer one is launched, whatever is checked meanwhile |
| window and tray (`ui_windows.go`, `tray.go`) | `open`, `hwnd`, the items of the menu | Open, Close, status poll, Quit | App, WebView2 | two goroutines open at once | one window, which can be closed and opened again |
| device identity (`deviceid/`) | sealed key, device id | load or create, register | backend | created once | survives logout |
| control API (`control/`) | session token | one handler per call | App | concurrent calls | maps one to one |
| UI stores (`frontend/src/stores`) | copies of the status | poll, act | control API | polls against actions | shows the latest |

How they interact: the control API calls `App` in a goroutine per request.
`App.Connect` first stops all multi-proxies; `StartMultiProxy` first
disconnects the single connection. Managers call back into `App` from their
watcher goroutine when a process dies that nobody stopped (`onEngineExit`,
`onMultiExit`), which may start a reconnect goroutine; that goroutine runs the
same connect code as an API call, without any lock in common. One refresh
goroutine per connection and one for all multi-proxies restart engines with
fresh credentials. All of them take tokens from the session, where a 401 leads
into a refresh under `refreshMu`. The firewall, the registry value of the
system proxy, `tokens.json`, `settings.json`, `custom_servers.json` and the engine
processes outlive the process; `main.go` looks after some of them when it
starts and ends.

`PROJECT.json` lists the hazards line by line with the properties that cover
them.

## 2. Modules and code

| Module | Models | State | Actions |
|---|---|---|---|
| `EngineAbs` | what `App` relies on: a manager has no process, one that is up, or one that fell; a fall is posted as one exit callback | `st`, `exits` | Launch, Halt, Fall, Notice, Deliver |
| `Engine` | both managers, `Probe` choosing the readiness test | `m.cmd`, `m.gen`, watchers, processes, configs, WaitReady calls | one per critical section: Start (ok/failed), Stop, Die, Serve, Reap, Compare, Report, WaitReady |
| `GuardAbs` | a firewall that is open or blocked, and whether we say so | `fw`, `on` | engage, disengage and their failures |
| `Killswitch` | the guard, one `netsh` command per step | policy, rules, `engaged`, the call in flight | each command taking effect or refused; End (crash) and Restart; CleanupStale |
| `Connection` | `Connect`, `Disconnect`, crash handling, reconnect and refresh loops | the fields of `App`, locals of each goroutine, the collaborators' abstract state | one per critical section or call |
| `MultiProxy` | `multiproxy.go` | `multi`, `multiMainPort`, `multiRefreshStop`, mappings, locals, processes, registry | one per critical section or call |
| `Session` | `backend.go` tokens and `tokenstore` | pair in memory and on disk, `refreshMu`, the backend's view | one per critical section, exchange or file operation |
| `Routing` | `routing.go` and the rules of both `config.go` | - (operators) | `XrayRules`, `SingRules` and the resolver's rules, read by `Via` as first match wins |
| `Settings` | `settings.go`, `SaveSettings`, the calls of `multiproxy.go` that change mappings | memory, disk, ports in force, Run key, ports of running proxies, the calls' copies | one per critical section or file operation; extends `Routing` |
| `Lifecycle` | `main.go`, single instance, process sweep, the cleanups, `ForceClearProxy`, and every call of `App` as far as it touches the machine | mutex, engine processes with their launch and manager, registry, firewall policy and rules, saved ports; every launch's phase, ports, flags and call at work | startup steps, calls with their failures in the steps their effects come in, engines that die, other programs, every kind of end, shutdown step by step |
| `Updater` | `updater.go` and the update calls of `app.go` | last result, checks and applies at work | publish, ask, answer, store, download, launch |
| `CustomServers` | `customserver.go`, `pinger.go`, `Locations` | list, disk, cache, probes | add, remove, spawn, dial, answer, record |
| `Window` | `ui_windows.go`, the clicks of `tray.go` that open it | window, opener goroutines | ask, open, create, close, destroy |
| `Control` | the control API and tray over the three above, beside the connection | `conn`, `tun` and the state of the three | those of the three, the steps of the connection they see, Restart |
| `*Proofs` | theorems about the module of that name | | |
| `MC*` | symmetry and values for TLC | | |

`Connection` uses `EngineAbs` twice (xray, sing-box) and `GuardAbs` once, by
INSTANCE; `Engine` is shown to implement `EngineAbs`, and `Killswitch`
`GuardAbs`, so what holds of the composition needs no more of the collaborators
than their abstract specifications. `MultiProxy` uses the meaning of
`EngineAbs` for managers that are launched once. `Control` composes `Updater`,
`CustomServers` and `Window` by INSTANCE with one budget of events, so that
checks, probes, windows and the connection interleave.

Program points (`pc`) stand for the place between two critical sections or
calls; their names follow the code (`begin`, `fetch`, `setProxy`, ...). Locals
that the code reads later are variables; locals of goroutines that have ended
are reset, so that equal situations are equal states.

Abstractions, by module:

- **Engine.** Kill is a request; death is a step of its own. `gen`, `done` and
  the config file are as in the code. stderr tail and binary lookup are left
  out. The two managers differ only in WaitReady (`Probe`).
- **Killswitch.** Rules are labels; `Params` is the set of optional rules. A
  command that is refused changes nothing.
- **Connection.** `WaitReady` is one step that succeeds when the engine is up
  and may fail otherwise; a killed process is gone at once (the old process
  still answering on the port is in `Engine`). `setMode` and
  `setState(connecting)` are one step; Disconnect's local `wasProxy` is the
  next program point. The clock is `Age` and a credential's remaining life
  (`zero`, `near`, `far`). Left out: `stopAllMulti` at the start of `connect`
  (it is in `MultiProxy`), location, since, last error, `manageProxy=false`,
  `Logout` and `ForceClearProxy`. When all `Loops` are in use `StartTimer`
  waits; two are enough for one old and one new loop.
- **Session.** The backend is external and does what `backend.go:129-134` says
  of it: refresh tokens rotate and a second use revokes every session. The
  n-th reply that carries tokens carries tokens n. The one retry after a
  refresh changes no token and is not a step. An access token expires only
  when it is one in use. `happened` records which mishaps a run has had, for
  properties that hold in their absence.
- **Settings.** The calls follow the code: a copy read under `Store.mu`, changed
  outside it, checked against the store again where the code does, saved. Port
  0 stands for every invalid port. `kill_switch`, `multi_proxy_enabled` and the
  server of a mapping, which no property tells apart, are left out. A write may
  fail, or be cut off with the process. `PutSettings` is the body the settings
  page sends: every field it shows, and no mappings.
- **Routing.** A name is a sequence of labels, an address a model value; an
  entry of the direct list is what the generators distinguish (leading dot,
  slash, labels, the addresses it covers). That the engines take the first rule
  that matches, and how they match names, is external. `ResolvesAsRouted` leaves
  out the node's own name, which goes direct by a
  rule of its own and has no rule in the resolver.
- **Lifecycle.** A port stands for the pair of SOCKS and HTTP ports. A launch
  that is up makes one call at a time, in the steps its effects on the machine
  come in; a call begins only while the launch is up, and one at work goes on
  beside its end. Every call may fail where the code can: no configuration, no
  administrator rights, an engine that does not start (the one before is gone
  by then) or does not become ready, registry and `netsh` calls that are refused
  or done in part, processes that cannot be ended. What `App` does when an engine
  dies is among the calls; a refresh restarts an engine in its place, and one
  that fails is an engine that dies. History: `dirty`, the last launch was killed
  or ended with a call at work; `moved`, the ports of the settings have changed;
  `proxyLost`, `guardLost`, `sweepLost`, what was refused or cut off so that
  nobody knows of it. `Lookalikes` are proxies of other programs whose text
  contains one of our ports (`mentionsAnyPort` looks for a substring).
- **Updater.** A tag is the sequence of its numbers, a release a position in
  the order of publication. HTTP and the installer are external.
- **CustomServers.** Parsing decides only which links of an input count. A
  probe that goes out while the TUN is up is answered on this machine and
  measures nothing (`fake`); the three tries and the limit of 16 are left out.
- **Window, Control.** The connection is its state and whether the TUN is up.
  Either may change whatever the other is: calls overlap, and an attempt that
  fails before it has come to sing-box leaves the TUN of the connection before
  up under the state `error`. The poll that copies the state into the menu every
  two seconds, minimising, icons and texts are left out.
- **MultiProxy.** Mapping ids stand for ports (a mapping keeps its port), and a
  change of the settings is one step. A manager is launched once and named by
  its mapping and a number, which is used again when nobody refers to it. The
  single connection is the flag `single`. `happened` records whether calls and
  crashes have overlapped, whether the main flag moved while a system proxy was
  set, and whether taking the system proxy away has failed.

## 3. The runs

All bounds are constants named in the modules. Deadlock is not checked where
the bounds on calls, crashes, events or tokens let a behaviour end.

| Run | Bounds | Shows |
|---|---|---|
| `engine_xray` | 3 processes, 5 generations (Start and Stop calls), 1 waiter, port probe, fair | exit callbacks for crashes and nothing else (`PlannedStopIsSilent`, `CrashIsReported`); no unmanaged process; an early exit ends the wait; refinement of `EngineAbs` |
| `killswitch` | one set of parameters with node, TUN and LAN, 6 calls or restarts, every command refusable, an end anywhere | `EngagedMeansBlocked`, `ExitsBeforeBlock`, `RecoverableAfterCrash`, refinement of `GuardAbs` |
| `connection_race` | 2 callers, 2 calls, 1 crash, ageing credentials, failures of backend, launch, readiness and configuration | one reconnect loop, every connection refreshed, system proxy owned, a custom server never asked of the backend |
| `connection_sequential` | `SerialSpec`: up to 4 calls of 2 callers, 1 crash with 2 attempts, and refreshes, one after the other; failures of backend, configuration and readiness | `TornDown`, `ConnectedAsAsked` |
| `connection_liveness` | 1 caller, 2 calls, 1 crash, 2 attempts, a custom server that may be deleted, fair | `ReconnectEnds`, `ConnectingIsExplained` |
| `session` | 2 goroutines, 4 calls, 3 pairs, 1 restart, every mishap | no reuse, session survives, disk follows memory, logout final |
| `multiproxy` | 2 mappings, 2 callers, 2 workers, 3 events (calls, crashes, refreshes), every failure, 2 attempts | `ProxyIsOwned`, `ConnectedIsRefreshed` in every interleaving; `ListedAsRunning`, `StopClearsProxy` for one thing after the other |
| `settings` | 2 callers, 2 ids, ports {invalid, 3, 4} beside the defaults, 3 calls or restarts, writes, registry and starts that fail | `DiskIsMemory`, `MappingsApart`, `MappingsKept` in every interleaving; `PortsInForce` and `RunsAsConfigured` under the condition stated in each; `SplitTunnel`, `ResolverFollowsRoute` for every list |
| `lifecycle` | 3 launches, 2 ports and one for multi-proxies, 2 proxies of other programs, one of them a look-alike, 5 events (calls, dead engines, other programs, ends), failures and refusals free | `RunningIsKept`, `NoOrphans`, `NothingLeft`, `ForeignKept` |
| `control` | 4 releases, 1 caller and the loop, 2 servers, 1 probe, 2 openers, 6 events, any state beside any TUN | `OneWindow`, `LaunchedIsNewer`, `ServersSurvive`, `PendingUpdateStays` |
| `settings_wiped` | as `settings` | violated: `EmptyOnlyWhenUnused` |
| `lifecycle_removed` | as `lifecycle` | violated: `RemovedCrashSafely` |

Why the bounds are enough. The properties relate at most two goroutines of a
kind and one crash: two callers with two calls overlap in every way two calls
can; a third adds no new pair. A crash needs a connection (one call) and is
interesting against one more call, a refresh, or a second crash; each of these
pairs is in some run. `MaxAttempts` is 1 or 2 instead of 5: one attempt that is
not the last and one that is. Three processes let a process be replaced twice,
so that a watcher can meet the generation after the next. Three token pairs let
a refresh follow a login that follows a refresh. Three events in `multiproxy`
are a start, a crash or refresh, and a stop; or three calls. Three calls in
`settings` are two that race over a state a third has made. Three launches are
one that leaves something, one that is killed or fails while it cleans up, and
one that must find it; or a second launch beside a running one. Five events there
are two calls, the death of an engine or a proxy of another program, and two ends;
only the last of the three launches need not end. `NothingLeft` says that what is
set is known to the launch that is up, not that it works: a reconnect in proxy mode
that fails (`app.go:715-724`) leaves `proxyOn` and the registry on a port nobody
listens on, until the next connect, Disconnect or end. Four releases
are one older than the build, one newer, one whose tag is no version, and one
newer by a component, with and without installer and archive. What the bounds cannot show
the proofs say for every value (section 5).

Some properties speak of one thing after the other: no call begins, no fall is
noticed and no refresh sets out before whatever was at work is through. For
`MultiProxy` and `Settings` that is a condition on the history (`happened`): in the same run everything also overlaps, and the properties with
the condition speak of the behaviours in which nothing did. For `Connection` it
is a specification of its own, `SerialSpec`, which has the steps of `Spec` that
keep `OneAtATime`; a history variable would double the states of every run.

Every property of a passing run has a mutant: a plausible fault in a modelled
definition (in the modules, marked "Fault:") under which TLC finds the property
violated. Safety properties that are proved for all values and that a run need
not repeat (`OneLoopAtATime`, `OneRefreshLoop`, `NoStrayConfig`, `StrandWindow`,
`SingleFlight`, `NoNeedlessRefresh`, every `TypeOK`) can be added to the
configuration of their module.

## 4. Fairness

Two runs assume any, the others none.

`connection_liveness`: weak fairness of every goroutine's steps, of the
watcher's notice and of the delivery of exit callbacks
(`Connection!Fairness`). The Go scheduler gives each goroutine its turn, no
lock is held over a call, and every call a goroutine makes is bounded: backend
calls by the client's timeout, WaitReady by 15 s, an attempt by a context of
30 s, the backoff by 30 s. The user, the clock, crashes and failures are free,
so the properties hold however often calls fail.

`engine_xray`: weak fairness of each process's watcher goroutine, of the death
of a process that was killed, and of a waiter that can see the exit
(`Engine!Fairness`). cmd.Wait returns once the process is dead, Kill is not
refused by the process it ends, and WaitReady polls every 150 ms. Nobody has to
call Start or Stop and no process has to crash.

## 5. The proofs

TLAPS checks, from the ASSUMEs of each module only:

- **EngineProofs.** Type correctness, `PlannedStopIsSilent`,
  `NoUnmanagedProcess`, `NoStrayConfig` and the safety part of the refinement,
  for any number of processes, calls and waiters. The invariants say what has
  happened to a process; they are inductive only with what `gen` means:
  `GenNamesCmd` (a watcher compares equal exactly while its process is
  `m.cmd`), `LaunchedOnly` and `WatcherSawDeath`.
- **KillswitchProofs.** `EngagedMeansBlocked`, `ExitsBeforeBlock`,
  `StrandWindow`, `RecoverableAfterCrash`, and that `Killswitch` implements
  `GuardAbs`, for every set of parameters and any number of failures, ends and
  restarts. The strengthening says how far a call has got (`RulesSoFar`) and
  that only a running process past its cleanup is engaged.
- **ConnectionProofs.** `SingleReconnect`, `OneLoopAtATime`, `OneRefreshLoop`,
  `ConnectedIsRefreshed`, `ConnectingIsExplained`, `ProxyIsOwned` (with a
  registry that works) and `CustomStaysLocal` (while none is deleted), for any
  number of callers, servers, loops, crashes and attempts. Most are inductive
  together with `TypeOK`, whose control part says which program points each
  kind of goroutine has; each has a step lemma along the disjuncts of `Next`.
  `TornDown` and `ConnectedAsAsked` are proved for `SerialSpec`: with anything
  overlapping they are false (section 6). Neither is near inductive. The
  invariant (`Sequential`) says for every program point of `connect` and
  `Disconnect` what has been brought about by then, also on the way out of
  a failure (`Relies`); that reconnects and refreshes serve what was asked for
  last (`Reconnecting`, `Refreshing`); and, with nobody at work, what the last
  of them has left (`Settled`). Both need a registry and a firewall that obey
  (`Obedient`: whoever refuses to let go leaves a proxy or a block behind),
  and `ConnectedAsAsked` that a refresh does not fail to start its engine
  (`~RefreshMayFail`), which is the divergence `RefreshKeepsTunnel` of section
  6. `ConnectionOneCaller` shows that the condition is no artifice: with one
  caller, no crash and credentials that do not age, every behaviour of `Spec`
  is one of `SerialSpec`.
- **SessionProofs.** All properties of the session. The invariant adds where
  unseen replies and unsaved pairs may be: a token in a reply that is on its
  way is in no other place (`RepliesUnseen`), the refresh token in memory is
  unspent unless its successor is about to be stored (`NotSpent`), a token
  noted by a goroutine that waits for `refreshMu` and still in memory is one
  the backend refused (`RefusalInv`), nobody writes the disk but the one
  goroutine that changed the pair (`DiskInv`).
- **MultiProxyProofs.** `ProxyIsOwned`, `ConnectedIsRefreshed` and
  `OneRefreshLoop` in every interleaving of calls, crashes, reconnects and
  refreshes. `OneRefreshLoop` needs to know the refresh loops as exactly those
  in `stopped` and `refreshStop` (`LoopsKnown`), and that an idle goroutine is
  in no other call (`CallsFit`); `ConnectedIsRefreshed` needs that a connected
  instance has a manager (`ConnectedRuns`), which needs that a start past the
  swap has one (`LocalsSet`). `ListedAsRunning` (while nothing has overlapped)
  and `StopClearsProxy` (besides, while no main flag has moved under a system proxy
  and none has refused to go: it says that a system proxy that is set points at a
  proxy that runs, and that instance, settings and `multiMainPort` agree on whose it
  is) follow from a second invariant, `Sequential`:
  until the first overlap at most one goroutine is at work or one process has
  fallen unnoticed (`OneThing`), a mapping without an instance has no trace of
  one (`Tidy`), the goroutine at work knows at each program point what is listed,
  what runs and whose the system proxy is (`Working`), and with nobody at work
  every process is one the list names (`Resting`).
- **SettingsProofs.** Type correctness, `DiskIsMemory`, `MappingsApart`,
  `MappingsKept`, `RunsAsConfigured` and `PortsInForce`, for any sets of callers,
  ids and ports. `Normalise` makes every value well typed (`Types`) and its
  mappings apart (`Apart`), so what a call is about to save must be a normal
  value built from one (`ReadyToSave`); with one call at a time a copy is what
  the store still holds (`Alone`), and what runs is listed (`Listed`).
  `SplitTunnel` and `ResolverFollowsRoute` rest on two theorems about `Routing`
  alone, for every direct list: what the user excluded goes direct in both
  engines, and little else (`ListsSplitAsAsked`), and in TUN its name is resolved
  outside the tunnel (`ListsResolveAsRouted`). The proofs find the first rule that matches by cases
  on the rules before it. The second assumes an address that is neither Russian
  nor on the list (`SomeElsewhere`); without one, a name whose every address is
  excluded would count as routed direct although nobody named it.
- **LifecycleProofs.** Type correctness, one launch at a time
  (`LifecycleOneLaunch`), `RunningIsKept`, `NoOrphans`, `NothingLeft` and
  `ForeignKept`, for any number of launches, ports, foreign proxies and
  look-alikes. A launch past Acquire and not gone holds the mutex, and only one
  that is up or ending has a call, a flag or a guard (`OwnInv`); once the sweep
  is through, engines are its own or were refused (`SweepInv`); no
  launch that is up is `dirty`, and a call or a flag that outlives an end is
  (`DirtyInv`). A system proxy on a port of
  the settings is known to a launch that is up or ending, by its flag or by the
  step its call is at, or was left by an end no later launch has cleaned up
  after yet, or one of the exceptions has happened (`ProxyInv`); and the same of a block, with its rules
  in the place of the port (`GuardInv`).
- **ControlProofs.** Type correctness, `ServersSurvive`, `OneWindow`,
  `PendingUpdateStays` and `LaunchedIsNewer`. `open` is set exactly while one
  goroutine has a window or is making one (`WindowInv`); what a check has found
  is published, and with one check at a time not older than the last result
  (`Found`, `CheckInv`); the result ApplyUpdate works from was looked at when it
  was read and cannot change (`InstallInv`), and comparing versions part by part is
  the order of versions (`SemverOrder`).

Every safety property a passing run checks has its theorem. Only model-checked:
liveness (`CrashIsReported`, `EarlyExitEndsWait`, `ReconnectEnds`),
the liveness part of the refinement of `EngineAbs`, and the
violations. Out of the provers' reach: ENABLED and liveness under fairness,
induction over data, and RECURSIVE operators, which no module here uses.

## 6. Known divergences

Two are runs of the project and described under "findings" in PROJECT.json:
the settings page empties the list of mappings while multi-proxies run, and a
proxy of a killed launch on a port other than the saved ones is not removed.
The others are kept as properties with a configuration each (run
`tlc -config X.cfg M` to see the behaviour):

| Property | Configuration | What happens |
|---|---|---|
| `Engine!ReadyMeansAlive` | `MCEngine_singbox.cfg` | sing-box readiness tests a handle that a crash never clears |
| `Killswitch!DisengageNeverStrands` | `MCKillswitch_restorefails.cfg` | the policy cannot be restored, the rules are removed all the same |
| `Killswitch!DisengageSafeWhenNotEngaged` | `MCKillswitch_notengaged.cfg` | Disengage without Engage overwrites a user's blocking policy |
| `Killswitch!CleanupRecovers` | `MCKillswitch_stranded.cfg` | an end between the removal of the old rules and the next policy command of a second Engage leaves a block without rules, which the cleanup does not look for |
| `Connection!TornDown` | `MCConnection_disconnect.cfg` | a Disconnect that overlaps the reconnect loop is undone by it; with `May = {"age"}` and no crash, by a refresh; with a second caller, by a connect, which in TUN mode with `KillSwitch = {TRUE}` leaves the block on |
| `Connection!ConnectedEngineIsUp` | `MCConnection_deadengine.cfg` | an engine that falls before `setState(connected)` is not looked at again |
| `Connection!OneEngine` | `MCConnection_twoengines.cfg` | two overlapping connects leave both engines running |
| `Connection!RefreshKeepsTunnel` | `MCConnection_refreshfails.cfg` | a failed refresh leaves no engine and the state connected |
| `Connection!ReconnectIsCurrent` | `MCConnection_staleattempt.cfg` | an attempt uses the server read before the backoff |
| `Connection!CustomStaysLocal` | `MCConnection_removed.cfg` | a deleted custom server's id is sent to the backend |
| `Connection!OffTheTunnel` | `MCConnection_cleanpath.cfg` | a switch of servers in TUN mode that fails before it has come to sing-box (`app.go:666`) ends in the state `error` with the old TUN up, in which `Locations` measures pings (`app.go:344`), although nothing overlaps |
| `Session!LogoutSticks` | `MCSession_logout.cfg` | a refresh that was at work at the logout stores its tokens after it |
| `MultiProxy!StopIsFinal` | `MCMultiProxy_stop.cfg` | a proxy stopped while it starts runs without being listed |
| `MultiProxy!RunningIsConnected` | `MCMultiProxy_error.cfg` | a failed refresh or second start marks a running proxy as failed |
| `MultiProxy!StoppedProxyIsCleared` | `MCMultiProxy_cleared.cfg` | when the main flag moves to another mapping while the system proxy is set, stopping the old main leaves it on its port |
| `Lifecycle!AnyForeignKept` | `Lifecycle_lookalike.cfg` | the cleanup takes another program's proxy away when its text contains one of our ports |
| `Control!NoFakePing` | `MCControl_ping.cfg` | a probe started before the TUN came up measures the TUN, and the value is kept |

`MCControl_types.cfg` passes: `TypeOK` of the four parts.

Read in the code and not stated as a property: a reconnect in proxy mode that fails
leaves the system proxy on a port without an engine, in the state `error`
(`app.go:715-724`; `NothingLeft` shows that it is not forgotten); a server whose
save failed stays in the list, and on disk from the next save on; sing-box's rule for the node
names it as a domain, which does not match a node given by address
(`singbox/config.go:168`); an entry without a leading dot matches as a
substring in xray and as a suffix in sing-box; new ports are shown at once
although they "take effect on the next connect" (`app.go:230`); a link that is
shown and parsed again is unescaped twice; the updater's 30 s timeout includes
the download.

## 7. Not modelled, and why

- UI stores (`frontend/src/stores`): copies of `/status` and of the lists,
  overwritten by a poll every two seconds and shown. They live in a
  single-threaded browser and nothing in the core depends on them; what is left
  to check is which of two answers is shown last, for at most one poll.
- UI pages, the HTTP client of the UI, icons and texts: rendering.
- Control API: routing, the token and origin checks and the static files keep
  no state; the handlers with logic are actions of the modules they call.
- Device identity beyond its load at startup: a key and an id that never change.
- Endpoints of the backend that change no token; MFA answers.
- The text of configurations, logs and errors; parsing of links beyond which of
  them count; autostart and elevation beyond the step or guard they are in
  their callers; build information (a string).

## 8. What is left

In order of worth, for whoever extends the project:

1. `Connection` and `MultiProxy` over one system proxy. Each has the other as a
   flag or not at all; the calls of `stopAllMulti` in `connect` and `Disconnect`
   in `StartMultiProxy` are the interface.
2. An abstract specification of the connection ("what the user sees") refined
   by `Connection` under `SerialSpec`; `Settled` is most of what its refinement
   mapping needs.
3. That `Control` allows every pair of state and TUN that `Connection` reaches
   is by inspection (it allows them all); a refinement would say which of the
   pairs `Connection` does not reach.

The runs are at the number that fits in a few minutes each; a new question
should join the configuration of its module.

