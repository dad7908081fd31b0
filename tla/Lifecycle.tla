----------------------------- MODULE Lifecycle ------------------------------
(***************************************************************************)
(* One launch of the client after another (cmd/vpnclient/main.go): the     *)
(* single-instance mutex, what startup repairs, how the program ends, and  *)
(* what every end leaves behind on the machine - engine processes, the     *)
(* system proxy, the firewall lockdown, settings.json.                     *)
(*                                                                         *)
(* The work of a launch that is up is here only as far as it touches these *)
(* (Connection, MultiProxy, Killswitch and Settings have the rest): one    *)
(* call at a time per launch, in the steps in which it adds something: a   *)
(* kill between steps that take away finds no more than one before them. A *)
(* port stands for the pair of SOCKS and HTTP ports. A refresh restarts an *)
(* engine in its place.                                                    *)
(***************************************************************************)
EXTENDS Naturals

CONSTANTS
  Launches,    \* times the program is started
  Ports,       \* ports the settings may name
  MultiPort,   \* the port of the main multi-proxy
  Foreign,     \* proxy servers of other programs
  Lookalikes,  \* those of them whose text has ":" and one of our ports in it
  None,
  MaxEvents    \* bound: calls, crashes, other programs and ends of the program

ASSUME LifecycleAssumption ==
  /\ Foreign \cap (Ports \cup {MultiPort}) = {} /\ MultiPort \notin Ports
  /\ None \notin Ports \cup {MultiPort} \cup Foreign \cup Launches
  /\ Lookalikes \subseteq Foreign
  /\ MaxEvents \in Nat

VARIABLES
  pc,        \* main of every launch
  mutex,     \* the launch that holds the named mutex
  engines,   \* engine processes alive: the launch that started each, and the manager
  reg,       \* the system proxy: ProxyEnable and ProxyServer
  fw,        \* the firewall: default policy on block, rules of our name
  saved,     \* the ports in settings.json
  ports, proxyOn, mainPort,  \* App of every launch: socksPort/httpPort, proxyOn, multiMainPort
  engaged,   \* Guard of every launch
  job,       \* the call at work in every launch, and the step it is at
  dirty,     \* history: the last launch was killed, or ended with a call at work
  moved,     \* history: ports were changed since a launch came up without a proxy of ours
  proxyLost, \* history: the registry refused to clear or to set a proxy, and it has not been cleared since
  guardLost, \* history: the policy is on block and nobody knows (refused, or cut off before the rules)
  sweepLost, \* history: the last sweep for engines left some
  events

machineVars == <<engines, reg, fw, saved>>
appVars == <<ports, proxyOn, mainPort, engaged>>
proxyVars == <<reg, proxyLost>>
guardVars == <<fw, engaged, guardLost>>
lostVars == <<proxyLost, guardLost, sweepLost>>
pastVars == <<dirty, moved, lostVars, events>>
vars == <<pc, mutex, machineVars, appVars, job, pastVars>>

Servers == Ports \cup {MultiPort} \cup Foreign
Managers == {"xm", "sbm", "main"}
Startup == {"identity", "engines", "proxy", "guard", "serve"}
Ending == {"signalled", "disconnect", "force", "server", "panicking", "repanics"}
Up == {"up"} \cup Ending
Launched == {"proxy", "tun", "multi"}
Jobs == {"none"} \cup Launched \cup {"set", "engage", "main"}

TypeOK ==
  /\ pc \in [Launches -> {"new", "gone"} \cup Startup \cup Up]
  /\ mutex \in Launches \cup {None}
  /\ engines \subseteq [of : Launches, by : Managers]
  /\ reg \in [on : BOOLEAN, at : Servers \cup {None}]
  /\ fw \in [block : BOOLEAN, rules : BOOLEAN] /\ saved \in Ports
  /\ ports \in [Launches -> Ports] /\ proxyOn \in [Launches -> BOOLEAN]
  /\ mainPort \in [Launches -> {MultiPort, None}]
  /\ engaged \in [Launches -> BOOLEAN] /\ job \in [Launches -> Jobs]
  /\ dirty \in BOOLEAN /\ moved \in BOOLEAN
  /\ proxyLost \in BOOLEAN /\ guardLost \in BOOLEAN /\ sweepLost \in BOOLEAN
  /\ events \in Nat

Open == [block |-> FALSE, rules |-> FALSE]

Init ==
  /\ pc = [p \in Launches |-> "new"] /\ mutex = None
  /\ engines = {} /\ fw = Open
  /\ reg \in {[on |-> FALSE, at |-> None]} \cup {[on |-> TRUE, at |-> f] : f \in Foreign}
  /\ saved \in Ports
  /\ ports = [p \in Launches |-> saved]
  /\ proxyOn = [p \in Launches |-> FALSE] /\ mainPort = [p \in Launches |-> None]
  /\ engaged = [p \in Launches |-> FALSE] /\ job = [p \in Launches |-> "none"]
  /\ dirty = FALSE /\ moved = FALSE
  /\ proxyLost = FALSE /\ guardLost = FALSE /\ sweepLost = FALSE
  /\ events = 0

-----------------------------------------------------------------------------
(* The machine                                                             *)

Goto(p, from, to) == pc[p] = from /\ pc' = [pc EXCEPT ![p] = to]
EnginesOf(p) == {e \in engines : e.of = p}
EngineBy(p, m) == [of |-> p, by |-> m]
Without(p, managers) == engines \ {EngineBy(p, m) : m \in managers}

\* Something happens to a launch that is up, or to the machine.
Happens == events < MaxEvents /\ events' = events + 1

\* sysproxy.Set and SetSocks; where the registry refuses, ProxyServer may be
\* written already.
SetProxy(at) == reg' = [on |-> TRUE, at |-> at] /\ UNCHANGED proxyLost
SetProxyFails(at) ==
  /\ reg' \in {reg, [reg EXCEPT !.at = at]}
  /\ proxyLost' = (proxyLost \/ (reg.on /\ reg' # reg))

\* sysproxy.Clear leaves ProxyServer as it is; the registry may refuse.
ClearProxy == reg' \in {reg, [reg EXCEPT !.on = FALSE]} /\ proxyLost' = reg'.on

\* The callers' test of their flags before Clear.
ClearIf(owned) == IF owned THEN ClearProxy ELSE UNCHANGED proxyVars

\* mentionsAnyPort looks for ":" and the port anywhere in the text.
MentionsPort(at, port) == at = port \/ at \in Lookalikes

\* Disengage: the policy, then the rules; netsh may refuse either.
Disengage(p) ==
  /\ fw' \in [block : {FALSE, fw.block}, rules : {FALSE, fw.rules}]
  /\ engaged' = [engaged EXCEPT ![p] = FALSE] /\ guardLost' = fw'.block

-----------------------------------------------------------------------------
(* main: startup                                                           *)

\* Any error of the sequence ends the process; the mutex goes with it.
Exits(p, from) == Goto(p, from, "gone") /\ mutex' = IF mutex = p THEN None ELSE mutex

\* Fault: ERROR_ALREADY_EXISTS is not an error of CreateMutex.
AcquireAlways(p) ==
  /\ Goto(p, "new", "identity") /\ mutex' = p
  /\ UNCHANGED <<machineVars, appVars, job, pastVars>>

\* singleinstance.Acquire: a second launch ends at once.
Acquire(p) ==
  /\ \/ mutex = None /\ Goto(p, "new", "identity") /\ mutex' = p
     \/ mutex # None /\ Exits(p, "new")
  /\ UNCHANGED <<machineVars, appVars, job, pastVars>>

\* tokenstore.Load, deviceid.Load, settings.Load, app.New.
LoadState(p) ==
  /\ \/ Goto(p, "identity", "engines") /\ UNCHANGED mutex
     \/ Exits(p, "identity")
  /\ ports' = [ports EXCEPT ![p] = saved]
  /\ UNCHANGED <<machineVars, proxyOn, mainPort, engaged, job, pastVars>>

\* Fault: one manager only is asked for its orphans.
SweepXray(p) ==
  /\ Goto(p, "engines", "proxy")
  /\ engines' = {e \in engines : e.by = "sbm"} /\ sweepLost' = FALSE
  /\ UNCHANGED <<mutex, reg, fw, saved, appVars, job, dirty, moved, proxyLost, guardLost, events>>

\* CleanupStaleEngines: every process with the image of an engine, whoever
\* started it. One that cannot be opened or ended is passed over.
CleanupStaleEngines(p) ==
  /\ Goto(p, "engines", "proxy")
  /\ engines' \in SUBSET engines /\ sweepLost' = (engines' # {})
  /\ UNCHANGED <<mutex, reg, fw, saved, appVars, job, dirty, moved, proxyLost, guardLost, events>>

\* Fault: whatever proxy is set is taken for a stale one of ours.
CleanupAnyProxy(p) ==
  /\ Goto(p, "proxy", "guard") /\ ClearIf(reg.on)
  /\ UNCHANGED <<mutex, engines, fw, saved, appVars, job, dirty, moved, guardLost, sweepLost, events>>

\* CleanupStaleProxy, ClearIfOurs.
CleanupStaleProxy(p) ==
  /\ Goto(p, "proxy", "guard") /\ ClearIf(reg.on /\ MentionsPort(reg.at, ports[p]))
  /\ UNCHANGED <<mutex, engines, fw, saved, appVars, job, dirty, moved, guardLost, sweepLost, events>>

\* Fault: the rules of a run before are taken for those of this one.
CleanupKeepsRules(p) ==
  /\ Goto(p, "guard", "serve")
  /\ UNCHANGED <<mutex, machineVars, appVars, job, pastVars>>

\* CleanupStale, if it finds rules of ours; netsh may fail to show them.
CleanupStaleKillSwitch(p) ==
  /\ Goto(p, "guard", "serve")
  /\ \/ fw.rules /\ Disengage(p)
     \/ fw.rules /\ guardLost' = fw.block /\ UNCHANGED <<fw, engaged>>
     \/ ~fw.rules /\ UNCHANGED guardVars
  /\ UNCHANGED <<mutex, engines, reg, saved, ports, proxyOn, mainPort, job, dirty, moved, proxyLost, sweepLost, events>>

\* control.New, Start, the window, the update checker.
Serve(p) ==
  /\ \/ /\ Goto(p, "serve", "up") /\ UNCHANGED mutex
        /\ dirty' = FALSE /\ moved' = (moved /\ reg.on /\ reg.at \in Ports)
     \/ Exits(p, "serve") /\ UNCHANGED <<dirty, moved>>
  /\ UNCHANGED <<machineVars, appVars, job, lostVars, events>>

-----------------------------------------------------------------------------
(* Calls of a launch that is up                                            *)

At(p, from, to) == job[p] = from /\ job' = [job EXCEPT ![p] = to]
Call(p) == pc[p] = "up" /\ job[p] = "none" /\ Happens

\* connect, connectProxy: the main multi-proxy stops (the engine named here);
\* then the config may not come; then sing-box stops and the lockdown is lifted,
\* and xray's config may not be generated; then xray's Start ends the process
\* before and may fail. A reconnect is the same, so the flag may be up.
ConnectProxy(p) ==
  /\ Call(p) /\ ClearIf(mainPort[p] # None) /\ mainPort' = [mainPort EXCEPT ![p] = None]
  /\ \/ engines' = Without(p, {"main"}) /\ UNCHANGED <<guardVars, job>>
     \/ /\ IF engaged[p] THEN Disengage(p) ELSE UNCHANGED guardVars
        /\ \/ engines' = Without(p, {"main", "sbm"}) /\ UNCHANGED job
           \/ engines' = Without(p, Managers) /\ UNCHANGED job
           \/ engines' = Without(p, Managers) \cup {EngineBy(p, "xm")} /\ At(p, "none", "proxy")
  /\ UNCHANGED <<pc, mutex, saved, ports, proxyOn, dirty, moved, sweepLost>>

\* sysproxy.Set, with the ports read once more, and then the flag.
ConnectSet(p) ==
  /\ \/ At(p, "proxy", "set") /\ SetProxy(ports[p])
     \/ At(p, "proxy", "none") /\ SetProxyFails(ports[p])
  /\ UNCHANGED <<pc, mutex, engines, fw, saved, appVars, dirty, moved, guardLost, sweepLost, events>>
ConnectMark(p) ==
  /\ At(p, "set", "none") /\ proxyOn' = [proxyOn EXCEPT ![p] = TRUE]
  /\ UNCHANGED <<pc, mutex, machineVars, ports, mainPort, engaged, pastVars>>

\* connect, connectTUN: the main multi-proxy stops; then no administrator
\* rights, or no config; then xray and its system proxy go, and sing-box's
\* config or its Start may fail. A lockdown from before stays.
ConnectTUN(p) ==
  /\ Call(p) /\ mainPort' = [mainPort EXCEPT ![p] = None]
  /\ \/ /\ engines' = Without(p, {"main"}) /\ ClearIf(mainPort[p] # None)
        /\ UNCHANGED <<proxyOn, job>>
     \/ /\ ClearIf(mainPort[p] # None \/ proxyOn[p]) /\ proxyOn' = [proxyOn EXCEPT ![p] = FALSE]
        /\ \/ engines' = Without(p, {"main", "xm"}) /\ UNCHANGED job
           \/ engines' = Without(p, Managers) /\ UNCHANGED job
           \/ engines' = Without(p, Managers) \cup {EngineBy(p, "sbm")} /\ At(p, "none", "tun")
  /\ UNCHANGED <<pc, mutex, fw, saved, ports, engaged, dirty, moved, guardLost, sweepLost>>

\* The kill-switch of the settings is off, or Engage: our rules are deleted and
\* added again, a netsh call each, and the policy last.
ReadyWithout(p) ==
  /\ At(p, "tun", "none")
  /\ UNCHANGED <<pc, mutex, machineVars, appVars, pastVars>>
EngageRules(p) ==
  /\ At(p, "tun", "engage") /\ \E some \in BOOLEAN : fw' = [fw EXCEPT !.rules = some]
  /\ UNCHANGED <<pc, mutex, engines, reg, saved, appVars, pastVars>>
Engage(p) ==
  /\ At(p, "engage", "none")
  /\ \/ fw' = [block |-> TRUE, rules |-> TRUE] /\ engaged' = [engaged EXCEPT ![p] = TRUE]
     \/ (\E some \in BOOLEAN : fw' = [fw EXCEPT !.rules = some]) /\ UNCHANGED engaged
  /\ UNCHANGED <<pc, mutex, engines, reg, saved, ports, proxyOn, mainPort, pastVars>>

\* Disconnect, and what Logout and shutdown add or leave out.
DropSingle(p, owned) ==
  /\ Disengage(p) /\ ClearIf(owned) /\ proxyOn' = [proxyOn EXCEPT ![p] = FALSE]
Disconnect(p) ==
  /\ Call(p) /\ DropSingle(p, proxyOn[p]) /\ engines' = Without(p, {"xm", "sbm"})
  /\ UNCHANGED <<pc, mutex, saved, ports, mainPort, job, dirty, moved, sweepLost>>

\* startProxyInstance of the main mapping: no config; or the process before
\* ends, and the new one does not start; or it does.
StartsMain(p, running) ==
  \/ engines' = running /\ UNCHANGED job
  \/ engines' = running \ {EngineBy(p, "main")} /\ UNCHANGED job
  \/ engines' = running \cup {EngineBy(p, "main")} /\ At(p, "none", "multi")

\* StartMultiProxy disconnects first; reconnectMulti, after a crash, does not.
StartMain(p) ==
  /\ Call(p) /\ DropSingle(p, proxyOn[p]) /\ StartsMain(p, Without(p, {"xm", "sbm"}))
  /\ UNCHANGED <<pc, mutex, saved, ports, mainPort, dirty, moved, sweepLost>>
RestartMain(p) ==
  /\ Call(p) /\ mainPort[p] # None /\ EngineBy(p, "main") \notin engines
  /\ StartsMain(p, engines)
  /\ UNCHANGED <<pc, mutex, reg, fw, saved, appVars, dirty, moved, lostVars>>
SetSocks(p) ==
  /\ \/ At(p, "multi", "main") /\ SetProxy(MultiPort)
     \/ At(p, "multi", "none") /\ SetProxyFails(MultiPort)
  /\ UNCHANGED <<pc, mutex, engines, fw, saved, appVars, dirty, moved, guardLost, sweepLost, events>>
MarkMain(p) ==
  /\ At(p, "main", "none") /\ mainPort' = [mainPort EXCEPT ![p] = MultiPort]
  /\ UNCHANGED <<pc, mutex, machineVars, ports, proxyOn, engaged, pastVars>>

\* WaitReady fails: the new engine is stopped, and nothing else is undone.
NotReady(p) ==
  /\ job[p] \in Launched /\ job' = [job EXCEPT ![p] = "none"]
  /\ engines' = engines \ EnginesOf(p)
  /\ UNCHANGED <<pc, mutex, reg, fw, saved, appVars, pastVars>>

\* StopMultiProxy of the main mapping.
StopMain(p) ==
  /\ Call(p) /\ engines' = Without(p, {"main"})
  /\ ClearIf(mainPort[p] # None) /\ mainPort' = [mainPort EXCEPT ![p] = None]
  /\ UNCHANGED <<pc, mutex, fw, saved, ports, proxyOn, engaged, job, dirty, moved, guardLost, sweepLost>>

\* Logout: Disconnect and stopAllMulti.
Logout(p) ==
  /\ Call(p) /\ DropSingle(p, proxyOn[p] \/ mainPort[p] # None)
  /\ engines' = engines \ EnginesOf(p) /\ mainPort' = [mainPort EXCEPT ![p] = None]
  /\ UNCHANGED <<pc, mutex, saved, ports, job, dirty, moved, sweepLost>>

\* SaveSettings with other ports, also while a call is at work.
SaveSettings(p) ==
  \E q \in Ports \ {saved} :
    /\ pc[p] = "up" /\ Happens
    /\ saved' = q /\ ports' = [ports EXCEPT ![p] = q] /\ moved' = TRUE
    /\ UNCHANGED <<pc, mutex, engines, reg, fw, proxyOn, mainPort, engaged, job, dirty, lostVars>>

\* An engine ends by itself. What App does then are the calls above.
EngineDies ==
  \E e \in engines :
    /\ Happens /\ engines' = engines \ {e}
    /\ UNCHANGED <<pc, mutex, reg, fw, saved, appVars, job, dirty, moved, lostVars>>

\* The user, or another program, sets a proxy of its own.
SetForeign ==
  \E f \in Foreign :
    /\ Happens /\ SetProxy(f)
    /\ UNCHANGED <<pc, mutex, engines, fw, saved, appVars, job, dirty, moved, guardLost, sweepLost>>

-----------------------------------------------------------------------------
(* The end                                                                 *)

\* Quit of the tray, a signal, or a panic of the main goroutine. Calls at work
\* go on.
EndBegins(p, to) ==
  /\ Goto(p, "up", to) /\ Happens /\ dirty' = (job[p] # "none")
  /\ UNCHANGED <<mutex, machineVars, appVars, job, moved, lostVars>>
Quit(p) == EndBegins(p, "disconnect")
Signal(p) == EndBegins(p, "signalled")
Panic(p) == EndBegins(p, "panicking")

\* ForceClearProxy.
ForceClear(p) ==
  /\ DropSingle(p, proxyOn[p])
  /\ UNCHANGED <<engines, saved, ports, mainPort, dirty, moved, sweepLost, events>>

\* The signal handler, before RequestQuit.
SignalClear(p) == Goto(p, "signalled", "disconnect") /\ ForceClear(p) /\ UNCHANGED <<mutex, job>>

\* shutdown.
ShutdownDisconnect(p) ==
  /\ Goto(p, "disconnect", "force") /\ DropSingle(p, proxyOn[p])
  /\ engines' = Without(p, {"xm", "sbm"})
  /\ UNCHANGED <<mutex, saved, ports, mainPort, job, dirty, moved, sweepLost, events>>
ShutdownForce(p) == Goto(p, "force", "server") /\ ForceClear(p) /\ UNCHANGED <<mutex, job>>

\* The process ends: what it was doing and what it knew end with it, its
\* engines live on. A policy on block with none of our rules cannot be told from
\* the user's own (Killswitch).
Dies(p, from) ==
  /\ Exits(p, from)
  /\ job' = [job EXCEPT ![p] = "none"] /\ proxyOn' = [proxyOn EXCEPT ![p] = FALSE]
  /\ mainPort' = [mainPort EXCEPT ![p] = None] /\ engaged' = [engaged EXCEPT ![p] = FALSE]
  /\ guardLost' = (guardLost \/ (fw.block /\ ~fw.rules))
  /\ UNCHANGED <<machineVars, ports, moved, proxyLost, sweepLost>>

\* srv.Shutdown waits for requests, not for ever; then main returns.
MainReturns(p) == Dies(p, "server") /\ UNCHANGED <<dirty, events>>

\* The deferred recover, and the panic goes on.
PanicClears(p) == Goto(p, "panicking", "repanics") /\ ForceClear(p) /\ UNCHANGED <<mutex, job>>
PanicEnds(p) == Dies(p, "repanics") /\ UNCHANGED <<dirty, events>>

\* The process is killed, wherever it is; a panic of another goroutine is the
\* same.
Kill(p) ==
  /\ pc[p] \notin {"new", "gone"} /\ Dies(p, pc[p]) /\ Happens /\ dirty' = TRUE

Main(p) ==
  \/ Acquire(p) \/ LoadState(p) \/ CleanupStaleEngines(p) \/ CleanupStaleProxy(p)
  \/ CleanupStaleKillSwitch(p) \/ Serve(p)
  \/ SignalClear(p) \/ ShutdownDisconnect(p) \/ ShutdownForce(p) \/ MainReturns(p)
  \/ PanicClears(p) \/ PanicEnds(p)
Works(p) ==
  \/ ConnectProxy(p) \/ ConnectSet(p) \/ ConnectMark(p)
  \/ ConnectTUN(p) \/ ReadyWithout(p) \/ EngageRules(p) \/ Engage(p)
  \/ Disconnect(p) \/ Logout(p) \/ StartMain(p) \/ RestartMain(p) \/ SetSocks(p) \/ MarkMain(p)
  \/ NotReady(p) \/ StopMain(p) \/ SaveSettings(p)
Ends(p) == Quit(p) \/ Signal(p) \/ Panic(p) \/ Kill(p)

Next == SetForeign \/ EngineDies \/ \E p \in Launches : Main(p) \/ Works(p) \/ Ends(p)

Spec == Init /\ [][Next]_vars

-----------------------------------------------------------------------------
(* Properties                                                              *)

\* A second start of the program takes nothing from one that runs, up to the end
\* of its shutdown: no engine, not its proxy, not its lockdown.
RunningIsKept ==
  [][\A p, q \in Launches :
       p # q /\ pc[p] \in Up /\ pc'[q] # pc[q] => EnginesOf(p) \subseteq engines' /\ UNCHANGED <<reg, fw>>]_vars

\* No engine of another launch, killed or ended in any way, is alive beside one
\* that is up (main.go:87-91), where every process found could be ended.
NoOrphans ==
  \A p \in Launches : pc[p] = "up" /\ ~sweepLost => engines \subseteq EnginesOf(p)

\* Nothing at work, and every killed launch, or one ended with a call at work,
\* followed by another that came up.
AtRest ==
  /\ \A p \in Launches : pc[p] \in {"new", "up", "gone"} /\ job[p] = "none"
  /\ ~dirty

\* At rest a system proxy on a port of the settings, or blocked egress, is known
\* to the launch that is up, so that Disconnect and every end take it away:
\* through failed connects, crashes of engines and kills, nothing stays on the
\* machine that nobody answers for. (It may well point at no engine: a reconnect
\* that fails takes no proxy away.) Left out: ports changed in the settings, the
\* port of the main multi-proxy, what registry and netsh refused, and a kill in
\* an Engage that has deleted the rules under a policy on block.
NothingLeft ==
  AtRest =>
    /\ reg.on /\ reg.at \in Ports /\ ~moved /\ ~proxyLost =>
         \E p \in Launches : pc[p] = "up" /\ proxyOn[p] /\ reg.at = ports[p]
    /\ fw.block /\ ~guardLost => \E p \in Launches : pc[p] = "up" /\ engaged[p]

\* A proxy of another program without one of our ports in its text is switched
\* off only by a launch that runs and holds that it has set one itself, so by no
\* startup, whatever the launches before were doing when they were killed.
ForeignKept ==
  [][reg.on /\ reg.at \in Foreign \ Lookalikes /\ ~reg'.on =>
       \E p \in Launches : pc[p] \in Up /\ (proxyOn[p] \/ mainPort[p] # None)]_vars

\* "Leaves a foreign proxy alone" (app.go:1276), of any foreign proxy.
AnyForeignKept ==
  [][\A p \in Launches : reg.on /\ reg.at \in Foreign /\ Goto(p, "proxy", "guard") => reg'.on]_vars

\* "The system proxy is removed crash-safely (on signal, panic and at startup
\* if stale)" (main.go:3-4): no launch comes up with one of ours, where the
\* registry refused nothing.
RemovedCrashSafely ==
  [][\A p \in Launches :
       Goto(p, "serve", "up") /\ ~proxyLost => ~(reg.on /\ reg.at \notin Foreign)]_vars
=============================================================================
