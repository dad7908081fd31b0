----------------------------- MODULE MultiProxy -----------------------------
(***************************************************************************)
(* internal/app/multiproxy.go: several SOCKS proxies at once, each mapping *)
(* (port -> server) with an xray process of its own; one of them may be    *)
(* the "main" one the system proxy points at. Calls of the control API,    *)
(* one reconnect loop per crashed instance and one refresh loop for all    *)
(* run as goroutines around App.multiMu, which none holds over a launch, a *)
(* wait or a call of the backend.                                          *)
(*                                                                         *)
(* A mapping keeps its port, so ports appear as mapping ids. Every start   *)
(* makes a new process manager, named by the mapping and a number; what a  *)
(* manager does is EngineAbs, used for one launch. The single connection   *)
(* (Connection) is here only as the flag `single'.                         *)
(***************************************************************************)
EXTENDS Naturals

CONSTANTS
  Ids,         \* mapping ids
  None,        \* no mapping, no port
  Callers,     \* goroutines serving the control API
  Workers,     \* bound: goroutines of reconnectMulti and multiRefreshLoop
  NoLoop,      \* multiRefreshStop = nil
  Managers,    \* bound: process managers of one mapping not yet forgotten
  May,         \* what may fail: see Failures
  MaxEvents,   \* bound: calls, crashes and ticks that find something to refresh
  MaxAttempts  \* reconnectMaxAttempts (5 in the code)

Failures == {"backend", "launch", "ready", "registry", "clear"}

ASSUME MultiAssumption ==
  /\ None \notin Ids
  /\ Callers \cap Workers = {} /\ NoLoop \notin Workers
  /\ Managers \subseteq Nat \ {0}
  /\ May \subseteq Failures
  /\ MaxEvents \in Nat /\ MaxAttempts \in Nat \ {0}

Threads == Callers \cup Workers
Ports == Ids \cup {None}

VARIABLES
  pc, loc,           \* goroutines: where they are, and their locals
  mapped, mainId,    \* settings.ProxyMappings: the ids, and which one is main
  multi,             \* App.multi
  mainPort,          \* App.multiMainPort
  refreshStop,       \* App.multiRefreshStop, named by the loop it stops
  stopped,           \* the loops whose stop channel is closed
  proc,              \* the process of every manager
  reg,               \* where the system proxy points
  single,            \* the single connection is up
  events, happened   \* bound and history

settingVars == <<mapped, mainId>>
timerVars   == <<refreshStop, stopped>>
pastVars    == <<events, happened>>
vars == <<pc, loc, settingVars, multi, mainPort, timerVars, proc, reg, single, pastVars>>

StartBody == {"fetch", "launch", "ready", "abort", "setproxy", "mainport", "up", "timer", "fail"}
Labels == StartBody \cup
          {"idle", "disconnect", "stop", "own", "clear", "idlecheck", "unmap", "all", "allstop",
           "connected", "want", "sleep", "giveup", "select", "next"}

\* The call and its locals m.ID, mgr, m.Main (or mainOwned), attempt, and what
\* is left of a loop over instances.
Locals == [op : {"start", "stop", "remove", "connect", "logout", "reconnect", "refresh"},
           id : Ports, mgr : Managers \cup {0}, main : BOOLEAN, attempt : Nat,
           todo : SUBSET (Ids \X (Managers \cup {0}))]
NoLocals == [op |-> "start", id |-> None, mgr |-> 0, main |-> FALSE, attempt |-> 0, todo |-> {}]

\* A proxyInstance; wantRun is true of every instance in App.multi and read of
\* no other.
Instances == [mgr : Managers \cup {0}, main : BOOLEAN, reconnecting : BOOLEAN,
              state : {"disconnected", "connecting", "connected", "error"}]
NoInstance == [mgr |-> 0, main |-> FALSE, reconnecting |-> FALSE, state |-> "disconnected"]
Runs(i) == multi[i].mgr # 0

TypeOK ==
  /\ pc \in [Threads -> Labels] /\ loc \in [Threads -> Locals]
  /\ mapped \subseteq Ids /\ mainId \in Ports
  /\ multi \in [Ids -> Instances]
  /\ mainPort \in Ports /\ reg \in Ports
  /\ refreshStop \in Workers \cup {NoLoop} /\ stopped \subseteq Workers
  /\ proc \in [Ids \X Managers -> {"none", "up", "down", "noticed"}]
  /\ single \in BOOLEAN
  /\ events \in 0 .. MaxEvents /\ happened \subseteq {"overlap", "moved", "kept"}

Init ==
  /\ pc = [t \in Threads |-> "idle"] /\ loc = [t \in Threads |-> NoLocals]
  /\ mapped \in SUBSET Ids /\ mainId \in mapped \cup {None}
  /\ multi = [i \in Ids |-> NoInstance]
  /\ mainPort = None /\ reg = None
  /\ refreshStop = NoLoop /\ stopped = {}
  /\ proc = [m \in Ids \X Managers |-> "none"]
  /\ single = FALSE
  /\ events = 0 /\ happened = {}

-----------------------------------------------------------------------------
(* Goroutines                                                              *)

Goto(t, from, to) == pc[t] = from /\ pc' = [pc EXCEPT ![t] = to]
Step(t, from, to) == Goto(t, from, to) /\ UNCHANGED loc
Return(t, from) == Goto(t, from, "idle") /\ loc' = [loc EXCEPT ![t] = NoLocals]

\* Nothing is on its way.
Quiet ==
  /\ \A t \in Threads : pc[t] \in {"idle", "select"}
  /\ \A m \in Ids \X Managers : proc[m] \in {"none", "up"}

\* Something new begins, before everything else has come to rest or after it;
\* `more' is other history.
Begins(more) ==
  /\ events < MaxEvents /\ events' = events + 1
  /\ happened' = happened \cup more \cup (IF Quiet THEN {} ELSE {"overlap"})

\* The locals of startProxyInstance go when it returns.
Leave(t) == [loc EXCEPT ![t].mgr = 0, ![t].main = FALSE]

\* It has returned StateError.
ReturnError(t, from) ==
  CASE loc[t].op = "refresh" -> Goto(t, from, "next") /\ loc' = Leave(t)
    [] loc[t].op = "reconnect" ->
         /\ Goto(t, from, IF loc[t].attempt < MaxAttempts THEN "want" ELSE "giveup")
         /\ loc' = [Leave(t) EXCEPT ![t].attempt = @ + 1]
    [] OTHER -> Return(t, from)

-----------------------------------------------------------------------------
(* Process managers                                                        *)

\* Stop: the process goes without a callback; one that is already decided is
\* still delivered.
Halted(m) == [proc EXCEPT ![m] = IF @ = "noticed" THEN @ ELSE "none"]
HaltedInstance(i) == IF Runs(i) THEN Halted(<<i, multi[i].mgr>>) ELSE proc

\* A manager nobody refers to any more.
Unused(i, k) ==
  /\ proc[<<i, k>>] = "none" /\ multi[i].mgr # k
  /\ \A t \in Threads : <<i, k>> # <<loc[t].id, loc[t].mgr>> /\ <<i, k>> \notin loc[t].todo

Falls(m, from, to) ==
  /\ proc[m] = from /\ proc' = [proc EXCEPT ![m] = to]
  /\ UNCHANGED <<pc, loc, settingVars, multi, mainPort, timerVars, reg, single>>
Crash == Begins({}) /\ \E m \in Ids \X Managers : Falls(m, "up", "down")
Notice == UNCHANGED pastVars /\ \E m \in Ids \X Managers : Falls(m, "down", "noticed")

-----------------------------------------------------------------------------
(* startProxyInstance                                                      *)

\* StartMultiProxy reads the mapping, and takes the single connection down.
StartMultiProxy(t, i) ==
  /\ i \in mapped
  /\ Goto(t, "idle", "disconnect")
  /\ loc' = [loc EXCEPT ![t].id = i, ![t].main = (i = mainId)]
  /\ Begins({})
  /\ UNCHANGED <<settingVars, multi, mainPort, timerVars, proc, reg, single>>

DisconnectSingle(t) ==
  /\ Step(t, "disconnect", "fetch")
  /\ single' = FALSE
  /\ UNCHANGED <<settingVars, multi, mainPort, timerVars, proc, reg, pastVars>>

\* Fault: only a connected instance can fail.
FailConnected(i) == IF multi[i].state = "connected" THEN [multi EXCEPT ![i].state = "error"] ELSE multi
\* failMulti marks whatever instance the mapping has by now.
Failed(i) == IF Runs(i) THEN [multi EXCEPT ![i].state = "error"] ELSE multi

FailMulti(t, from) ==
  /\ ReturnError(t, from)
  /\ multi' = Failed(loc[t].id)
  /\ UNCHANGED <<settingVars, mainPort, timerVars, proc, reg, single, pastVars>>

FetchFails(t) == "backend" \in May /\ FailMulti(t, "fetch")
LaunchFails(t) == "launch" \in May /\ FailMulti(t, "launch")
Fails(t) == FailMulti(t, "fail")

\* The credential has come. Under multiMu the old process is stopped and the
\* new instance takes its place.
Swap(t) ==
  /\ Goto(t, "fetch", "launch")
  /\ LET i == loc[t].id IN
     /\ \E k \in Managers :
          /\ Unused(i, k) /\ \A j \in Managers : Unused(i, j) => k <= j
          /\ loc' = [loc EXCEPT ![t].mgr = k]
          /\ multi' = [multi EXCEPT ![i] = [mgr |-> k, main |-> loc[t].main, reconnecting |-> FALSE,
                                            state |-> "connecting"]]
     /\ proc' = HaltedInstance(i)
  /\ UNCHANGED <<settingVars, mainPort, timerVars, reg, single, pastVars>>

Mgr(t) == <<loc[t].id, loc[t].mgr>>

Launch(t) ==
  /\ Step(t, "launch", "ready")
  /\ proc' = [proc EXCEPT ![Mgr(t)] = "up"]
  /\ UNCHANGED <<settingVars, multi, mainPort, timerVars, reg, single, pastVars>>

Ready(t) ==
  /\ Step(t, "ready", IF loc[t].main THEN "setproxy" ELSE "up")
  /\ proc[Mgr(t)] = "up"
  /\ UNCHANGED <<settingVars, multi, mainPort, timerVars, proc, reg, single, pastVars>>

NotReady(t) ==
  /\ Step(t, "ready", "abort")
  /\ proc[Mgr(t)] # "up" \/ "ready" \in May
  /\ UNCHANGED <<settingVars, multi, mainPort, timerVars, proc, reg, single, pastVars>>

Abort(t) ==
  /\ Step(t, "abort", "fail")
  /\ proc' = Halted(Mgr(t))
  /\ UNCHANGED <<settingVars, multi, mainPort, timerVars, reg, single, pastVars>>

SetProxy(t) ==
  /\ Step(t, "setproxy", "mainport")
  /\ reg' = loc[t].id /\ happened' = happened \ {"kept"}
  /\ UNCHANGED <<settingVars, multi, mainPort, timerVars, proc, single, events>>

SetProxyFails(t) ==
  /\ "registry" \in May
  /\ Step(t, "setproxy", "up")
  /\ UNCHANGED <<settingVars, multi, mainPort, timerVars, proc, reg, single, pastVars>>

MainPort(t) ==
  /\ Step(t, "mainport", "up")
  /\ mainPort' = loc[t].id
  /\ UNCHANGED <<settingVars, multi, timerVars, proc, reg, single, pastVars>>

\* The instance is marked even when it is no longer the one in App.multi.
Up(t) ==
  /\ Goto(t, "up", "timer") /\ loc' = Leave(t)
  /\ multi' = [multi EXCEPT ![loc[t].id].state = IF multi[loc[t].id].mgr = loc[t].mgr
                                                   THEN "connected" ELSE @]
  /\ UNCHANGED <<settingVars, mainPort, timerVars, proc, reg, single, pastVars>>

\* startMultiRefresh, and startProxyInstance returns StateConnected.
StartMultiRefresh(t) ==
  LET again == loc[t].op = "refresh"
      next == IF again THEN "next" ELSE "idle" IN
  /\ pc[t] = "timer"
  /\ loc' = IF again THEN loc ELSE [loc EXCEPT ![t] = NoLocals]
  /\ \/ refreshStop # NoLoop /\ pc' = [pc EXCEPT ![t] = next] /\ UNCHANGED refreshStop
     \/ /\ refreshStop = NoLoop
        /\ \E w \in Workers : /\ pc[w] = "idle" /\ pc' = [pc EXCEPT ![t] = next, ![w] = "select"]
                              /\ refreshStop' = w
  /\ UNCHANGED <<settingVars, multi, mainPort, stopped, proc, reg, single, pastVars>>

StartStep(t) ==
  \/ DisconnectSingle(t) \/ FetchFails(t) \/ Swap(t) \/ Launch(t) \/ LaunchFails(t)
  \/ Ready(t) \/ NotReady(t) \/ Abort(t) \/ SetProxy(t) \/ SetProxyFails(t) \/ MainPort(t)
  \/ Up(t) \/ StartMultiRefresh(t) \/ Fails(t)

-----------------------------------------------------------------------------
(* Stopping one proxy, and changing its mapping                            *)

StopCall(t, what, i, more) ==
  /\ Goto(t, "idle", "stop")
  /\ loc' = [loc EXCEPT ![t].op = what, ![t].id = i]
  /\ Begins(more)
  /\ UNCHANGED <<multi, mainPort, timerVars, proc, reg, single>>

StopMultiProxy(t, i) == StopCall(t, "stop", i, {}) /\ UNCHANGED settingVars
RemoveMultiProxy(t, i) == StopCall(t, "remove", i, {}) /\ UNCHANGED settingVars

\* Save clears the main flag of the others, and not their instances'.
WithMain(i, m) == IF m THEN i ELSE IF mainId = i THEN None ELSE mainId
Moved(i, m) == IF WithMain(i, m) # mainId /\ reg # None THEN {"moved"} ELSE {}

UpdateMultiProxy(t, i, m) ==
  /\ i \in mapped
  /\ StopCall(t, "stop", i, Moved(i, m))
  /\ mainId' = WithMain(i, m)
  /\ UNCHANGED mapped

AddMultiProxy(t, i, m) ==
  /\ pc[t] = "idle" /\ i \notin mapped
  /\ mapped' = mapped \cup {i} /\ mainId' = WithMain(i, m)
  /\ Begins(Moved(i, m))
  /\ UNCHANGED <<pc, loc, multi, mainPort, timerVars, proc, reg, single>>

\* Fault: read after the delete.
WasMainLate(t) == multi'[loc[t].id].main
WasMain(t) == multi[loc[t].id].main

\* One critical section; the process is stopped inside it.
Stop(t) ==
  /\ pc[t] = "stop"
  /\ multi' = [multi EXCEPT ![loc[t].id] = NoInstance]
  /\ Step(t, "stop", IF WasMain(t) THEN "own" ELSE "idlecheck")
  /\ proc' = HaltedInstance(loc[t].id)
  /\ UNCHANGED <<settingVars, mainPort, timerVars, reg, single, pastVars>>

\* clearMultiSysproxy.
Own(t) ==
  /\ \/ mainPort = loc[t].id /\ Step(t, "own", "clear") /\ mainPort' = None
     \/ mainPort # loc[t].id /\ Step(t, "own", "idlecheck") /\ UNCHANGED mainPort
  /\ UNCHANGED <<settingVars, multi, timerVars, proc, reg, single, pastVars>>

AfterClear(t) == IF loc[t].op \in {"connect", "logout"} THEN "connected" ELSE "idlecheck"

Clear(t) ==
  /\ Step(t, "clear", AfterClear(t))
  /\ reg' = None
  /\ UNCHANGED <<settingVars, multi, mainPort, timerVars, proc, single, pastVars>>

\* The error is logged.
ClearFails(t) ==
  /\ "clear" \in May
  /\ Step(t, "clear", AfterClear(t))
  /\ happened' = happened \cup {"kept"}
  /\ UNCHANGED <<settingVars, multi, mainPort, timerVars, proc, reg, single, events>>

\* Fault: a nil channel is closed.
CloseRefreshNil == refreshStop' = NoLoop /\ stopped' = stopped \cup {refreshStop}
\* Fault: the channel is forgotten and not closed.
CloseRefreshLeak == refreshStop' = NoLoop /\ UNCHANGED stopped
CloseRefresh == refreshStop' = NoLoop /\ stopped' = stopped \cup ({refreshStop} \ {NoLoop})

\* Fault: the loop is stopped with any proxy.
NoneRunsNow == TRUE
NoneRuns == \A i \in Ids : ~Runs(i)

StopMultiRefreshIfIdle(t) ==
  /\ IF loc[t].op = "remove" THEN Step(t, "idlecheck", "unmap") ELSE Return(t, "idlecheck")
  /\ IF NoneRuns THEN CloseRefresh ELSE UNCHANGED timerVars
  /\ UNCHANGED <<settingVars, multi, mainPort, proc, reg, single, pastVars>>

Unmap(t) ==
  /\ Return(t, "unmap")
  /\ mapped' = mapped \ {loc[t].id}
  /\ mainId' = IF mainId = loc[t].id THEN None ELSE mainId
  /\ UNCHANGED <<multi, mainPort, timerVars, proc, reg, single, pastVars>>

-----------------------------------------------------------------------------
(* stopAllMulti: at the start of every connect() and in Logout             *)

Connect(t) ==
  /\ Goto(t, "idle", "all") /\ loc' = [loc EXCEPT ![t].op = "connect"]
  /\ Begins({})
  /\ UNCHANGED <<settingVars, multi, mainPort, timerVars, proc, reg, single>>

\* Logout has taken the single connection down first.
Logout(t) ==
  /\ Goto(t, "idle", "all") /\ loc' = [loc EXCEPT ![t].op = "logout"]
  /\ single' = FALSE
  /\ Begins({})
  /\ UNCHANGED <<settingVars, multi, mainPort, timerVars, proc, reg>>

\* Fault: mainOwned is read after multiMainPort is reset.
MainOwnedLate == mainPort' # None
MainOwned == mainPort # None

StopAll(t) ==
  /\ Goto(t, "all", "allstop")
  /\ multi' = [i \in Ids |-> NoInstance]
  /\ mainPort' = None
  /\ loc' = [loc EXCEPT ![t].main = MainOwned,
                        ![t].todo = {<<i, multi[i].mgr>> : i \in {j \in Ids : Runs(j)}}]
  /\ CloseRefresh
  /\ UNCHANGED <<settingVars, proc, reg, single, pastVars>>

StopNext(t) ==
  /\ pc[t] = "allstop" /\ UNCHANGED pc
  /\ \E m \in loc[t].todo : loc' = [loc EXCEPT ![t].todo = @ \ {m}] /\ proc' = Halted(m)
  /\ UNCHANGED <<settingVars, multi, mainPort, timerVars, reg, single, pastVars>>

StoppedAll(t) ==
  /\ loc[t].todo = {}
  /\ Step(t, "allstop", IF loc[t].main THEN "clear" ELSE "connected")
  /\ UNCHANGED <<settingVars, multi, mainPort, timerVars, proc, reg, single, pastVars>>

\* The rest of connect() succeeds or fails.
Connected(t) ==
  /\ Return(t, "connected")
  /\ \/ loc[t].op = "connect" /\ single' = TRUE
     \/ UNCHANGED single
  /\ UNCHANGED <<settingVars, multi, mainPort, timerVars, proc, reg, pastVars>>

StopStep(t) ==
  \/ Stop(t) \/ Own(t) \/ Clear(t) \/ ClearFails(t) \/ StopMultiRefreshIfIdle(t) \/ Unmap(t)
  \/ StopAll(t) \/ StopNext(t) \/ StoppedAll(t) \/ Connected(t)

-----------------------------------------------------------------------------
(* Crashes: onMultiExit and reconnectMulti                                 *)

\* It looks the mapping's instance up, which need not be the one that fell.
Steady(i) == Runs(i) /\ multi[i].state = "connected" /\ ~multi[i].reconnecting

OnMultiExit(i, k) ==
  /\ proc[<<i, k>>] = "noticed" /\ proc' = [proc EXCEPT ![<<i, k>>] = "none"]
  /\ \/ /\ Steady(i)
        /\ multi' = [multi EXCEPT ![i].reconnecting = TRUE, ![i].state = "connecting"]
        /\ \E w \in Workers :
             /\ Goto(w, "idle", "want")
             /\ loc' = [loc EXCEPT ![w].op = "reconnect", ![w].id = i, ![w].attempt = 1]
     \/ ~Steady(i) /\ UNCHANGED <<pc, loc, multi>>
  /\ UNCHANGED <<settingVars, mainPort, timerVars, reg, single, pastVars>>

\* wantRun is read before the sleep only.
Want(w) ==
  /\ pc[w] = "want"
  /\ IF Runs(loc[w].id) THEN Step(w, "want", "sleep") ELSE Return(w, "want")
  /\ UNCHANGED <<settingVars, multi, mainPort, timerVars, proc, reg, single, pastVars>>

\* The mapping is read again after it.
Sleep(w) ==
  /\ \/ /\ loc[w].id \in mapped
        /\ Goto(w, "sleep", "fetch") /\ loc' = [loc EXCEPT ![w].main = (loc[w].id = mainId)]
     \/ loc[w].id \notin mapped /\ Return(w, "sleep")
  /\ UNCHANGED <<settingVars, multi, mainPort, timerVars, proc, reg, single, pastVars>>

GiveUp(w) ==
  /\ Return(w, "giveup")
  /\ multi' = [Failed(loc[w].id) EXCEPT ![loc[w].id].reconnecting = FALSE]
  /\ UNCHANGED <<settingVars, mainPort, timerVars, proc, reg, single, pastVars>>

-----------------------------------------------------------------------------
(* multiRefreshLoop and maybeRefreshMulti                                  *)

\* Which of the connected credentials are near their end is the clock's choice.
Tick(w) ==
  /\ Goto(w, "select", "next")
  /\ \E due \in (SUBSET {i \in Ids : Steady(i)}) \ {{}} :
       loc' = [loc EXCEPT ![w].op = "refresh", ![w].todo = {<<i, 0>> : i \in due}]
  /\ Begins({})
  /\ UNCHANGED <<settingVars, multi, mainPort, timerVars, proc, reg, single>>

RefreshNext(w) ==
  /\ \E m \in loc[w].todo :
       /\ loc' = [loc EXCEPT ![w].todo = @ \ {m}, ![w].id = m[1], ![w].main = (m[1] = mainId)]
       /\ Goto(w, "next", IF m[1] \in mapped THEN "fetch" ELSE "next")
  /\ UNCHANGED <<settingVars, multi, mainPort, timerVars, proc, reg, single, pastVars>>

RefreshDone(w) ==
  /\ loc[w].todo = {}
  /\ Goto(w, "next", "select") /\ loc' = [loc EXCEPT ![w] = NoLocals]
  /\ UNCHANGED <<settingVars, multi, mainPort, timerVars, proc, reg, single, pastVars>>

LoopExit(w) ==
  /\ w \in stopped /\ stopped' = stopped \ {w}
  /\ Return(w, "select")
  /\ UNCHANGED <<settingVars, multi, mainPort, refreshStop, proc, reg, single, pastVars>>

WorkerStep(w) ==
  Want(w) \/ Sleep(w) \/ GiveUp(w) \/ Tick(w) \/ RefreshNext(w) \/ RefreshDone(w) \/ LoopExit(w)

CallStep(t) ==
  \/ \E i \in Ids :
       \/ StartMultiProxy(t, i) \/ StopMultiProxy(t, i) \/ RemoveMultiProxy(t, i)
       \/ \E m \in BOOLEAN : UpdateMultiProxy(t, i, m) \/ AddMultiProxy(t, i, m)
  \/ Connect(t) \/ Logout(t)

Next ==
  \/ \E t \in Callers : CallStep(t) \/ StopStep(t)
  \/ \E t \in Threads : StartStep(t)
  \/ \E i \in Ids, k \in Managers : OnMultiExit(i, k)
  \/ \E w \in Workers : WorkerStep(w)
  \/ Crash \/ Notice

Spec == Init /\ [][Next]_vars

-----------------------------------------------------------------------------
(* Properties                                                              *)

\* The system proxy is never forgotten: while it points at a multi-proxy,
\* multiMainPort says so, or a goroutine is between the two, or taking it away
\* has failed.
ProxyIsOwned ==
  reg # None => \/ mainPort # None \/ "kept" \in happened
                \/ \E t \in Threads : pc[t] \in {"mainport", "clear"}
                \/ \E t \in Callers : pc[t] = "allstop" /\ loc[t].main

\* While an instance is reported connected the refresh loop is there, or the
\* goroutine that is about to start it: no credential expires unattended.
ConnectedIsRefreshed ==
  (\E i \in Ids : multi[i].state = "connected") =>
    refreshStop # NoLoop \/ \E t \in Threads : pc[t] = "timer"

\* One refresh loop at most has not been told to stop, and App can stop it.
OneRefreshLoop ==
  /\ \A w \in Workers : loc[w].op = "refresh" \/ pc[w] = "select" => w \in stopped \/ refreshStop = w
  /\ refreshStop # NoLoop => refreshStop \notin stopped

\* With one thing happening after the other the list of proxies is what is
\* running: nothing connected over a dead process, nothing running that the
\* list does not know, nothing connecting for ever; and multi-proxies and the
\* single connection exclude each other.
ListedAsRunning ==
  Quiet /\ "overlap" \notin happened =>
    \A i \in Ids :
      /\ multi[i].state = "connected" => proc[<<i, multi[i].mgr>>] = "up"
      /\ multi[i].state # "connecting"
      /\ \A k \in Managers : proc[<<i, k>>] = "up" => multi[i].mgr = k /\ ~single

\* A system proxy that is set points at a proxy that is in the list, and the
\* three records of whose it is agree: the instance, the settings and
\* multiMainPort. So a stop of that proxy takes it away. Left out, as happened
\* says: calls and crashes that overlap, a main flag that moves while a system
\* proxy is set (StoppedProxyIsCleared), a registry that refuses to clear.
StopClearsProxy ==
  Quiet /\ happened = {} /\ reg # None =>
    Runs(reg) /\ multi[reg].main /\ mainId = reg /\ mainPort = reg

-----------------------------------------------------------------------------
(* What comments say and the code does not do                              *)

\* types.ts:70: "The "main" proxy receives the system proxy setting", and
\* multiproxy.go:330: "clearMultiSysproxy takes the system proxy off only if it
\* belongs to the multi-proxy on this port" (in translation): the system proxy
\* does not point at a proxy that has been stopped, one thing happening after
\* the other and no call to the registry failing.
StoppedProxyIsCleared ==
  Quiet /\ {"overlap", "kept"} \cap happened = {} /\ reg # None => Runs(reg)

\* multiproxy.go:279: "StopMultiProxy stops one multi-proxy": with nothing on
\* its way, no process runs that is not in the list.
StopIsFinal ==
  Quiet => \A i \in Ids, k \in Managers : proc[<<i, k>>] = "up" => multi[i].mgr = k

\* A proxy that runs is not listed as failed.
RunningIsConnected ==
  Quiet /\ "overlap" \notin happened => \A i \in Ids : multi[i].state = "error" =>
    multi[i].mgr = 0 \/ proc[<<i, multi[i].mgr>>] # "up"
=============================================================================
