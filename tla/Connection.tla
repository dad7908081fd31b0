----------------------------- MODULE Connection -----------------------------
(***************************************************************************)
(* internal/app/app.go: Connect, Disconnect, the crash handler with its    *)
(* reconnect loop, and the credential refresh loops, all running as        *)
(* goroutines of their own around App.mu, which none of them holds over a  *)
(* call. Each step below is one critical section or one call to a          *)
(* collaborator; between two steps anything else may run.                  *)
(*                                                                         *)
(* Collaborators appear as their abstract specifications: the two process  *)
(* managers (EngineAbs, implemented by Engine) and the kill-switch guard   *)
(* (GuardAbs, implemented by Killswitch). The system proxy is the registry *)
(* value `reg' (external); the backend is the outcome of a fetch.          *)
(***************************************************************************)
EXTENDS Naturals, FiniteSets

CONSTANTS
  Callers,      \* goroutines serving the control API
  RL,           \* the goroutine of reconnectLoop
  Loops,        \* bound: refreshLoop goroutines alive at the same time
  NoLoop,       \* refreshStop = nil
  Servers,      \* server ids of the backend
  Customs,      \* ids of custom servers ("custom:...")
  AutoServerID, \* nil, or the id "auto": the backend chooses
  Removable,    \* custom servers the user may delete meanwhile
  TunAllowed,   \* elevated and built with sing-box
  KillSwitch,   \* values the kill-switch setting may have when it is read
  May,          \* what the environment may do: see Happenings
  MaxCalls,     \* bound: Connect and Disconnect calls
  MaxCrashes,   \* bound: engine crashes
  MaxAttempts   \* reconnectMaxAttempts (5 in the code)

Happenings == {"registry", "firewall", "backend", "config", "launch", "ready", "age", "badmode"}

ASSUME ConnectionAssumption ==
  /\ RL \notin Callers /\ RL \notin Loops /\ Callers \cap Loops = {}
  /\ NoLoop \notin Loops
  /\ AutoServerID \notin Servers \cup Customs /\ Servers \cap Customs = {}
  /\ Removable \subseteq Customs
  /\ TunAllowed \in BOOLEAN /\ KillSwitch \in SUBSET BOOLEAN
  /\ May \in SUBSET Happenings
  /\ MaxCalls \in Nat /\ MaxCrashes \in Nat /\ MaxAttempts \in Nat \ {0}

Ids == Servers \cup Customs \cup {AutoServerID}
Modes == {"proxy", "tun"}
Connectors == Callers \cup {RL}
Threads == Connectors \cup Loops

VARIABLES
  \* goroutines
  pc,            \* where each one is
  srv, md,       \* locals: serverID, mode
  attempt,       \* local of reconnectLoop
  stopped,       \* closed stop channels of refresh loops
  \* fields of App, under App.mu
  state, mode, lastServer, lastMode, want, reconnecting, proxyOn,
  expiry, refreshing, refreshStop,
  \* xray and sing-box: managed process, pending exit callbacks
  xs, xe, ss, se,
  serves,        \* the server each engine was last configured for
  \* firewall and kill-switch guard, registry, custom server store
  fw, on, reg, known,
  \* bounds
  calls, crashes

threadVars == <<pc, srv, md, attempt>>
intentVars == <<lastServer, lastMode, want>>
statusVars == <<state, mode>>
timerVars  == <<refreshStop, stopped>>
engineVars == <<xs, xe, ss, se, serves>>
guardVars  == <<fw, on>>
boundVars  == <<calls, crashes>>

vars == <<threadVars, intentVars, statusVars, timerVars, engineVars, guardVars, boundVars,
          reconnecting, proxyOn, expiry, refreshing, reg, known>>

X == INSTANCE EngineAbs WITH st <- xs, exits <- xe
S == INSTANCE EngineAbs WITH st <- ss, exits <- se
G == INSTANCE GuardAbs

-----------------------------------------------------------------------------
(* Program points                                                          *)

\* connect(), from its first line to the final setState; "timer" is what is
\* left to do after a success, "fail" the call of fail().
ConnectBody == {"begin", "config", "fetch", "stopOther", "unguard", "unproxy", "clear",
                "launch", "ready", "abort", "setProxy", "markProxy", "engage", "up", "fail"}
DisconnectBody == {"disengage", "forget", "dclear", "stopX", "stopS", "down"}
ReconnectBody == {"rSet", "rRead", "rCheck", "rGiveUp", "rEnd"}
RefreshBody == {"mark", "rfetch", "reload", "unmark"}

CallerLabels == {"idle", "timer", "stopTimer"} \cup ConnectBody \cup DisconnectBody
LoopLabels == {"idle", "timer"} \cup ConnectBody \cup ReconnectBody
RefreshLabels == {"idle", "select"} \cup RefreshBody
Labels == CallerLabels \cup LoopLabels \cup RefreshLabels

ControlOK ==
  /\ pc \in [Threads -> Labels]
  /\ \A t \in Callers : pc[t] \in CallerLabels
  /\ pc[RL] \in LoopLabels
  /\ \A l \in Loops : pc[l] \in RefreshLabels

FlagsOK ==
  /\ want \in BOOLEAN /\ reconnecting \in BOOLEAN /\ proxyOn \in BOOLEAN
  /\ refreshing \in BOOLEAN /\ on \in BOOLEAN /\ reg \in BOOLEAN

TypeOK ==
  /\ ControlOK
  /\ FlagsOK
  /\ srv \in [Threads -> Ids] /\ md \in [Threads -> Modes]
  /\ attempt \in Nat
  /\ stopped \in SUBSET Loops
  /\ state \in {"disconnected", "connecting", "connected", "error"}
  /\ mode \in Modes /\ lastMode \in Modes /\ lastServer \in Ids
  /\ expiry \in {"zero", "near", "far"}
  /\ refreshStop \in Loops \cup {NoLoop}
  /\ X!AbsTypeOK /\ S!AbsTypeOK
  /\ serves \in [Modes -> Ids]
  /\ fw \in {"allow", "block"}
  /\ known \in SUBSET Customs
  /\ calls \in 0 .. MaxCalls /\ crashes \in 0 .. MaxCrashes

Init ==
  /\ pc = [t \in Threads |-> "idle"]
  /\ srv = [t \in Threads |-> AutoServerID]
  /\ md = [t \in Threads |-> "proxy"]
  /\ attempt = 0
  /\ stopped = {}
  /\ state = "disconnected"
  /\ mode = "proxy" /\ lastMode = "proxy" /\ lastServer = AutoServerID
  /\ want = FALSE /\ reconnecting = FALSE /\ proxyOn = FALSE
  /\ expiry = "zero"
  /\ refreshing = FALSE
  /\ refreshStop = NoLoop
  /\ X!Init /\ S!Init
  /\ serves = [m \in Modes |-> AutoServerID]
  /\ fw = "allow" /\ on = FALSE
  /\ reg = FALSE
  /\ known = Customs
  /\ calls = 0 /\ crashes = 0

-----------------------------------------------------------------------------
(* Moving a goroutine                                                      *)

Goto(t, from, to) == pc[t] = from /\ pc' = [pc EXCEPT ![t] = to]

\* The next step of a goroutine that keeps its locals.
Step(t, from, to) == Goto(t, from, to) /\ UNCHANGED <<srv, md, attempt>>

\* connect() returns: an API call is over, the reconnect loop looks at the
\* result.
AfterSuccess(t) == IF t = RL THEN "rEnd" ELSE "idle"
AfterFailure(t) == IF t # RL THEN "idle"
                   ELSE IF attempt < MaxAttempts THEN "rRead" ELSE "rGiveUp"

\* Locals of a goroutine that ends are given their first values back.
Reset(t) ==
  /\ srv' = [srv EXCEPT ![t] = AutoServerID]
  /\ md' = [md EXCEPT ![t] = "proxy"]

-----------------------------------------------------------------------------
(* connect()                                                               *)

\* Connect: remember the choice for auto-reconnect, one critical section.
Connect(t, s, m) ==
  /\ t \in Callers
  /\ calls < MaxCalls /\ calls' = calls + 1
  /\ Goto(t, "idle", "begin")
  /\ srv' = [srv EXCEPT ![t] = s]
  /\ md' = [md EXCEPT ![t] = m]
  /\ lastServer' = s /\ lastMode' = m /\ want' = TRUE
  /\ UNCHANGED <<attempt, statusVars, timerVars, engineVars, guardVars, crashes,
                 reconnecting, proxyOn, expiry, refreshing, reg, known>>

\* A mode that does not parse is an error before anything is remembered.
ConnectBadMode(t) ==
  /\ "badmode" \in May
  /\ calls < MaxCalls /\ calls' = calls + 1
  /\ Step(t, "idle", "fail")
  /\ UNCHANGED <<intentVars, statusVars, timerVars, engineVars, guardVars, crashes,
                 reconnecting, proxyOn, expiry, refreshing, reg, known>>

\* TUN without the rights for it fails before anything is touched.
Begin(t) ==
  /\ IF md[t] = "tun" /\ ~TunAllowed
     THEN Step(t, "begin", "fail") /\ UNCHANGED statusVars
     ELSE Step(t, "begin", "config") /\ mode' = md[t] /\ state' = "connecting"
  /\ UNCHANGED <<intentVars, timerVars, engineVars, guardVars, boundVars,
                 reconnecting, proxyOn, expiry, refreshing, reg, known>>

\* A custom server the store knows needs no backend and has no expiry.
ConfigLocal(t) ==
  /\ srv[t] \in known
  /\ Step(t, "config", "stopOther")
  /\ expiry' = "zero"
  /\ UNCHANGED <<intentVars, statusVars, timerVars, engineVars, guardVars, boundVars,
                 reconnecting, proxyOn, refreshing, reg, known>>

ConfigRemote(t) ==
  /\ srv[t] \notin known
  /\ Step(t, "config", "fetch")
  /\ UNCHANGED <<intentVars, statusVars, timerVars, engineVars, guardVars, boundVars,
                 reconnecting, proxyOn, expiry, refreshing, reg, known>>

\* ensureRegistered and VPNConfig; a credential lasts longer than the lead
\* time or does not.
Fetch(t) ==
  /\ Step(t, "fetch", "stopOther")
  /\ expiry' \in {"far"} \cup (IF "age" \in May THEN {"near"} ELSE {})
  /\ UNCHANGED <<intentVars, statusVars, timerVars, engineVars, guardVars, boundVars,
                 reconnecting, proxyOn, refreshing, reg, known>>

FetchFails(t) ==
  /\ "backend" \in May
  /\ Step(t, "fetch", "fail")
  /\ UNCHANGED <<intentVars, statusVars, timerVars, engineVars, guardVars, boundVars,
                 reconnecting, proxyOn, expiry, refreshing, reg, known>>

StartEngine(m, s) ==
  /\ serves' = [serves EXCEPT ![m] = s]
  /\ IF m = "tun" THEN S!Launch /\ UNCHANGED <<xs, xe>> ELSE X!Launch /\ UNCHANGED <<ss, se>>

StopEngine(m) ==
  /\ IF m = "tun" THEN S!Halt /\ UNCHANGED <<xs, xe>> ELSE X!Halt /\ UNCHANGED <<ss, se>>
  /\ UNCHANGED serves

EngineUp(m) == IF m = "tun" THEN ss = "up" ELSE xs = "up"

OtherMode(m) == IF m = "tun" THEN "proxy" ELSE "tun"

\* Fault: connect leaves the engine of the other mode running.
StopOtherForgotten(t) ==
  /\ Step(t, "stopOther", IF md[t] = "tun" THEN "unproxy" ELSE "unguard")
  /\ UNCHANGED <<intentVars, statusVars, timerVars, engineVars, guardVars, boundVars,
                 reconnecting, proxyOn, expiry, refreshing, reg, known>>

\* The engine of the other mode goes first.
StopOther(t) ==
  /\ Step(t, "stopOther", IF md[t] = "tun" THEN "unproxy" ELSE "unguard")
  /\ StopEngine(OtherMode(md[t]))
  /\ UNCHANGED <<intentVars, statusVars, timerVars, guardVars, boundVars,
                 reconnecting, proxyOn, expiry, refreshing, reg, known>>

\* connectProxy: the kill-switch of an earlier TUN session comes down.
DisengageGuard == G!Disengaging \/ ("firewall" \in May /\ G!DisengageFails)

Unguard(t) ==
  /\ Step(t, "unguard", "launch")
  /\ IF on THEN DisengageGuard ELSE UNCHANGED guardVars
  /\ UNCHANGED <<intentVars, statusVars, timerVars, engineVars, boundVars,
                 reconnecting, proxyOn, expiry, refreshing, reg, known>>

\* connectTUN: take proxyOn down under the lock, the registry after it; the
\* local wasProxy is the step that follows.
Unproxy(t) ==
  /\ Step(t, "unproxy", IF proxyOn THEN "clear" ELSE "launch")
  /\ proxyOn' = FALSE
  /\ UNCHANGED <<intentVars, statusVars, timerVars, engineVars, guardVars,
                 boundVars, reconnecting, expiry, refreshing, reg, known>>

ClearRegistry == reg' = FALSE \/ ("registry" \in May /\ reg' = reg)

Clear(t) ==
  /\ Step(t, "clear", "launch")
  /\ ClearRegistry
  /\ UNCHANGED <<intentVars, statusVars, timerVars, engineVars, guardVars,
                 boundVars, reconnecting, proxyOn, expiry, refreshing, known>>

\* The config cannot be generated: the old process is left as it is.
NoConfig(t) ==
  /\ "config" \in May
  /\ Step(t, "launch", "fail")
  /\ UNCHANGED <<intentVars, statusVars, timerVars, engineVars, guardVars, boundVars,
                 reconnecting, proxyOn, expiry, refreshing, reg, known>>

Launch(t) ==
  /\ Step(t, "launch", "ready")
  /\ StartEngine(md[t], srv[t])
  /\ UNCHANGED <<intentVars, statusVars, timerVars, guardVars, boundVars,
                 reconnecting, proxyOn, expiry, refreshing, reg, known>>

\* Start fails after it has stopped the process it was to replace.
LaunchFails(t) ==
  /\ "launch" \in May
  /\ Step(t, "launch", "fail")
  /\ StopEngine(md[t])
  /\ UNCHANGED <<intentVars, statusVars, timerVars, guardVars, boundVars,
                 reconnecting, proxyOn, expiry, refreshing, reg, known>>

\* WaitReady: sing-box looks at the handle (Engine: Probe = "handle"), xray
\* dials the port.
Answers(m) == IF m = "tun" THEN ss # "none" ELSE xs = "up"

Ready(t) ==
  /\ Answers(md[t])
  /\ Step(t, "ready", IF md[t] = "tun" THEN "engage" ELSE "setProxy")
  /\ UNCHANGED <<intentVars, statusVars, timerVars, engineVars, guardVars, boundVars,
                 reconnecting, proxyOn, expiry, refreshing, reg, known>>

\* The process is seen gone, or 15 seconds are over.
NotReady(t) ==
  /\ ~Answers(md[t]) \/ "ready" \in May
  /\ Step(t, "ready", "abort")
  /\ UNCHANGED <<intentVars, statusVars, timerVars, engineVars, guardVars, boundVars,
                 reconnecting, proxyOn, expiry, refreshing, reg, known>>

Abort(t) ==
  /\ Step(t, "abort", "fail")
  /\ StopEngine(md[t])
  /\ UNCHANGED <<intentVars, statusVars, timerVars, guardVars, boundVars,
                 reconnecting, proxyOn, expiry, refreshing, reg, known>>

\* sysproxy.Set; a failure is logged and the connect goes on.
SetProxy(t) ==
  /\ Step(t, "setProxy", "markProxy")
  /\ reg' = TRUE
  /\ UNCHANGED <<intentVars, statusVars, timerVars, engineVars, guardVars, boundVars,
                 reconnecting, proxyOn, expiry, refreshing, known>>

SetProxyFails(t) ==
  /\ "registry" \in May
  /\ Step(t, "setProxy", "up")
  /\ UNCHANGED <<intentVars, statusVars, timerVars, engineVars, guardVars, boundVars,
                 reconnecting, proxyOn, expiry, refreshing, reg, known>>

MarkProxy(t) ==
  /\ Step(t, "markProxy", "up")
  /\ proxyOn' = TRUE
  /\ UNCHANGED <<intentVars, statusVars, timerVars, engineVars, guardVars, boundVars,
                 reconnecting, expiry, refreshing, reg, known>>

\* connectTUN: the kill-switch, when the setting is on; a failure to engage
\* is logged and the connect goes on.
Engage(t) ==
  /\ Step(t, "engage", "up")
  /\ \/ FALSE \in KillSwitch /\ UNCHANGED guardVars
     \/ TRUE \in KillSwitch /\ (G!Engaging \/ ("firewall" \in May /\ G!EngageFails))
  /\ UNCHANGED <<intentVars, statusVars, timerVars, engineVars, boundVars,
                 reconnecting, proxyOn, expiry, refreshing, reg, known>>

Up(t) ==
  /\ Step(t, "up", "timer")
  /\ state' = "connected"
  /\ UNCHANGED <<intentVars, mode, timerVars, engineVars, guardVars, boundVars,
                 reconnecting, proxyOn, expiry, refreshing, reg, known>>

\* startRefreshTimer: at most one timer that has not been told to stop.
StartTimer(t) ==
  /\ pc[t] = "timer"
  /\ \/ /\ refreshStop # NoLoop
        /\ pc' = [pc EXCEPT ![t] = AfterSuccess(t)]
        /\ UNCHANGED refreshStop
     \/ /\ refreshStop = NoLoop
        /\ \E l \in Loops :
             /\ pc[l] = "idle"
             /\ pc' = [pc EXCEPT ![t] = AfterSuccess(t), ![l] = "select"]
             /\ refreshStop' = l
  /\ Reset(t) /\ UNCHANGED attempt
  /\ UNCHANGED <<intentVars, statusVars, stopped, engineVars, guardVars, boundVars,
                 reconnecting, proxyOn, expiry, refreshing, reg, known>>

\* Fault: an early return without setState(error).
FailSilently(t) ==
  /\ Goto(t, "fail", AfterFailure(t))
  /\ Reset(t) /\ UNCHANGED attempt
  /\ UNCHANGED <<intentVars, statusVars, timerVars, engineVars, guardVars, boundVars,
                 reconnecting, proxyOn, expiry, refreshing, reg, known>>

Fail(t) ==
  /\ Goto(t, "fail", AfterFailure(t))
  /\ Reset(t) /\ UNCHANGED attempt
  /\ state' = "error"
  /\ UNCHANGED <<intentVars, mode, timerVars, engineVars, guardVars, boundVars,
                 reconnecting, proxyOn, expiry, refreshing, reg, known>>

ConnectStep(t) ==
  \/ Begin(t) \/ ConfigLocal(t) \/ ConfigRemote(t) \/ Fetch(t) \/ FetchFails(t)
  \/ StopOther(t) \/ Unguard(t) \/ Unproxy(t) \/ Clear(t)
  \/ NoConfig(t) \/ Launch(t) \/ LaunchFails(t) \/ Ready(t) \/ NotReady(t) \/ Abort(t)
  \/ SetProxy(t) \/ SetProxyFails(t) \/ MarkProxy(t) \/ Engage(t)
  \/ Up(t) \/ StartTimer(t) \/ Fail(t)

-----------------------------------------------------------------------------
(* Disconnect                                                              *)

Disconnect(t) ==
  /\ t \in Callers
  /\ calls < MaxCalls /\ calls' = calls + 1
  /\ Step(t, "idle", "stopTimer")
  /\ UNCHANGED <<intentVars, statusVars, timerVars, engineVars, guardVars, crashes,
                 reconnecting, proxyOn, expiry, refreshing, reg, known>>

\* Fault: the stop channel is closed without a nil check.
StopTimerUnchecked(t) ==
  /\ Step(t, "stopTimer", "disengage")
  /\ stopped' = stopped \cup {refreshStop}
  /\ refreshStop' = NoLoop
  /\ UNCHANGED <<intentVars, statusVars, engineVars, guardVars, boundVars,
                 reconnecting, proxyOn, expiry, refreshing, reg, known>>

\* Fault: refreshStop is dropped without being closed.
StopTimerLeaks(t) ==
  /\ Step(t, "stopTimer", "disengage")
  /\ refreshStop' = NoLoop
  /\ UNCHANGED <<intentVars, statusVars, stopped, engineVars, guardVars, boundVars,
                 reconnecting, proxyOn, expiry, refreshing, reg, known>>

StopTimer(t) ==
  /\ Step(t, "stopTimer", "disengage")
  /\ stopped' = stopped \cup ({refreshStop} \ {NoLoop})
  /\ refreshStop' = NoLoop
  /\ UNCHANGED <<intentVars, statusVars, engineVars, guardVars, boundVars,
                 reconnecting, proxyOn, expiry, refreshing, reg, known>>

\* Unconditional: engaged or not.
DisengageStep(t) ==
  /\ Step(t, "disengage", "forget")
  /\ DisengageGuard
  /\ UNCHANGED <<intentVars, statusVars, timerVars, engineVars, boundVars,
                 reconnecting, proxyOn, expiry, refreshing, reg, known>>

\* Fault: proxyOn is read after it was reset, so Clear is never called.
ForgetBeforeReading(t) ==
  /\ Step(t, "forget", "stopX")
  /\ proxyOn' = FALSE
  /\ want' = FALSE /\ lastServer' = AutoServerID /\ expiry' = "zero"
  /\ UNCHANGED <<lastMode, statusVars, timerVars, engineVars, guardVars,
                 boundVars, reconnecting, refreshing, reg, known>>

\* One critical section: no reconnect, no server, no credential, no proxy.
Forget(t) ==
  /\ Step(t, "forget", IF proxyOn THEN "dclear" ELSE "stopX")
  /\ proxyOn' = FALSE
  /\ want' = FALSE /\ lastServer' = AutoServerID /\ expiry' = "zero"
  /\ UNCHANGED <<lastMode, statusVars, timerVars, engineVars, guardVars,
                 boundVars, reconnecting, refreshing, reg, known>>

DClear(t) ==
  /\ Step(t, "dclear", "stopX")
  /\ ClearRegistry
  /\ UNCHANGED <<intentVars, statusVars, timerVars, engineVars, guardVars,
                 boundVars, reconnecting, proxyOn, expiry, refreshing, known>>

StopX(t) ==
  /\ Step(t, "stopX", "stopS")
  /\ StopEngine("proxy")
  /\ UNCHANGED <<intentVars, statusVars, timerVars, guardVars, boundVars,
                 reconnecting, proxyOn, expiry, refreshing, reg, known>>

\* Fault: only the proxy engine is stopped.
StopSForgotten(t) ==
  /\ Step(t, "stopS", "down")
  /\ UNCHANGED <<intentVars, statusVars, timerVars, engineVars, guardVars, boundVars,
                 reconnecting, proxyOn, expiry, refreshing, reg, known>>

StopS(t) ==
  /\ Step(t, "stopS", "down")
  /\ StopEngine("tun")
  /\ UNCHANGED <<intentVars, statusVars, timerVars, guardVars, boundVars,
                 reconnecting, proxyOn, expiry, refreshing, reg, known>>

\* Fault: Disconnect does not set the state.
DownSilently(t) ==
  /\ Goto(t, "down", "idle")
  /\ Reset(t) /\ UNCHANGED attempt
  /\ UNCHANGED <<intentVars, statusVars, timerVars, engineVars, guardVars, boundVars,
                 reconnecting, proxyOn, expiry, refreshing, reg, known>>

Down(t) ==
  /\ Goto(t, "down", "idle")
  /\ Reset(t) /\ UNCHANGED attempt
  /\ state' = "disconnected"
  /\ UNCHANGED <<intentVars, mode, timerVars, engineVars, guardVars, boundVars,
                 reconnecting, proxyOn, expiry, refreshing, reg, known>>

DisconnectStep(t) ==
  \/ StopTimer(t) \/ DisengageStep(t) \/ Forget(t) \/ DClear(t)
  \/ StopX(t) \/ StopS(t) \/ Down(t)

-----------------------------------------------------------------------------
(* Engine crashes and the reconnect loop                                   *)

Crash ==
  /\ crashes < MaxCrashes /\ crashes' = crashes + 1
  /\ \/ X!Fall /\ UNCHANGED <<ss, se>>
     \/ S!Fall /\ UNCHANGED <<xs, xe>>
  /\ UNCHANGED <<threadVars, intentVars, statusVars, timerVars, guardVars, calls, serves,
                 reconnecting, proxyOn, expiry, refreshing, reg, known>>

Notice ==
  /\ \/ X!Notice /\ UNCHANGED <<ss, se>>
     \/ S!Notice /\ UNCHANGED <<xs, xe>>
  /\ UNCHANGED <<threadVars, intentVars, statusVars, timerVars, guardVars, boundVars, serves,
                 reconnecting, proxyOn, expiry, refreshing, reg, known>>

\* Fault: the flag is not consulted.
ShouldReconnectAgain == state = "connected" /\ want

ShouldReconnect == state = "connected" /\ want /\ ~reconnecting

\* onEngineExit: the test and the flag are one critical section.
OnEngineExit ==
  /\ \/ X!Deliver /\ UNCHANGED <<ss, se>>
     \/ S!Deliver /\ UNCHANGED <<xs, xe>>
  /\ IF ShouldReconnect
     THEN pc' = [pc EXCEPT ![RL] = "rSet"] /\ attempt' = 0 /\ reconnecting' = TRUE
     ELSE UNCHANGED <<pc, attempt, reconnecting>>
  /\ UNCHANGED <<srv, md, intentVars, statusVars, timerVars, guardVars, boundVars, serves,
                 proxyOn, expiry, refreshing, reg, known>>

RSet ==
  /\ Step(RL, "rSet", "rRead")
  /\ state' = "connecting"
  /\ UNCHANGED <<intentVars, mode, timerVars, engineVars, guardVars, boundVars,
                 reconnecting, proxyOn, expiry, refreshing, reg, known>>

\* Fault: attempts are not counted.
RReadForever ==
  /\ Goto(RL, "rRead", IF want THEN "rCheck" ELSE "rEnd")
  /\ IF want THEN /\ srv' = [srv EXCEPT ![RL] = lastServer]
                  /\ md' = [md EXCEPT ![RL] = lastMode]
             ELSE UNCHANGED <<srv, md>>
  /\ UNCHANGED <<attempt, intentVars, statusVars, timerVars, engineVars, guardVars,
                 boundVars, reconnecting, proxyOn, expiry, refreshing, reg, known>>

\* The top of an attempt: what to reconnect to, unless the user has left.
RRead ==
  /\ Goto(RL, "rRead", IF want THEN "rCheck" ELSE "rEnd")
  /\ IF want THEN /\ srv' = [srv EXCEPT ![RL] = lastServer]
                  /\ md' = [md EXCEPT ![RL] = lastMode]
                  /\ attempt' = attempt + 1
             ELSE UNCHANGED <<srv, md, attempt>>
  /\ UNCHANGED <<intentVars, statusVars, timerVars, engineVars, guardVars, boundVars,
                 reconnecting, proxyOn, expiry, refreshing, reg, known>>

\* After the backoff: connect() with what was read before it.
RCheck ==
  /\ IF want THEN Step(RL, "rCheck", "begin")
             ELSE Goto(RL, "rCheck", "rEnd") /\ Reset(RL) /\ UNCHANGED attempt
  /\ UNCHANGED <<intentVars, statusVars, timerVars, engineVars, guardVars, boundVars,
                 reconnecting, proxyOn, expiry, refreshing, reg, known>>

RGiveUp ==
  /\ Step(RL, "rGiveUp", "rEnd")
  /\ state' = "error"
  /\ UNCHANGED <<intentVars, mode, timerVars, engineVars, guardVars, boundVars,
                 reconnecting, proxyOn, expiry, refreshing, reg, known>>

\* Fault: the flag is reset on success only.
REndKeepsFlag ==
  /\ Goto(RL, "rEnd", "idle")
  /\ Reset(RL) /\ attempt' = 0
  /\ reconnecting' = (reconnecting /\ state # "connected")
  /\ UNCHANGED <<intentVars, statusVars, timerVars, engineVars, guardVars, boundVars,
                 proxyOn, expiry, refreshing, reg, known>>

\* The deferred reset of the flag.
REnd ==
  /\ Goto(RL, "rEnd", "idle")
  /\ Reset(RL) /\ attempt' = 0
  /\ reconnecting' = FALSE
  /\ UNCHANGED <<intentVars, statusVars, timerVars, engineVars, guardVars, boundVars,
                 proxyOn, expiry, refreshing, reg, known>>

ReconnectStep == RSet \/ RRead \/ RCheck \/ RGiveUp \/ REnd

-----------------------------------------------------------------------------
(* The credential refresh loops                                            *)

\* The credential comes within refreshLeadTime of its expiry.
Age ==
  /\ "age" \in May
  /\ expiry = "far" /\ expiry' = "near"
  /\ UNCHANGED <<threadVars, intentVars, statusVars, timerVars, engineVars, guardVars,
                 boundVars, reconnecting, proxyOn, refreshing, reg, known>>

\* Fault: custom servers are refreshed like the others.
DueAnyServer == state = "connected" /\ ~refreshing /\ expiry = "near"

DueForRefresh ==
  /\ state = "connected" /\ ~refreshing
  /\ expiry = "near"
  /\ lastServer \notin Customs

\* A tick: maybeRefresh takes its snapshot. A tick that was chosen before the
\* channel was closed may come here after it.
Tick(l) ==
  /\ DueForRefresh
  /\ Goto(l, "select", "mark")
  /\ srv' = [srv EXCEPT ![l] = lastServer]
  /\ md' = [md EXCEPT ![l] = lastMode]
  /\ UNCHANGED <<attempt, intentVars, statusVars, timerVars, engineVars, guardVars,
                 boundVars, reconnecting, proxyOn, expiry, refreshing, reg, known>>

Mark(l) ==
  /\ Step(l, "mark", "rfetch")
  /\ refreshing' = TRUE
  /\ UNCHANGED <<intentVars, statusVars, timerVars, engineVars, guardVars, boundVars,
                 reconnecting, proxyOn, expiry, reg, known>>

RefreshFetch(l) ==
  /\ Step(l, "rfetch", "reload")
  /\ expiry' = "far"
  /\ UNCHANGED <<intentVars, statusVars, timerVars, engineVars, guardVars, boundVars,
                 reconnecting, proxyOn, refreshing, reg, known>>

RefreshFetchFails(l) ==
  /\ "backend" \in May
  /\ Step(l, "rfetch", "unmark")
  /\ UNCHANGED <<intentVars, statusVars, timerVars, engineVars, guardVars, boundVars,
                 reconnecting, proxyOn, expiry, refreshing, reg, known>>

\* Start replaces the running process; when it fails there is none.
Reload(l) ==
  /\ Step(l, "reload", "unmark")
  /\ \/ StartEngine(md[l], srv[l])
     \/ "launch" \in May /\ StopEngine(md[l])
     \/ "config" \in May /\ UNCHANGED engineVars
  /\ UNCHANGED <<intentVars, statusVars, timerVars, guardVars, boundVars,
                 reconnecting, proxyOn, expiry, refreshing, reg, known>>

Unmark(l) ==
  /\ Goto(l, "unmark", "select")
  /\ Reset(l) /\ UNCHANGED attempt
  /\ refreshing' = FALSE
  /\ UNCHANGED <<intentVars, statusVars, timerVars, engineVars, guardVars, boundVars,
                 reconnecting, proxyOn, expiry, reg, known>>

LoopExit(l) ==
  /\ l \in stopped
  /\ Step(l, "select", "idle")
  /\ stopped' = stopped \ {l}
  /\ UNCHANGED <<intentVars, statusVars, refreshStop, engineVars, guardVars, boundVars,
                 reconnecting, proxyOn, expiry, refreshing, reg, known>>

RefreshStep(l) ==
  \/ Mark(l) \/ RefreshFetch(l) \/ RefreshFetchFails(l) \/ Reload(l) \/ Unmark(l)
  \/ LoopExit(l)

-----------------------------------------------------------------------------
RemoveCustomServer(s) ==
  /\ s \in known
  /\ known' = known \ {s}
  /\ UNCHANGED <<threadVars, intentVars, statusVars, timerVars, engineVars, guardVars,
                 boundVars, reconnecting, proxyOn, expiry, refreshing, reg>>

Next ==
  \/ \E t \in Callers : \/ \E s \in Ids, m \in Modes : Connect(t, s, m)
                        \/ ConnectBadMode(t)
                        \/ Disconnect(t)
                        \/ DisconnectStep(t)
  \/ \E t \in Connectors : ConnectStep(t)
  \/ Crash \/ Notice \/ OnEngineExit
  \/ ReconnectStep
  \/ \E l \in Loops : Tick(l) \/ RefreshStep(l)
  \/ Age
  \/ \E s \in Removable : RemoveCustomServer(s)

Spec == Init /\ [][Next]_vars

\* Goroutines are scheduled and every call they make returns (each is bounded
\* by a timeout in the code). The user, the clock and crashes are free.
Fairness ==
  /\ \A t \in Connectors : WF_vars(ConnectStep(t))
  /\ \A t \in Callers : WF_vars(DisconnectStep(t))
  /\ WF_vars(ReconnectStep)
  /\ \A l \in Loops : WF_vars(RefreshStep(l))
  /\ WF_vars(Notice) /\ WF_vars(OnEngineExit)

FairSpec == Spec /\ Fairness

\* A crash that its watcher or the crash handler has not dealt with yet.
XFallen == xs = "down" \/ xe > 0
SFallen == ss = "down" \/ se > 0

Busy(t) == pc[t] \notin {"idle", "select"}

\* One thing happens after the other: of all calls, reconnects, refreshes and
\* crashes at most one is under way.
OneAtATime ==
  /\ \A t, u \in Threads : Busy(t) /\ Busy(u) => t = u
  /\ \A t \in Threads : Busy(t) => ~XFallen /\ ~SFallen
  /\ ~(XFallen /\ SFallen)

\* The behaviours in which nothing overlaps.
SerialSpec == Init /\ [][Next /\ OneAtATime']_vars

-----------------------------------------------------------------------------
(* Properties                                                              *)

\* The flag says exactly whether the reconnect loop is alive, however it ends:
\* success, attempts used up, or given up because the user left.
SingleReconnect == reconnecting <=> pc[RL] # "idle"

\* Engines that crash together, or again while the loop is at work, never
\* start a second loop beside the first.
OneLoopAtATime ==
  [][pc[RL] # "rSet" /\ pc'[RL] = "rSet" => pc[RL] = "idle"]_vars

\* The system proxy is never forgotten: while the registry points at us, App
\* knows (proxyOn) or a goroutine is between the registry and the flag. With
\* the registry working, Disconnect and the crash handlers can rely on it.
ProxyIsOwned ==
  reg => \/ proxyOn
         \/ \E t \in Connectors : pc[t] \in {"markProxy", "clear", "dclear"}

\* A connection that is reported up has a running refresh timer, or somebody
\* is about to start it or to take the connection down: the credential does
\* not expire under a connected tunnel for want of a timer.
ConnectedIsRefreshed ==
  state = "connected" =>
    \/ refreshStop # NoLoop
    \/ \E t \in Connectors : pc[t] \in {"timer"} \cup DisconnectBody

\* Of all refresh loops alive at most one has not been told to stop, and it
\* is the one App can stop.
OneRefreshLoop ==
  /\ \A l \in Loops : pc[l] # "idle" /\ l \notin stopped => refreshStop = l
  /\ refreshStop # NoLoop => pc[refreshStop] # "idle" /\ refreshStop \notin stopped

\* "connecting" is somebody's work in progress: while the user wants to be
\* connected, a connect or the reconnect loop is there to end it.
ConnectingIsExplained ==
  state = "connecting" /\ want =>
    \E t \in Connectors : pc[t] \in ConnectBody \cup {"rRead", "rCheck"}

\* The backend is never asked about a custom server (app.go:62, app.go:888),
\* neither by a connect nor by a refresh.
CustomStaysLocal ==
  \A t \in Threads : pc[t] \in {"fetch"} \cup RefreshBody => srv[t] \notin Customs

\* Nothing is on its way: no call, no loop inside an attempt or a refresh, no
\* crash that has not been dealt with.
Quiet ==
  /\ \A t \in Connectors : pc[t] = "idle"
  /\ \A l \in Loops : pc[l] \in {"idle", "select"}
  /\ xe = 0 /\ se = 0 /\ xs # "down" /\ ss # "down"

\* Once the user has left, nothing of a connection is left behind. In a
\* SerialSpec this holds however each call fails. app.go:954
\* promises it of every Disconnect ("stops xray, clears the system proxy and
\* resets the state ... it cancels any auto-reconnect", in translation), which
\* it is not when the call overlaps a reconnect, a refresh or a connect.
TornDown ==
  Quiet /\ ~want =>
    /\ state \in {"disconnected", "error"}
    /\ xs = "none" /\ ss = "none"
    /\ ~reg /\ ~proxyOn
    /\ fw = "allow" /\ ~on

\* In a SerialSpec a connection that is reported up is the one
\* asked for last, in its mode, alone, with the proxy and the firewall that
\* mode has.
ConnectedAsAsked ==
  Quiet /\ state = "connected" =>
    /\ want /\ mode = lastMode
    /\ serves[mode] = lastServer
    /\ mode = "proxy" => xs = "up" /\ ss = "none" /\ reg /\ ~on /\ fw = "allow"
    /\ mode = "tun" => ss = "up" /\ xs = "none" /\ ~reg

\* The reconnect loop comes to an end, whatever the user does meanwhile.
ReconnectEnds == reconnecting ~> ~reconnecting

-----------------------------------------------------------------------------
(* What comments say and the code does not do                              *)

\* app.go:189: "if the active engine fell while we are in connected, we try to
\* bring it up again" (in translation): with nothing on its way, connected and
\* wanted, the engine is not lying dead.
ConnectedEngineIsUp ==
  Quiet /\ state = "connected" /\ want => EngineUp(mode)

\* app.go:753: on a change of mode the engine of the other mode is stopped,
\* App being "safe for concurrent use" (app.go:2).
OneEngine == Quiet => ~(xs = "up" /\ ss = "up")

\* app.go:874: "The tunnel is not torn down on failure; we just keep the
\* existing one until the next tick."
RefreshKeepsTunnel ==
  [][\A l \in Loops : pc[l] = "reload" /\ pc'[l] = "unmark" /\ EngineUp(md[l])
        => IF md[l] = "tun" THEN ss' = "up" ELSE xs' = "up"]_vars

\* app.go:1019: "Between attempts it checks whether the user has stepped in."
\* An attempt is for what the user asked for last.
ReconnectIsCurrent ==
  [][pc[RL] = "rCheck" /\ pc'[RL] = "begin" => md[RL] = lastMode /\ srv[RL] = lastServer]_vars

\* app.go:336: custom servers are measured "only while the tunnel is NOT up
\* [...] on a clean path (disconnected/error)" (in translation). A state that
\* stays disconnected or error means that no TUN is up.
OffTheTunnel == Quiet /\ state \in {"disconnected", "error"} => ss # "up"
=============================================================================
