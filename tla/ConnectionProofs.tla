-------------------------- MODULE ConnectionProofs --------------------------
(***************************************************************************)
(* Theorems about Connection for any number of callers, refresh loops,     *)
(* servers, calls, crashes and reconnect attempts. Each invariant has its  *)
(* step lemma, which follows the disjuncts of Next; ConnectMoves and       *)
(* DisconnectMoves say once how a goroutine moves through the two bodies.  *)
(* The last part is about SerialSpec, where nothing overlaps: what each    *)
(* program point of connect() and Disconnect can rely on, and what is      *)
(* settled when nobody is at work.                                         *)
(***************************************************************************)
EXTENDS Connection, TLAPS

-----------------------------------------------------------------------------
(* Types                                                                   *)

\* How a goroutine inside connect() moves: within connect, or out of it by
\* one of the two ways connect returns.
LEMMA ConnectMoves ==
  ASSUME NEW t \in Connectors, ConnectStep(t)
  PROVE  \/ /\ pc[t] \in ConnectBody
            /\ \E to \in ConnectBody \cup {"timer"} : pc' = [pc EXCEPT ![t] = to]
         \/ Fail(t) \/ StartTimer(t)
BY DEF ConnectStep, ConnectBody, Goto, Step, Begin, ConfigLocal, ConfigRemote, Fetch, FetchFails,
       StopOther, Unguard, Unproxy, Clear, NoConfig, Launch, LaunchFails, Ready, NotReady,
       Abort, SetProxy, SetProxyFails, MarkProxy, Engage, Up

LEMMA DisconnectMoves ==
  ASSUME NEW t \in Callers, DisconnectStep(t)
  PROVE  \/ /\ pc[t] \in {"stopTimer"} \cup DisconnectBody
            /\ \E to \in DisconnectBody : pc' = [pc EXCEPT ![t] = to]
         \/ Down(t)
BY DEF DisconnectStep, DisconnectBody, Goto, Step, StopTimer, DisengageStep, Forget, DClear,
       StopX, StopS

LEMMA ControlStep == ControlOK /\ [Next]_vars => ControlOK'
<1> SUFFICES ASSUME ControlOK, [Next]_vars PROVE ControlOK'
  OBVIOUS
<1> USE ConnectionAssumption
    DEF ControlOK, Threads, Connectors, Labels, CallerLabels, LoopLabels, RefreshLabels,
        ConnectBody, DisconnectBody, ReconnectBody, RefreshBody, Goto, Step
<1>1. ASSUME NEW t \in Callers,
             (\E s \in Ids, m \in Modes : Connect(t, s, m)) \/ ConnectBadMode(t) \/ Disconnect(t)
      PROVE  ControlOK'
  BY <1>1 DEF Connect, ConnectBadMode, Disconnect
<1>2. ASSUME NEW t \in Callers, DisconnectStep(t) PROVE ControlOK'
  BY <1>2, DisconnectMoves DEF Down
<1>3. ASSUME NEW t \in Connectors, ConnectStep(t) PROVE ControlOK'
  <2>1. CASE Fail(t)
    BY <2>1 DEF Fail, AfterFailure
  <2>2. CASE StartTimer(t)
    BY <2>2 DEF StartTimer, AfterSuccess
  <2> QED
    BY <1>3, <2>1, <2>2, ConnectMoves
<1>4. CASE Crash \/ Notice \/ Age \/ \E s \in Removable : RemoveCustomServer(s)
  BY <1>4 DEF Crash, Notice, Age, RemoveCustomServer, threadVars
<1>5. CASE OnEngineExit
  BY <1>5 DEF OnEngineExit
<1>6. CASE ReconnectStep
  BY <1>6 DEF ReconnectStep, RSet, RRead, RCheck, RGiveUp, REnd
<1>7. ASSUME NEW l \in Loops, Tick(l) \/ RefreshStep(l) PROVE ControlOK'
  BY <1>7 DEF Tick, RefreshStep, Mark, RefreshFetch, RefreshFetchFails, Reload, Unmark, LoopExit
<1>8. CASE UNCHANGED vars
  BY <1>8 DEF vars, threadVars
<1> QED
  BY <1>1, <1>2, <1>3, <1>4, <1>5, <1>6, <1>7, <1>8 DEF Next

LEMMA FlagsStep == FlagsOK /\ [Next]_vars => FlagsOK'
<1> SUFFICES ASSUME FlagsOK, [Next]_vars PROVE FlagsOK'
  OBVIOUS
<1> USE DEF FlagsOK, threadVars, intentVars, guardVars
<1>1. ASSUME NEW t \in Callers, NEW s \in Ids, NEW m \in Modes, Connect(t, s, m) PROVE FlagsOK'
  BY <1>1 DEF Connect
<1>2. ASSUME NEW t \in Callers, ConnectBadMode(t) \/ Disconnect(t) PROVE FlagsOK'
  BY <1>2 DEF ConnectBadMode, Disconnect
<1>3. ASSUME NEW t \in Callers, DisconnectStep(t) PROVE FlagsOK'
  <2>1. CASE StopTimer(t) \/ StopX(t) \/ StopS(t) \/ Down(t)
    BY <2>1 DEF StopTimer, StopX, StopS, Down
  <2>2. CASE DisengageStep(t)
    BY <2>2 DEF DisengageStep, DisengageGuard, G!Disengaging, G!DisengageFails
  <2>3. CASE Forget(t)
    BY <2>3 DEF Forget
  <2>4. CASE DClear(t)
    BY <2>4 DEF DClear, ClearRegistry
  <2> QED
    BY <1>3, <2>1, <2>2, <2>3, <2>4 DEF DisconnectStep
<1>4. ASSUME NEW t \in Connectors, ConnectStep(t) PROVE FlagsOK'
  <2>1. CASE \/ Begin(t) \/ ConfigLocal(t) \/ ConfigRemote(t) \/ Fetch(t) \/ FetchFails(t)
             \/ StopOther(t) \/ NoConfig(t) \/ Launch(t) \/ LaunchFails(t)
             \/ Ready(t) \/ NotReady(t) \/ Abort(t) \/ SetProxyFails(t)
             \/ Up(t) \/ StartTimer(t) \/ Fail(t)
    BY <2>1 DEF Begin, ConfigLocal, ConfigRemote, Fetch, FetchFails, StopOther, NoConfig,
                Launch, LaunchFails, Ready, NotReady, Abort, SetProxyFails, Up, StartTimer, Fail
  <2>2. CASE Unguard(t)
    BY <2>2 DEF Unguard, DisengageGuard, G!Disengaging, G!DisengageFails
  <2>3. CASE Unproxy(t)
    BY <2>3 DEF Unproxy
  <2>4. CASE Clear(t)
    BY <2>4 DEF Clear, ClearRegistry
  <2>5. CASE SetProxy(t) \/ MarkProxy(t)
    BY <2>5 DEF SetProxy, MarkProxy
  <2>6. CASE Engage(t)
    BY <2>6 DEF Engage, G!Engaging, G!EngageFails, G!guardVars
  <2> QED
    BY <1>4, <2>1, <2>2, <2>3, <2>4, <2>5, <2>6 DEF ConnectStep
<1>5. CASE Crash \/ Notice \/ OnEngineExit
  BY <1>5 DEF Crash, Notice, OnEngineExit
<1>6. CASE ReconnectStep
  BY <1>6 DEF ReconnectStep, RSet, RRead, RCheck, RGiveUp, REnd
<1>7. ASSUME NEW l \in Loops, Tick(l) \/ RefreshStep(l) PROVE FlagsOK'
  BY <1>7 DEF Tick, RefreshStep, Mark, RefreshFetch, RefreshFetchFails, Reload, Unmark, LoopExit
<1>8. CASE Age \/ \E s \in Removable : RemoveCustomServer(s)
  BY <1>8 DEF Age, RemoveCustomServer
<1>9. CASE UNCHANGED vars
  BY <1>9 DEF vars
<1> QED
  BY <1>1, <1>2, <1>3, <1>4, <1>5, <1>6, <1>7, <1>8, <1>9 DEF Next

LEMMA TypeStep == TypeOK /\ [Next]_vars => TypeOK'
<1> SUFFICES ASSUME TypeOK, [Next]_vars PROVE TypeOK'
  OBVIOUS
<1>0. ControlOK' /\ FlagsOK'
  BY ControlStep, FlagsStep DEF TypeOK
<1> USE <1>0, ConnectionAssumption
    DEF TypeOK, Threads, Connectors, Ids, Modes, Step, Reset,
        threadVars, intentVars, statusVars, timerVars, engineVars, guardVars, boundVars,
        X!AbsTypeOK, S!AbsTypeOK
<1>1. ASSUME NEW t \in Callers, NEW s \in Ids, NEW m \in Modes, Connect(t, s, m) PROVE TypeOK'
  BY <1>1 DEF Connect
<1>2. ASSUME NEW t \in Callers, ConnectBadMode(t) PROVE TypeOK'
  BY <1>2 DEF ConnectBadMode
<1>3. ASSUME NEW t \in Callers, Disconnect(t) PROVE TypeOK'
  BY <1>3 DEF Disconnect
<1>4. ASSUME NEW t \in Callers, DisconnectStep(t) PROVE TypeOK'
  <2>1. CASE StopTimer(t)
    BY <2>1 DEF StopTimer
  <2>2. CASE DisengageStep(t)
    BY <2>2 DEF DisengageStep, DisengageGuard, G!Disengaging, G!DisengageFails, G!guardVars
  <2>3. CASE Forget(t)
    BY <2>3 DEF Forget
  <2>4. CASE DClear(t)
    BY <2>4 DEF DClear, ClearRegistry
  <2>5. CASE StopX(t)
    BY <2>5 DEF StopX, StopEngine, X!Halt
  <2>6. CASE StopS(t)
    BY <2>6 DEF StopS, StopEngine, S!Halt
  <2>7. CASE Down(t)
    BY <2>7 DEF Down, Reset
  <2> QED
    BY <1>4, <2>1, <2>2, <2>3, <2>4, <2>5, <2>6, <2>7 DEF DisconnectStep
<1>5. ASSUME NEW t \in Connectors, ConnectStep(t) PROVE TypeOK'
  <2>1. CASE Begin(t)
    BY <2>1 DEF Begin
  <2>2. CASE ConfigLocal(t)
    BY <2>2 DEF ConfigLocal
  <2>3. CASE ConfigRemote(t)
    BY <2>3 DEF ConfigRemote
  <2>4. CASE Fetch(t)
    BY <2>4 DEF Fetch
  <2>5. CASE FetchFails(t)
    BY <2>5 DEF FetchFails
  <2>6. CASE StopOther(t)
    BY <2>6 DEF StopOther, StopEngine, X!Halt, S!Halt
  <2>7. CASE Unguard(t)
    BY <2>7 DEF Unguard, DisengageGuard, G!Disengaging, G!DisengageFails, G!guardVars
  <2>8. CASE Unproxy(t)
    BY <2>8 DEF Unproxy
  <2>9. CASE Clear(t)
    BY <2>9 DEF Clear, ClearRegistry
  <2>10. CASE NoConfig(t)
    BY <2>10 DEF NoConfig
  <2>11. CASE Launch(t)
    BY <2>11 DEF Launch, StartEngine, X!Launch, S!Launch
  <2>12. CASE LaunchFails(t)
    BY <2>12 DEF LaunchFails, StopEngine, X!Halt, S!Halt
  <2>13. CASE Ready(t)
    BY <2>13 DEF Ready
  <2>14. CASE NotReady(t)
    BY <2>14 DEF NotReady
  <2>15. CASE Abort(t)
    BY <2>15 DEF Abort, StopEngine, X!Halt, S!Halt
  <2>16. CASE SetProxy(t)
    BY <2>16 DEF SetProxy
  <2>17. CASE SetProxyFails(t)
    BY <2>17 DEF SetProxyFails
  <2>18. CASE MarkProxy(t)
    BY <2>18 DEF MarkProxy
  <2>19. CASE Engage(t)
    <3>1. fw' \in {"allow", "block"}
      BY <2>19 DEF Engage, G!Engaging, G!EngageFails, G!guardVars
    <3>2. /\ UNCHANGED <<srv, md, attempt, intentVars, statusVars, timerVars, engineVars>>
          /\ UNCHANGED <<boundVars, expiry, known>>
      BY <2>19 DEF Engage
    <3> QED
      BY <3>1, <3>2
  <2>20. CASE Up(t)
    BY <2>20 DEF Up
  <2>21. CASE StartTimer(t)
    BY <2>21 DEF StartTimer, AfterSuccess, Reset
  <2>22. CASE Fail(t)
    BY <2>22 DEF Fail, AfterFailure, Reset
  <2> QED
    BY <1>5, <2>1, <2>2, <2>3, <2>4, <2>5, <2>6, <2>7, <2>8, <2>9, <2>10, <2>11, <2>12, <2>13, <2>14, <2>15, <2>16, <2>17, <2>18, <2>19, <2>20, <2>21, <2>22 DEF ConnectStep
<1>6. CASE Crash
  BY <1>6 DEF Crash, X!Fall, S!Fall
<1>7. CASE Notice
  BY <1>7 DEF Notice, X!Notice, S!Notice
<1>8. CASE OnEngineExit
  BY <1>8 DEF OnEngineExit, X!Deliver, S!Deliver, ShouldReconnect
<1>9. ASSUME ReconnectStep PROVE TypeOK'
  <2>1. CASE RSet
    BY <2>1 DEF RSet
  <2>2. CASE RRead
    BY <2>2 DEF RRead
  <2>3. CASE RCheck
    BY <2>3 DEF RCheck, Reset
  <2>4. CASE RGiveUp
    BY <2>4 DEF RGiveUp
  <2>5. CASE REnd
    BY <2>5 DEF REnd, Reset
  <2> QED
    BY <1>9, <2>1, <2>2, <2>3, <2>4, <2>5 DEF ReconnectStep
<1>10. ASSUME NEW l \in Loops, Tick(l) PROVE TypeOK'
  BY <1>10 DEF Tick
<1>11. ASSUME NEW l \in Loops, RefreshStep(l) PROVE TypeOK'
  <2>1. CASE Mark(l)
    BY <2>1 DEF Mark
  <2>2. CASE RefreshFetch(l)
    BY <2>2 DEF RefreshFetch
  <2>3. CASE RefreshFetchFails(l)
    BY <2>3 DEF RefreshFetchFails
  <2>4. CASE Reload(l)
    BY <2>4 DEF Reload, StartEngine, StopEngine, X!Launch, S!Launch, X!Halt, S!Halt
  <2>5. CASE Unmark(l)
    BY <2>5 DEF Unmark, Reset
  <2>6. CASE LoopExit(l)
    BY <2>6 DEF LoopExit
  <2> QED
    BY <1>11, <2>1, <2>2, <2>3, <2>4, <2>5, <2>6 DEF RefreshStep
<1>12. CASE Age
  BY <1>12 DEF Age
<1>13. ASSUME NEW s \in Removable, RemoveCustomServer(s) PROVE TypeOK'
  BY <1>13 DEF RemoveCustomServer
<1>14. CASE UNCHANGED vars
  BY <1>14 DEF vars
<1> QED
  BY <1>1, <1>2, <1>3, <1>4, <1>5, <1>6, <1>7, <1>8, <1>9, <1>10, <1>11, <1>12, <1>13, <1>14 DEF Next

-----------------------------------------------------------------------------
(* The reconnect loop                                                      *)

LEMMA ReconnectStepInv ==
  ControlOK /\ SingleReconnect /\ [Next]_vars => SingleReconnect'
<1> SUFFICES ASSUME ControlOK, SingleReconnect, [Next]_vars PROVE SingleReconnect'
  OBVIOUS
<1> USE ConnectionAssumption
    DEF ControlOK, SingleReconnect, Threads, Connectors, Goto, Step
<1>1. ASSUME NEW t \in Callers,
             (\E s \in Ids, m \in Modes : Connect(t, s, m)) \/ ConnectBadMode(t) \/ Disconnect(t)
      PROVE  SingleReconnect'
  BY <1>1 DEF Connect, ConnectBadMode, Disconnect
<1>2. ASSUME NEW t \in Callers, DisconnectStep(t) PROVE SingleReconnect'
  <2>1. reconnecting' = reconnecting
    BY <1>2 DEF DisconnectStep, StopTimer, DisengageStep, Forget, DClear, StopX, StopS, Down
  <2> QED  BY <1>2, <2>1, DisconnectMoves DEF Down
<1>3. ASSUME NEW t \in Connectors, ConnectStep(t) PROVE SingleReconnect'
  <2>1. reconnecting' = reconnecting
    BY <1>3 DEF ConnectStep, Begin, ConfigLocal, ConfigRemote, Fetch, FetchFails, StopOther,
                Unguard, Unproxy, Clear, NoConfig, Launch, LaunchFails, Ready, NotReady, Abort,
                SetProxy, SetProxyFails, MarkProxy, Engage, Up, StartTimer, Fail
  <2>2. CASE Fail(t)
    BY <2>1, <2>2 DEF Fail, AfterFailure
  <2>3. CASE StartTimer(t)
    BY <2>1, <2>3 DEF StartTimer, AfterSuccess
  <2> QED  BY <1>3, <2>1, <2>2, <2>3, ConnectMoves DEF ConnectBody
<1>4. CASE Crash \/ Notice \/ Age \/ \E s \in Removable : RemoveCustomServer(s)
  BY <1>4 DEF Crash, Notice, Age, RemoveCustomServer, threadVars
<1>5. CASE OnEngineExit
  BY <1>5 DEF OnEngineExit
<1>6. CASE ReconnectStep
  BY <1>6 DEF ReconnectStep, RSet, RRead, RCheck, RGiveUp, REnd
<1>7. ASSUME NEW l \in Loops, Tick(l) \/ RefreshStep(l) PROVE SingleReconnect'
  BY <1>7 DEF Tick, RefreshStep, Mark, RefreshFetch, RefreshFetchFails, Reload, Unmark, LoopExit
<1>8. CASE UNCHANGED vars
  BY <1>8 DEF vars, threadVars
<1> QED
  BY <1>1, <1>2, <1>3, <1>4, <1>5, <1>6, <1>7, <1>8 DEF Next

-----------------------------------------------------------------------------
(* The refresh loops                                                       *)

\* A closed channel belongs to a loop that has not returned yet.
StoppedIsAlive == stopped \subseteq Loops /\ \A l \in stopped : pc[l] # "idle"

Refreshers == ControlOK /\ refreshStop \in Loops \cup {NoLoop} /\ StoppedIsAlive /\ OneRefreshLoop

LEMMA RefreshersStep == Refreshers /\ [Next]_vars => StoppedIsAlive' /\ OneRefreshLoop'
<1> SUFFICES ASSUME Refreshers, [Next]_vars PROVE StoppedIsAlive' /\ OneRefreshLoop'
  OBVIOUS
<1> USE ConnectionAssumption
    DEF Refreshers, ControlOK, StoppedIsAlive, OneRefreshLoop, Threads, Connectors, Goto, Step
<1>0. ASSUME UNCHANGED <<refreshStop, stopped>>, \A l \in Loops : pc'[l] = "idle" <=> pc[l] = "idle"
      PROVE  StoppedIsAlive' /\ OneRefreshLoop'
  BY <1>0
<1>1. ASSUME NEW t \in Callers,
             (\E s \in Ids, m \in Modes : Connect(t, s, m)) \/ ConnectBadMode(t) \/ Disconnect(t)
      PROVE  StoppedIsAlive' /\ OneRefreshLoop'
  BY <1>0, <1>1 DEF Connect, ConnectBadMode, Disconnect, timerVars
<1>2. ASSUME NEW t \in Callers, DisconnectStep(t) PROVE StoppedIsAlive' /\ OneRefreshLoop'
  <2>1. CASE StopTimer(t)
    BY <2>1 DEF StopTimer
  <2>2. CASE ~StopTimer(t)
    <3>1. UNCHANGED <<refreshStop, stopped>>
      BY <1>2, <2>2 DEF DisconnectStep, DisengageStep, Forget, DClear, StopX, StopS, Down, timerVars
    <3> QED  BY <1>0, <1>2, <3>1, DisconnectMoves DEF Down
  <2> QED  BY <2>1, <2>2
<1>3. ASSUME NEW t \in Connectors, ConnectStep(t) PROVE StoppedIsAlive' /\ OneRefreshLoop'
  <2>1. CASE StartTimer(t)
    BY <2>1 DEF StartTimer
  <2>2. CASE ~StartTimer(t)
    <3>1. UNCHANGED <<refreshStop, stopped>>
      BY <1>3, <2>2
      DEF ConnectStep, Begin, ConfigLocal, ConfigRemote, Fetch, FetchFails, StopOther,
          Unguard, Unproxy, Clear, NoConfig, Launch, LaunchFails, Ready, NotReady, Abort,
          SetProxy, SetProxyFails, MarkProxy, Engage, Up, Fail, timerVars
    <3> QED  BY <1>0, <1>3, <2>2, <3>1, ConnectMoves DEF Fail
  <2> QED  BY <2>1, <2>2
<1>4. CASE Crash \/ Notice \/ Age \/ \E s \in Removable : RemoveCustomServer(s)
  BY <1>4 DEF Crash, Notice, Age, RemoveCustomServer, threadVars, timerVars
<1>5. CASE OnEngineExit
  BY <1>0, <1>5 DEF OnEngineExit, timerVars
<1>6. CASE ReconnectStep
  BY <1>0, <1>6 DEF ReconnectStep, RSet, RRead, RCheck, RGiveUp, REnd, timerVars
<1>7. ASSUME NEW l \in Loops, Tick(l) \/ RefreshStep(l) PROVE StoppedIsAlive' /\ OneRefreshLoop'
  <2>1. CASE LoopExit(l)
    BY <2>1 DEF LoopExit
  <2>2. CASE ~LoopExit(l)
    BY <1>0, <1>7, <2>2
    DEF Tick, RefreshStep, Mark, RefreshFetch, RefreshFetchFails, Reload, Unmark, timerVars
  <2> QED  BY <2>1, <2>2
<1>8. CASE UNCHANGED vars
  BY <1>8 DEF vars, threadVars, timerVars
<1> QED
  BY <1>1, <1>2, <1>3, <1>4, <1>5, <1>6, <1>7, <1>8 DEF Next

\* A goroutine that accounts for a connected state without a timer.
Finishing == {"timer"} \cup DisconnectBody

LEMMA RefreshedStep ==
  ControlOK /\ SingleReconnect /\ ConnectedIsRefreshed /\ [Next]_vars => ConnectedIsRefreshed'
<1> SUFFICES ASSUME ControlOK, SingleReconnect, ConnectedIsRefreshed, [Next]_vars
             PROVE  ConnectedIsRefreshed'
  OBVIOUS
<1> USE ConnectionAssumption DEF ControlOK, Threads, Connectors, Finishing, Goto, Step
<1>0. ASSUME state' = state \/ state' # "connected", refreshStop' = refreshStop,
             \A t \in Connectors : pc[t] \in Finishing => pc'[t] \in Finishing
      PROVE  ConnectedIsRefreshed'
  BY <1>0 DEF ConnectedIsRefreshed
<1>1. ASSUME NEW t \in Callers,
             (\E s \in Ids, m \in Modes : Connect(t, s, m)) \/ ConnectBadMode(t) \/ Disconnect(t)
      PROVE  ConnectedIsRefreshed'
  BY <1>0, <1>1 DEF Connect, ConnectBadMode, Disconnect, statusVars, timerVars, DisconnectBody
<1>2. ASSUME NEW t \in Callers, DisconnectStep(t) PROVE ConnectedIsRefreshed'
  <2>1. CASE Down(t)
    BY <2>1 DEF Down, ConnectedIsRefreshed
  <2>2. CASE ~Down(t)
    <3>1. state' = state
      BY <1>2, <2>2
      DEF DisconnectStep, StopTimer, DisengageStep, Forget, DClear, StopX, StopS, statusVars
    <3>2. PICK to \in DisconnectBody : pc' = [pc EXCEPT ![t] = to]
      BY <1>2, <2>2, DisconnectMoves
    <3>3. pc'[t] \in DisconnectBody /\ t \in Connectors
      BY <3>2
    <3> QED  BY <3>1, <3>3 DEF ConnectedIsRefreshed
  <2> QED  BY <2>1, <2>2
<1>3. ASSUME NEW t \in Connectors, ConnectStep(t) PROVE ConnectedIsRefreshed'
  <2>1. CASE StartTimer(t)
    BY <2>1 DEF StartTimer, ConnectedIsRefreshed
  <2>2. CASE Up(t)
    BY <2>2 DEF Up, ConnectedIsRefreshed
  <2>3. CASE ~StartTimer(t) /\ ~Up(t)
    <3>1. (state' = state \/ state' # "connected") /\ refreshStop' = refreshStop
      BY <1>3, <2>3
      DEF ConnectStep, Begin, ConfigLocal, ConfigRemote, Fetch, FetchFails, StopOther,
          Unguard, Unproxy, Clear, NoConfig, Launch, LaunchFails, Ready, NotReady, Abort,
          SetProxy, SetProxyFails, MarkProxy, Engage, Fail, statusVars, timerVars
    <3>2. pc[t] \notin Finishing
      BY <1>3, <2>3, ConnectMoves DEF ConnectBody, DisconnectBody, Fail
    <3>3. \A u \in Threads : u # t => pc'[u] = pc[u]
      BY <1>3, <2>3, ConnectMoves DEF Fail
    <3> QED  BY <1>0, <3>1, <3>2, <3>3
  <2> QED  BY <2>1, <2>2, <2>3
<1>4. CASE Crash \/ Notice \/ Age \/ \E s \in Removable : RemoveCustomServer(s)
  BY <1>0, <1>4 DEF Crash, Notice, Age, RemoveCustomServer, threadVars, timerVars, statusVars
<1>5. CASE OnEngineExit
  BY <1>0, <1>5
  DEF OnEngineExit, ShouldReconnect, SingleReconnect, timerVars, statusVars, DisconnectBody
<1>6. CASE ReconnectStep
  BY <1>0, <1>6
  DEF ReconnectStep, RSet, RRead, RCheck, RGiveUp, REnd, timerVars, statusVars, DisconnectBody
<1>7. ASSUME NEW l \in Loops, Tick(l) \/ RefreshStep(l) PROVE ConnectedIsRefreshed'
  BY <1>0, <1>7 DEF Tick, RefreshStep, Mark, RefreshFetch, RefreshFetchFails, Reload, Unmark,
                    LoopExit, timerVars, statusVars
<1>8. CASE UNCHANGED vars
  BY <1>0, <1>8 DEF vars, threadVars, timerVars, statusVars
<1> QED
  BY <1>1, <1>2, <1>3, <1>4, <1>5, <1>6, <1>7, <1>8 DEF Next

-----------------------------------------------------------------------------
(* Who is connecting                                                       *)

Attempting == ConnectBody \cup {"rRead", "rCheck"}

LEMMA ExplainedStep ==
  ControlOK /\ SingleReconnect /\ ConnectingIsExplained /\ [Next]_vars => ConnectingIsExplained'
<1> SUFFICES ASSUME ControlOK, SingleReconnect, ConnectingIsExplained, [Next]_vars
             PROVE  ConnectingIsExplained'
  OBVIOUS
<1> USE ConnectionAssumption DEF ControlOK, Threads, Connectors, Attempting, Goto, Step
<1>0. ASSUME state' = state \/ state' # "connecting", want' => want,
             \A t \in Connectors : pc[t] \in Attempting => pc'[t] \in Attempting
      PROVE  ConnectingIsExplained'
  BY <1>0 DEF ConnectingIsExplained
<1>1. ASSUME NEW t \in Callers, NEW s \in Ids, NEW m \in Modes, Connect(t, s, m)
      PROVE  ConnectingIsExplained'
  BY <1>1 DEF Connect, ConnectingIsExplained, ConnectBody
<1>2. ASSUME NEW t \in Callers, ConnectBadMode(t) \/ Disconnect(t) PROVE ConnectingIsExplained'
  BY <1>0, <1>2 DEF ConnectBadMode, Disconnect, statusVars, intentVars, ConnectBody
<1>3. ASSUME NEW t \in Callers, DisconnectStep(t) PROVE ConnectingIsExplained'
  <2>1. (state' = state \/ state' # "connecting") /\ (want' => want)
    BY <1>3 DEF DisconnectStep, StopTimer, DisengageStep, Forget, DClear, StopX, StopS, Down,
                statusVars, intentVars
  <2>2. pc[t] \notin Attempting
    BY <1>3, DisconnectMoves DEF Down, DisconnectBody, ConnectBody
  <2>3. \A u \in Threads : u # t => pc'[u] = pc[u]
    BY <1>3, DisconnectMoves DEF Down
  <2> QED  BY <1>0, <2>1, <2>2, <2>3
<1>4. ASSUME NEW t \in Connectors, ConnectStep(t) PROVE ConnectingIsExplained'
  <2>1. CASE StartTimer(t)
    BY <1>0, <2>1 DEF StartTimer, statusVars, intentVars, ConnectBody
  <2>2. CASE Up(t) \/ Fail(t)
    BY <2>2 DEF Up, Fail, ConnectingIsExplained
  <2>3. CASE ~StartTimer(t) /\ ~Up(t) /\ ~Fail(t)
    <3>1. /\ pc'[t] \in ConnectBody
          /\ \A u \in Threads : u # t => pc'[u] = pc[u]
      BY <1>4, <2>3
      DEF ConnectStep, ConnectBody, Begin, ConfigLocal, ConfigRemote, Fetch, FetchFails, StopOther,
          Unguard, Unproxy, Clear, NoConfig, Launch, LaunchFails, Ready, NotReady, Abort,
          SetProxy, SetProxyFails, MarkProxy, Engage
    <3> QED  BY <3>1 DEF ConnectingIsExplained
  <2> QED  BY <2>1, <2>2, <2>3
<1>5. CASE Crash \/ Notice \/ Age \/ \E s \in Removable : RemoveCustomServer(s)
  BY <1>0, <1>5 DEF Crash, Notice, Age, RemoveCustomServer, threadVars, intentVars, statusVars
<1>6. CASE OnEngineExit
  BY <1>0, <1>6
  DEF OnEngineExit, ShouldReconnect, SingleReconnect, intentVars, statusVars, ConnectBody
<1>7. CASE ReconnectStep
  <2>1. CASE RSet
    BY <2>1 DEF RSet, ConnectingIsExplained
  <2>2. CASE RRead
    BY <2>2 DEF RRead, ConnectingIsExplained, intentVars, statusVars
  <2>3. CASE RCheck
    BY <2>3 DEF RCheck, ConnectingIsExplained, intentVars, statusVars, ConnectBody
  <2>4. CASE RGiveUp \/ REnd
    BY <1>0, <2>4 DEF RGiveUp, REnd, intentVars, statusVars, ConnectBody
  <2> QED  BY <1>7, <2>1, <2>2, <2>3, <2>4 DEF ReconnectStep
<1>8. ASSUME NEW l \in Loops, Tick(l) \/ RefreshStep(l) PROVE ConnectingIsExplained'
  BY <1>0, <1>8 DEF Tick, RefreshStep, Mark, RefreshFetch, RefreshFetchFails, Reload, Unmark,
                    LoopExit, intentVars, statusVars
<1>9. CASE UNCHANGED vars
  BY <1>0, <1>9 DEF vars, threadVars, intentVars, statusVars
<1> QED
  BY <1>1, <1>2, <1>3, <1>4, <1>5, <1>6, <1>7, <1>8, <1>9 DEF Next

-----------------------------------------------------------------------------
(* The system proxy                                                        *)

\* A goroutine between the registry and proxyOn.
Holding == {"markProxy", "clear", "dclear"}

LEMMA OwnedStep ==
  ASSUME "registry" \notin May
  PROVE  ControlOK /\ SingleReconnect /\ ProxyIsOwned /\ [Next]_vars => ProxyIsOwned'
<1> SUFFICES ASSUME ControlOK, SingleReconnect, ProxyIsOwned, [Next]_vars
             PROVE  ProxyIsOwned'
  OBVIOUS
<1> USE ConnectionAssumption DEF ControlOK, Threads, Connectors, Holding, Goto, Step
<1>0. ASSUME reg' = reg, proxyOn' = proxyOn,
             \A t \in Connectors : pc[t] \in Holding => pc'[t] \in Holding
      PROVE  ProxyIsOwned'
  BY <1>0 DEF ProxyIsOwned
<1>1. ASSUME NEW t \in Callers,
             (\E s \in Ids, m \in Modes : Connect(t, s, m)) \/ ConnectBadMode(t) \/ Disconnect(t)
      PROVE  ProxyIsOwned'
  BY <1>0, <1>1 DEF Connect, ConnectBadMode, Disconnect
<1>2. ASSUME NEW t \in Callers, DisconnectStep(t) PROVE ProxyIsOwned'
  <2>1. CASE Forget(t)
    <3>1. reg' = reg /\ \A u \in Threads : u # t => pc'[u] = pc[u]
      BY <2>1 DEF Forget
    <3>2. pc[t] = "forget" /\ (proxyOn => pc'[t] = "dclear")
      BY <2>1 DEF Forget
    <3> QED  BY <3>1, <3>2 DEF ProxyIsOwned
  <2>2. CASE DClear(t)
    BY <2>2 DEF DClear, ClearRegistry, ProxyIsOwned
  <2>3. CASE ~Forget(t) /\ ~DClear(t)
    BY <1>0, <1>2, <2>3
    DEF DisconnectStep, StopTimer, DisengageStep, StopX, StopS, Down
  <2> QED  BY <2>1, <2>2, <2>3
<1>3. ASSUME NEW t \in Connectors, ConnectStep(t) PROVE ProxyIsOwned'
  <2>1. CASE Unproxy(t)
    <3>1. reg' = reg /\ \A u \in Threads : u # t => pc'[u] = pc[u]
      BY <2>1 DEF Unproxy
    <3>2. pc[t] = "unproxy" /\ (proxyOn => pc'[t] = "clear")
      BY <2>1 DEF Unproxy
    <3> QED  BY <3>1, <3>2 DEF ProxyIsOwned
  <2>2. CASE Clear(t)
    BY <2>2 DEF Clear, ClearRegistry, ProxyIsOwned
  <2>3. CASE SetProxy(t)
    BY <2>3 DEF SetProxy, ProxyIsOwned
  <2>4. CASE MarkProxy(t)
    BY <2>4 DEF MarkProxy, ProxyIsOwned
  <2>5. CASE ~Unproxy(t) /\ ~Clear(t) /\ ~SetProxy(t) /\ ~MarkProxy(t)
    <3>1. reg' = reg /\ proxyOn' = proxyOn
      BY <1>3, <2>5
      DEF ConnectStep, Begin, ConfigLocal, ConfigRemote, Fetch, FetchFails, StopOther,
          Unguard, NoConfig, Launch, LaunchFails, Ready, NotReady, Abort,
          SetProxyFails, Engage, Up, StartTimer, Fail
    <3>2. pc[t] \notin Holding
      BY <1>3, <2>5
      DEF ConnectStep, Begin, ConfigLocal, ConfigRemote, Fetch, FetchFails, StopOther,
          Unguard, NoConfig, Launch, LaunchFails, Ready, NotReady, Abort,
          SetProxyFails, Engage, Up, StartTimer, Fail
    <3>3. \A u \in Connectors : u # t => pc'[u] = pc[u]
      BY <1>3, ConnectMoves DEF StartTimer, Fail
    <3> QED  BY <1>0, <3>1, <3>2, <3>3
  <2> QED  BY <2>1, <2>2, <2>3, <2>4, <2>5
<1>4. CASE Crash \/ Notice \/ Age \/ \E s \in Removable : RemoveCustomServer(s)
  BY <1>0, <1>4 DEF Crash, Notice, Age, RemoveCustomServer, threadVars
<1>5. CASE OnEngineExit
  BY <1>0, <1>5 DEF OnEngineExit, ShouldReconnect, SingleReconnect
<1>6. CASE ReconnectStep
  BY <1>0, <1>6 DEF ReconnectStep, RSet, RRead, RCheck, RGiveUp, REnd
<1>7. ASSUME NEW l \in Loops, Tick(l) \/ RefreshStep(l) PROVE ProxyIsOwned'
  BY <1>0, <1>7 DEF Tick, RefreshStep, Mark, RefreshFetch, RefreshFetchFails, Reload, Unmark,
                    LoopExit
<1>8. CASE UNCHANGED vars
  BY <1>0, <1>8 DEF vars, threadVars
<1> QED
  BY <1>1, <1>2, <1>3, <1>4, <1>5, <1>6, <1>7, <1>8 DEF Next

-----------------------------------------------------------------------------
(* Custom servers                                                          *)

Asking == {"fetch"} \cup RefreshBody

LEMMA LocalStep ==
  ASSUME Removable = {}
  PROVE  TypeOK /\ known = Customs /\ CustomStaysLocal /\ [Next]_vars
           => known' = Customs /\ CustomStaysLocal'
<1> SUFFICES ASSUME TypeOK, known = Customs, CustomStaysLocal, [Next]_vars
             PROVE  known' = Customs /\ CustomStaysLocal'
  OBVIOUS
<1> USE ConnectionAssumption
    DEF TypeOK, ControlOK, Threads, Connectors, Asking, RefreshBody, Reset, Goto, Step
<1>0. ASSUME known' = known,
             \A t \in Threads : \/ pc'[t] \notin Asking
                                \/ pc'[t] = pc[t] /\ srv'[t] = srv[t]
                                \/ srv'[t] \notin Customs
      PROVE  known' = Customs /\ CustomStaysLocal'
  BY <1>0 DEF CustomStaysLocal
<1>1. ASSUME NEW t \in Callers,
             (\E s \in Ids, m \in Modes : Connect(t, s, m)) \/ ConnectBadMode(t) \/ Disconnect(t)
      PROVE  known' = Customs /\ CustomStaysLocal'
  BY <1>0, <1>1 DEF Connect, ConnectBadMode, Disconnect
<1>2. ASSUME NEW t \in Callers, DisconnectStep(t) PROVE known' = Customs /\ CustomStaysLocal'
  <2>1. /\ known' = known
        /\ pc'[t] \notin Asking
        /\ \A u \in Threads : u # t => pc'[u] = pc[u] /\ srv'[u] = srv[u]
    BY <1>2 DEF DisconnectStep, StopTimer, DisengageStep, Forget, DClear, StopX, StopS, Down
  <2> QED  BY <1>0, <2>1
<1>3. ASSUME NEW t \in Connectors, ConnectStep(t) PROVE known' = Customs /\ CustomStaysLocal'
  <2>1. CASE ConfigRemote(t)
    BY <1>0, <2>1 DEF ConfigRemote
  <2>2. CASE StartTimer(t)
    BY <1>0, <2>2 DEF StartTimer, AfterSuccess
  <2>3. CASE Fail(t)
    BY <1>0, <2>3 DEF Fail, AfterFailure
  <2>4. CASE ~ConfigRemote(t) /\ ~StartTimer(t) /\ ~Fail(t)
    <3>1. /\ known' = known /\ srv' = srv
          /\ pc'[t] \notin Asking
          /\ \A u \in Threads : u # t => pc'[u] = pc[u]
      BY <1>3, <2>4
      DEF ConnectStep, Begin, ConfigLocal, Fetch, FetchFails, StopOther, Unguard, Unproxy,
          Clear, NoConfig, Launch, LaunchFails, Ready, NotReady, Abort, SetProxy,
          SetProxyFails, MarkProxy, Engage, Up
    <3> QED  BY <1>0, <3>1
  <2> QED  BY <2>1, <2>2, <2>3, <2>4
<1>4. CASE Crash \/ Notice \/ Age
  BY <1>0, <1>4 DEF Crash, Notice, Age, threadVars
<1>5. CASE OnEngineExit
  BY <1>0, <1>5 DEF OnEngineExit
<1>6. CASE ReconnectStep
  BY <1>0, <1>6 DEF ReconnectStep, RSet, RRead, RCheck, RGiveUp, REnd
<1>7. ASSUME NEW l \in Loops, Tick(l) PROVE known' = Customs /\ CustomStaysLocal'
  BY <1>0, <1>7 DEF Tick, DueForRefresh
<1>8. ASSUME NEW l \in Loops, RefreshStep(l) PROVE known' = Customs /\ CustomStaysLocal'
  <2>1. CASE Unmark(l) \/ LoopExit(l)
    BY <1>0, <2>1 DEF Unmark, LoopExit
  <2>2. CASE Mark(l) \/ RefreshFetch(l) \/ RefreshFetchFails(l) \/ Reload(l)
    <3>1. pc[l] \in Asking /\ known' = known /\ srv' = srv
      BY <2>2 DEF Mark, RefreshFetch, RefreshFetchFails, Reload
    <3>2. \A u \in Threads : u # l => pc'[u] = pc[u]
      BY <2>2 DEF Mark, RefreshFetch, RefreshFetchFails, Reload
    <3>3. srv[l] \notin Customs
      BY <3>1 DEF CustomStaysLocal
    <3> QED  BY <1>0, <3>1, <3>2, <3>3
  <2> QED  BY <1>8, <2>1, <2>2 DEF RefreshStep
<1>9. CASE UNCHANGED vars
  BY <1>0, <1>9 DEF vars, threadVars
<1> QED
  BY <1>1, <1>2, <1>3, <1>4, <1>5, <1>6, <1>7, <1>8, <1>9 DEF Next

-----------------------------------------------------------------------------
(* Theorems                                                                *)

\* The inductive invariant. It holds for any number of callers, refresh loops,
\* servers, calls, crashes and attempts, and whatever the environment does.
IInv == /\ TypeOK
        /\ SingleReconnect
        /\ StoppedIsAlive /\ OneRefreshLoop
        /\ ConnectedIsRefreshed
        /\ ConnectingIsExplained

LEMMA InitInvariant == Init => IInv /\ ProxyIsOwned /\ known = Customs /\ CustomStaysLocal
<1> SUFFICES ASSUME Init
             PROVE  IInv /\ ProxyIsOwned /\ known = Customs /\ CustomStaysLocal
  OBVIOUS
<1> USE ConnectionAssumption DEF Init, Threads, Connectors
<1>1. ControlOK
  BY DEF ControlOK, Labels, CallerLabels, LoopLabels, RefreshLabels
<1>2. FlagsOK
  BY DEF FlagsOK
<1>3. TypeOK
  BY <1>1, <1>2
  DEF TypeOK, Ids, Modes, X!Init, S!Init, X!AbsTypeOK, S!AbsTypeOK
<1>4. SingleReconnect /\ StoppedIsAlive /\ OneRefreshLoop
  BY DEF SingleReconnect, StoppedIsAlive, OneRefreshLoop
<1>5. ConnectedIsRefreshed /\ ConnectingIsExplained /\ ProxyIsOwned
  BY DEF ConnectedIsRefreshed, ConnectingIsExplained, ProxyIsOwned
<1>6. known = Customs /\ CustomStaysLocal
  BY DEF CustomStaysLocal, RefreshBody
<1> QED  BY <1>3, <1>4, <1>5, <1>6 DEF IInv

LEMMA StepInvariant == IInv /\ [Next]_vars => IInv'
<1> SUFFICES ASSUME IInv, [Next]_vars PROVE IInv'
  OBVIOUS
<1>1. TypeOK' /\ SingleReconnect' /\ ConnectedIsRefreshed' /\ ConnectingIsExplained'
  BY TypeStep, ReconnectStepInv, RefreshedStep, ExplainedStep DEF IInv, TypeOK
<1>2. StoppedIsAlive' /\ OneRefreshLoop'
  BY RefreshersStep DEF IInv, TypeOK, Refreshers
<1> QED  BY <1>1, <1>2 DEF IInv

THEOREM ConnectionInvariant == Spec => []IInv
BY InitInvariant, StepInvariant, PTL DEF Spec

\* Every goroutine is at a program point it has, every field holds a value the
\* code can put there.
THEOREM ConnectionTypeOK == Spec => []TypeOK
<1>1. IInv => TypeOK  BY DEF IInv
<1> QED  BY <1>1, ConnectionInvariant, PTL

\* App.reconnecting is the life of the reconnect loop, no more and no less.
THEOREM ConnectionSingleReconnect == Spec => []SingleReconnect
<1>1. IInv => SingleReconnect  BY DEF IInv
<1> QED  BY <1>1, ConnectionInvariant, PTL

\* onEngineExit never starts a second reconnect loop beside a live one.
THEOREM ConnectionOneLoopAtATime == Spec => OneLoopAtATime
<1> DEFINE Started == pc[RL] # "rSet" /\ pc'[RL] = "rSet" => pc[RL] = "idle"
<1>1. IInv /\ [Next]_vars => [Started]_vars
  <2> SUFFICES ASSUME IInv, Next, pc[RL] # "rSet", pc'[RL] = "rSet"
               PROVE  pc[RL] = "idle"
    BY DEF vars
  <2> USE ConnectionAssumption
      DEF IInv, TypeOK, ControlOK, Threads, Connectors, Goto, Step
  <2>1. CASE OnEngineExit
    BY <2>1 DEF OnEngineExit, ShouldReconnect, SingleReconnect
  <2>2. ASSUME NEW t \in Callers, (\E s \in Ids, m \in Modes : Connect(t, s, m)) \/ ConnectBadMode(t)
                               \/ Disconnect(t) \/ DisconnectStep(t)
        PROVE  FALSE
    BY <2>2, DisconnectMoves DEF Connect, ConnectBadMode, Disconnect, Down
  <2>3. ASSUME NEW t \in Connectors, ConnectStep(t) PROVE FALSE
    BY <2>3, ConnectMoves DEF StartTimer, AfterSuccess, Fail, AfterFailure, ConnectBody
  <2>4. CASE ReconnectStep
    BY <2>4 DEF ReconnectStep, RSet, RRead, RCheck, RGiveUp, REnd
  <2>5. ASSUME NEW l \in Loops, Tick(l) \/ RefreshStep(l) PROVE FALSE
    BY <2>5 DEF Tick, RefreshStep, Mark, RefreshFetch, RefreshFetchFails, Reload, Unmark, LoopExit
  <2>6. CASE Crash \/ Notice \/ Age \/ \E s \in Removable : RemoveCustomServer(s)
    BY <2>6 DEF Crash, Notice, Age, RemoveCustomServer, threadVars
  <2> QED  BY <2>1, <2>2, <2>3, <2>4, <2>5, <2>6 DEF Next
<1> QED  BY <1>1, ConnectionInvariant, PTL DEF Spec, OneLoopAtATime

\* At most one refresh loop goes on after a Disconnect, and refreshStop is its
\* channel.
THEOREM ConnectionOneRefreshLoop == Spec => []OneRefreshLoop
<1>1. IInv => OneRefreshLoop  BY DEF IInv
<1> QED  BY <1>1, ConnectionInvariant, PTL

\* A connection that is reported up has a refresh timer, or will have one, or
\* is being taken down.
THEOREM ConnectionConnectedIsRefreshed == Spec => []ConnectedIsRefreshed
<1>1. IInv => ConnectedIsRefreshed  BY DEF IInv
<1> QED  BY <1>1, ConnectionInvariant, PTL

\* "connecting" is never left standing while the user wants the connection.
THEOREM ConnectionConnectingIsExplained == Spec => []ConnectingIsExplained
<1>1. IInv => ConnectingIsExplained  BY DEF IInv
<1> QED  BY <1>1, ConnectionInvariant, PTL

\* With a registry that can be written, the system proxy always has an owner.
THEOREM ConnectionProxyIsOwned == ASSUME "registry" \notin May PROVE Spec => []ProxyIsOwned
<1>1. IInv /\ ProxyIsOwned /\ [Next]_vars => ProxyIsOwned'
  BY OwnedStep DEF IInv, TypeOK
<1> QED  BY <1>1, InitInvariant, ConnectionInvariant, PTL DEF Spec

\* Unless the user deletes a custom server that is in use, the backend is
\* never asked about one.
THEOREM ConnectionCustomStaysLocal == ASSUME Removable = {} PROVE Spec => []CustomStaysLocal
<1> DEFINE Local == known = Customs /\ CustomStaysLocal
<1>1. Init => Local
  BY InitInvariant
<1>2. IInv /\ Local /\ [Next]_vars => Local'
  BY LocalStep DEF IInv
<1>3. Local => CustomStaysLocal
  OBVIOUS
<1> QED  BY <1>1, <1>2, <1>3, ConnectionInvariant, PTL DEF Spec

-----------------------------------------------------------------------------
(* One thing after the other                                               *)

\* The registry and the firewall do as they are told.
Obedient == May \cap {"registry", "firewall"} = {}

\* A failing start can hit a refresh, which has stopped the engine by then.
RefreshMayFail == {"age", "launch"} \subseteq May

\* connect() serves the server and the mode asked for last.
Serving(t) == want /\ srv[t] = lastServer /\ md[t] = lastMode
OtherDown(t) == IF md[t] = "tun" THEN xs = "none" ELSE ss = "none"
\* The proxy is not set in TUN, the kill-switch not engaged for the proxy.
OtherUndone(t) == IF md[t] = "tun" THEN ~reg ELSE ~on
OwnUp(t) == EngineUp(md[t]) /\ serves[md[t]] = srv[t]

Trying == {"config", "fetch", "stopOther", "unguard", "unproxy", "clear", "launch", "ready",
           "abort", "setProxy", "markProxy", "engage", "up"}
Raising == {"ready", "setProxy", "markProxy", "engage", "up", "timer"}
Leaving == {"dclear", "stopX", "stopS", "down"}

\* What connect() has brought about where it stands, ...
Connecting(t) ==
  /\ pc[t] \in Trying \cup {"begin", "timer"} => Serving(t)
  /\ pc[t] \in Trying => state = "connecting"
  /\ pc[t] \in Trying \cup {"timer"} => mode = md[t]
  /\ pc[t] \in {"unguard", "unproxy", "clear", "launch", "abort"} \cup Raising => OtherDown(t)
  /\ pc[t] \in {"unguard", "setProxy", "markProxy"} => md[t] = "proxy"
  /\ pc[t] \in {"unproxy", "clear", "engage"} => md[t] = "tun"
  /\ pc[t] \in {"launch"} \cup Raising => OtherUndone(t)
  /\ pc[t] \in Raising => OwnUp(t)
  /\ pc[t] \in {"up", "timer"} /\ md[t] = "proxy" => reg
  /\ pc[t] = "timer" => state = "connected"

\* ... and Disconnect.
Disconnecting(t) ==
  /\ pc[t] \in {"forget"} \cup Leaving => ~on
  /\ pc[t] \in Leaving => ~want /\ ~proxyOn
  /\ pc[t] \in {"stopX", "stopS", "down"} => ~reg
  /\ pc[t] \in {"stopS", "down"} => xs = "none"
  /\ pc[t] = "down" => ss = "none"

\* The flag follows the registry, and the other way round.
ProxyFlag(t) ==
  /\ pc[t] = "markProxy" => reg
  /\ pc[t] \in {"clear", "dclear"} => ~proxyOn
  /\ pc[t] \notin {"markProxy", "clear", "dclear"} => (reg <=> proxyOn)

\* A connection reported up is the one asked for last, in its mode and alone;
\* its engine is up unless a crash of it is on its way or a refresh has failed
\* to start it again.
Serves(st, fallen) == st = "up" \/ fallen \/ (RefreshMayFail /\ st = "none")
AsAsked ==
  /\ want /\ mode = lastMode /\ serves[mode] = lastServer
  /\ mode = "proxy" => Serves(xs, XFallen) /\ ss = "none" /\ ~SFallen /\ reg /\ ~on
  /\ mode = "tun" => Serves(ss, SFallen) /\ xs = "none" /\ ~XFallen /\ ~reg

\* What is true of a user who has left, ...
NothingLeft == xs = "none" /\ ss = "none" /\ ~reg /\ ~proxyOn /\ ~on
\* ... and with no connect, disconnect or reconnect at work.
Settled ==
  /\ reg <=> proxyOn
  /\ ~want => NothingLeft /\ ~XFallen /\ ~SFallen /\ state # "connected"
  /\ state # "connecting"
  /\ state = "connected" => AsAsked

\* A goroutine in the middle of a connect, a disconnect or a reconnect.
AtWork(t) == pc[t] \notin {"idle", "select", "rEnd"}
Relies(t) ==
  /\ Connecting(t) /\ Disconnecting(t) /\ ProxyFlag(t)
  /\ pc[t] = "fail" /\ ~want => NothingLeft

\* The reconnect loop runs for a user who wants to be connected.
Reconnecting == (pc[RL] # "idle" => want) /\ (pc[RL] = "rCheck" => Serving(RL))

\* A refresh loads what was asked for last.
Refreshing(l) ==
  pc[l] \in {"mark", "rfetch", "reload"} =>
    srv[l] = lastServer /\ md[l] = lastMode /\ state = "connected" /\ "age" \in May

GuardKnown == (on <=> fw = "block") /\ (expiry = "near" => "age" \in May)

Sequential ==
  /\ GuardKnown /\ Reconnecting
  /\ \A t \in Connectors : AtWork(t) => Relies(t)
  /\ \A l \in Loops : Refreshing(l)
  /\ (\A t \in Connectors : ~AtWork(t)) => Settled

-----------------------------------------------------------------------------
(* The steps                                                               *)

\* While a connector is at work nobody else is, and nothing has fallen.
LEMMA WorksAlone ==
  ASSUME OneAtATime, NEW t \in Threads, Busy(t)
  PROVE  /\ \A u \in Threads : u # t => pc[u] \in {"idle", "select"}
         /\ xe \notin Nat \ {0} /\ se \notin Nat \ {0} /\ xs # "down" /\ ss # "down"
BY DEF OneAtATime, Busy, XFallen, SFallen

\* A refresh loop that starts or goes on waiting is nobody at work.
LEMMA OthersStay ==
  ASSUME ControlOK, NEW c \in Connectors, \A u \in Threads : u # c => pc[u] \in {"idle", "select"},
         \/ \E to : pc' = [pc EXCEPT ![c] = to]
         \/ \E to : \E l \in Loops : pc' = [pc EXCEPT ![c] = to, ![l] = "select"]
  PROVE  \A u \in Threads : u # c => pc'[u] \in {"idle", "select"}
BY DEF ControlOK, Threads

\* What the step of a connector at work has to keep.
LEMMA SoleStep ==
  ASSUME NEW c \in Connectors, \A u \in Threads : u # c => pc'[u] \in {"idle", "select"},
         GuardKnown', c # RL => pc'[RL] = "idle", c = RL /\ pc'[c] # "idle" => want',
         c = RL /\ pc'[c] = "rCheck" => Serving(c)',
         AtWork(c)' => Relies(c)', ~AtWork(c)' => Settled'
  PROVE  Sequential'
<1> USE ConnectionAssumption DEF Threads, Connectors
<1>1. \A t \in Connectors : t # c => ~AtWork(t)'
  BY DEF AtWork
<1>2. Reconnecting'
  BY DEF Reconnecting
<1>3. \A l \in Loops : Refreshing(l)'
  BY DEF Refreshing
<1> QED
  BY <1>1, <1>2, <1>3 DEF Sequential

\* With a firewall that obeys, the guard knows its state.
LEMMA EngageKeepsGuard ==
  ASSUME NEW t, Engage(t), "firewall" \notin May, on <=> fw = "block"
  PROVE  on' <=> fw' = "block"
<1>1. UNCHANGED <<fw, on>> \/ (fw' = "block" /\ on')
  BY Zenon DEF Engage, G!Engaging, guardVars
<1> QED
  BY <1>1, Zenon

\* What a step of connect() or Disconnect leaves to rely on.
LEMMA WorkStep ==
  ASSUME Obedient, TypeOK, OneAtATime, Sequential, NEW c \in Connectors,
         ConnectStep(c) \/ (c \in Callers /\ DisconnectStep(c))
  PROVE  Sequential'
<1>1. /\ pc \in [Threads -> Labels] /\ c \in Threads /\ RL \in Threads /\ Loops \subseteq Threads
      /\ c \notin Loops /\ (c # RL => c \in Callers) /\ RL \notin Callers
      /\ srv \in [Threads -> Ids] /\ md \in [Threads -> Modes] /\ serves \in [Modes -> Ids]
      /\ lastMode \in Modes /\ mode \in Modes /\ FlagsOK /\ ControlOK
      /\ xe \in Nat /\ se \in Nat
      /\ md[c] \in Modes /\ "proxy" \in Modes /\ "tun" \in Modes
      /\ "registry" \notin May /\ "firewall" \notin May
  BY ConnectionAssumption DEF TypeOK, ControlOK, Threads, Connectors, Modes, Obedient, X!AbsTypeOK, S!AbsTypeOK
<1>2. pc[c] \notin {"idle", "select", "rEnd"}
  <2>1. CASE ConnectStep(c)
    BY <2>1, ConnectMoves DEF ConnectBody, Fail, StartTimer, Goto
  <2>2. CASE c \in Callers /\ DisconnectStep(c)
    BY <2>2, DisconnectMoves DEF DisconnectBody, Down, Goto
  <2> QED
    BY <2>1, <2>2
<1>3. /\ \A u \in Threads : u # c => pc[u] \in {"idle", "select"}
      /\ xe = 0 /\ se = 0 /\ xs # "down" /\ ss # "down"
  BY <1>1, <1>2, WorksAlone DEF Busy
<1>4. GuardKnown /\ Relies(c) /\ (c = RL => want) /\ (c # RL => pc[RL] = "idle")
  <2>1. pc[RL] # "select"
    BY <1>1 DEF ControlOK, LoopLabels, ConnectBody, ReconnectBody
  <2> QED
    BY <1>1, <1>2, <1>3, <2>1 DEF Sequential, AtWork, Reconnecting
<1>5. \A u \in Threads : u # c => pc'[u] \in {"idle", "select"}
  <2>1. CASE ConnectStep(c)
    BY <1>1, <1>3, <2>1, ConnectMoves, OthersStay DEF Fail, StartTimer, Goto
  <2>2. CASE c \in Callers /\ DisconnectStep(c)
    BY <1>1, <1>3, <2>2, DisconnectMoves, OthersStay DEF Down, Goto
  <2> QED
    BY <2>1, <2>2
<1>6. c # RL => pc'[RL] = "idle"
  <2>1. CASE ConnectStep(c)
    BY <1>1, <1>4, <2>1, ConnectMoves, ConnectionAssumption DEF Fail, StartTimer, Goto
  <2>2. CASE c \in Callers /\ DisconnectStep(c)
    BY <1>1, <1>4, <2>2, DisconnectMoves DEF Down, Goto
  <2> QED
    BY <2>1, <2>2
<1> DEFINE Kept == /\ GuardKnown' /\ (c = RL => want') /\ pc'[c] # "rCheck"
                   /\ AtWork(c)' => Relies(c)'
                   /\ ~AtWork(c)' => Settled'
<1> SUFFICES Kept
  BY <1>5, <1>6, SoleStep
<1> USE <1>1, <1>2, <1>3, <1>4
    DEF Goto, Step, AtWork, Relies, Connecting, Disconnecting, ProxyFlag, Settled, Serving,
        OtherDown, OtherUndone, OwnUp, NothingLeft, AsAsked, Serves, XFallen, SFallen, GuardKnown,
        Trying, Raising, Leaving, EngineUp, Modes, FlagsOK, threadVars, intentVars, statusVars,
        timerVars, engineVars, guardVars, boundVars
<1>7. CASE c \in Callers /\ DisconnectStep(c)
  <2>1. CASE StopTimer(c)
    BY <2>1 DEF StopTimer
  <2>2. CASE DisengageStep(c)
    BY <2>2 DEF DisengageStep, DisengageGuard, G!Disengaging, G!DisengageFails, G!guardVars
  <2>3. CASE Forget(c)
    <3>1. /\ pc[c] = "forget" /\ pc'[c] = IF proxyOn THEN "dclear" ELSE "stopX"
          /\ ~proxyOn' /\ ~want' /\ expiry' = "zero"
          /\ UNCHANGED <<srv, md, lastMode, state, mode, xs, xe, ss, se, serves, fw, on, reg>>
      BY <2>3 DEF Forget
    <3> QED
      BY <1>7, <3>1
  <2>4. CASE DClear(c)
    BY <2>4 DEF DClear, ClearRegistry
  <2>5. CASE StopX(c)
    BY <2>5 DEF StopX, StopEngine, X!Halt
  <2>6. CASE StopS(c)
    BY <2>6 DEF StopS, StopEngine, S!Halt
  <2>7. CASE Down(c)
    BY <2>7 DEF Down, Reset
  <2> QED
    BY <1>7, <2>1, <2>2, <2>3, <2>4, <2>5, <2>6, <2>7 DEF DisconnectStep
<1>8. CASE ConnectStep(c)
  <2>1. CASE Begin(c)
    BY <2>1 DEF Begin
  <2>2. CASE ConfigLocal(c)
    BY <2>2 DEF ConfigLocal
  <2>3. CASE ConfigRemote(c)
    BY <2>3 DEF ConfigRemote
  <2>4. CASE Fetch(c)
    BY <2>4 DEF Fetch
  <2>5. CASE FetchFails(c)
    BY <2>5 DEF FetchFails
  <2>6. CASE StopOther(c)
    BY <2>6 DEF StopOther, StopEngine, OtherMode, X!Halt, S!Halt
  <2>7. CASE Unguard(c)
    BY <2>7 DEF Unguard, DisengageGuard, G!Disengaging, G!DisengageFails, G!guardVars
  <2>8. CASE Unproxy(c)
    BY <2>8 DEF Unproxy
  <2>9. CASE Clear(c)
    BY <2>9 DEF Clear, ClearRegistry
  <2>10. CASE NoConfig(c)
    BY <2>10 DEF NoConfig
  <2>11. CASE Launch(c)
    BY <2>11 DEF Launch, StartEngine, X!Launch, S!Launch
  <2>12. CASE LaunchFails(c)
    BY <2>12 DEF LaunchFails, StopEngine, X!Halt, S!Halt
  <2>13. CASE Ready(c)
    BY <2>13 DEF Ready, Answers
  <2>14. CASE NotReady(c)
    BY <2>14 DEF NotReady, Answers
  <2>15. CASE Abort(c)
    BY <2>15 DEF Abort, StopEngine, X!Halt, S!Halt
  <2>16. CASE SetProxy(c)
    BY <2>16 DEF SetProxy
  <2>17. CASE SetProxyFails(c)
    BY <2>17 DEF SetProxyFails
  <2>18. CASE MarkProxy(c)
    BY <2>18 DEF MarkProxy
  <2>19. CASE Engage(c)
    <3>1. on' <=> fw' = "block"
      BY <2>19, EngageKeepsGuard
    <3>2. /\ Step(c, "engage", "up")
          /\ UNCHANGED <<intentVars, statusVars, timerVars, engineVars, boundVars>>
          /\ UNCHANGED <<reconnecting, proxyOn, expiry, refreshing, reg, known>>
      BY <2>19 DEF Engage
    <3> QED
      BY <3>1, <3>2
  <2>20. CASE Up(c)
    BY <2>20 DEF Up
  <2>21. CASE StartTimer(c)
    <3>1. pc[c] = "timer" /\ pc'[c] = AfterSuccess(c)
      BY <2>21, ConnectionAssumption DEF StartTimer
    <3>2. /\ UNCHANGED <<intentVars, statusVars, engineVars, guardVars, boundVars>>
          /\ UNCHANGED <<reconnecting, proxyOn, expiry, refreshing, reg, known>>
      BY <2>21 DEF StartTimer
    <3> QED
      BY <3>1, <3>2 DEF AfterSuccess
  <2>22. CASE Fail(c)
    BY <2>22 DEF Fail, AfterFailure, Reset
  <2> QED
    BY <1>8, <2>1, <2>2, <2>3, <2>4, <2>5, <2>6, <2>7, <2>8, <2>9, <2>10, <2>11, <2>12, <2>13, <2>14, <2>15, <2>16, <2>17, <2>18, <2>19, <2>20, <2>21, <2>22 DEF ConnectStep
<1> QED
  BY <1>7, <1>8

\* What is left to keep when only a refresh loop, or nobody, is at work.
LEMMA RefreshAlone ==
  ASSUME ControlOK', GuardKnown', Settled',
         \/ \A u \in Threads : pc'[u] \in {"idle", "select"}
         \/ \E l \in Loops : /\ \A u \in Threads : u # l => pc'[u] \in {"idle", "select"}
                             /\ Refreshing(l)'
  PROVE  Sequential'
<1> USE ConnectionAssumption DEF Threads, Connectors
<1>1. \A t \in Connectors : pc'[t] \in {"idle", "select"}
  OBVIOUS
<1>2. pc'[RL] = "idle"
  BY <1>1 DEF ControlOK, LoopLabels, ConnectBody, ReconnectBody
<1>3. Reconnecting'
  BY <1>2 DEF Reconnecting
<1>4. \A l \in Loops : Refreshing(l)'
  BY DEF Refreshing
<1> QED
  BY <1>1, <1>3, <1>4 DEF Sequential, AtWork

\* With nobody at work the connection is settled.
LEMMA NobodyAtWork ==
  ASSUME Sequential, \A t \in Connectors : pc[t] \in {"idle", "select"}
  PROVE  Settled /\ GuardKnown
BY DEF Sequential, AtWork

LEMMA CallStep ==
  ASSUME TypeOK, OneAtATime', Sequential, NEW c \in Callers,
         (\E s \in Ids, m \in Modes : Connect(c, s, m)) \/ ConnectBadMode(c) \/ Disconnect(c)
  PROVE  Sequential'
<1>1. /\ pc \in [Threads -> Labels] /\ srv \in [Threads -> Ids] /\ md \in [Threads -> Modes]
      /\ c \in Connectors /\ c \in Threads /\ c # RL /\ RL \in Threads
  BY ConnectionAssumption DEF TypeOK, ControlOK, Threads, Connectors
<1>2. /\ pc[c] = "idle" /\ pc'[c] \in {"begin", "fail", "stopTimer"}
      /\ \A u \in Threads : u # c => pc'[u] = pc[u]
      /\ UNCHANGED <<statusVars, engineVars, guardVars, proxyOn, expiry, reg>>
  BY <1>1 DEF Connect, ConnectBadMode, Disconnect, Goto, Step
<1>3. Busy(c)'
  BY <1>2 DEF Busy
<1>4. /\ \A u \in Threads : u # c => pc'[u] \in {"idle", "select"}
      /\ ~XFallen' /\ ~SFallen'
  BY <1>1, <1>3 DEF OneAtATime, Busy
<1>5. ~XFallen /\ ~SFallen
  BY <1>2, <1>4 DEF XFallen, SFallen, engineVars
<1>6. Settled /\ GuardKnown
  BY <1>2, <1>4, NobodyAtWork DEF Threads
<1>7. pc'[RL] = "idle"
  BY <1>1, <1>2, <1>4 DEF TypeOK, ControlOK, LoopLabels, ConnectBody, ReconnectBody
<1>8. GuardKnown'
  BY <1>2, <1>6 DEF GuardKnown, guardVars
<1>9. Relies(c)'
  <2> USE <1>1, <1>2, <1>6
      DEF Relies, Connecting, Disconnecting, ProxyFlag, Trying, Raising, Leaving, Settled,
          NothingLeft, Serving, engineVars, guardVars
  <2>1. ASSUME NEW s \in Ids, NEW m \in Modes, Connect(c, s, m) PROVE Relies(c)'
    BY <2>1 DEF Connect, Goto
  <2>2. CASE ConnectBadMode(c)
    BY <2>2 DEF ConnectBadMode, Goto, Step, intentVars
  <2>3. CASE Disconnect(c)
    BY <2>3 DEF Disconnect, Goto, Step
  <2> QED
    BY <2>1, <2>2, <2>3
<1>10. AtWork(c)'
  BY <1>2 DEF AtWork
<1> QED
  BY <1>1, <1>4, <1>7, <1>8, <1>9, <1>10, SoleStep

\* An engine falls while nobody is at work; connected is then a promise that
\* the crash handler has to keep.
LEMMA CrashStep ==
  ASSUME TypeOK, TypeOK', OneAtATime, OneAtATime', Sequential, Crash \/ Notice
  PROVE  Sequential'
<1>1. /\ xe \in Nat /\ se \in Nat /\ mode \in Modes
      /\ UNCHANGED <<pc, want, lastServer, lastMode, state, mode, serves, fw, on, proxyOn, expiry, reg>>
  BY DEF TypeOK, X!AbsTypeOK, S!AbsTypeOK, Crash, Notice, threadVars, intentVars, statusVars, guardVars
<1>2. \/ /\ xs \in {"up", "down"} /\ XFallen' /\ UNCHANGED <<ss, se>>
      \/ /\ ss \in {"up", "down"} /\ SFallen' /\ UNCHANGED <<xs, xe>>
  BY <1>1 DEF Crash, Notice, X!Fall, S!Fall, X!Notice, S!Notice, XFallen, SFallen
<1>3. \A t \in Threads : pc'[t] \in {"idle", "select"}
  BY <1>2 DEF OneAtATime, Busy
<1>4. Settled /\ GuardKnown
  BY <1>1, <1>3, NobodyAtWork DEF Threads
<1>5. want
  BY <1>2, <1>4 DEF Settled, NothingLeft
<1>6. ASSUME state = "connected" PROVE AsAsked'
  <2>1. AsAsked
    BY <1>4, <1>6 DEF Settled
  <2>2. CASE xs \in {"up", "down"} /\ XFallen' /\ UNCHANGED <<ss, se>>
    <3>1. mode = "proxy"
      BY <1>1, <2>1, <2>2 DEF AsAsked, Modes
    <3> QED
      BY <1>1, <2>1, <2>2, <3>1 DEF AsAsked, Serves, SFallen
  <2>3. CASE ss \in {"up", "down"} /\ SFallen' /\ UNCHANGED <<xs, xe>>
    <3>1. mode = "tun"
      BY <1>1, <2>1, <2>3 DEF AsAsked, Modes
    <3> QED
      BY <1>1, <2>1, <2>3, <3>1 DEF AsAsked, Serves, XFallen
  <2> QED
    BY <1>2, <2>2, <2>3
<1>7. Settled'
  BY <1>1, <1>4, <1>5, <1>6 DEF Settled
<1>8. GuardKnown'
  BY <1>1, <1>4 DEF GuardKnown
<1> QED
  BY <1>3, <1>7, <1>8, RefreshAlone DEF TypeOK

\* A crash of a wanted connection starts the loop; any other changes nothing.
LEMMA ExitStep ==
  ASSUME TypeOK, TypeOK', SingleReconnect, OneAtATime, Sequential, OnEngineExit
  PROVE  Sequential'
<1>1. /\ pc \in [Threads -> Labels] /\ RL \in Threads /\ RL \in Connectors
      /\ UNCHANGED <<want, lastServer, lastMode, state, mode, serves, fw, on, proxyOn, expiry, reg>>
  BY DEF TypeOK, ControlOK, Threads, Connectors, OnEngineExit, intentVars, statusVars, guardVars
<1>2. XFallen \/ SFallen
  BY DEF OnEngineExit, X!Deliver, S!Deliver, XFallen, SFallen
<1>3. \A t \in Threads : pc[t] \in {"idle", "select"}
  BY <1>2 DEF OneAtATime, Busy
<1>4. Settled /\ GuardKnown
  BY <1>3, NobodyAtWork DEF Threads
<1>5. want /\ ~reconnecting
  <2>1. pc[RL] = "idle"
    BY <1>1, <1>3 DEF TypeOK, ControlOK, LoopLabels, ConnectBody, ReconnectBody
  <2> QED
    BY <1>2, <1>4, <2>1 DEF Settled, SingleReconnect
<1>6. GuardKnown'
  BY <1>1, <1>4 DEF GuardKnown
<1>7. CASE state = "connected"
  <2>1. pc' = [pc EXCEPT ![RL] = "rSet"]
    BY <1>5, <1>7 DEF OnEngineExit, ShouldReconnect
  <2>2. Relies(RL)'
    BY <1>1, <1>4, <2>1 DEF Relies, Connecting, Disconnecting, ProxyFlag, Trying, Raising, Leaving, Settled
  <2>3. AtWork(RL)'
    BY <1>1, <2>1 DEF AtWork
  <2> QED
    BY <1>1, <1>3, <1>5, <1>6, <2>1, <2>2, <2>3, SoleStep
<1>8. CASE state # "connected"
  <2>1. pc' = pc
    BY <1>8 DEF OnEngineExit, ShouldReconnect
  <2>2. Settled'
    BY <1>1, <1>4, <1>5, <1>8 DEF Settled
  <2> QED
    BY <1>3, <1>6, <2>1, <2>2, RefreshAlone DEF TypeOK
<1> QED
  BY <1>7, <1>8

LEMMA LoopStep ==
  ASSUME TypeOK, OneAtATime, Sequential, ReconnectStep
  PROVE  Sequential'
<1>1. /\ pc \in [Threads -> Labels] /\ srv \in [Threads -> Ids] /\ md \in [Threads -> Modes]
      /\ RL \in Threads /\ RL \in Connectors
  BY DEF TypeOK, ControlOK, Threads, Connectors
<1>2. /\ pc[RL] \in ReconnectBody /\ \E to : pc' = [pc EXCEPT ![RL] = to]
      /\ UNCHANGED <<intentVars, mode, engineVars, guardVars, proxyOn, expiry, reg>>
  BY DEF ReconnectStep, ReconnectBody, RSet, RRead, RCheck, RGiveUp, REnd, Goto, Step, statusVars
<1>3. \A u \in Threads : u # RL => pc[u] \in {"idle", "select"} /\ pc'[u] \in {"idle", "select"}
  BY <1>1, <1>2 DEF OneAtATime, Busy, ReconnectBody
<1>4. GuardKnown /\ want /\ (pc[RL] = "rCheck" => Serving(RL))
  BY <1>2 DEF Sequential, Reconnecting, ReconnectBody
<1>5. IF pc[RL] = "rEnd" THEN Settled ELSE Relies(RL)
  <2>1. \A t \in Connectors : t # RL => ~AtWork(t)
    BY <1>3 DEF AtWork, Threads
  <2> QED
    BY <1>1, <1>2, <2>1 DEF Sequential, AtWork, ReconnectBody
<1>6. GuardKnown' /\ want'
  BY <1>2, <1>4 DEF GuardKnown, guardVars, intentVars
<1>7. reg <=> proxyOn
  BY <1>2, <1>5 DEF Settled, Relies, ProxyFlag, ReconnectBody
<1> USE <1>1, <1>2, <1>4, <1>5, <1>6, <1>7
    DEF Goto, Step, AtWork, Relies, Connecting, Disconnecting, ProxyFlag, Trying, Raising, Leaving,
        Serving, intentVars
<1>8. (pc'[RL] = "rCheck" => Serving(RL)') /\ (AtWork(RL)' => Relies(RL)') /\ (~AtWork(RL)' => Settled')
  <2>1. CASE RSet
    BY <2>1 DEF RSet
  <2>2. CASE RRead
    BY <2>2 DEF RRead
  <2>3. CASE RCheck
    BY <2>3 DEF RCheck
  <2>4. CASE RGiveUp
    BY <2>4 DEF RGiveUp, Settled
  <2>5. CASE REnd
    <3>1. Settled'
      BY <2>5 DEF REnd, Settled, NothingLeft, AsAsked, Serves, XFallen, SFallen, statusVars,
                  engineVars, guardVars
    <3> QED
      BY <2>5, <3>1 DEF REnd
  <2> QED
    BY <2>1, <2>2, <2>3, <2>4, <2>5 DEF ReconnectStep
<1> QED
  BY <1>3, <1>8, SoleStep

\* A refresh works on a connection that is settled and leaves it settled.
LEMMA RefresherStep ==
  ASSUME TypeOK, TypeOK', OneAtATime, OneAtATime', Sequential, NEW l \in Loops,
         Tick(l) \/ Mark(l) \/ RefreshFetch(l) \/ RefreshFetchFails(l) \/ Reload(l) \/ Unmark(l)
  PROVE  Sequential'
<1>1. /\ pc \in [Threads -> Labels] /\ srv \in [Threads -> Ids] /\ md \in [Threads -> Modes]
      /\ serves \in [Modes -> Ids] /\ l \in Threads /\ xe \in Nat /\ se \in Nat
      /\ mode \in Modes /\ "proxy" \in Modes /\ "tun" \in Modes
  BY DEF TypeOK, ControlOK, Threads, Modes, X!AbsTypeOK, S!AbsTypeOK
<1>2. /\ pc[l] \notin {"idle", "select"} \/ pc'[l] \notin {"idle", "select"}
      /\ \E to : pc' = [pc EXCEPT ![l] = to]
      /\ UNCHANGED <<intentVars, statusVars, guardVars, proxyOn, reg>>
  BY <1>1 DEF Tick, Mark, RefreshFetch, RefreshFetchFails, Reload, Unmark, Goto, Step
<1>3. /\ \A u \in Threads : u # l => pc[u] \in {"idle", "select"} /\ pc'[u] \in {"idle", "select"}
      /\ pc[l] \notin {"idle", "select"} => ~XFallen /\ ~SFallen
  BY <1>1, <1>2 DEF OneAtATime, Busy
<1>4. Settled /\ GuardKnown /\ Refreshing(l)
  <2>1. \A t \in Connectors : ~AtWork(t)
    BY <1>3, ConnectionAssumption DEF AtWork, Threads, Connectors
  <2> QED
    BY <2>1 DEF Sequential
<1>5. CASE Reload(l)
  <2>1. /\ pc[l] = "reload" /\ pc'[l] = "unmark" /\ expiry' = expiry
        /\ \/ StartEngine(md[l], srv[l])
           \/ "launch" \in May /\ StopEngine(md[l])
           \/ UNCHANGED engineVars
    BY <1>1, <1>5 DEF Reload, Step, Goto
  <2>2. /\ AsAsked /\ state = "connected" /\ md[l] = mode /\ srv[l] = lastServer /\ "age" \in May
        /\ ~XFallen /\ ~SFallen
    BY <1>3, <1>4, <2>1 DEF Refreshing, Settled, AsAsked
  <2>3. AsAsked'
    <3> USE <1>1, <1>2, <2>2 DEF AsAsked, Serves, XFallen, SFallen, Modes, intentVars, statusVars, guardVars
    <3>1. CASE StartEngine(md[l], srv[l])
      BY <3>1 DEF StartEngine, X!Launch, S!Launch
    <3>2. CASE "launch" \in May /\ StopEngine(md[l])
      BY <3>2 DEF StopEngine, X!Halt, S!Halt, RefreshMayFail
    <3>3. CASE UNCHANGED engineVars
      BY <3>3 DEF engineVars
    <3> QED
      BY <2>1, <3>1, <3>2, <3>3
  <2>4. Settled' /\ GuardKnown' /\ Refreshing(l)'
    BY <1>2, <1>4, <2>1, <2>2, <2>3
       DEF Settled, AsAsked, GuardKnown, Refreshing, intentVars, statusVars, guardVars
  <2> QED
    BY <1>3, <2>4, RefreshAlone DEF TypeOK
<1>6. CASE ~Reload(l)
  <2>1. UNCHANGED engineVars /\ (expiry' = "near" => expiry = "near")
    BY <1>6 DEF Tick, Mark, RefreshFetch, RefreshFetchFails, Unmark
  <2>2. Settled'
    BY <1>2, <1>4, <2>1
       DEF Settled, NothingLeft, AsAsked, Serves, XFallen, SFallen, intentVars, statusVars,
           engineVars, guardVars
  <2>3. GuardKnown'
    BY <1>2, <1>4, <2>1 DEF GuardKnown, guardVars
  <2>4. Refreshing(l)'
    <3> USE <1>1, <1>2, <1>4 DEF Refreshing, GuardKnown, Goto, Step, intentVars, statusVars
    <3>1. CASE Tick(l)
      BY <3>1 DEF Tick, DueForRefresh
    <3>2. CASE Mark(l)
      BY <3>2 DEF Mark
    <3>3. CASE RefreshFetch(l)
      BY <3>3 DEF RefreshFetch
    <3>4. CASE RefreshFetchFails(l) \/ Unmark(l)
      BY <3>4 DEF RefreshFetchFails, Unmark
    <3> QED
      BY <1>6, <3>1, <3>2, <3>3, <3>4
  <2> QED
    BY <1>3, <2>2, <2>3, <2>4, RefreshAlone DEF TypeOK
<1> QED
  BY <1>5, <1>6

\* Every step of a serial behaviour.
LEMMA SequentialStep ==
  ASSUME Obedient, TypeOK, TypeOK', SingleReconnect, OneAtATime, OneAtATime', Sequential, [Next]_vars
  PROVE  Sequential'
<1> DEFINE Same == UNCHANGED <<srv, md, attempt, intentVars, statusVars, engineVars, guardVars, proxyOn, reg>>
<1>1. ASSUME NEW t \in Callers,
             (\E s \in Ids, m \in Modes : Connect(t, s, m)) \/ ConnectBadMode(t) \/ Disconnect(t)
      PROVE  Sequential'
  BY <1>1, CallStep
<1>2. ASSUME NEW t \in Connectors, ConnectStep(t) \/ (t \in Callers /\ DisconnectStep(t)) PROVE Sequential'
  BY <1>2, WorkStep
<1>3. CASE Crash \/ Notice
  BY <1>3, CrashStep
<1>4. CASE OnEngineExit
  BY <1>4, ExitStep
<1>5. CASE ReconnectStep
  BY <1>5, LoopStep
<1>6. ASSUME NEW l \in Loops, Tick(l) \/ (RefreshStep(l) /\ ~LoopExit(l)) PROVE Sequential'
  BY <1>6, RefresherStep DEF RefreshStep
<1>7. ASSUME Same, expiry' = "near" => expiry = "near" \/ "age" \in May,
             \/ pc' = pc
             \/ \E l \in Loops : pc' = [pc EXCEPT ![l] = "idle"]
      PROVE  Sequential'
  <2>1. \A t \in Connectors : pc'[t] = pc[t]
    BY <1>7, ConnectionAssumption DEF TypeOK, ControlOK, Threads, Connectors
  <2>2. GuardKnown' /\ Reconnecting'
    BY <1>7, <2>1 DEF Sequential, GuardKnown, Reconnecting, Serving, Connectors, guardVars, intentVars
  <2>3. \A l \in Loops : Refreshing(l)'
    BY <1>7 DEF Sequential, Refreshing, TypeOK, ControlOK, Threads, intentVars, statusVars
  <2>4. ASSUME NEW t \in Connectors, AtWork(t)' PROVE Relies(t)'
    <3>1. AtWork(t) /\ Relies(t)
      BY <2>1, <2>4 DEF Sequential, AtWork
    <3> QED
      BY <1>7, <2>1, <3>1
         DEF Relies, Connecting, Disconnecting, ProxyFlag, NothingLeft, Serving, OtherDown,
             OtherUndone, OwnUp, EngineUp, intentVars, statusVars, engineVars, guardVars
  <2>5. Settled => Settled'
    BY <1>7 DEF Settled, NothingLeft, AsAsked, Serves, XFallen, SFallen, intentVars, statusVars,
                engineVars, guardVars
  <2> QED
    BY <2>1, <2>2, <2>3, <2>4, <2>5 DEF Sequential, AtWork
<1>8. ASSUME NEW l \in Loops, LoopExit(l) PROVE Sequential'
  BY <1>7, <1>8 DEF LoopExit, Step, Goto
<1>9. CASE Age \/ \E s \in Removable : RemoveCustomServer(s)
  BY <1>7, <1>9 DEF Age, RemoveCustomServer, threadVars
<1>10. CASE UNCHANGED vars
  BY <1>7, <1>10 DEF vars, threadVars
<1> HIDE DEF Same
<1> QED
  BY <1>1, <1>2, <1>3, <1>4, <1>5, <1>6, <1>8, <1>9, <1>10, Zenon DEF Next, Connectors

LEMMA SequentialInit == Init => Sequential /\ OneAtATime
<1> SUFFICES ASSUME Init PROVE Sequential /\ OneAtATime
  OBVIOUS
<1>1. /\ \A t \in Threads : pc[t] = "idle"
      /\ RL \in Threads /\ Connectors \subseteq Threads /\ Loops \subseteq Threads
      /\ state = "disconnected" /\ ~want /\ ~proxyOn /\ ~reg /\ ~on /\ fw = "allow" /\ expiry = "zero"
      /\ xs = "none" /\ ss = "none" /\ xe = 0 /\ se = 0
  BY DEF Init, Threads, Connectors, X!Init, S!Init
<1>2. Settled /\ GuardKnown /\ Reconnecting /\ \A l \in Loops : Refreshing(l)
  BY <1>1 DEF Settled, NothingLeft, XFallen, SFallen, GuardKnown, Reconnecting, Refreshing
<1>3. \A t \in Connectors : ~AtWork(t)
  BY <1>1 DEF AtWork
<1>4. OneAtATime
  BY <1>1 DEF OneAtATime, Busy, XFallen, SFallen
<1> QED
  BY <1>2, <1>3, <1>4 DEF Sequential

\* Serial behaviours are behaviours of the program.
LEMMA SerialRefinesSpec == SerialSpec => Spec /\ []OneAtATime
<1>1. [Next /\ OneAtATime']_vars => [Next]_vars
  OBVIOUS
<1>2. OneAtATime /\ [Next /\ OneAtATime']_vars => OneAtATime'
  <2>1. OneAtATime /\ UNCHANGED vars => OneAtATime'
    BY DEF OneAtATime, Busy, XFallen, SFallen, vars, threadVars, engineVars
  <2> QED
    BY <2>1
<1> QED
  BY <1>1, <1>2, SequentialInit, PTL DEF SerialSpec, Spec

\* The invariant of the behaviours in which nothing overlaps.
THEOREM ConnectionSerial == Obedient => (SerialSpec => []Sequential)
<1> SUFFICES ASSUME Obedient PROVE SerialSpec => []Sequential
  OBVIOUS
<1>1. TypeOK /\ TypeOK' /\ SingleReconnect /\ OneAtATime /\ OneAtATime' /\ Sequential /\ [Next]_vars
        => Sequential'
  BY SequentialStep
<1> QED
  BY <1>1, SequentialInit, SerialRefinesSpec, ConnectionTypeOK, ConnectionSingleReconnect, PTL DEF Spec

\* In quiet all is settled.
LEMMA QuietIsSettled ==
  ASSUME TypeOK, Sequential, Quiet
  PROVE  Settled /\ ~XFallen /\ ~SFallen /\ (~on <=> fw = "allow")
<1>1. Settled
  BY DEF Quiet, Sequential, AtWork
<1> QED
  BY <1>1 DEF Quiet, Sequential, GuardKnown, XFallen, SFallen, TypeOK

\* With nothing overlapping, once the user has left both engines are down and
\* the proxy and the firewall are undone, however each call, reconnect and
\* refresh ended.
THEOREM ConnectionTornDown == Obedient => (SerialSpec => []TornDown)
<1> SUFFICES ASSUME Obedient PROVE SerialSpec => []TornDown
  OBVIOUS
<1>1. TypeOK /\ Sequential => TornDown
  <2> SUFFICES ASSUME TypeOK, Sequential, Quiet, ~want
               PROVE  /\ state \in {"disconnected", "error"} /\ xs = "none" /\ ss = "none"
                      /\ ~reg /\ ~proxyOn /\ fw = "allow" /\ ~on
    BY Zenon DEF TornDown
  <2> QED
    BY QuietIsSettled DEF Settled, NothingLeft, TypeOK
<1> QED
  BY <1>1, ConnectionSerial, SerialRefinesSpec, ConnectionTypeOK, PTL

\* With nothing overlapping, a connection reported up is the one asked for
\* last, with the engine, the proxy and the firewall of its mode and no other.
THEOREM ConnectionConnectedAsAsked ==
  Obedient /\ ~RefreshMayFail => (SerialSpec => []ConnectedAsAsked)
<1> SUFFICES ASSUME Obedient, ~RefreshMayFail PROVE SerialSpec => []ConnectedAsAsked
  OBVIOUS
<1>1. TypeOK /\ Sequential => ConnectedAsAsked
  <2> SUFFICES ASSUME TypeOK, Sequential, Quiet, state = "connected"
               PROVE  /\ want /\ mode = lastMode /\ serves[mode] = lastServer
                      /\ mode = "proxy" => xs = "up" /\ ss = "none" /\ reg /\ ~on /\ fw = "allow"
                      /\ mode = "tun" => ss = "up" /\ xs = "none" /\ ~reg
    BY Zenon DEF ConnectedAsAsked
  <2>1. AsAsked /\ ~XFallen /\ ~SFallen /\ (~on <=> fw = "allow")
    BY QuietIsSettled DEF Settled
  <2> QED
    BY <2>1 DEF AsAsked, Serves
<1> QED
  BY <1>1, ConnectionSerial, SerialRefinesSpec, ConnectionTypeOK, PTL

-----------------------------------------------------------------------------
(* One caller alone                                                        *)

\* One goroutine calling, no engine that falls and no credential that ages:
\* then nothing can overlap, whatever else fails.
OneCaller == (\E t : Callers = {t}) /\ MaxCrashes = 0 /\ "age" \notin May

Calm ==
  /\ xe = 0 /\ se = 0 /\ xs \in {"none", "up"} /\ ss \in {"none", "up"}
  /\ pc[RL] = "idle" /\ \A l \in Loops : pc[l] \in {"idle", "select"}
  /\ expiry # "near"

\* What happens is the caller's.
LEMMA OnlyTheCaller ==
  ASSUME OneCaller, TypeOK, Calm, [Next]_vars
  PROVE  \/ \E t \in Callers : \/ \E s \in Ids, m \in Modes : Connect(t, s, m)
                               \/ ConnectBadMode(t) \/ Disconnect(t)
                               \/ DisconnectStep(t) \/ ConnectStep(t)
         \/ \E l \in Loops : LoopExit(l)
         \/ \E s \in Removable : RemoveCustomServer(s)
         \/ UNCHANGED vars
<1> USE DEF Calm
<1>1. ~Crash
  BY ConnectionAssumption DEF OneCaller, Crash, TypeOK
<1>2. ~Notice
  BY DEF Notice, X!Notice, S!Notice
<1>3. ~OnEngineExit
  BY DEF OnEngineExit, X!Deliver, S!Deliver
<1>4. ~ReconnectStep
  BY DEF ReconnectStep, RSet, RRead, RCheck, RGiveUp, REnd, Goto, Step
<1>5. ~ConnectStep(RL)
  <2>1. RL \in Connectors /\ pc[RL] \notin ConnectBody \cup {"timer", "fail"}
    BY DEF Connectors, ConnectBody
  <2>2. ~Fail(RL) /\ ~StartTimer(RL)
    BY DEF Fail, StartTimer, Goto
  <2> QED
    BY <2>1, <2>2, ConnectMoves
<1>6. \A l \in Loops : ~Tick(l)
  BY DEF Tick, DueForRefresh
<1>7. \A l \in Loops : RefreshStep(l) => LoopExit(l)
  BY DEF RefreshStep, Mark, RefreshFetch, RefreshFetchFails, Reload, Unmark, Goto, Step
<1>8. ~Age
  BY DEF OneCaller, Age
<1> QED
  BY <1>1, <1>2, <1>3, <1>4, <1>5, <1>6, <1>7, <1>8, Zenon DEF Next, Connectors

LEMMA CalmStep ==
  ASSUME OneCaller, TypeOK, Calm, [Next]_vars
  PROVE  Calm'
<1> USE ConnectionAssumption DEF Threads, Connectors
<1>1. ASSUME NEW t \in Callers,
             \/ \E s \in Ids, m \in Modes : Connect(t, s, m)
             \/ ConnectBadMode(t) \/ Disconnect(t) \/ DisconnectStep(t) \/ ConnectStep(t)
      PROVE  Calm'
  <2>1. pc'[RL] = "idle" /\ \A l \in Loops : pc'[l] \in {"idle", "select"}
    <3> USE DEF Calm, TypeOK, ControlOK
    <3>1. CASE (\E s \in Ids, m \in Modes : Connect(t, s, m)) \/ ConnectBadMode(t) \/ Disconnect(t)
      BY <3>1 DEF Connect, ConnectBadMode, Disconnect, Goto, Step
    <3>2. CASE DisconnectStep(t)
      BY <3>2, DisconnectMoves DEF Down, Goto
    <3>3. CASE ConnectStep(t)
      BY <3>3, ConnectMoves DEF Fail, StartTimer, Goto
    <3> QED
      BY <1>1, <3>1, <3>2, <3>3
  <2>2. xe' = 0 /\ se' = 0 /\ xs' \in {"none", "up"} /\ ss' \in {"none", "up"} /\ expiry' # "near"
    <3> USE DEF Calm, engineVars, OneCaller
    <3>1. CASE (\E s \in Ids, m \in Modes : Connect(t, s, m)) \/ ConnectBadMode(t) \/ Disconnect(t)
      BY <3>1 DEF Connect, ConnectBadMode, Disconnect
    <3>2. CASE DisconnectStep(t)
      BY <3>2 DEF DisconnectStep, StopTimer, DisengageStep, Forget, DClear, StopX, StopS, Down,
                  StopEngine, X!Halt, S!Halt
    <3>3. CASE ConnectStep(t)
      BY <3>3 DEF ConnectStep, Begin, ConfigLocal, ConfigRemote, Fetch, FetchFails, StopOther,
                  Unguard, Unproxy, Clear, NoConfig, Launch, LaunchFails, Ready, NotReady, Abort,
                  SetProxy, SetProxyFails, MarkProxy, Engage, Up, StartTimer, Fail,
                  StartEngine, StopEngine, X!Launch, S!Launch, X!Halt, S!Halt
    <3> QED
      BY <1>1, <3>1, <3>2, <3>3
  <2> QED
    BY <2>1, <2>2 DEF Calm
<1>2. ASSUME NEW l \in Loops, LoopExit(l) PROVE Calm'
  BY <1>2 DEF Calm, LoopExit, Goto, Step, engineVars, TypeOK, ControlOK
<1>3. CASE (\E s \in Removable : RemoveCustomServer(s)) \/ UNCHANGED vars
  BY <1>3 DEF Calm, RemoveCustomServer, vars, threadVars, engineVars
<1> QED
  BY <1>1, <1>2, <1>3, OnlyTheCaller

\* A user who makes one call after the other is served one at a time: what is
\* said of SerialSpec is true of these behaviours of Spec without more.
THEOREM ConnectionOneCaller == OneCaller => (Spec => SerialSpec)
<1> SUFFICES ASSUME OneCaller PROVE Spec => SerialSpec
  OBVIOUS
<1>1. Init => Calm
  BY DEF Init, Calm, X!Init, S!Init, Threads, Connectors
<1>2. TypeOK /\ Calm /\ [Next]_vars => Calm'
  BY CalmStep
<1>3. TypeOK' /\ Calm' => OneAtATime'
  <2>1. PICK c : Callers = {c}
    BY DEF OneCaller
  <2> QED
    BY <2>1 DEF Calm, OneAtATime, Busy, XFallen, SFallen, Threads, Connectors
<1>4. [Next]_vars /\ OneAtATime' => [Next /\ OneAtATime']_vars
  OBVIOUS
<1> QED
  BY <1>1, <1>2, <1>3, <1>4, ConnectionTypeOK, PTL DEF Spec, SerialSpec
=============================================================================
