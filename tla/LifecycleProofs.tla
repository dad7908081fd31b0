--------------------------- MODULE LifecycleProofs ---------------------------
(***************************************************************************)
(* Theorems about Lifecycle for any number of launches, ports and proxies  *)
(* of other programs. Everything rests on the named mutex: at most one     *)
(* launch is past it, so what a startup finds belongs to no other, and what *)
(* a launch that is up knows is all there is to know.                      *)
(***************************************************************************)
EXTENDS Lifecycle, TLAPS

Live(p) == pc[p] \notin {"new", "gone"}

Types ==
  /\ pc \in [Launches -> {"new", "gone"} \cup Startup \cup Up]
  /\ mutex \in Launches \cup {None}
  /\ ports \in [Launches -> Ports] /\ proxyOn \in [Launches -> BOOLEAN]
  /\ mainPort \in [Launches -> {MultiPort, None}]
  /\ engaged \in [Launches -> BOOLEAN] /\ job \in [Launches -> Jobs]
  /\ reg \in [on : BOOLEAN, at : Servers \cup {None}]
  /\ fw \in [block : BOOLEAN, rules : BOOLEAN] /\ saved \in Ports

LEMMA TypesInit == Init => Types
<1> SUFFICES ASSUME Init PROVE Types
  OBVIOUS
<1>1. reg \in [on : BOOLEAN, at : Servers \cup {None}]
  <2>1. reg = [on |-> FALSE, at |-> None] \/ \E f \in Foreign : reg = [on |-> TRUE, at |-> f]
    BY DEF Init
  <2>2. CASE reg = [on |-> FALSE, at |-> None]
    BY <2>2
  <2>3. ASSUME NEW f \in Foreign, reg = [on |-> TRUE, at |-> f]
        PROVE  reg \in [on : BOOLEAN, at : Servers \cup {None}]
    BY <2>3 DEF Servers
  <2> QED
    BY <2>1, <2>2, <2>3
<1>2. /\ pc \in [Launches -> {"new"}] /\ job \in [Launches -> {"none"}]
      /\ proxyOn \in [Launches -> BOOLEAN] /\ engaged \in [Launches -> BOOLEAN]
      /\ mainPort \in [Launches -> {MultiPort, None}] /\ fw \in [block : BOOLEAN, rules : BOOLEAN]
      /\ mutex = None /\ saved \in Ports /\ ports \in [Launches -> Ports]
  BY DEF Init, Open
<1> QED
  BY <1>1, <1>2 DEF Types, Jobs

LEMMA TypesNext ==
  ASSUME Types, [Next]_vars
  PROVE  Types'
<1> USE DEF Types, Servers, Jobs, Launched, Startup, Ending, Up, machineVars, appVars, pastVars,
     lostVars, proxyVars, guardVars
<1>a. ClearProxy => reg' \in [on : BOOLEAN, at : Servers \cup {None}]
  BY DEF ClearProxy
<1>b. ASSUME NEW p \in Launches, Disengage(p)
      PROVE  fw' \in [block : BOOLEAN, rules : BOOLEAN] /\ engaged' \in [Launches -> BOOLEAN]
  BY <1>b DEF Disengage
<1>1. CASE SetForeign
  BY <1>1 DEF SetForeign, SetProxy, Happens
<1>2. CASE EngineDies
  BY <1>2 DEF EngineDies, Happens
<1>3. ASSUME NEW p \in Launches, Main(p) PROVE Types'
  <2>1. CASE Acquire(p)
    BY <2>1 DEF Acquire, Goto, Exits
  <2>2. CASE LoadState(p)
    BY <2>2 DEF LoadState, Goto, Exits
  <2>3. CASE CleanupStaleEngines(p)
    BY <2>3 DEF CleanupStaleEngines, Goto
  <2>4. CASE CleanupStaleProxy(p)
    <3>1. reg' \in [on : BOOLEAN, at : Servers \cup {None}]
      BY <2>4, <1>a DEF CleanupStaleProxy, ClearIf
    <3> QED
      BY <2>4, <3>1 DEF CleanupStaleProxy, Goto
  <2>5. CASE CleanupStaleKillSwitch(p)
    BY <2>5, <1>b DEF CleanupStaleKillSwitch, Goto
  <2>6. CASE Serve(p)
    BY <2>6 DEF Serve, Goto, Exits
  <2>7. CASE SignalClear(p)
    BY <2>7, <1>a, <1>b DEF SignalClear, Goto, ForceClear, DropSingle, ClearIf
  <2>8. CASE ShutdownDisconnect(p)
    BY <2>8, <1>a, <1>b DEF ShutdownDisconnect, Goto, DropSingle, ClearIf
  <2>9. CASE ShutdownForce(p)
    BY <2>9, <1>a, <1>b DEF ShutdownForce, Goto, ForceClear, DropSingle, ClearIf
  <2>10. CASE MainReturns(p)
    BY <2>10 DEF MainReturns, Dies, Exits, Goto
  <2>11. CASE PanicClears(p)
    BY <2>11, <1>a, <1>b DEF PanicClears, Goto, ForceClear, DropSingle, ClearIf
  <2>12. CASE PanicEnds(p)
    BY <2>12 DEF PanicEnds, Dies, Exits, Goto
  <2> QED
    BY <1>3, <2>1, <2>2, <2>3, <2>4, <2>5, <2>6, <2>7, <2>8, <2>9, <2>10, <2>11, <2>12 DEF Main
<1>4. ASSUME NEW p \in Launches, Works(p) PROVE Types'
  <2> USE DEF Call, At, Happens
  <2>1. CASE ConnectProxy(p)
    <3>1. reg' \in [on : BOOLEAN, at : Servers \cup {None}]
      BY <2>1, <1>a DEF ConnectProxy, ClearIf
    <3>2. fw' \in [block : BOOLEAN, rules : BOOLEAN] /\ engaged' \in [Launches -> BOOLEAN]
      BY <2>1, <1>b DEF ConnectProxy
    <3>3. job' \in [Launches -> Jobs] /\ mainPort' \in [Launches -> {MultiPort, None}]
      BY <2>1 DEF ConnectProxy
    <3> QED
      BY <2>1, <3>1, <3>2, <3>3 DEF ConnectProxy
  <2>2. CASE ConnectSet(p)
    <3>1. CASE SetProxy(ports[p])
      <4>1. reg' = [on |-> TRUE, at |-> ports[p]] /\ ports[p] \in Servers
        BY <3>1 DEF SetProxy
      <4> QED
        BY <2>2, <4>1 DEF ConnectSet
    <3>2. CASE SetProxyFails(ports[p])
      <4>1. reg' \in {reg, [reg EXCEPT !.at = ports[p]]} /\ ports[p] \in Servers
        BY <3>2 DEF SetProxyFails
      <4> QED
        BY <2>2, <4>1 DEF ConnectSet
    <3> QED
      BY <2>2, <3>1, <3>2 DEF ConnectSet
  <2>3. CASE ConnectMark(p)
    BY <2>3 DEF ConnectMark
  <2>4. CASE ConnectTUN(p)
    <3>1. reg' \in [on : BOOLEAN, at : Servers \cup {None}]
      BY <2>4, <1>a DEF ConnectTUN, ClearIf
    <3> QED
      BY <2>4, <3>1 DEF ConnectTUN
  <2>5. CASE ReadyWithout(p)
    BY <2>5 DEF ReadyWithout
  <2>6. CASE EngageRules(p)
    BY <2>6 DEF EngageRules
  <2>7. CASE Engage(p)
    <3>1. CASE fw' = [block |-> TRUE, rules |-> TRUE] /\ engaged' = [engaged EXCEPT ![p] = TRUE]
      BY <2>7, <3>1 DEF Engage
    <3>2. CASE (\E some \in BOOLEAN : fw' = [fw EXCEPT !.rules = some]) /\ UNCHANGED engaged
      BY <2>7, <3>2 DEF Engage
    <3> QED
      BY <2>7, <3>1, <3>2 DEF Engage
  <2>8. CASE Disconnect(p)
    BY <2>8, <1>a, <1>b DEF Disconnect, DropSingle, ClearIf
  <2>9. CASE Logout(p)
    BY <2>9, <1>a, <1>b DEF Logout, DropSingle, ClearIf
  <2>10. CASE StartMain(p)
    <3>1. reg' \in [on : BOOLEAN, at : Servers \cup {None}]
      BY <2>10, <1>a DEF StartMain, DropSingle, ClearIf
    <3>2. fw' \in [block : BOOLEAN, rules : BOOLEAN] /\ engaged' \in [Launches -> BOOLEAN]
      BY <2>10, <1>b DEF StartMain, DropSingle
    <3>3. job' \in [Launches -> Jobs] /\ proxyOn' \in [Launches -> BOOLEAN]
      BY <2>10 DEF StartMain, DropSingle, StartsMain
    <3> QED
      BY <2>10, <3>1, <3>2, <3>3 DEF StartMain
  <2>11. CASE RestartMain(p)
    BY <2>11 DEF RestartMain, StartsMain
  <2>12. CASE SetSocks(p)
    <3>1. CASE SetProxy(MultiPort)
      <4>1. reg' = [on |-> TRUE, at |-> MultiPort] /\ MultiPort \in Servers
        BY <3>1 DEF SetProxy
      <4> QED
        BY <2>12, <4>1 DEF SetSocks
    <3>2. CASE SetProxyFails(MultiPort)
      <4>1. reg' \in {reg, [reg EXCEPT !.at = MultiPort]} /\ MultiPort \in Servers
        BY <3>2 DEF SetProxyFails
      <4> QED
        BY <2>12, <4>1 DEF SetSocks
    <3> QED
      BY <2>12, <3>1, <3>2 DEF SetSocks
  <2>13. CASE MarkMain(p)
    BY <2>13 DEF MarkMain
  <2>14. CASE NotReady(p)
    BY <2>14 DEF NotReady
  <2>15. CASE StopMain(p)
    BY <2>15, <1>a DEF StopMain, ClearIf
  <2>16. CASE SaveSettings(p)
    BY <2>16 DEF SaveSettings
  <2> QED
    BY <1>4, <2>1, <2>2, <2>3, <2>4, <2>5, <2>6, <2>7, <2>8, <2>9, <2>10, <2>11, <2>12, <2>13, <2>14,
         <2>15, <2>16 DEF Works
<1>5. ASSUME NEW p \in Launches, Ends(p) PROVE Types'
  <2>1. CASE Quit(p) \/ Signal(p) \/ Panic(p)
    BY <2>1 DEF Quit, Signal, Panic, EndBegins, Goto, Happens
  <2>2. CASE Kill(p)
    BY <2>2 DEF Kill, Dies, Exits, Goto, Happens
  <2> QED
    BY <1>5, <2>1, <2>2 DEF Ends
<1>6. CASE UNCHANGED vars
  BY <1>6 DEF vars
<1> QED
  BY <1>1, <1>2, <1>3, <1>4, <1>5, <1>6 DEF Next

\* The rest of TypeOK: engines and the past.
Rest ==
  /\ engines \subseteq [of : Launches, by : Managers]
  /\ dirty \in BOOLEAN /\ moved \in BOOLEAN
  /\ proxyLost \in BOOLEAN /\ guardLost \in BOOLEAN /\ sweepLost \in BOOLEAN
  /\ events \in Nat

LEMMA RestNext ==
  ASSUME Types, Rest, [Next]_vars
  PROVE  Rest'
<1> USE DEF Rest, Managers, Without, EngineBy, EnginesOf, machineVars, appVars, pastVars, lostVars,
     proxyVars, guardVars
<1>0. reg'.on \in BOOLEAN /\ fw'.block \in BOOLEAN
  BY TypesNext DEF Types
<1>1. CASE SetForeign
  BY <1>0, <1>1 DEF SetForeign, SetProxy, Happens
<1>2. CASE EngineDies
  BY <1>0, <1>2 DEF EngineDies, Happens
<1>3. ASSUME NEW p \in Launches, Main(p) PROVE Rest'
  <2>1. CASE Acquire(p)
    BY <1>0, <2>1 DEF Acquire, Goto, Exits
  <2>2. CASE LoadState(p)
    BY <1>0, <2>2 DEF LoadState, Goto, Exits
  <2>3. CASE CleanupStaleEngines(p)
    BY <1>0, <2>3 DEF CleanupStaleEngines, Goto
  <2>4. CASE CleanupStaleProxy(p)
    BY <1>0, <2>4 DEF CleanupStaleProxy, Goto, ClearIf, ClearProxy
  <2>5. CASE CleanupStaleKillSwitch(p)
    BY <1>0, <2>5 DEF CleanupStaleKillSwitch, Goto, Disengage
  <2>6. CASE Serve(p)
    BY <1>0, <2>6 DEF Serve, Goto, Exits
  <2>7. CASE SignalClear(p)
    BY <1>0, <2>7 DEF SignalClear, Goto, ForceClear, DropSingle, Disengage, ClearIf, ClearProxy
  <2>8. CASE ShutdownDisconnect(p)
    BY <1>0, <2>8 DEF ShutdownDisconnect, Goto, DropSingle, Disengage, ClearIf, ClearProxy
  <2>9. CASE ShutdownForce(p)
    BY <1>0, <2>9 DEF ShutdownForce, Goto, ForceClear, DropSingle, Disengage, ClearIf, ClearProxy
  <2>10. CASE MainReturns(p)
    BY <2>10 DEF MainReturns, Dies, Exits, Goto
  <2>11. CASE PanicClears(p)
    BY <1>0, <2>11 DEF PanicClears, Goto, ForceClear, DropSingle, Disengage, ClearIf, ClearProxy
  <2>12. CASE PanicEnds(p)
    BY <1>0, <2>12 DEF PanicEnds, Dies, Exits, Goto
  <2> QED
    BY <1>3, <2>1, <2>2, <2>3, <2>4, <2>5, <2>6, <2>7, <2>8, <2>9, <2>10, <2>11, <2>12 DEF Main
<1>4. ASSUME NEW p \in Launches, Works(p) PROVE Rest'
  <2> USE DEF Call, At, Happens
  <2>1. CASE ConnectProxy(p)
    <3>1. \A e \in engines' : e \in engines \/ e = EngineBy(p, "xm")
      BY <1>0, <2>1 DEF ConnectProxy
    <3>2. guardLost' \in BOOLEAN /\ proxyLost' \in BOOLEAN
      BY <1>0, <2>1 DEF ConnectProxy, ClearIf, ClearProxy, Disengage
    <3> QED
      BY <2>1, <3>1, <3>2 DEF ConnectProxy
  <2>2. CASE ConnectSet(p)
    BY <1>0, <2>2 DEF ConnectSet, SetProxy, SetProxyFails
  <2>3. CASE ConnectMark(p)
    BY <1>0, <2>3 DEF ConnectMark
  <2>4. CASE ConnectTUN(p)
    BY <1>0, <2>4 DEF ConnectTUN, ClearIf, ClearProxy
  <2>5. CASE ReadyWithout(p)
    BY <1>0, <2>5 DEF ReadyWithout
  <2>6. CASE EngageRules(p)
    BY <1>0, <2>6 DEF EngageRules
  <2>7. CASE Engage(p)
    BY <1>0, <2>7 DEF Engage
  <2>8. CASE Disconnect(p)
    BY <1>0, <2>8 DEF Disconnect, DropSingle, Disengage, ClearIf, ClearProxy
  <2>9. CASE Logout(p)
    BY <1>0, <2>9 DEF Logout, DropSingle, Disengage, ClearIf, ClearProxy
  <2>10. CASE StartMain(p)
    BY <1>0, <2>10 DEF StartMain, DropSingle, Disengage, ClearIf, ClearProxy, StartsMain
  <2>11. CASE RestartMain(p)
    BY <1>0, <2>11 DEF RestartMain, StartsMain
  <2>12. CASE SetSocks(p)
    BY <1>0, <2>12 DEF SetSocks, SetProxy, SetProxyFails
  <2>13. CASE MarkMain(p)
    BY <1>0, <2>13 DEF MarkMain
  <2>14. CASE NotReady(p)
    BY <1>0, <2>14 DEF NotReady
  <2>15. CASE StopMain(p)
    BY <1>0, <2>15 DEF StopMain, ClearIf, ClearProxy
  <2>16. CASE SaveSettings(p)
    BY <1>0, <2>16 DEF SaveSettings
  <2> QED
    BY <1>4, <2>1, <2>2, <2>3, <2>4, <2>5, <2>6, <2>7, <2>8, <2>9, <2>10, <2>11, <2>12, <2>13, <2>14,
         <2>15, <2>16 DEF Works
<1>5. ASSUME NEW p \in Launches, Ends(p) PROVE Rest'
  <2>1. CASE Quit(p) \/ Signal(p) \/ Panic(p)
    <3>1. dirty' \in BOOLEAN /\ UNCHANGED <<engines, moved, lostVars>>
      BY <1>0, <2>1 DEF Quit, Signal, Panic, EndBegins
    <3>2. events' \in Nat
      BY <1>0, <2>1 DEF Quit, Signal, Panic, EndBegins, Happens
    <3> QED
      BY <3>1, <3>2
  <2>2. CASE Kill(p)
    BY <1>0, <2>2 DEF Kill, Dies, Exits, Goto, Happens
  <2> QED
    BY <1>5, <2>1, <2>2 DEF Ends
<1>6. CASE UNCHANGED vars
  BY <1>0, <1>6 DEF vars
<1> QED
  BY <1>1, <1>2, <1>3, <1>4, <1>5, <1>6 DEF Next

\* Type correctness: whatever launches, calls and ends do, every launch is at a
\* step of main and of a call, and every engine was started by a manager of a
\* launch.
THEOREM LifecycleTypeOK == Spec => []TypeOK
<1>1. Init => Types /\ Rest
  <2>1. Init => /\ engines = {} /\ dirty = FALSE /\ moved = FALSE /\ events = 0
                /\ proxyLost = FALSE /\ guardLost = FALSE /\ sweepLost = FALSE
    BY Zenon DEF Init
  <2>2. Init => Rest
    <3>1. 0 \in Nat
      OBVIOUS
    <3> QED
      BY <2>1, <3>1, Zenon DEF Rest
  <2> QED
    BY <2>2, TypesInit
<1>2. Types /\ Rest /\ [Next]_vars => Types' /\ Rest'
  BY TypesNext, RestNext
<1>3. Types /\ Rest => TypeOK
  BY DEF Types, Rest, TypeOK
<1> QED
  BY <1>1, <1>2, <1>3, PTL DEF Spec

-----------------------------------------------------------------------------
(* The mutex                                                               *)

\* Past the mutex a launch holds it. What App and Guard know is got after the
\* startup and lost with the process.
OwnInv ==
  \A p \in Launches :
    /\ Live(p) => mutex = p
    /\ pc[p] \notin Up => job[p] = "none" /\ ~proxyOn[p] /\ mainPort[p] = None /\ ~engaged[p]

LEMMA OwnNext ==
  ASSUME Types, OwnInv, [Next]_vars
  PROVE  OwnInv'
<1> USE DEF Types, OwnInv, Live, Startup, Ending, Up, machineVars, appVars, pastVars, lostVars,
     proxyVars, guardVars
<1>1. CASE SetForeign
  BY <1>1 DEF SetForeign, SetProxy, Happens
<1>2. CASE EngineDies
  BY <1>2 DEF EngineDies, Happens
<1>3. ASSUME NEW p \in Launches, Main(p) PROVE OwnInv'
  <2>1. CASE Acquire(p)
    <3>1. CASE mutex = None /\ Goto(p, "new", "identity") /\ mutex' = p
      <4>1. \A q \in Launches : ~Live(q)
        BY <3>1, LifecycleAssumption
      <4> QED
        BY <2>1, <3>1, <4>1 DEF Acquire, Goto
    <3>2. CASE mutex # None /\ Exits(p, "new")
      <4>1. \A q \in Launches : Live(q)' => q # p /\ Live(q) /\ mutex' = mutex
        BY <3>2 DEF Exits, Goto
      <4> QED
        BY <2>1, <3>2, <4>1 DEF Acquire, Exits, Goto
    <3> QED
      BY <2>1, <3>1, <3>2 DEF Acquire
  <2>2. CASE LoadState(p)
    BY <2>2 DEF LoadState, Goto, Exits
  <2>3. CASE CleanupStaleEngines(p)
    BY <2>3 DEF CleanupStaleEngines, Goto
  <2>4. CASE CleanupStaleProxy(p)
    BY <2>4 DEF CleanupStaleProxy, Goto, ClearIf, ClearProxy
  <2>5. CASE CleanupStaleKillSwitch(p)
    <3>1. engaged' \in {engaged, [engaged EXCEPT ![p] = FALSE]}
      BY <2>5 DEF CleanupStaleKillSwitch, Disengage
    <3> QED
      BY <2>5, <3>1 DEF CleanupStaleKillSwitch, Goto
  <2>6. CASE Serve(p)
    BY <2>6 DEF Serve, Goto, Exits
  <2>7. CASE SignalClear(p)
    BY <2>7 DEF SignalClear, Goto, ForceClear, DropSingle, Disengage, ClearIf, ClearProxy
  <2>8. CASE ShutdownDisconnect(p)
    BY <2>8 DEF ShutdownDisconnect, Goto, DropSingle, Disengage, ClearIf, ClearProxy
  <2>9. CASE ShutdownForce(p)
    BY <2>9 DEF ShutdownForce, Goto, ForceClear, DropSingle, Disengage, ClearIf, ClearProxy
  <2>10. CASE MainReturns(p)
    BY <2>10 DEF MainReturns, Dies, Exits, Goto
  <2>11. CASE PanicClears(p)
    BY <2>11 DEF PanicClears, Goto, ForceClear, DropSingle, Disengage, ClearIf, ClearProxy
  <2>12. CASE PanicEnds(p)
    BY <2>12 DEF PanicEnds, Dies, Exits, Goto
  <2> QED
    BY <1>3, <2>1, <2>2, <2>3, <2>4, <2>5, <2>6, <2>7, <2>8, <2>9, <2>10, <2>11, <2>12 DEF Main
<1>4. ASSUME NEW p \in Launches, Works(p) PROVE OwnInv'
  <2> USE DEF Call, At, Happens
  <2>1. CASE ConnectProxy(p)
    <3>1. UNCHANGED <<pc, mutex, proxyOn>> /\ pc[p] = "up"
      BY <2>1 DEF ConnectProxy
    <3>2. \A q \in Launches \ {p} : UNCHANGED <<job[q], mainPort[q]>>
      BY <2>1 DEF ConnectProxy
    <3>3. Disengage(p) \/ UNCHANGED guardVars
      BY <2>1 DEF ConnectProxy
    <3>4. \A q \in Launches \ {p} : UNCHANGED engaged[q]
      BY <3>3 DEF Disengage
    <3> QED
      BY <3>1, <3>2, <3>4
  <2>2. CASE ConnectSet(p)
    BY <2>2 DEF ConnectSet, SetProxy, SetProxyFails
  <2>3. CASE ConnectMark(p)
    BY <2>3 DEF ConnectMark
  <2>4. CASE ConnectTUN(p)
    BY <2>4 DEF ConnectTUN, ClearIf, ClearProxy
  <2>5. CASE ReadyWithout(p)
    BY <2>5 DEF ReadyWithout
  <2>6. CASE EngageRules(p)
    BY <2>6 DEF EngageRules
  <2>7. CASE Engage(p)
    BY <2>7 DEF Engage
  <2>8. CASE Disconnect(p)
    BY <2>8 DEF Disconnect, DropSingle, Disengage, ClearIf, ClearProxy
  <2>9. CASE Logout(p)
    BY <2>9 DEF Logout, DropSingle, Disengage, ClearIf, ClearProxy
  <2>10. CASE StartMain(p)
    BY <2>10 DEF StartMain, DropSingle, Disengage, ClearIf, ClearProxy, StartsMain
  <2>11. CASE RestartMain(p)
    BY <2>11 DEF RestartMain, StartsMain
  <2>12. CASE SetSocks(p)
    BY <2>12 DEF SetSocks, SetProxy, SetProxyFails
  <2>13. CASE MarkMain(p)
    BY <2>13 DEF MarkMain
  <2>14. CASE NotReady(p)
    BY <2>14 DEF NotReady
  <2>15. CASE StopMain(p)
    BY <2>15 DEF StopMain, ClearIf, ClearProxy
  <2>16. CASE SaveSettings(p)
    BY <2>16 DEF SaveSettings
  <2> QED
    BY <1>4, <2>1, <2>2, <2>3, <2>4, <2>5, <2>6, <2>7, <2>8, <2>9, <2>10, <2>11, <2>12, <2>13, <2>14,
         <2>15, <2>16 DEF Works
<1>5. ASSUME NEW p \in Launches, Ends(p) PROVE OwnInv'
  <2>1. CASE Quit(p) \/ Signal(p) \/ Panic(p)
    BY <2>1 DEF Quit, Signal, Panic, EndBegins, Goto, Happens
  <2>2. CASE Kill(p)
    BY <2>2 DEF Kill, Dies, Exits, Goto, Happens
  <2> QED
    BY <1>5, <2>1, <2>2 DEF Ends
<1>6. CASE UNCHANGED vars
  BY <1>6 DEF vars
<1> QED
  BY <1>1, <1>2, <1>3, <1>4, <1>5, <1>6 DEF Next

LEMMA OwnAlways == Spec => [](Types /\ OwnInv)
<1>1. Init => OwnInv
  BY DEF Init, OwnInv, Live
<1> QED
  BY <1>1, OwnNext, TypesInit, TypesNext, PTL DEF Spec

\* Two launches are never past the mutex together.
OneLaunch == \A p, q \in Launches : Live(p) /\ Live(q) => p = q

\* One launch at a time: whatever startups, kills and ends race.
THEOREM LifecycleOneLaunch == Spec => []OneLaunch
<1>1. OwnInv => OneLaunch
  BY DEF OwnInv, OneLaunch
<1> QED
  BY <1>1, OwnAlways, PTL

\* A launch started while another runs, at any step of its calls or of its end,
\* takes no engine, no proxy and no lockdown away from it: a launch that moves
\* beside it can only be one that ends at the mutex.
THEOREM LifecycleRunningIsKept == Spec => RunningIsKept
<1> DEFINE Kept == \A p, q \in Launches :
                     p # q /\ pc[p] \in Up /\ pc'[q] # pc[q] =>
                       EnginesOf(p) \subseteq engines' /\ UNCHANGED <<reg, fw>>
<1>1. ASSUME Types, OwnInv, Next, NEW p \in Launches, NEW q \in Launches,
             p # q, pc[p] \in Up, pc'[q] # pc[q]
      PROVE  EnginesOf(p) \subseteq engines' /\ UNCHANGED <<reg, fw>>
  <2>1. ~Live(q) /\ mutex = p
    BY <1>1 DEF OwnInv, Live, Up, Ending
  <2>2. PICK r \in Launches : Main(r) \/ Works(r) \/ Ends(r)
    <3>1. ~SetForeign /\ ~EngineDies
      BY <1>1 DEF SetForeign, EngineDies
    <3> QED
      BY <1>1, <3>1 DEF Next
  <2>3. ~Works(r)
    BY <1>1 DEF Works, ConnectProxy, ConnectSet, ConnectMark, ConnectTUN, ReadyWithout, EngageRules, Engage,
         Disconnect, Logout, StartMain, RestartMain, SetSocks, MarkMain, NotReady, StopMain, SaveSettings
  <2>4. r = q /\ Acquire(q)
    <3>1. \A s \in Launches : Main(s) \/ Ends(s) => Acquire(s) \/ Live(s)
      BY DEF Main, Ends, LoadState, CleanupStaleEngines, CleanupStaleProxy, CleanupStaleKillSwitch, Serve,
         SignalClear, ShutdownDisconnect, ShutdownForce, MainReturns, PanicClears, PanicEnds, Dies,
         Quit, Signal, Panic, EndBegins, Kill, Goto, Exits, Live
    <3>2. Main(r) \/ Ends(r) => \A s \in Launches \ {r} : pc'[s] = pc[s]
      BY <1>1 DEF Types, Main, Ends, Acquire, LoadState, CleanupStaleEngines, CleanupStaleProxy,
         CleanupStaleKillSwitch, Serve, SignalClear, ShutdownDisconnect, ShutdownForce, MainReturns,
         PanicClears, PanicEnds, Dies, Quit, Signal, Panic, EndBegins, Kill, Goto, Exits
    <3> QED
      BY <1>1, <2>1, <2>2, <2>3, <3>1, <3>2
  <2> QED
    BY <2>4 DEF Acquire, machineVars, EnginesOf
<1>2. Types /\ OwnInv /\ [Next]_vars => [Kept]_vars
  BY <1>1
<1> QED
  BY <1>2, OwnAlways, PTL DEF Spec, RunningIsKept

-----------------------------------------------------------------------------
(* Engines of launches before                                              *)

\* From the sweep on, only the launch itself starts engines.
SweepInv ==
  \A p \in Launches :
    pc[p] \in {"proxy", "guard", "serve"} \cup Up /\ ~sweepLost => \A e \in engines : e.of = p

LEMMA SweepNext ==
  ASSUME Types, OwnInv, SweepInv, [Next]_vars
  PROVE  SweepInv'
<1> USE DEF Types, OwnInv, SweepInv, Live, Startup, Ending, Up, Without, EngineBy, EnginesOf,
     machineVars, appVars, pastVars, lostVars, proxyVars, guardVars
<1>1. CASE SetForeign
  BY <1>1 DEF SetForeign, SetProxy, Happens
<1>2. CASE EngineDies
  BY <1>2 DEF EngineDies, Happens
<1>3. ASSUME NEW p \in Launches, Main(p) PROVE SweepInv'
  <2>1. CASE Acquire(p)
    BY <2>1 DEF Acquire, Goto, Exits
  <2>2. CASE LoadState(p)
    BY <2>2 DEF LoadState, Goto, Exits
  <2>3. CASE CleanupStaleEngines(p)
    BY <2>3 DEF CleanupStaleEngines, Goto
  <2>4. CASE CleanupStaleProxy(p)
    BY <2>4 DEF CleanupStaleProxy, Goto, ClearIf, ClearProxy
  <2>5. CASE CleanupStaleKillSwitch(p)
    BY <2>5 DEF CleanupStaleKillSwitch, Goto, Disengage
  <2>6. CASE Serve(p)
    BY <2>6 DEF Serve, Goto, Exits
  <2>7. CASE SignalClear(p)
    BY <2>7 DEF SignalClear, Goto, ForceClear, DropSingle, Disengage, ClearIf, ClearProxy
  <2>8. CASE ShutdownDisconnect(p)
    BY <2>8 DEF ShutdownDisconnect, Goto, DropSingle, Disengage, ClearIf, ClearProxy
  <2>9. CASE ShutdownForce(p)
    BY <2>9 DEF ShutdownForce, Goto, ForceClear, DropSingle, Disengage, ClearIf, ClearProxy
  <2>10. CASE MainReturns(p)
    BY <2>10 DEF MainReturns, Dies, Exits, Goto
  <2>11. CASE PanicClears(p)
    BY <2>11 DEF PanicClears, Goto, ForceClear, DropSingle, Disengage, ClearIf, ClearProxy
  <2>12. CASE PanicEnds(p)
    BY <2>12 DEF PanicEnds, Dies, Exits, Goto
  <2> QED
    BY <1>3, <2>1, <2>2, <2>3, <2>4, <2>5, <2>6, <2>7, <2>8, <2>9, <2>10, <2>11, <2>12 DEF Main
<1>4. ASSUME NEW p \in Launches, Works(p) PROVE SweepInv'
  <2> USE DEF Call, At, Happens
  <2>1. CASE ConnectProxy(p)
    <3>1. UNCHANGED <<pc, mutex, sweepLost>> /\ pc[p] = "up"
      BY <2>1 DEF ConnectProxy
    <3>2. \A e \in engines' : e \in engines \/ e.of = p
      BY <2>1 DEF ConnectProxy
    <3> QED
      BY <3>1, <3>2
  <2>2. CASE ConnectSet(p)
    BY <2>2 DEF ConnectSet, SetProxy, SetProxyFails
  <2>3. CASE ConnectMark(p)
    BY <2>3 DEF ConnectMark
  <2>4. CASE ConnectTUN(p)
    BY <2>4 DEF ConnectTUN, ClearIf, ClearProxy
  <2>5. CASE ReadyWithout(p)
    BY <2>5 DEF ReadyWithout
  <2>6. CASE EngageRules(p)
    BY <2>6 DEF EngageRules
  <2>7. CASE Engage(p)
    BY <2>7 DEF Engage
  <2>8. CASE Disconnect(p)
    BY <2>8 DEF Disconnect, DropSingle, Disengage, ClearIf, ClearProxy
  <2>9. CASE Logout(p)
    BY <2>9 DEF Logout, DropSingle, Disengage, ClearIf, ClearProxy
  <2>10. CASE StartMain(p)
    BY <2>10 DEF StartMain, DropSingle, Disengage, ClearIf, ClearProxy, StartsMain
  <2>11. CASE RestartMain(p)
    BY <2>11 DEF RestartMain, StartsMain
  <2>12. CASE SetSocks(p)
    BY <2>12 DEF SetSocks, SetProxy, SetProxyFails
  <2>13. CASE MarkMain(p)
    BY <2>13 DEF MarkMain
  <2>14. CASE NotReady(p)
    BY <2>14 DEF NotReady
  <2>15. CASE StopMain(p)
    BY <2>15 DEF StopMain, ClearIf, ClearProxy
  <2>16. CASE SaveSettings(p)
    BY <2>16 DEF SaveSettings
  <2> QED
    BY <1>4, <2>1, <2>2, <2>3, <2>4, <2>5, <2>6, <2>7, <2>8, <2>9, <2>10, <2>11, <2>12, <2>13, <2>14,
         <2>15, <2>16 DEF Works
<1>5. ASSUME NEW p \in Launches, Ends(p) PROVE SweepInv'
  <2>1. CASE Quit(p) \/ Signal(p) \/ Panic(p)
    BY <2>1 DEF Quit, Signal, Panic, EndBegins, Goto, Happens
  <2>2. CASE Kill(p)
    BY <2>2 DEF Kill, Dies, Exits, Goto, Happens
  <2> QED
    BY <1>5, <2>1, <2>2 DEF Ends
<1>6. CASE UNCHANGED vars
  BY <1>6 DEF vars
<1> QED
  BY <1>1, <1>2, <1>3, <1>4, <1>5, <1>6 DEF Next

\* Whatever was killed or ended before, with calls at work and engines of a
\* multi-proxy that no end stops, a launch that is up is alone with its own
\* engines, unless the sweep of its startup could not end one.
THEOREM LifecycleNoOrphans == Spec => []NoOrphans
<1>1. Init => SweepInv
  BY DEF Init, SweepInv, Up, Ending
<1>2. SweepInv => NoOrphans
  BY DEF SweepInv, NoOrphans, EnginesOf, Up
<1> QED
  BY <1>1, <1>2, SweepNext, OwnAlways, PTL DEF Spec

-----------------------------------------------------------------------------
(* The system proxy and the lockdown                                       *)

\* A launch that is up has cleaned up after the one before. Where shutdown has
\* passed, only a call at work can have set something again.
DirtyInv ==
  \A p \in Launches :
    /\ pc[p] = "up" => ~dirty
    /\ pc[p] \in Ending /\ job[p] # "none" => dirty
    /\ pc[p] \in {"force", "server", "repanics"} /\ (proxyOn[p] \/ engaged[p]) => dirty

LEMMA DirtyNext ==
  ASSUME Types, OwnInv, DirtyInv, [Next]_vars
  PROVE  DirtyInv'
<1> USE DEF Types, OwnInv, DirtyInv, Live, Startup, Ending, Up, machineVars, appVars, pastVars,
     lostVars, proxyVars, guardVars
<1>1. CASE SetForeign
  BY <1>1 DEF SetForeign, SetProxy, Happens
<1>2. CASE EngineDies
  BY <1>2 DEF EngineDies, Happens
<1>3. ASSUME NEW p \in Launches, Main(p) PROVE DirtyInv'
  <2>1. CASE Acquire(p)
    BY <2>1 DEF Acquire, Goto, Exits
  <2>2. CASE LoadState(p)
    BY <2>2 DEF LoadState, Goto, Exits
  <2>3. CASE CleanupStaleEngines(p)
    BY <2>3 DEF CleanupStaleEngines, Goto
  <2>4. CASE CleanupStaleProxy(p)
    BY <2>4 DEF CleanupStaleProxy, Goto, ClearIf, ClearProxy
  <2>5. CASE CleanupStaleKillSwitch(p)
    BY <2>5 DEF CleanupStaleKillSwitch, Goto, Disengage
  <2>6. CASE Serve(p)
    BY <2>6 DEF Serve, Goto, Exits
  <2>7. CASE SignalClear(p)
    BY <2>7 DEF SignalClear, Goto, ForceClear, DropSingle, Disengage, ClearIf, ClearProxy
  <2>8. CASE ShutdownDisconnect(p)
    BY <2>8 DEF ShutdownDisconnect, Goto, DropSingle, Disengage, ClearIf, ClearProxy
  <2>9. CASE ShutdownForce(p)
    BY <2>9 DEF ShutdownForce, Goto, ForceClear, DropSingle, Disengage, ClearIf, ClearProxy
  <2>10. CASE MainReturns(p)
    BY <2>10 DEF MainReturns, Dies, Exits, Goto
  <2>11. CASE PanicClears(p)
    BY <2>11 DEF PanicClears, Goto, ForceClear, DropSingle, Disengage, ClearIf, ClearProxy
  <2>12. CASE PanicEnds(p)
    BY <2>12 DEF PanicEnds, Dies, Exits, Goto
  <2> QED
    BY <1>3, <2>1, <2>2, <2>3, <2>4, <2>5, <2>6, <2>7, <2>8, <2>9, <2>10, <2>11, <2>12 DEF Main
<1>4. ASSUME NEW p \in Launches, Works(p) PROVE DirtyInv'
  <2> USE DEF Call, At, Happens
  <2>1. CASE ConnectProxy(p)
    BY <2>1 DEF ConnectProxy, ClearIf, ClearProxy, Disengage
  <2>2. CASE ConnectSet(p)
    BY <2>2 DEF ConnectSet, SetProxy, SetProxyFails
  <2>3. CASE ConnectMark(p)
    BY <2>3 DEF ConnectMark
  <2>4. CASE ConnectTUN(p)
    BY <2>4 DEF ConnectTUN, ClearIf, ClearProxy
  <2>5. CASE ReadyWithout(p)
    BY <2>5 DEF ReadyWithout
  <2>6. CASE EngageRules(p)
    BY <2>6 DEF EngageRules
  <2>7. CASE Engage(p)
    BY <2>7 DEF Engage
  <2>8. CASE Disconnect(p)
    BY <2>8 DEF Disconnect, DropSingle, Disengage, ClearIf, ClearProxy
  <2>9. CASE Logout(p)
    BY <2>9 DEF Logout, DropSingle, Disengage, ClearIf, ClearProxy
  <2>10. CASE StartMain(p)
    BY <2>10 DEF StartMain, DropSingle, Disengage, ClearIf, ClearProxy, StartsMain
  <2>11. CASE RestartMain(p)
    BY <2>11 DEF RestartMain, StartsMain
  <2>12. CASE SetSocks(p)
    BY <2>12 DEF SetSocks, SetProxy, SetProxyFails
  <2>13. CASE MarkMain(p)
    BY <2>13 DEF MarkMain
  <2>14. CASE NotReady(p)
    BY <2>14 DEF NotReady
  <2>15. CASE StopMain(p)
    BY <2>15 DEF StopMain, ClearIf, ClearProxy
  <2>16. CASE SaveSettings(p)
    BY <2>16 DEF SaveSettings
  <2> QED
    BY <1>4, <2>1, <2>2, <2>3, <2>4, <2>5, <2>6, <2>7, <2>8, <2>9, <2>10, <2>11, <2>12, <2>13, <2>14,
         <2>15, <2>16 DEF Works
<1>5. ASSUME NEW p \in Launches, Ends(p) PROVE DirtyInv'
  <2>1. CASE Quit(p) \/ Signal(p) \/ Panic(p)
    <3>1. UNCHANGED <<mutex, job, proxyOn, engaged>> /\ dirty' = (job[p] # "none") /\ pc[p] = "up"
      BY <2>1 DEF Quit, Signal, Panic, EndBegins, Goto
    <3>2. pc'[p] \in {"disconnect", "signalled", "panicking"}
      BY <2>1 DEF Quit, Signal, Panic, EndBegins, Goto
    <3>3. \A q \in Launches \ {p} : pc'[q] = pc[q] /\ pc[q] \notin Up
      BY <2>1, <3>1 DEF Quit, Signal, Panic, EndBegins, Goto
    <3>4. \A q \in Launches \ {p} : pc'[q] \notin Up
      BY <3>3
    <3>5. job'[p] # "none" => dirty'
      BY <3>1
    <3> QED
      BY <3>2, <3>4, <3>5
  <2>2. CASE Kill(p)
    BY <2>2 DEF Kill, Dies, Exits, Goto, Happens
  <2> QED
    BY <1>5, <2>1, <2>2 DEF Ends
<1>6. CASE UNCHANGED vars
  BY <1>6 DEF vars
<1> QED
  BY <1>1, <1>2, <1>3, <1>4, <1>5, <1>6 DEF Next

\* A proxy on a port of the settings is on the port of now; a launch that runs
\* knows of it, or is about to, or the next startup will look for it.
OnPorts == reg.on /\ reg.at \in Ports
ProxyInv ==
  /\ \A p \in Launches :
       /\ pc[p] \in {"engines", "proxy", "guard", "serve"} => ports[p] = saved
       /\ pc[p] \in Up /\ ~moved => ports[p] = saved
  /\ OnPorts /\ ~moved => reg.at = saved
  /\ OnPorts /\ ~moved /\ ~proxyLost =>
       \/ \E p \in Launches : pc[p] \in Up /\ (proxyOn[p] \/ job[p] = "set")
       \/ dirty /\ \A p \in Launches : pc[p] \notin {"guard", "serve"} \cup Up

LEMMA ProxyNext ==
  ASSUME Types, OwnInv, DirtyInv, ProxyInv, [Next]_vars
  PROVE  ProxyInv'
<1> USE DEF Types, OwnInv, DirtyInv, ProxyInv, OnPorts, Live, Startup, Ending, Up, machineVars, appVars,
     pastVars, lostVars, proxyVars, guardVars
<1>1. CASE SetForeign
  BY <1>1, LifecycleAssumption DEF SetForeign, SetProxy, Happens
<1>2. CASE EngineDies
  BY <1>2 DEF EngineDies, Happens
<1>3. ASSUME NEW p \in Launches, Main(p) PROVE ProxyInv'
  <2>1. CASE Acquire(p)
    BY <2>1 DEF Acquire, Goto, Exits
  <2>2. CASE LoadState(p)
    BY <2>2 DEF LoadState, Goto, Exits
  <2>3. CASE CleanupStaleEngines(p)
    BY <2>3 DEF CleanupStaleEngines, Goto
  <2>4. CASE CleanupStaleProxy(p)
    <3>1. /\ UNCHANGED <<saved, ports, proxyOn, job, dirty, moved>> /\ ports[p] = saved
          /\ pc[p] = "proxy" /\ pc' = [pc EXCEPT ![p] = "guard"]
      BY <2>4 DEF CleanupStaleProxy, Goto
    <3>2. CASE ClearProxy
      BY <3>1, <3>2 DEF ClearProxy
    <3>3. CASE ~(reg.on /\ MentionsPort(reg.at, ports[p])) /\ UNCHANGED proxyVars
      BY <3>1, <3>3 DEF MentionsPort
    <3> QED
      BY <2>4, <3>2, <3>3 DEF CleanupStaleProxy, ClearIf
  <2>5. CASE CleanupStaleKillSwitch(p)
    BY <2>5 DEF CleanupStaleKillSwitch, Goto, Disengage
  <2>6. CASE Serve(p)
    BY <2>6 DEF Serve, Goto, Exits
  <2>7. CASE SignalClear(p)
    BY <2>7 DEF SignalClear, Goto, ForceClear, DropSingle, Disengage, ClearIf, ClearProxy
  <2>8. CASE ShutdownDisconnect(p)
    BY <2>8 DEF ShutdownDisconnect, Goto, DropSingle, Disengage, ClearIf, ClearProxy
  <2>9. CASE ShutdownForce(p)
    BY <2>9 DEF ShutdownForce, Goto, ForceClear, DropSingle, Disengage, ClearIf, ClearProxy
  <2>10. CASE MainReturns(p)
    BY <2>10 DEF MainReturns, Dies, Exits, Goto
  <2>11. CASE PanicClears(p)
    BY <2>11 DEF PanicClears, Goto, ForceClear, DropSingle, Disengage, ClearIf, ClearProxy
  <2>12. CASE PanicEnds(p)
    BY <2>12 DEF PanicEnds, Dies, Exits, Goto
  <2> QED
    BY <1>3, <2>1, <2>2, <2>3, <2>4, <2>5, <2>6, <2>7, <2>8, <2>9, <2>10, <2>11, <2>12 DEF Main
<1>4. ASSUME NEW p \in Launches, Works(p) PROVE ProxyInv'
  <2> USE DEF Call, At, Happens
  <2>1. CASE ConnectProxy(p)
    BY <2>1 DEF ConnectProxy, ClearIf, ClearProxy, Disengage
  <2>2. CASE ConnectSet(p)
    BY <2>2 DEF ConnectSet, SetProxy, SetProxyFails
  <2>3. CASE ConnectMark(p)
    BY <2>3 DEF ConnectMark
  <2>4. CASE ConnectTUN(p)
    BY <2>4 DEF ConnectTUN, ClearIf, ClearProxy
  <2>5. CASE ReadyWithout(p)
    BY <2>5 DEF ReadyWithout
  <2>6. CASE EngageRules(p)
    BY <2>6 DEF EngageRules
  <2>7. CASE Engage(p)
    BY <2>7 DEF Engage
  <2>8. CASE Disconnect(p)
    BY <2>8 DEF Disconnect, DropSingle, Disengage, ClearIf, ClearProxy
  <2>9. CASE Logout(p)
    BY <2>9 DEF Logout, DropSingle, Disengage, ClearIf, ClearProxy
  <2>10. CASE StartMain(p)
    BY <2>10 DEF StartMain, DropSingle, Disengage, ClearIf, ClearProxy, StartsMain
  <2>11. CASE RestartMain(p)
    BY <2>11 DEF RestartMain, StartsMain
  <2>12. CASE SetSocks(p)
    <3>1. \A q \in Launches : job[q] = "set" => job'[q] = "set"
      BY <2>12 DEF SetSocks
    <3>2. UNCHANGED <<pc, saved, ports, proxyOn, dirty, moved>>
      BY <2>12 DEF SetSocks
    <3>3. CASE SetProxy(MultiPort)
      BY <3>2, <3>3, LifecycleAssumption DEF SetProxy
    <3>4. CASE SetProxyFails(MultiPort)
      BY <3>1, <3>2, <3>4, LifecycleAssumption DEF SetProxyFails
    <3> QED
      BY <2>12, <3>3, <3>4 DEF SetSocks
  <2>13. CASE MarkMain(p)
    BY <2>13 DEF MarkMain
  <2>14. CASE NotReady(p)
    <3>1. \A q \in Launches : job[q] = "set" => job'[q] = "set"
      BY <2>14 DEF NotReady, Launched
    <3>2. UNCHANGED <<pc, reg, saved, ports, proxyOn, dirty, moved, proxyLost>>
      BY <2>14 DEF NotReady
    <3> QED
      BY <3>1, <3>2
  <2>15. CASE StopMain(p)
    BY <2>15 DEF StopMain, ClearIf, ClearProxy
  <2>16. CASE SaveSettings(p)
    BY <2>16 DEF SaveSettings
  <2> QED
    BY <1>4, <2>1, <2>2, <2>3, <2>4, <2>5, <2>6, <2>7, <2>8, <2>9, <2>10, <2>11, <2>12, <2>13, <2>14,
         <2>15, <2>16 DEF Works
<1>5. ASSUME NEW p \in Launches, Ends(p) PROVE ProxyInv'
  <2>1. CASE Quit(p) \/ Signal(p) \/ Panic(p)
    BY <2>1 DEF Quit, Signal, Panic, EndBegins, Goto, Happens
  <2>2. CASE Kill(p)
    BY <2>2 DEF Kill, Dies, Exits, Goto, Happens
  <2> QED
    BY <1>5, <2>1, <2>2 DEF Ends
<1>6. CASE UNCHANGED vars
  BY <1>6 DEF vars
<1> QED
  BY <1>1, <1>2, <1>3, <1>4, <1>5, <1>6 DEF Next

\* A policy on block is engaged by a launch that runs, or the next startup will
\* find rules of ours beside it.
GuardInv ==
  fw.block /\ ~guardLost =>
    \/ \E p \in Launches : pc[p] \in Up /\ engaged[p]
    \/ dirty /\ fw.rules /\ \A p \in Launches : pc[p] \notin {"serve"} \cup Up

LEMMA GuardNext ==
  ASSUME Types, OwnInv, DirtyInv, GuardInv, [Next]_vars
  PROVE  GuardInv'
<1> USE DEF Types, OwnInv, DirtyInv, GuardInv, Live, Startup, Ending, Up, machineVars, appVars,
     pastVars, lostVars, proxyVars, guardVars
<1>1. CASE SetForeign
  BY <1>1 DEF SetForeign, SetProxy, Happens
<1>2. CASE EngineDies
  BY <1>2 DEF EngineDies, Happens
<1>3. ASSUME NEW p \in Launches, Main(p) PROVE GuardInv'
  <2>1. CASE Acquire(p)
    BY <2>1 DEF Acquire, Goto, Exits
  <2>2. CASE LoadState(p)
    BY <2>2 DEF LoadState, Goto, Exits
  <2>3. CASE CleanupStaleEngines(p)
    BY <2>3 DEF CleanupStaleEngines, Goto
  <2>4. CASE CleanupStaleProxy(p)
    BY <2>4 DEF CleanupStaleProxy, Goto, ClearIf, ClearProxy
  <2>5. CASE CleanupStaleKillSwitch(p)
    BY <2>5 DEF CleanupStaleKillSwitch, Goto, Disengage
  <2>6. CASE Serve(p)
    BY <2>6 DEF Serve, Goto, Exits
  <2>7. CASE SignalClear(p)
    BY <2>7 DEF SignalClear, Goto, ForceClear, DropSingle, Disengage, ClearIf, ClearProxy
  <2>8. CASE ShutdownDisconnect(p)
    BY <2>8 DEF ShutdownDisconnect, Goto, DropSingle, Disengage, ClearIf, ClearProxy
  <2>9. CASE ShutdownForce(p)
    BY <2>9 DEF ShutdownForce, Goto, ForceClear, DropSingle, Disengage, ClearIf, ClearProxy
  <2>10. CASE MainReturns(p)
    BY <2>10 DEF MainReturns, Dies, Exits, Goto
  <2>11. CASE PanicClears(p)
    BY <2>11 DEF PanicClears, Goto, ForceClear, DropSingle, Disengage, ClearIf, ClearProxy
  <2>12. CASE PanicEnds(p)
    BY <2>12 DEF PanicEnds, Dies, Exits, Goto
  <2> QED
    BY <1>3, <2>1, <2>2, <2>3, <2>4, <2>5, <2>6, <2>7, <2>8, <2>9, <2>10, <2>11, <2>12 DEF Main
<1>4. ASSUME NEW p \in Launches, Works(p) PROVE GuardInv'
  <2> USE DEF Call, At, Happens
  <2>1. CASE ConnectProxy(p)
    <3>1. UNCHANGED <<pc, dirty>> /\ pc[p] = "up"
      BY <2>1 DEF ConnectProxy
    <3>2. CASE Disengage(p)
      BY <3>1, <3>2 DEF Disengage
    <3>3. CASE UNCHANGED guardVars
      BY <3>1, <3>3
    <3> QED
      BY <2>1, <3>2, <3>3 DEF ConnectProxy
  <2>2. CASE ConnectSet(p)
    BY <2>2 DEF ConnectSet, SetProxy, SetProxyFails
  <2>3. CASE ConnectMark(p)
    BY <2>3 DEF ConnectMark
  <2>4. CASE ConnectTUN(p)
    BY <2>4 DEF ConnectTUN, ClearIf, ClearProxy
  <2>5. CASE ReadyWithout(p)
    BY <2>5 DEF ReadyWithout
  <2>6. CASE EngageRules(p)
    BY <2>6 DEF EngageRules
  <2>7. CASE Engage(p)
    BY <2>7 DEF Engage
  <2>8. CASE Disconnect(p)
    BY <2>8 DEF Disconnect, DropSingle, Disengage, ClearIf, ClearProxy
  <2>9. CASE Logout(p)
    BY <2>9 DEF Logout, DropSingle, Disengage, ClearIf, ClearProxy
  <2>10. CASE StartMain(p)
    BY <2>10 DEF StartMain, DropSingle, Disengage, ClearIf, ClearProxy, StartsMain
  <2>11. CASE RestartMain(p)
    BY <2>11 DEF RestartMain, StartsMain
  <2>12. CASE SetSocks(p)
    BY <2>12 DEF SetSocks, SetProxy, SetProxyFails
  <2>13. CASE MarkMain(p)
    BY <2>13 DEF MarkMain
  <2>14. CASE NotReady(p)
    BY <2>14 DEF NotReady
  <2>15. CASE StopMain(p)
    BY <2>15 DEF StopMain, ClearIf, ClearProxy
  <2>16. CASE SaveSettings(p)
    BY <2>16 DEF SaveSettings
  <2> QED
    BY <1>4, <2>1, <2>2, <2>3, <2>4, <2>5, <2>6, <2>7, <2>8, <2>9, <2>10, <2>11, <2>12, <2>13, <2>14,
         <2>15, <2>16 DEF Works
<1>5. ASSUME NEW p \in Launches, Ends(p) PROVE GuardInv'
  <2>1. CASE Quit(p) \/ Signal(p) \/ Panic(p)
    BY <2>1 DEF Quit, Signal, Panic, EndBegins, Goto, Happens
  <2>2. CASE Kill(p)
    BY <2>2 DEF Kill, Dies, Exits, Goto, Happens
  <2> QED
    BY <1>5, <2>1, <2>2 DEF Ends
<1>6. CASE UNCHANGED vars
  BY <1>6 DEF vars
<1> QED
  BY <1>1, <1>2, <1>3, <1>4, <1>5, <1>6 DEF Next

\* Once nothing is at work and every launch that was cut off has been followed
\* by another, a system proxy on our ports and a lockdown are known to the
\* launch that is up, through failed connects, crashed engines and kills.
THEOREM LifecycleNothingLeft == Spec => []NothingLeft
<1>1. Init => DirtyInv /\ ProxyInv /\ GuardInv
  BY LifecycleAssumption DEF Init, Open, DirtyInv, ProxyInv, GuardInv, OnPorts, Startup, Ending, Up
<1>2. ProxyInv /\ GuardInv => NothingLeft
  BY DEF ProxyInv, GuardInv, OnPorts, NothingLeft, AtRest, Up, Ending
<1> QED
  BY <1>1, <1>2, DirtyNext, ProxyNext, GuardNext, OwnAlways, PTL DEF Spec

-----------------------------------------------------------------------------
(* Proxies of other programs                                               *)

\* A proxy of another program that has none of our ports in its text is switched
\* off by no startup and by no launch without a proxy of its own, whatever was
\* killed before.
THEOREM LifecycleForeignKept == Spec => ForeignKept
<1> DEFINE Owner == \E p \in Launches : pc[p] \in Up /\ (proxyOn[p] \/ mainPort[p] # None)
<1>1. ASSUME Types, OwnInv, Next, reg.on, reg.at \in Foreign \ Lookalikes, ~reg'.on
      PROVE  Owner
  <2> USE DEF ClearIf, ClearProxy, proxyVars
  <2>1. SUFFICES \E p \in Launches : proxyOn[p] \/ mainPort[p] # None
    BY <1>1 DEF OwnInv
  <2>2. PICK p \in Launches : Main(p) \/ Works(p) \/ Ends(p)
    BY <1>1 DEF Next, SetForeign, SetProxy, EngineDies
  <2>3. ASSUME Main(p) PROVE proxyOn[p]
    <3>1. ~CleanupStaleProxy(p)
      BY <1>1, LifecycleAssumption DEF Types, CleanupStaleProxy, MentionsPort
    <3>2. SignalClear(p) \/ ShutdownDisconnect(p) \/ ShutdownForce(p) \/ PanicClears(p)
      BY <1>1, <2>3, <3>1 DEF Main, Acquire, LoadState, CleanupStaleEngines, CleanupStaleKillSwitch, Serve,
           MainReturns, PanicEnds, Dies, machineVars
    <3> QED
      BY <1>1, <3>2 DEF SignalClear, ShutdownDisconnect, ShutdownForce, PanicClears, ForceClear, DropSingle
  <2>4. ASSUME Works(p) PROVE proxyOn[p] \/ mainPort[p] # None
    <3>1. ~ConnectSet(p) /\ ~SetSocks(p)
      BY <1>1 DEF Types, ConnectSet, SetSocks, SetProxy, SetProxyFails
    <3>2. ConnectProxy(p) \/ ConnectTUN(p) \/ Disconnect(p) \/ Logout(p) \/ StartMain(p) \/ StopMain(p)
      BY <1>1, <2>4, <3>1 DEF Works, ConnectMark, ReadyWithout, EngageRules, Engage, RestartMain, MarkMain,
           NotReady, SaveSettings, machineVars
    <3> QED
      BY <1>1, <3>2 DEF ConnectProxy, ConnectTUN, Disconnect, Logout, StartMain, StopMain, DropSingle
  <2>5. ~Ends(p)
    BY <1>1 DEF Ends, Quit, Signal, Panic, EndBegins, Kill, Dies, machineVars
  <2> QED
    BY <2>2, <2>3, <2>4, <2>5
<1>2. Types /\ OwnInv /\ [Next]_vars =>
        [reg.on /\ reg.at \in Foreign \ Lookalikes /\ ~reg'.on => Owner]_vars
  BY <1>1
<1> QED
  BY <1>2, OwnAlways, PTL DEF Spec, ForeignKept

=============================================================================
