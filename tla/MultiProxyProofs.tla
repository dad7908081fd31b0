--------------------------- MODULE MultiProxyProofs ---------------------------
(***************************************************************************)
(* Theorems about MultiProxy for any number of mappings, goroutines,       *)
(* process managers, calls and attempts. The invariant IInv says in which  *)
(* call a goroutine is, told from where it is (CallsFit), what its locals  *)
(* name there (LocalsSet), that a connected instance has a manager         *)
(* (ConnectedRuns), and which goroutines are refresh loops (LoopsKnown).   *)
(*                                                                         *)
(* What the list of proxies promises it promises only while one thing      *)
(* happens after the other. Sequential, the invariant of such a run, says  *)
(* what the one goroutine at work relies on, from where it is (Working),   *)
(* and what is true when there is none (Resting); its proof has one lemma  *)
(* per kind of step, all resting on AloneStep.                             *)
(***************************************************************************)
EXTENDS MultiProxy, TLAPS

\* Which call a goroutine is in.
CallsFit ==
  \A t \in Threads :
    /\ pc[t] \in {"idle", "select"} => loc[t].op = "start"
    /\ pc[t] \in {"want", "sleep", "giveup"} => loc[t].op = "reconnect"
    /\ pc[t] = "next" => loc[t].op = "refresh"

\* startProxyInstance works on a mapping and, from the swap on, on a manager.
LocalsSet ==
  \A t \in Threads :
    /\ pc[t] \in {"disconnect", "fetch", "launch", "ready", "setproxy", "mainport"} =>
         loc[t].id \in Ids
    /\ pc[t] \in {"launch", "ready", "setproxy", "mainport", "up"} => loc[t].mgr # 0

ConnectedRuns == \A i \in Ids : multi[i].state = "connected" => Runs(i)

ControlInv == TypeOK /\ CallsFit /\ LocalsSet /\ ConnectedRuns

IsLoop(w) == loc[w].op = "refresh" \/ pc[w] = "select"

\* The refresh loops are the one App can stop and those it has stopped.
LoopsKnown ==
  /\ \A w \in Workers : IsLoop(w) <=> w \in stopped \/ refreshStop = w
  /\ refreshStop \notin stopped

IInv == ControlInv /\ LoopsKnown /\ ConnectedIsRefreshed /\ ProxyIsOwned

-----------------------------------------------------------------------------
(* Types                                                                   *)

\* Changing one local of a goroutine.
LEMMA SetLocals ==
  ASSUME NEW l \in [Threads -> Locals], NEW t \in Threads
  PROVE  /\ \A o \in {"start", "stop", "remove", "connect", "logout", "reconnect", "refresh"} :
              [l EXCEPT ![t].op = o] \in [Threads -> Locals]
         /\ \A i \in Ports : [l EXCEPT ![t].id = i] \in [Threads -> Locals]
         /\ \A k \in Managers \cup {0} : [l EXCEPT ![t].mgr = k] \in [Threads -> Locals]
         /\ \A m \in BOOLEAN : [l EXCEPT ![t].main = m] \in [Threads -> Locals]
         /\ \A n \in Nat : [l EXCEPT ![t].attempt = n] \in [Threads -> Locals]
         /\ \A s \in SUBSET (Ids \X (Managers \cup {0})) :
              [l EXCEPT ![t].todo = s] \in [Threads -> Locals]
BY DEF Locals

\* Changing the state or the flag of an instance.
LEMMA SetInstances ==
  ASSUME NEW f \in [Ids -> Instances], NEW i
  PROVE  /\ \A s \in {"disconnected", "connecting", "connected", "error"} :
              [f EXCEPT ![i].state = s] \in [Ids -> Instances]
         /\ \A b \in BOOLEAN : [f EXCEPT ![i].reconnecting = b] \in [Ids -> Instances]
BY DEF Instances

\* failMulti leaves instances of the declared type.
LEMMA FailedTypes ==
  ASSUME TypeOK, NEW i
  PROVE  Failed(i) \in [Ids -> Instances]
BY SetInstances DEF TypeOK, Failed

\* The bound and the history keep their types when something begins.
LEMMA BeginsTypes ==
  ASSUME TypeOK, NEW more \in SUBSET {"moved"}, Begins(more)
  PROVE  events' \in 0 .. MaxEvents /\ happened' \subseteq {"overlap", "moved", "kept"}
BY MultiAssumption DEF TypeOK, Begins

\* The locals of a goroutine that goes on, tries again or returns.
LEMMA LeaveTypes ==
  ASSUME TypeOK, NEW t \in Threads
  PROVE  /\ Leave(t) \in [Threads -> Locals]
         /\ [Leave(t) EXCEPT ![t].attempt = @ + 1] \in [Threads -> Locals]
         /\ [loc EXCEPT ![t] = NoLocals] \in [Threads -> Locals]
<1>1. Leave(t) \in [Threads -> Locals]
  <2> DEFINE l == [loc EXCEPT ![t].mgr = 0]
  <2>1. l \in [Threads -> Locals]
    BY SetLocals DEF TypeOK
  <2>2. [l EXCEPT ![t].main = FALSE] \in [Threads -> Locals]
    <3> HIDE DEF l
    <3> QED
      BY <2>1, SetLocals
  <2> QED
    BY <2>2 DEF Leave
<1>2. NoLocals \in Locals
  BY DEF NoLocals, Locals, Ports
<1>3. Leave(t)[t].attempt + 1 \in Nat
  BY <1>1 DEF Locals
<1> QED
  BY <1>1, <1>2, <1>3, SetLocals DEF TypeOK

\* A goroutine and what it is doing, in a call that begins.
LEMMA CallTypes ==
  ASSUME TypeOK, NEW t \in Threads, NEW i \in Ports, NEW from, NEW to \in Labels,
         NEW o \in {"stop", "remove", "reconnect"}, Goto(t, from, to)
  PROVE  /\ pc' \in [Threads -> Labels]
         /\ [loc EXCEPT ![t].op = o, ![t].id = i] \in [Threads -> Locals]
<1> DEFINE l == [loc EXCEPT ![t].op = o]
<1>1. l \in [Threads -> Locals]
  BY SetLocals DEF TypeOK
<1>2. [l EXCEPT ![t].id = i] \in [Threads -> Locals]
  <2> HIDE DEF l
  <2> QED
    BY <1>1, SetLocals
<1> QED
  BY <1>2 DEF TypeOK, Goto

\* Where a goroutine is after startProxyInstance failed, and in which call.
LEMMA AfterFailure ==
  ASSUME TypeOK, NEW t \in Threads, NEW from, FailMulti(t, from)
  PROVE  /\ \A u \in Threads : u # t => loc'[u] = loc[u] /\ pc'[u] = pc[u]
         /\ pc[t] = from /\ UNCHANGED timerVars
         /\ \/ loc[t].op = "refresh" /\ pc'[t] = "next" /\ loc'[t].op = "refresh"
            \/ loc[t].op = "reconnect" /\ pc'[t] \in {"want", "giveup"} /\ loc'[t].op = "reconnect"
            \/ loc[t].op \notin {"refresh", "reconnect"} /\ pc'[t] = "idle" /\ loc'[t].op = "start"
<1>1. ReturnError(t, from) /\ UNCHANGED timerVars
  BY DEF FailMulti
<1>2. CASE loc[t].op = "refresh"
  BY <1>1, <1>2 DEF TypeOK, ReturnError, Goto, Leave, Threads, Locals
<1>3. CASE loc[t].op = "reconnect"
  BY <1>1, <1>3 DEF TypeOK, ReturnError, Goto, Leave, Threads, Locals
<1>4. CASE loc[t].op \notin {"refresh", "reconnect"}
  BY <1>1, <1>4 DEF TypeOK, ReturnError, Return, Goto, Leave, Threads, Locals, NoLocals
<1> QED
  BY <1>1, <1>2, <1>3, <1>4

\* A failed start keeps the types.
LEMMA FailMultiTypes ==
  ASSUME TypeOK, NEW t \in Threads, NEW from, FailMulti(t, from)
  PROVE  TypeOK'
<1>1. pc' \in [Threads -> Labels] /\ loc' \in [Threads -> Locals]
  <2>1. ReturnError(t, from)
    BY DEF FailMulti
  <2>2. CASE loc[t].op = "refresh"
    BY <2>1, <2>2, LeaveTypes DEF TypeOK, ReturnError, Goto, Labels
  <2>3. CASE loc[t].op = "reconnect"
    BY <2>1, <2>3, LeaveTypes DEF TypeOK, ReturnError, Goto, Labels
  <2>4. CASE loc[t].op \notin {"refresh", "reconnect"}
    BY <2>1, <2>4, LeaveTypes DEF TypeOK, ReturnError, Return, Goto, Labels
  <2> QED
    BY <2>2, <2>3, <2>4
<1> QED
  BY <1>1, FailedTypes DEF TypeOK, FailMulti, settingVars, timerVars, pastVars

\* A crash seen by onMultiExit: nothing begins, or one goroutine does.
LEMMA ExitStarts ==
  ASSUME TypeOK, NEW i \in Ids, NEW k \in Managers, OnMultiExit(i, k)
  PROVE  /\ UNCHANGED timerVars /\ UNCHANGED <<settingVars, mainPort, reg, single, pastVars>>
         /\ \/ UNCHANGED <<pc, loc>>
            \/ \E w \in Workers :
                 /\ pc[w] = "idle" /\ pc' = [pc EXCEPT ![w] = "want"]
                 /\ loc' \in [Threads -> Locals] /\ loc'[w].op = "reconnect"
                 /\ \A u \in Threads : u # w => pc'[u] = pc[u] /\ loc'[u] = loc[u]
<1>1. ASSUME NEW w \in Workers, Goto(w, "idle", "want"),
             loc' = [loc EXCEPT ![w].op = "reconnect", ![w].id = i, ![w].attempt = 1]
      PROVE  /\ pc[w] = "idle" /\ pc' = [pc EXCEPT ![w] = "want"]
             /\ loc' \in [Threads -> Locals] /\ loc'[w].op = "reconnect"
             /\ \A u \in Threads : u # w => pc'[u] = pc[u] /\ loc'[u] = loc[u]
  <2> DEFINE l == [loc EXCEPT ![w].op = "reconnect", ![w].id = i]
  <2>1. l \in [Threads -> Locals] /\ w \in Threads
    BY <1>1, CallTypes DEF Ports, Threads, Labels
  <2>2. [l EXCEPT ![w].attempt = 1] \in [Threads -> Locals]
    <3> HIDE DEF l
    <3> QED
      BY <2>1, SetLocals
  <2>3. loc'[w].op = "reconnect" /\ \A u \in Threads : u # w => pc'[u] = pc[u] /\ loc'[u] = loc[u]
    BY <1>1, <2>1 DEF TypeOK, Goto, Locals
  <2> QED
    BY <1>1, <2>2, <2>3 DEF Goto
<1>2. UNCHANGED timerVars /\ UNCHANGED <<settingVars, mainPort, reg, single, pastVars>>
  BY DEF OnMultiExit
<1>3. CASE UNCHANGED <<pc, loc>>
  BY <1>2, <1>3
<1> QED
  BY <1>1, <1>2, <1>3 DEF OnMultiExit

\* Every step keeps the types.
LEMMA TypeStep ==
  ASSUME TypeOK, Next
  PROVE  TypeOK'
<1> USE MultiAssumption DEF TypeOK, Labels, StartBody, Ports, Threads, Goto, Step, Return, Begins, StopCall,
    settingVars, timerVars, pastVars
<1>0. NoLocals \in Locals /\ NoInstance \in Instances
  BY DEF NoLocals, Locals, NoInstance, Instances
<1> USE <1>0
<1>1. ASSUME NEW t \in Callers, NEW i \in Ids, StartMultiProxy(t, i) PROVE TypeOK'
  <2> DEFINE l == [loc EXCEPT ![t].id = i]
  <2>1. l \in [Threads -> Locals] /\ (i = mainId) \in BOOLEAN /\ t \in Threads
    BY SetLocals DEF TypeOK, Ports, Threads
  <2>2. [l EXCEPT ![t].main = (i = mainId)] \in [Threads -> Locals]
    <3> HIDE DEF l
    <3> QED
      BY <2>1, SetLocals
  <2>3. pc' \in [Threads -> Labels] /\ loc' \in [Threads -> Locals]
    BY <1>1, <2>2 DEF TypeOK, StartMultiProxy, Goto, Labels
  <2> QED
    BY <1>1, <2>3, BeginsTypes DEF TypeOK, StartMultiProxy, settingVars, timerVars
<1>2. ASSUME NEW t \in Callers, NEW i \in Ids, StopMultiProxy(t, i) PROVE TypeOK'
  <2>1. pc' \in [Threads -> Labels] /\ loc' \in [Threads -> Locals]
    BY <1>2, CallTypes DEF StopMultiProxy, StopCall, Ports, Threads, Labels
  <2> QED
    BY <1>2, <2>1, BeginsTypes DEF TypeOK, StopMultiProxy, StopCall, settingVars, timerVars
<1>3. ASSUME NEW t \in Callers, NEW i \in Ids, RemoveMultiProxy(t, i) PROVE TypeOK'
  <2>1. pc' \in [Threads -> Labels] /\ loc' \in [Threads -> Locals]
    BY <1>3, CallTypes DEF RemoveMultiProxy, StopCall, Ports, Threads, Labels
  <2> QED
    BY <1>3, <2>1, BeginsTypes DEF TypeOK, RemoveMultiProxy, StopCall, settingVars, timerVars
<1>4. ASSUME NEW t \in Callers, NEW i \in Ids, NEW m \in BOOLEAN, UpdateMultiProxy(t, i, m)
      PROVE TypeOK'
  <2>1. pc' \in [Threads -> Labels] /\ loc' \in [Threads -> Locals]
    BY <1>4, CallTypes DEF UpdateMultiProxy, StopCall, Ports, Threads, Labels
  <2>2. mainId' \in Ports
    BY <1>4 DEF TypeOK, UpdateMultiProxy, WithMain, Ports
  <2>3. Moved(i, m) \in SUBSET {"moved"}
    BY DEF Moved
  <2> QED
    BY <1>4, <2>1, <2>2, <2>3, BeginsTypes
    DEF TypeOK, UpdateMultiProxy, StopCall, settingVars, timerVars
<1>5. ASSUME NEW t \in Callers, NEW i \in Ids, NEW m \in BOOLEAN, AddMultiProxy(t, i, m)
      PROVE TypeOK'
  <2>1. Moved(i, m) \in SUBSET {"moved"}
    BY DEF Moved
  <2> QED
    BY <1>5, <2>1, BeginsTypes DEF TypeOK, AddMultiProxy, WithMain, Ports, timerVars
<1>6. ASSUME NEW t \in Callers, Connect(t) PROVE TypeOK'
  <2>1. pc' \in [Threads -> Labels] /\ loc' \in [Threads -> Locals]
    BY <1>6, SetLocals DEF TypeOK, Connect, Goto, Threads, Labels
  <2> QED
    BY <1>6, <2>1, BeginsTypes DEF TypeOK, Connect, settingVars, timerVars
<1>7. ASSUME NEW t \in Callers, Logout(t) PROVE TypeOK'
  <2>1. pc' \in [Threads -> Labels] /\ loc' \in [Threads -> Locals]
    BY <1>7, SetLocals DEF TypeOK, Logout, Goto, Threads, Labels
  <2> QED
    BY <1>7, <2>1, BeginsTypes DEF TypeOK, Logout, settingVars, timerVars
<1>8. ASSUME NEW t \in Callers, Stop(t) PROVE TypeOK'
  BY <1>8 DEF Stop, WasMain, HaltedInstance, Runs, Halted
<1>9. ASSUME NEW t \in Callers, Own(t) PROVE TypeOK'
  BY <1>9 DEF Own
<1>10. ASSUME NEW t \in Callers, Clear(t) PROVE TypeOK'
  BY <1>10 DEF Clear, AfterClear
<1>11. ASSUME NEW t \in Callers, ClearFails(t) PROVE TypeOK'
  BY <1>11 DEF ClearFails, AfterClear
<1>12. ASSUME NEW t \in Callers, StopMultiRefreshIfIdle(t) PROVE TypeOK'
  <2>1. pc' \in [Threads -> Labels] /\ loc' \in [Threads -> Locals]
    BY <1>12, LeaveTypes
    DEF TypeOK, StopMultiRefreshIfIdle, Step, Return, Goto, Labels, Threads
  <2>2. refreshStop' \in Workers \cup {NoLoop} /\ stopped' \subseteq Workers
    BY <1>12 DEF TypeOK, StopMultiRefreshIfIdle, CloseRefresh, timerVars
  <2> QED
    BY <1>12, <2>1, <2>2 DEF TypeOK, StopMultiRefreshIfIdle, settingVars, pastVars
<1>13. ASSUME NEW t \in Callers, Unmap(t) PROVE TypeOK'
  BY <1>13 DEF Unmap
<1>14. ASSUME NEW t \in Callers, StopAll(t) PROVE TypeOK'
  <2> DEFINE l == [loc EXCEPT ![t].main = MainOwned]
             s == {<<i, multi[i].mgr>> : i \in {j \in Ids : Runs(j)}}
  <2>1. l \in [Threads -> Locals] /\ t \in Threads
    BY SetLocals DEF TypeOK, Threads, MainOwned
  <2>2. s \in SUBSET (Ids \X (Managers \cup {0}))
    BY DEF TypeOK, Instances
  <2>3. [l EXCEPT ![t].todo = s] \in [Threads -> Locals]
    <3> HIDE DEF l, s
    <3> QED
      BY <2>1, <2>2, SetLocals
  <2>4. pc' \in [Threads -> Labels] /\ loc' \in [Threads -> Locals] /\ mainPort' \in Ports
    BY <1>14, <2>3 DEF TypeOK, StopAll, Goto, Labels, Ports
  <2>5. multi' \in [Ids -> Instances]
    BY <1>14 DEF StopAll, NoInstance, Instances
  <2>6. refreshStop' \in Workers \cup {NoLoop} /\ stopped' \subseteq Workers
    BY <1>14 DEF TypeOK, StopAll, CloseRefresh
  <2> HIDE DEF l, s
  <2> QED
    BY <1>14, <2>4, <2>5, <2>6 DEF TypeOK, StopAll, settingVars, pastVars
<1>15. ASSUME NEW t \in Callers, StopNext(t) PROVE TypeOK'
  <2>1. loc' \in [Threads -> Locals]
    BY <1>15 DEF TypeOK, StopNext, Locals, Threads
  <2>2. ASSUME NEW m
        PROVE  Halted(m) \in [Ids \X Managers -> {"none", "up", "down", "noticed"}]
    BY DEF TypeOK, Halted
  <2> QED
    BY <1>15, <2>1, <2>2 DEF TypeOK, StopNext, settingVars, timerVars, pastVars
<1>16. ASSUME NEW t \in Callers, StoppedAll(t) PROVE TypeOK'
  BY <1>16 DEF StoppedAll
<1>17. ASSUME NEW t \in Callers, Connected(t) PROVE TypeOK'
  BY <1>17 DEF Connected
<1>18. ASSUME NEW t \in Threads, DisconnectSingle(t) PROVE TypeOK'
  BY <1>18 DEF DisconnectSingle
<1>19. ASSUME NEW t \in Threads, FetchFails(t) PROVE TypeOK'
  BY <1>19, FailMultiTypes DEF FetchFails
<1>20. ASSUME NEW t \in Threads, Swap(t) PROVE TypeOK'
  <2>1. PICK k \in Managers :
          /\ loc' = [loc EXCEPT ![t].mgr = k]
          /\ multi' = [multi EXCEPT ![loc[t].id] =
               [mgr |-> k, main |-> loc[t].main, reconnecting |-> FALSE, state |-> "connecting"]]
    BY <1>20 DEF Swap
  <2>2. loc' \in [Threads -> Locals] /\ loc[t].main \in BOOLEAN
    BY <2>1 DEF TypeOK, Locals
  <2>3. multi' \in [Ids -> Instances]
    BY <2>1, <2>2 DEF TypeOK, Instances
  <2>4. pc' \in [Threads -> Labels]
    BY <1>20 DEF TypeOK, Swap, Goto, Labels, StartBody
  <2>5. proc' \in [Ids \X Managers -> {"none", "up", "down", "noticed"}]
    BY <1>20 DEF TypeOK, Swap, HaltedInstance, Halted
  <2> QED
    BY <1>20, <2>2, <2>3, <2>4, <2>5 DEF TypeOK, Swap, settingVars, timerVars, pastVars
<1>21. ASSUME NEW t \in Threads, Launch(t) PROVE TypeOK'
  BY <1>21 DEF Launch, Mgr
<1>22. ASSUME NEW t \in Threads, LaunchFails(t) PROVE TypeOK'
  BY <1>22, FailMultiTypes DEF LaunchFails
<1>23. ASSUME NEW t \in Threads, Ready(t) PROVE TypeOK'
  BY <1>23 DEF Ready, Mgr
<1>24. ASSUME NEW t \in Threads, NotReady(t) PROVE TypeOK'
  BY <1>24 DEF NotReady, Mgr
<1>25. ASSUME NEW t \in Threads, Abort(t) PROVE TypeOK'
  BY <1>25 DEF Abort, Halted, Mgr
<1>26. ASSUME NEW t \in Threads, SetProxy(t) PROVE TypeOK'
  BY <1>26 DEF SetProxy, Locals
<1>27. ASSUME NEW t \in Threads, SetProxyFails(t) PROVE TypeOK'
  BY <1>27 DEF SetProxyFails
<1>28. ASSUME NEW t \in Threads, MainPort(t) PROVE TypeOK'
  BY <1>28 DEF MainPort, Locals
<1>29. ASSUME NEW t \in Threads, Up(t) PROVE TypeOK'
  <2>1. multi' \in [Ids -> Instances]
    <3>1. CASE multi[loc[t].id].mgr = loc[t].mgr
      BY <1>29, <3>1, SetInstances DEF TypeOK, Up
    <3>2. CASE multi[loc[t].id].mgr # loc[t].mgr
      <4>1. multi' = [multi EXCEPT ![loc[t].id].state = multi[loc[t].id].state]
        BY <1>29, <3>2 DEF Up
      <4>2. ASSUME NEW j \in Ids PROVE multi'[j] \in Instances
        BY <4>1, <4>2 DEF TypeOK, Instances
      <4> QED
        BY <4>1, <4>2 DEF TypeOK
    <3> QED
      BY <3>1, <3>2
  <2>2. pc' \in [Threads -> Labels]
    BY <1>29 DEF TypeOK, Up, Goto, Labels, StartBody
  <2> QED
    BY <1>29, <2>1, <2>2, LeaveTypes DEF TypeOK, Up, settingVars, timerVars, pastVars
<1>30. ASSUME NEW t \in Threads, StartMultiRefresh(t) PROVE TypeOK'
  <2>1. loc' \in [Threads -> Locals]
    BY <1>30 DEF StartMultiRefresh
  <2>2. pc' \in [Threads -> Labels] /\ refreshStop' \in Workers \cup {NoLoop}
    <3>1. CASE refreshStop # NoLoop
      BY <1>30, <3>1 DEF StartMultiRefresh
    <3>2. CASE refreshStop = NoLoop
      BY <1>30, <3>2 DEF StartMultiRefresh
    <3> QED
      BY <3>1, <3>2
  <2> QED
    BY <1>30, <2>1, <2>2 DEF StartMultiRefresh
<1>31. ASSUME NEW t \in Threads, Fails(t) PROVE TypeOK'
  BY <1>31, FailMultiTypes DEF Fails
<1>32. ASSUME NEW i \in Ids, NEW k \in Managers, OnMultiExit(i, k) PROVE TypeOK'
  <2>1. proc' \in [Ids \X Managers -> {"none", "up", "down", "noticed"}]
    BY <1>32 DEF TypeOK, OnMultiExit
  <2>2. multi' \in [Ids -> Instances]
    <3> DEFINE f == [multi EXCEPT ![i].reconnecting = TRUE]
    <3>1. f \in [Ids -> Instances]
      BY SetInstances DEF TypeOK
    <3>2. [f EXCEPT ![i].state = "connecting"] \in [Ids -> Instances]
      <4> HIDE DEF f
      <4> QED
        BY <3>1, SetInstances
    <3> QED
      BY <1>32, <3>2 DEF OnMultiExit, TypeOK
  <2>3. /\ pc' \in [Threads -> Labels] /\ loc' \in [Threads -> Locals]
        /\ UNCHANGED timerVars /\ UNCHANGED <<settingVars, mainPort, reg, single, pastVars>>
    BY <1>32, ExitStarts DEF TypeOK, Labels
  <2> QED
    BY <2>1, <2>2, <2>3 DEF TypeOK, settingVars, timerVars, pastVars
<1>33. ASSUME NEW w \in Workers, Want(w) PROVE TypeOK'
  <2>1. pc' \in [Threads -> Labels] /\ loc' \in [Threads -> Locals]
    BY <1>33, LeaveTypes DEF TypeOK, Want, Step, Return, Goto, Labels, Threads
  <2> QED
    BY <1>33, <2>1 DEF TypeOK, Want, settingVars, timerVars, pastVars
<1>34. ASSUME NEW w \in Workers, Sleep(w) PROVE TypeOK'
  <2>1. w \in Threads /\ (loc[w].id = mainId) \in BOOLEAN
    BY DEF Threads
  <2>2. [loc EXCEPT ![w].main = (loc[w].id = mainId)] \in [Threads -> Locals]
    BY <2>1, SetLocals DEF TypeOK
  <2>3. loc' \in [Threads -> Locals]
    BY <1>34, <2>1, <2>2, LeaveTypes DEF Sleep, Return
  <2>4. pc' \in [Threads -> Labels]
    BY <1>34 DEF TypeOK, Sleep, Return, Goto, Labels, StartBody
  <2> QED
    BY <1>34, <2>3, <2>4 DEF TypeOK, Sleep, settingVars, timerVars, pastVars
<1>35. ASSUME NEW w \in Workers, GiveUp(w) PROVE TypeOK'
  <2>1. pc' \in [Threads -> Labels] /\ loc' \in [Threads -> Locals]
    BY <1>35, LeaveTypes DEF TypeOK, GiveUp, Return, Goto, Labels, Threads
  <2>2. multi' \in [Ids -> Instances]
    <3>1. Failed(loc[w].id) \in [Ids -> Instances]
      BY FailedTypes
    <3> QED
      BY <1>35, <3>1, SetInstances DEF GiveUp
  <2> QED
    BY <1>35, <2>1, <2>2 DEF TypeOK, GiveUp, settingVars, timerVars, pastVars
<1>36. ASSUME NEW w \in Workers, Tick(w) PROVE TypeOK'
  <2>1. PICK due \in (SUBSET {i \in Ids : Steady(i)}) \ {{}} :
          loc' = [loc EXCEPT ![w].op = "refresh", ![w].todo = {<<i, 0>> : i \in due}]
    BY <1>36 DEF Tick
  <2> DEFINE l == [loc EXCEPT ![w].op = "refresh"]
             s == {<<i, 0>> : i \in due}
  <2>2. l \in [Threads -> Locals] /\ w \in Threads
    BY SetLocals DEF TypeOK, Threads
  <2>3. s \in SUBSET (Ids \X (Managers \cup {0}))
    OBVIOUS
  <2>4. [l EXCEPT ![w].todo = s] \in [Threads -> Locals]
    <3> HIDE DEF l, s
    <3> QED
      BY <2>2, <2>3, SetLocals
  <2>5. pc' \in [Threads -> Labels] /\ loc' \in [Threads -> Locals]
    BY <1>36, <2>1, <2>4 DEF TypeOK, Tick, Goto, Labels
  <2> HIDE DEF l, s
  <2> QED
    BY <1>36, <2>5, BeginsTypes DEF TypeOK, Tick, settingVars, timerVars
<1>37. ASSUME NEW w \in Workers, RefreshNext(w) PROVE TypeOK'
  <2>1. PICK m \in loc[w].todo :
          /\ loc' = [loc EXCEPT ![w].todo = @ \ {m}, ![w].id = m[1],
                                ![w].main = (m[1] = mainId)]
          /\ pc' = [pc EXCEPT ![w] = IF m[1] \in mapped THEN "fetch" ELSE "next"]
    BY <1>37 DEF RefreshNext, Goto
  <2>2. m[1] \in Ids /\ w \in Threads /\ (m[1] = mainId) \in BOOLEAN
    BY DEF TypeOK, Locals, Threads
  <2> DEFINE l == [loc EXCEPT ![w].todo = @ \ {m}]
             n == [l EXCEPT ![w].id = m[1]]
  <2>3. l \in [Threads -> Locals]
    BY <2>2 DEF TypeOK, Locals
  <2>4. n \in [Threads -> Locals]
    <3> HIDE DEF l
    <3> QED
      BY <2>2, <2>3, SetLocals DEF Ports
  <2>5. [n EXCEPT ![w].main = (m[1] = mainId)] \in [Threads -> Locals]
    <3> HIDE DEF n
    <3> QED
      BY <2>2, <2>4, SetLocals
  <2>6. pc' \in [Threads -> Labels]
    BY <2>1 DEF TypeOK, Labels, StartBody
  <2>7. loc' \in [Threads -> Locals]
    BY <2>1, <2>5
  <2> HIDE DEF l, n
  <2> QED
    BY <1>37, <2>6, <2>7 DEF TypeOK, RefreshNext, settingVars, timerVars, pastVars
<1>38. ASSUME NEW w \in Workers, RefreshDone(w) PROVE TypeOK'
  BY <1>38 DEF RefreshDone
<1>39. ASSUME NEW w \in Workers, LoopExit(w) PROVE TypeOK'
  BY <1>39 DEF LoopExit
<1>40. ASSUME Crash PROVE TypeOK'
  BY <1>40 DEF Crash, Falls
<1>41. ASSUME Notice PROVE TypeOK'
  BY <1>41 DEF Notice, Falls
<1> HIDE <1>0 DEF TypeOK, Labels, StartBody, Ports, Threads
<1> QED
  BY <1>1, <1>2, <1>3, <1>4, <1>5, <1>6, <1>7, <1>8, <1>9, <1>10, <1>11, <1>12, <1>13, <1>14,
    <1>15, <1>16, <1>17, <1>18, <1>19, <1>20, <1>21, <1>22, <1>23, <1>24, <1>25, <1>26, <1>27,
    <1>28, <1>29, <1>30, <1>31, <1>32, <1>33, <1>34, <1>35, <1>36, <1>37, <1>38, <1>39, <1>40,
    <1>41 DEF Next, CallStep, StopStep, StartStep, WorkerStep

-----------------------------------------------------------------------------
(* In which call goroutines are, and what their locals name                *)

\* A step leaves every goroutine in the call its place belongs to.
LEMMA CallsStep ==
  ASSUME TypeOK, CallsFit, Next
  PROVE  CallsFit'
<1> USE MultiAssumption DEF TypeOK, CallsFit, Threads, NoLocals, Goto, Step, Return, Begins, StopCall, settingVars,
    timerVars, pastVars
<1>1. ASSUME NEW t \in Callers, NEW i \in Ids, StartMultiProxy(t, i) PROVE CallsFit'
  BY <1>1 DEF StartMultiProxy
<1>2. ASSUME NEW t \in Callers, NEW i \in Ids, StopMultiProxy(t, i) PROVE CallsFit'
  BY <1>2 DEF StopMultiProxy
<1>3. ASSUME NEW t \in Callers, NEW i \in Ids, RemoveMultiProxy(t, i) PROVE CallsFit'
  BY <1>3 DEF RemoveMultiProxy
<1>4. ASSUME NEW t \in Callers, NEW i \in Ids, NEW m \in BOOLEAN, UpdateMultiProxy(t, i, m)
      PROVE CallsFit'
  BY <1>4 DEF UpdateMultiProxy
<1>5. ASSUME NEW t \in Callers, NEW i \in Ids, NEW m \in BOOLEAN, AddMultiProxy(t, i, m)
      PROVE CallsFit'
  BY <1>5 DEF AddMultiProxy
<1>6. ASSUME NEW t \in Callers, Connect(t) PROVE CallsFit'
  BY <1>6 DEF Connect
<1>7. ASSUME NEW t \in Callers, Logout(t) PROVE CallsFit'
  BY <1>7 DEF Logout
<1>8. ASSUME NEW t \in Callers, Stop(t) PROVE CallsFit'
  BY <1>8 DEF Stop, NoInstance, Runs
<1>9. ASSUME NEW t \in Callers, Own(t) PROVE CallsFit'
  BY <1>9 DEF Own
<1>10. ASSUME NEW t \in Callers, Clear(t) PROVE CallsFit'
  BY <1>10 DEF Clear, AfterClear
<1>11. ASSUME NEW t \in Callers, ClearFails(t) PROVE CallsFit'
  BY <1>11 DEF ClearFails, AfterClear
<1>12. ASSUME NEW t \in Callers, StopMultiRefreshIfIdle(t) PROVE CallsFit'
  BY <1>12 DEF StopMultiRefreshIfIdle, NoneRuns, Runs, CloseRefresh
<1>13. ASSUME NEW t \in Callers, Unmap(t) PROVE CallsFit'
  BY <1>13 DEF Unmap
<1>14. ASSUME NEW t \in Callers, StopAll(t) PROVE CallsFit'
  BY <1>14 DEF StopAll, NoInstance, MainOwned, Runs, CloseRefresh
<1>15. ASSUME NEW t \in Callers, StopNext(t) PROVE CallsFit'
  BY <1>15 DEF StopNext
<1>16. ASSUME NEW t \in Callers, StoppedAll(t) PROVE CallsFit'
  BY <1>16 DEF StoppedAll
<1>17. ASSUME NEW t \in Callers, Connected(t) PROVE CallsFit'
  BY <1>17 DEF Connected
<1>18. ASSUME NEW t \in Threads, DisconnectSingle(t) PROVE CallsFit'
  BY <1>18 DEF DisconnectSingle
<1>19. ASSUME NEW t \in Threads, FetchFails(t) PROVE CallsFit'
  BY <1>19, AfterFailure DEF CallsFit, FetchFails
<1>20. ASSUME NEW t \in Threads, Swap(t) PROVE CallsFit'
  BY <1>20 DEF Swap, Runs
<1>21. ASSUME NEW t \in Threads, Launch(t) PROVE CallsFit'
  BY <1>21 DEF Launch
<1>22. ASSUME NEW t \in Threads, LaunchFails(t) PROVE CallsFit'
  BY <1>22, AfterFailure DEF CallsFit, LaunchFails
<1>23. ASSUME NEW t \in Threads, Ready(t) PROVE CallsFit'
  BY <1>23 DEF Ready
<1>24. ASSUME NEW t \in Threads, NotReady(t) PROVE CallsFit'
  BY <1>24 DEF NotReady
<1>25. ASSUME NEW t \in Threads, Abort(t) PROVE CallsFit'
  BY <1>25 DEF Abort
<1>26. ASSUME NEW t \in Threads, SetProxy(t) PROVE CallsFit'
  BY <1>26 DEF SetProxy
<1>27. ASSUME NEW t \in Threads, SetProxyFails(t) PROVE CallsFit'
  BY <1>27 DEF SetProxyFails
<1>28. ASSUME NEW t \in Threads, MainPort(t) PROVE CallsFit'
  BY <1>28 DEF MainPort
<1>29. ASSUME NEW t \in Threads, Up(t) PROVE CallsFit'
  BY <1>29 DEF Up, Leave
<1>30. ASSUME NEW t \in Threads, StartMultiRefresh(t) PROVE CallsFit'
  BY <1>30 DEF StartMultiRefresh
<1>31. ASSUME NEW t \in Threads, Fails(t) PROVE CallsFit'
  BY <1>31, AfterFailure DEF CallsFit, Fails
<1>32. ASSUME NEW i \in Ids, NEW k \in Managers, OnMultiExit(i, k) PROVE CallsFit'
  BY <1>32, ExitStarts DEF TypeOK, CallsFit, Threads
<1>33. ASSUME NEW w \in Workers, Want(w) PROVE CallsFit'
  BY <1>33 DEF Want, Runs
<1>34. ASSUME NEW w \in Workers, Sleep(w) PROVE CallsFit'
  BY <1>34 DEF Sleep
<1>35. ASSUME NEW w \in Workers, GiveUp(w) PROVE CallsFit'
  BY <1>35 DEF GiveUp, Failed, Runs
<1>36. ASSUME NEW w \in Workers, Tick(w) PROVE CallsFit'
  BY <1>36 DEF Tick, Steady, Runs
<1>37. ASSUME NEW w \in Workers, RefreshNext(w) PROVE CallsFit'
  BY <1>37 DEF RefreshNext
<1>38. ASSUME NEW w \in Workers, RefreshDone(w) PROVE CallsFit'
  BY <1>38 DEF RefreshDone
<1>39. ASSUME NEW w \in Workers, LoopExit(w) PROVE CallsFit'
  BY <1>39 DEF LoopExit
<1>40. ASSUME Crash PROVE CallsFit'
  BY <1>40 DEF Crash, Falls
<1>41. ASSUME Notice PROVE CallsFit'
  BY <1>41 DEF Notice, Falls
<1> QED
  BY <1>1, <1>2, <1>3, <1>4, <1>5, <1>6, <1>7, <1>8, <1>9, <1>10, <1>11, <1>12, <1>13, <1>14,
    <1>15, <1>16, <1>17, <1>18, <1>19, <1>20, <1>21, <1>22, <1>23, <1>24, <1>25, <1>26, <1>27,
    <1>28, <1>29, <1>30, <1>31, <1>32, <1>33, <1>34, <1>35, <1>36, <1>37, <1>38, <1>39, <1>40,
    <1>41 DEF Next, CallStep, StopStep, StartStep, WorkerStep

\* A step leaves a goroutine with the mapping and the manager it works on.
LEMMA LocalsStep ==
  ASSUME ControlInv, Next
  PROVE  LocalsSet'
<1> USE MultiAssumption DEF ControlInv, TypeOK, LocalsSet, Threads, NoLocals, Goto, Step, Return, Begins, StopCall,
    settingVars, timerVars, pastVars
<1>1. ASSUME NEW t \in Callers, NEW i \in Ids, StartMultiProxy(t, i) PROVE LocalsSet'
  BY <1>1 DEF StartMultiProxy
<1>2. ASSUME NEW t \in Callers, NEW i \in Ids, StopMultiProxy(t, i) PROVE LocalsSet'
  BY <1>2 DEF StopMultiProxy
<1>3. ASSUME NEW t \in Callers, NEW i \in Ids, RemoveMultiProxy(t, i) PROVE LocalsSet'
  BY <1>3 DEF RemoveMultiProxy
<1>4. ASSUME NEW t \in Callers, NEW i \in Ids, NEW m \in BOOLEAN, UpdateMultiProxy(t, i, m)
      PROVE LocalsSet'
  BY <1>4 DEF UpdateMultiProxy
<1>5. ASSUME NEW t \in Callers, NEW i \in Ids, NEW m \in BOOLEAN, AddMultiProxy(t, i, m)
      PROVE LocalsSet'
  BY <1>5 DEF AddMultiProxy
<1>6. ASSUME NEW t \in Callers, Connect(t) PROVE LocalsSet'
  BY <1>6 DEF Connect
<1>7. ASSUME NEW t \in Callers, Logout(t) PROVE LocalsSet'
  BY <1>7 DEF Logout
<1>8. ASSUME NEW t \in Callers, Stop(t) PROVE LocalsSet'
  BY <1>8 DEF Stop, NoInstance, Runs
<1>9. ASSUME NEW t \in Callers, Own(t) PROVE LocalsSet'
  BY <1>9 DEF Own
<1>10. ASSUME NEW t \in Callers, Clear(t) PROVE LocalsSet'
  BY <1>10 DEF Clear, AfterClear
<1>11. ASSUME NEW t \in Callers, ClearFails(t) PROVE LocalsSet'
  BY <1>11 DEF ClearFails, AfterClear
<1>12. ASSUME NEW t \in Callers, StopMultiRefreshIfIdle(t) PROVE LocalsSet'
  BY <1>12 DEF StopMultiRefreshIfIdle, NoneRuns, Runs, CloseRefresh
<1>13. ASSUME NEW t \in Callers, Unmap(t) PROVE LocalsSet'
  BY <1>13 DEF Unmap
<1>14. ASSUME NEW t \in Callers, StopAll(t) PROVE LocalsSet'
  BY <1>14 DEF StopAll, NoInstance, MainOwned, Runs, CloseRefresh
<1>15. ASSUME NEW t \in Callers, StopNext(t) PROVE LocalsSet'
  BY <1>15 DEF StopNext
<1>16. ASSUME NEW t \in Callers, StoppedAll(t) PROVE LocalsSet'
  BY <1>16 DEF StoppedAll
<1>17. ASSUME NEW t \in Callers, Connected(t) PROVE LocalsSet'
  BY <1>17 DEF Connected
<1>18. ASSUME NEW t \in Threads, DisconnectSingle(t) PROVE LocalsSet'
  BY <1>18 DEF DisconnectSingle
<1>19. ASSUME NEW t \in Threads, FetchFails(t) PROVE LocalsSet'
  BY <1>19 DEF FetchFails, FailMulti, ReturnError, Leave, Failed, Runs
<1>20. ASSUME NEW t \in Threads, Swap(t) PROVE LocalsSet'
  BY <1>20 DEF Swap, Runs
<1>21. ASSUME NEW t \in Threads, Launch(t) PROVE LocalsSet'
  BY <1>21 DEF Launch
<1>22. ASSUME NEW t \in Threads, LaunchFails(t) PROVE LocalsSet'
  BY <1>22 DEF LaunchFails, FailMulti, ReturnError, Leave, Failed, Runs
<1>23. ASSUME NEW t \in Threads, Ready(t) PROVE LocalsSet'
  BY <1>23 DEF Ready
<1>24. ASSUME NEW t \in Threads, NotReady(t) PROVE LocalsSet'
  BY <1>24 DEF NotReady
<1>25. ASSUME NEW t \in Threads, Abort(t) PROVE LocalsSet'
  BY <1>25 DEF Abort
<1>26. ASSUME NEW t \in Threads, SetProxy(t) PROVE LocalsSet'
  BY <1>26 DEF SetProxy
<1>27. ASSUME NEW t \in Threads, SetProxyFails(t) PROVE LocalsSet'
  BY <1>27 DEF SetProxyFails
<1>28. ASSUME NEW t \in Threads, MainPort(t) PROVE LocalsSet'
  BY <1>28 DEF MainPort
<1>29. ASSUME NEW t \in Threads, Up(t) PROVE LocalsSet'
  BY <1>29 DEF Up, Leave
<1>30. ASSUME NEW t \in Threads, StartMultiRefresh(t) PROVE LocalsSet'
  BY <1>30 DEF StartMultiRefresh
<1>31. ASSUME NEW t \in Threads, Fails(t) PROVE LocalsSet'
  BY <1>31 DEF Fails, FailMulti, ReturnError, Leave, Failed, Runs
<1>32. ASSUME NEW i \in Ids, NEW k \in Managers, OnMultiExit(i, k) PROVE LocalsSet'
  BY <1>32 DEF OnMultiExit, Steady, Runs
<1>33. ASSUME NEW w \in Workers, Want(w) PROVE LocalsSet'
  BY <1>33 DEF Want, Runs
<1>34. ASSUME NEW w \in Workers, Sleep(w) PROVE LocalsSet'
  <2>1. CASE loc[w].id \in mapped
    BY <1>34, <2>1, MultiAssumption
    DEF ControlInv, TypeOK, LocalsSet, Sleep, Goto, Return, Threads, Locals, NoLocals
  <2>2. CASE loc[w].id \notin mapped
    BY <1>34, <2>2, MultiAssumption
    DEF ControlInv, TypeOK, LocalsSet, Sleep, Goto, Return, Threads, NoLocals
  <2> QED
    BY <2>1, <2>2
<1>35. ASSUME NEW w \in Workers, GiveUp(w) PROVE LocalsSet'
  BY <1>35 DEF GiveUp, Failed, Runs
<1>36. ASSUME NEW w \in Workers, Tick(w) PROVE LocalsSet'
  BY <1>36 DEF Tick, Steady, Runs
<1>37. ASSUME NEW w \in Workers, RefreshNext(w) PROVE LocalsSet'
  BY <1>37 DEF RefreshNext
<1>38. ASSUME NEW w \in Workers, RefreshDone(w) PROVE LocalsSet'
  BY <1>38 DEF RefreshDone
<1>39. ASSUME NEW w \in Workers, LoopExit(w) PROVE LocalsSet'
  BY <1>39 DEF LoopExit
<1>40. ASSUME Crash PROVE LocalsSet'
  BY <1>40 DEF Crash, Falls
<1>41. ASSUME Notice PROVE LocalsSet'
  BY <1>41 DEF Notice, Falls
<1> QED
  BY <1>1, <1>2, <1>3, <1>4, <1>5, <1>6, <1>7, <1>8, <1>9, <1>10, <1>11, <1>12, <1>13, <1>14,
    <1>15, <1>16, <1>17, <1>18, <1>19, <1>20, <1>21, <1>22, <1>23, <1>24, <1>25, <1>26, <1>27,
    <1>28, <1>29, <1>30, <1>31, <1>32, <1>33, <1>34, <1>35, <1>36, <1>37, <1>38, <1>39, <1>40,
    <1>41 DEF Next, CallStep, StopStep, StartStep, WorkerStep

\* An instance becomes connected only where it has a manager.
LEMMA RunsStep ==
  ASSUME ControlInv, Next
  PROVE  ConnectedRuns'
<1> USE MultiAssumption DEF ControlInv, ConnectedRuns, Runs
<1>1. CASE UNCHANGED multi
  BY <1>1
<1>2. ASSUME NEW t \in Callers, Stop(t) PROVE ConnectedRuns'
  BY <1>2 DEF TypeOK, Stop, NoInstance
<1>3. ASSUME NEW t \in Callers, StopAll(t) PROVE ConnectedRuns'
  BY <1>3 DEF TypeOK, StopAll, NoInstance
<1>4. ASSUME NEW t \in Threads, Swap(t) PROVE ConnectedRuns'
  BY <1>4 DEF TypeOK, Swap
<1>5. ASSUME NEW t \in Threads, NEW from, FailMulti(t, from) PROVE ConnectedRuns'
  BY <1>5 DEF TypeOK, FailMulti, Failed
<1>6. ASSUME NEW t \in Threads, Up(t) PROVE ConnectedRuns'
  BY <1>6 DEF TypeOK, Up, LocalsSet, Goto, Threads
<1>7. ASSUME NEW i \in Ids, NEW k \in Managers, OnMultiExit(i, k) PROVE ConnectedRuns'
  <2>1. CASE Steady(i)
    <3>1. multi' = [multi EXCEPT ![i].reconnecting = TRUE, ![i].state = "connecting"]
      BY <1>7, <2>1 DEF OnMultiExit
    <3>2. multi'[i].state = "connecting" /\ \A j \in Ids : j # i => multi'[j] = multi[j]
      BY <3>1 DEF ControlInv, TypeOK, Instances
    <3> QED
      BY <3>2 DEF ControlInv, ConnectedRuns, Runs
  <2>2. CASE ~Steady(i)
    BY <1>7, <2>2 DEF ControlInv, ConnectedRuns, OnMultiExit, Runs
  <2> QED
    BY <2>1, <2>2
<1>8. ASSUME NEW w \in Workers, GiveUp(w) PROVE ConnectedRuns'
  BY <1>8 DEF TypeOK, GiveUp, Failed
<1>9. \/ UNCHANGED multi
      \/ \E t \in Callers : Stop(t) \/ StopAll(t)
      \/ \E t \in Threads : Swap(t) \/ Up(t) \/ \E from \in StartBody : FailMulti(t, from)
      \/ \E i \in Ids, k \in Managers : OnMultiExit(i, k)
      \/ \E w \in Workers : GiveUp(w)
  <2>1. ASSUME NEW t \in Callers, CallStep(t) PROVE UNCHANGED multi
    BY <2>1 DEF CallStep, StartMultiProxy, StopMultiProxy, RemoveMultiProxy, UpdateMultiProxy,
      StopCall, AddMultiProxy, Connect, Logout
  <2>2. ASSUME NEW t \in Callers, StopStep(t) PROVE Stop(t) \/ StopAll(t) \/ UNCHANGED multi
    BY <2>2 DEF StopStep, Own, Clear, ClearFails, StopMultiRefreshIfIdle, Unmap, StopNext,
      StoppedAll, Connected
  <2>3. ASSUME NEW t \in Threads, StartStep(t)
        PROVE  Swap(t) \/ Up(t) \/ UNCHANGED multi \/ \E from \in StartBody : FailMulti(t, from)
    BY <2>3 DEF StartStep, DisconnectSingle, FetchFails, Launch, LaunchFails, Ready, NotReady,
      Abort, SetProxy, SetProxyFails, MainPort, StartMultiRefresh, Fails, StartBody
  <2>4. ASSUME NEW w \in Workers, WorkerStep(w) PROVE GiveUp(w) \/ UNCHANGED multi
    BY <2>4 DEF WorkerStep, Want, Sleep, Tick, RefreshNext, RefreshDone, LoopExit
  <2>5. Crash \/ Notice => UNCHANGED multi
    BY DEF Crash, Notice, Falls
  <2> QED
    BY <2>1, <2>2, <2>3, <2>4, <2>5 DEF Next
<1> HIDE DEF ControlInv, ConnectedRuns, Runs
<1> QED
  BY <1>1, <1>2, <1>3, <1>4, <1>5, <1>6, <1>7, <1>8, <1>9

-----------------------------------------------------------------------------
(* The refresh loop and the system proxy                                   *)

\* A refresh loop begins where App.multiRefreshStop says so, and one that is
\* told to stop is no longer App's.
LEMMA LoopsStep ==
  ASSUME ControlInv, LoopsKnown, Next
  PROVE  LoopsKnown'
<1> USE MultiAssumption DEF ControlInv, TypeOK, CallsFit, LoopsKnown, IsLoop, NoLocals, Threads, Goto, Step, Return,
    Begins, StopCall, settingVars, timerVars, pastVars
<1>1. ASSUME NEW t \in Callers, NEW i \in Ids, StartMultiProxy(t, i) PROVE LoopsKnown'
  BY <1>1 DEF StartMultiProxy
<1>2. ASSUME NEW t \in Callers, NEW i \in Ids, StopMultiProxy(t, i) PROVE LoopsKnown'
  BY <1>2 DEF StopMultiProxy
<1>3. ASSUME NEW t \in Callers, NEW i \in Ids, RemoveMultiProxy(t, i) PROVE LoopsKnown'
  BY <1>3 DEF RemoveMultiProxy
<1>4. ASSUME NEW t \in Callers, NEW i \in Ids, NEW m \in BOOLEAN, UpdateMultiProxy(t, i, m)
      PROVE LoopsKnown'
  BY <1>4 DEF UpdateMultiProxy
<1>5. ASSUME NEW t \in Callers, NEW i \in Ids, NEW m \in BOOLEAN, AddMultiProxy(t, i, m)
      PROVE LoopsKnown'
  BY <1>5 DEF AddMultiProxy
<1>6. ASSUME NEW t \in Callers, Connect(t) PROVE LoopsKnown'
  BY <1>6 DEF Connect
<1>7. ASSUME NEW t \in Callers, Logout(t) PROVE LoopsKnown'
  BY <1>7 DEF Logout
<1>8. ASSUME NEW t \in Callers, Stop(t) PROVE LoopsKnown'
  BY <1>8 DEF Stop, NoInstance, Runs
<1>9. ASSUME NEW t \in Callers, Own(t) PROVE LoopsKnown'
  BY <1>9 DEF Own
<1>10. ASSUME NEW t \in Callers, Clear(t) PROVE LoopsKnown'
  BY <1>10 DEF Clear, AfterClear
<1>11. ASSUME NEW t \in Callers, ClearFails(t) PROVE LoopsKnown'
  BY <1>11 DEF ClearFails, AfterClear
<1>12. ASSUME NEW t \in Callers, StopMultiRefreshIfIdle(t) PROVE LoopsKnown'
  BY <1>12 DEF StopMultiRefreshIfIdle, NoneRuns, Runs, CloseRefresh
<1>13. ASSUME NEW t \in Callers, Unmap(t) PROVE LoopsKnown'
  BY <1>13 DEF Unmap
<1>14. ASSUME NEW t \in Callers, StopAll(t) PROVE LoopsKnown'
  BY <1>14 DEF StopAll, NoInstance, MainOwned, Runs, CloseRefresh
<1>15. ASSUME NEW t \in Callers, StopNext(t) PROVE LoopsKnown'
  BY <1>15 DEF StopNext
<1>16. ASSUME NEW t \in Callers, StoppedAll(t) PROVE LoopsKnown'
  BY <1>16 DEF StoppedAll
<1>17. ASSUME NEW t \in Callers, Connected(t) PROVE LoopsKnown'
  BY <1>17 DEF Connected
<1>18. ASSUME NEW t \in Threads, DisconnectSingle(t) PROVE LoopsKnown'
  BY <1>18 DEF DisconnectSingle
<1>19. ASSUME NEW t \in Threads, FetchFails(t) PROVE LoopsKnown'
  <2>1. FailMulti(t, "fetch")
    BY <1>19 DEF FetchFails
  <2> QED
    BY <2>1, AfterFailure DEF ControlInv, LoopsKnown, IsLoop, Threads, timerVars
<1>20. ASSUME NEW t \in Threads, Swap(t) PROVE LoopsKnown'
  BY <1>20 DEF Swap, Runs
<1>21. ASSUME NEW t \in Threads, Launch(t) PROVE LoopsKnown'
  BY <1>21 DEF Launch
<1>22. ASSUME NEW t \in Threads, LaunchFails(t) PROVE LoopsKnown'
  <2>1. FailMulti(t, "launch")
    BY <1>22 DEF LaunchFails
  <2> QED
    BY <2>1, AfterFailure DEF ControlInv, LoopsKnown, IsLoop, Threads, timerVars
<1>23. ASSUME NEW t \in Threads, Ready(t) PROVE LoopsKnown'
  BY <1>23 DEF Ready
<1>24. ASSUME NEW t \in Threads, NotReady(t) PROVE LoopsKnown'
  BY <1>24 DEF NotReady
<1>25. ASSUME NEW t \in Threads, Abort(t) PROVE LoopsKnown'
  BY <1>25 DEF Abort
<1>26. ASSUME NEW t \in Threads, SetProxy(t) PROVE LoopsKnown'
  BY <1>26 DEF SetProxy
<1>27. ASSUME NEW t \in Threads, SetProxyFails(t) PROVE LoopsKnown'
  BY <1>27 DEF SetProxyFails
<1>28. ASSUME NEW t \in Threads, MainPort(t) PROVE LoopsKnown'
  BY <1>28 DEF MainPort
<1>29. ASSUME NEW t \in Threads, Up(t) PROVE LoopsKnown'
  BY <1>29 DEF Up, Leave
<1>30. ASSUME NEW t \in Threads, StartMultiRefresh(t) PROVE LoopsKnown'
  BY <1>30 DEF StartMultiRefresh
<1>31. ASSUME NEW t \in Threads, Fails(t) PROVE LoopsKnown'
  <2>1. FailMulti(t, "fail")
    BY <1>31 DEF Fails
  <2> QED
    BY <2>1, AfterFailure DEF ControlInv, LoopsKnown, IsLoop, Threads, timerVars
<1>32. ASSUME NEW i \in Ids, NEW k \in Managers, OnMultiExit(i, k) PROVE LoopsKnown'
  <2>1. TypeOK /\ UNCHANGED timerVars
    BY <1>32, ExitStarts DEF ControlInv
  <2>2. CASE UNCHANGED <<pc, loc>>
    BY <2>1, <2>2 DEF LoopsKnown, IsLoop, timerVars
  <2>3. ASSUME NEW w \in Workers, pc[w] = "idle", pc' = [pc EXCEPT ![w] = "want"],
               loc'[w].op = "reconnect",
               \A u \in Threads : u # w => pc'[u] = pc[u] /\ loc'[u] = loc[u]
        PROVE  LoopsKnown'
    BY <2>1, <2>3 DEF ControlInv, TypeOK, CallsFit, LoopsKnown, IsLoop, timerVars, Threads
  <2> QED
    BY <1>32, <2>1, <2>2, <2>3, ExitStarts
<1>33. ASSUME NEW w \in Workers, Want(w) PROVE LoopsKnown'
  BY <1>33 DEF Want, Runs
<1>34. ASSUME NEW w \in Workers, Sleep(w) PROVE LoopsKnown'
  <2>1. /\ pc[w] = "sleep" /\ pc'[w] \in {"fetch", "idle"}
        /\ loc[w].op = "reconnect" /\ loc'[w].op \in {"reconnect", "start"}
        /\ \A u \in Threads : u # w => pc'[u] = pc[u] /\ loc'[u] = loc[u]
    <3>1. CASE loc[w].id \in mapped
      BY <1>34, <3>1 DEF ControlInv, TypeOK, CallsFit, Sleep, Goto, Threads, Locals
    <3>2. CASE loc[w].id \notin mapped
      BY <1>34, <3>2 DEF ControlInv, TypeOK, CallsFit, Sleep, Return, Goto, Threads, NoLocals
    <3> QED
      BY <3>1, <3>2
  <2> QED
    BY <1>34, <2>1 DEF LoopsKnown, IsLoop, Sleep, timerVars, Threads
<1>35. ASSUME NEW w \in Workers, GiveUp(w) PROVE LoopsKnown'
  BY <1>35 DEF GiveUp, Failed, Runs
<1>36. ASSUME NEW w \in Workers, Tick(w) PROVE LoopsKnown'
  BY <1>36 DEF Tick, Steady, Runs
<1>37. ASSUME NEW w \in Workers, RefreshNext(w) PROVE LoopsKnown'
  BY <1>37 DEF RefreshNext
<1>38. ASSUME NEW w \in Workers, RefreshDone(w) PROVE LoopsKnown'
  BY <1>38 DEF RefreshDone
<1>39. ASSUME NEW w \in Workers, LoopExit(w) PROVE LoopsKnown'
  BY <1>39 DEF LoopExit
<1>40. ASSUME Crash PROVE LoopsKnown'
  BY <1>40 DEF Crash, Falls
<1>41. ASSUME Notice PROVE LoopsKnown'
  BY <1>41 DEF Notice, Falls
<1> QED
  BY <1>1, <1>2, <1>3, <1>4, <1>5, <1>6, <1>7, <1>8, <1>9, <1>10, <1>11, <1>12, <1>13, <1>14,
    <1>15, <1>16, <1>17, <1>18, <1>19, <1>20, <1>21, <1>22, <1>23, <1>24, <1>25, <1>26, <1>27,
    <1>28, <1>29, <1>30, <1>31, <1>32, <1>33, <1>34, <1>35, <1>36, <1>37, <1>38, <1>39, <1>40,
    <1>41 DEF Next, CallStep, StopStep, StartStep, WorkerStep

\* The refresh loop is stopped only where nothing is connected.
LEMMA RefreshedStep ==
  ASSUME ControlInv, ConnectedIsRefreshed, Next
  PROVE  ConnectedIsRefreshed'
<1> USE MultiAssumption DEF ControlInv, TypeOK, ConnectedRuns, ConnectedIsRefreshed, NoInstance, Threads, Runs, Goto,
    Step, Return, Begins, StopCall, settingVars, timerVars, pastVars
<1>1. ASSUME NEW t \in Callers, NEW i \in Ids, StartMultiProxy(t, i)
      PROVE ConnectedIsRefreshed'
  BY <1>1 DEF StartMultiProxy
<1>2. ASSUME NEW t \in Callers, NEW i \in Ids, StopMultiProxy(t, i)
      PROVE ConnectedIsRefreshed'
  BY <1>2 DEF StopMultiProxy
<1>3. ASSUME NEW t \in Callers, NEW i \in Ids, RemoveMultiProxy(t, i)
      PROVE ConnectedIsRefreshed'
  BY <1>3 DEF RemoveMultiProxy
<1>4. ASSUME NEW t \in Callers, NEW i \in Ids, NEW m \in BOOLEAN, UpdateMultiProxy(t, i, m)
      PROVE ConnectedIsRefreshed'
  BY <1>4 DEF UpdateMultiProxy
<1>5. ASSUME NEW t \in Callers, NEW i \in Ids, NEW m \in BOOLEAN, AddMultiProxy(t, i, m)
      PROVE ConnectedIsRefreshed'
  BY <1>5 DEF AddMultiProxy
<1>6. ASSUME NEW t \in Callers, Connect(t) PROVE ConnectedIsRefreshed'
  BY <1>6 DEF Connect
<1>7. ASSUME NEW t \in Callers, Logout(t) PROVE ConnectedIsRefreshed'
  BY <1>7 DEF Logout
<1>8. ASSUME NEW t \in Callers, Stop(t) PROVE ConnectedIsRefreshed'
  BY <1>8 DEF Stop
<1>9. ASSUME NEW t \in Callers, Own(t) PROVE ConnectedIsRefreshed'
  BY <1>9 DEF Own
<1>10. ASSUME NEW t \in Callers, Clear(t) PROVE ConnectedIsRefreshed'
  BY <1>10 DEF Clear, AfterClear
<1>11. ASSUME NEW t \in Callers, ClearFails(t) PROVE ConnectedIsRefreshed'
  BY <1>11 DEF ClearFails, AfterClear
<1>12. ASSUME NEW t \in Callers, StopMultiRefreshIfIdle(t) PROVE ConnectedIsRefreshed'
  BY <1>12 DEF StopMultiRefreshIfIdle, NoLocals, NoneRuns, CloseRefresh
<1>13. ASSUME NEW t \in Callers, Unmap(t) PROVE ConnectedIsRefreshed'
  BY <1>13 DEF Unmap, NoLocals
<1>14. ASSUME NEW t \in Callers, StopAll(t) PROVE ConnectedIsRefreshed'
  BY <1>14 DEF StopAll, MainOwned, CloseRefresh
<1>15. ASSUME NEW t \in Callers, StopNext(t) PROVE ConnectedIsRefreshed'
  BY <1>15 DEF StopNext
<1>16. ASSUME NEW t \in Callers, StoppedAll(t) PROVE ConnectedIsRefreshed'
  BY <1>16 DEF StoppedAll
<1>17. ASSUME NEW t \in Callers, Connected(t) PROVE ConnectedIsRefreshed'
  BY <1>17 DEF Connected, NoLocals
<1>18. ASSUME NEW t \in Threads, DisconnectSingle(t) PROVE ConnectedIsRefreshed'
  BY <1>18 DEF DisconnectSingle
<1>19. ASSUME NEW t \in Threads, FetchFails(t) PROVE ConnectedIsRefreshed'
  BY <1>19 DEF FetchFails, FailMulti, ReturnError, Leave, NoLocals, Failed
<1>20. ASSUME NEW t \in Threads, Swap(t) PROVE ConnectedIsRefreshed'
  BY <1>20 DEF Swap
<1>21. ASSUME NEW t \in Threads, Launch(t) PROVE ConnectedIsRefreshed'
  BY <1>21 DEF Launch
<1>22. ASSUME NEW t \in Threads, LaunchFails(t) PROVE ConnectedIsRefreshed'
  BY <1>22 DEF LaunchFails, FailMulti, ReturnError, Leave, NoLocals, Failed
<1>23. ASSUME NEW t \in Threads, Ready(t) PROVE ConnectedIsRefreshed'
  BY <1>23 DEF Ready
<1>24. ASSUME NEW t \in Threads, NotReady(t) PROVE ConnectedIsRefreshed'
  BY <1>24 DEF NotReady
<1>25. ASSUME NEW t \in Threads, Abort(t) PROVE ConnectedIsRefreshed'
  BY <1>25 DEF Abort
<1>26. ASSUME NEW t \in Threads, SetProxy(t) PROVE ConnectedIsRefreshed'
  BY <1>26 DEF SetProxy
<1>27. ASSUME NEW t \in Threads, SetProxyFails(t) PROVE ConnectedIsRefreshed'
  BY <1>27 DEF SetProxyFails
<1>28. ASSUME NEW t \in Threads, MainPort(t) PROVE ConnectedIsRefreshed'
  BY <1>28 DEF MainPort
<1>29. ASSUME NEW t \in Threads, Up(t) PROVE ConnectedIsRefreshed'
  BY <1>29 DEF Up, Leave
<1>30. ASSUME NEW t \in Threads, StartMultiRefresh(t) PROVE ConnectedIsRefreshed'
  BY <1>30 DEF StartMultiRefresh, NoLocals
<1>31. ASSUME NEW t \in Threads, Fails(t) PROVE ConnectedIsRefreshed'
  BY <1>31 DEF Fails, FailMulti, ReturnError, Leave, NoLocals, Failed
<1>32. ASSUME NEW i \in Ids, NEW k \in Managers, OnMultiExit(i, k)
      PROVE ConnectedIsRefreshed'
  BY <1>32 DEF OnMultiExit, Steady
<1>33. ASSUME NEW w \in Workers, Want(w) PROVE ConnectedIsRefreshed'
  BY <1>33 DEF Want, NoLocals
<1>34. ASSUME NEW w \in Workers, Sleep(w) PROVE ConnectedIsRefreshed'
  BY <1>34 DEF Sleep, NoLocals
<1>35. ASSUME NEW w \in Workers, GiveUp(w) PROVE ConnectedIsRefreshed'
  BY <1>35 DEF GiveUp, NoLocals, Failed
<1>36. ASSUME NEW w \in Workers, Tick(w) PROVE ConnectedIsRefreshed'
  BY <1>36 DEF Tick, Steady
<1>37. ASSUME NEW w \in Workers, RefreshNext(w) PROVE ConnectedIsRefreshed'
  BY <1>37 DEF RefreshNext
<1>38. ASSUME NEW w \in Workers, RefreshDone(w) PROVE ConnectedIsRefreshed'
  BY <1>38 DEF RefreshDone, NoLocals
<1>39. ASSUME NEW w \in Workers, LoopExit(w) PROVE ConnectedIsRefreshed'
  BY <1>39 DEF LoopExit, NoLocals
<1>40. ASSUME Crash PROVE ConnectedIsRefreshed'
  BY <1>40 DEF Crash, Falls
<1>41. ASSUME Notice PROVE ConnectedIsRefreshed'
  BY <1>41 DEF Notice, Falls
<1> QED
  BY <1>1, <1>2, <1>3, <1>4, <1>5, <1>6, <1>7, <1>8, <1>9, <1>10, <1>11, <1>12, <1>13, <1>14,
    <1>15, <1>16, <1>17, <1>18, <1>19, <1>20, <1>21, <1>22, <1>23, <1>24, <1>25, <1>26, <1>27,
    <1>28, <1>29, <1>30, <1>31, <1>32, <1>33, <1>34, <1>35, <1>36, <1>37, <1>38, <1>39, <1>40,
    <1>41 DEF Next, CallStep, StopStep, StartStep, WorkerStep

\* Nobody forgets the owner of the system proxy but who is taking it away.
LEMMA OwnedStep ==
  ASSUME ControlInv, ProxyIsOwned, Next
  PROVE  ProxyIsOwned'
<1> USE MultiAssumption DEF ControlInv, TypeOK, LocalsSet, ProxyIsOwned, Threads, NoLocals, Goto, Step, Return,
    Begins, StopCall, settingVars, timerVars, pastVars
<1>1. ASSUME NEW t \in Callers, NEW i \in Ids, StartMultiProxy(t, i) PROVE ProxyIsOwned'
  BY <1>1 DEF StartMultiProxy
<1>2. ASSUME NEW t \in Callers, NEW i \in Ids, StopMultiProxy(t, i) PROVE ProxyIsOwned'
  BY <1>2 DEF StopMultiProxy
<1>3. ASSUME NEW t \in Callers, NEW i \in Ids, RemoveMultiProxy(t, i) PROVE ProxyIsOwned'
  BY <1>3 DEF RemoveMultiProxy
<1>4. ASSUME NEW t \in Callers, NEW i \in Ids, NEW m \in BOOLEAN, UpdateMultiProxy(t, i, m)
      PROVE ProxyIsOwned'
  BY <1>4 DEF UpdateMultiProxy
<1>5. ASSUME NEW t \in Callers, NEW i \in Ids, NEW m \in BOOLEAN, AddMultiProxy(t, i, m)
      PROVE ProxyIsOwned'
  BY <1>5 DEF AddMultiProxy
<1>6. ASSUME NEW t \in Callers, Connect(t) PROVE ProxyIsOwned'
  BY <1>6 DEF Connect
<1>7. ASSUME NEW t \in Callers, Logout(t) PROVE ProxyIsOwned'
  BY <1>7 DEF Logout
<1>8. ASSUME NEW t \in Callers, Stop(t) PROVE ProxyIsOwned'
  BY <1>8 DEF Stop, NoInstance, Runs
<1>9. ASSUME NEW t \in Callers, Own(t) PROVE ProxyIsOwned'
  BY <1>9 DEF Own
<1>10. ASSUME NEW t \in Callers, Clear(t) PROVE ProxyIsOwned'
  BY <1>10 DEF Clear, AfterClear
<1>11. ASSUME NEW t \in Callers, ClearFails(t) PROVE ProxyIsOwned'
  BY <1>11 DEF ClearFails, AfterClear
<1>12. ASSUME NEW t \in Callers, StopMultiRefreshIfIdle(t) PROVE ProxyIsOwned'
  BY <1>12 DEF StopMultiRefreshIfIdle, NoneRuns, Runs, CloseRefresh
<1>13. ASSUME NEW t \in Callers, Unmap(t) PROVE ProxyIsOwned'
  BY <1>13 DEF Unmap
<1>14. ASSUME NEW t \in Callers, StopAll(t) PROVE ProxyIsOwned'
  <2>1. CASE mainPort # None
    <3>1. pc'[t] = "allstop"
      BY <1>14 DEF StopAll
    <3>2. loc'[t].main
      <4>1. MainOwned
        BY <2>1 DEF MainOwned
      <4> QED
        BY <1>14, <4>1 DEF StopAll, Locals
    <3> QED
      BY <3>1, <3>2 DEF ProxyIsOwned
  <2>2. CASE mainPort = None
    <3>1. /\ pc[t] = "all"
          /\ \A u \in Threads : u # t => pc'[u] = pc[u] /\ loc'[u] = loc[u]
      BY <1>14 DEF ControlInv, TypeOK, StopAll, Goto, Threads
    <3> QED
      BY <1>14, <2>2, <3>1 DEF ProxyIsOwned, StopAll, pastVars, Threads
  <2> QED
    BY <2>1, <2>2
<1>15. ASSUME NEW t \in Callers, StopNext(t) PROVE ProxyIsOwned'
  BY <1>15 DEF StopNext
<1>16. ASSUME NEW t \in Callers, StoppedAll(t) PROVE ProxyIsOwned'
  BY <1>16 DEF StoppedAll
<1>17. ASSUME NEW t \in Callers, Connected(t) PROVE ProxyIsOwned'
  BY <1>17 DEF Connected
<1>18. ASSUME NEW t \in Threads, DisconnectSingle(t) PROVE ProxyIsOwned'
  BY <1>18 DEF DisconnectSingle
<1>19. ASSUME NEW t \in Threads, FetchFails(t) PROVE ProxyIsOwned'
  BY <1>19 DEF FetchFails, FailMulti, ReturnError, Leave, Failed, Runs
<1>20. ASSUME NEW t \in Threads, Swap(t) PROVE ProxyIsOwned'
  BY <1>20 DEF Swap, Runs
<1>21. ASSUME NEW t \in Threads, Launch(t) PROVE ProxyIsOwned'
  BY <1>21 DEF Launch
<1>22. ASSUME NEW t \in Threads, LaunchFails(t) PROVE ProxyIsOwned'
  BY <1>22 DEF LaunchFails, FailMulti, ReturnError, Leave, Failed, Runs
<1>23. ASSUME NEW t \in Threads, Ready(t) PROVE ProxyIsOwned'
  BY <1>23 DEF Ready
<1>24. ASSUME NEW t \in Threads, NotReady(t) PROVE ProxyIsOwned'
  BY <1>24 DEF NotReady
<1>25. ASSUME NEW t \in Threads, Abort(t) PROVE ProxyIsOwned'
  BY <1>25 DEF Abort
<1>26. ASSUME NEW t \in Threads, SetProxy(t) PROVE ProxyIsOwned'
  BY <1>26 DEF SetProxy
<1>27. ASSUME NEW t \in Threads, SetProxyFails(t) PROVE ProxyIsOwned'
  BY <1>27 DEF SetProxyFails
<1>28. ASSUME NEW t \in Threads, MainPort(t) PROVE ProxyIsOwned'
  BY <1>28 DEF MainPort
<1>29. ASSUME NEW t \in Threads, Up(t) PROVE ProxyIsOwned'
  BY <1>29 DEF Up, Leave
<1>30. ASSUME NEW t \in Threads, StartMultiRefresh(t) PROVE ProxyIsOwned'
  BY <1>30 DEF StartMultiRefresh
<1>31. ASSUME NEW t \in Threads, Fails(t) PROVE ProxyIsOwned'
  BY <1>31 DEF Fails, FailMulti, ReturnError, Leave, Failed, Runs
<1>32. ASSUME NEW i \in Ids, NEW k \in Managers, OnMultiExit(i, k) PROVE ProxyIsOwned'
  BY <1>32 DEF OnMultiExit, Steady, Runs
<1>33. ASSUME NEW w \in Workers, Want(w) PROVE ProxyIsOwned'
  BY <1>33 DEF Want, Runs
<1>34. ASSUME NEW w \in Workers, Sleep(w) PROVE ProxyIsOwned'
  BY <1>34 DEF Sleep
<1>35. ASSUME NEW w \in Workers, GiveUp(w) PROVE ProxyIsOwned'
  BY <1>35 DEF GiveUp, Failed, Runs
<1>36. ASSUME NEW w \in Workers, Tick(w) PROVE ProxyIsOwned'
  BY <1>36 DEF Tick, Steady, Runs
<1>37. ASSUME NEW w \in Workers, RefreshNext(w) PROVE ProxyIsOwned'
  BY <1>37 DEF RefreshNext
<1>38. ASSUME NEW w \in Workers, RefreshDone(w) PROVE ProxyIsOwned'
  BY <1>38 DEF RefreshDone
<1>39. ASSUME NEW w \in Workers, LoopExit(w) PROVE ProxyIsOwned'
  BY <1>39 DEF LoopExit
<1>40. ASSUME Crash PROVE ProxyIsOwned'
  BY <1>40 DEF Crash, Falls
<1>41. ASSUME Notice PROVE ProxyIsOwned'
  BY <1>41 DEF Notice, Falls
<1> QED
  BY <1>1, <1>2, <1>3, <1>4, <1>5, <1>6, <1>7, <1>8, <1>9, <1>10, <1>11, <1>12, <1>13, <1>14,
    <1>15, <1>16, <1>17, <1>18, <1>19, <1>20, <1>21, <1>22, <1>23, <1>24, <1>25, <1>26, <1>27,
    <1>28, <1>29, <1>30, <1>31, <1>32, <1>33, <1>34, <1>35, <1>36, <1>37, <1>38, <1>39, <1>40,
    <1>41 DEF Next, CallStep, StopStep, StartStep, WorkerStep

-----------------------------------------------------------------------------
(* One thing after the other: what holds while nothing has overlapped      *)

Busy(t) == pc[t] \notin {"idle", "select"}
Fallen(m) == proc[m] \in {"down", "noticed"}

\* One goroutine at work, or one process that has fallen, or neither.
OneThing ==
  /\ \A t, u \in Threads : Busy(t) /\ Busy(u) => t = u
  /\ \A m, n \in Ids \X Managers : Fallen(m) /\ Fallen(n) => m = n
  /\ \A t \in Threads, m \in Ids \X Managers : Busy(t) => ~Fallen(m)

\* A mapping without an instance has no trace of one; an instance belongs to a
\* mapping, and excludes the single connection.
Tidy ==
  \A i \in Ids : /\ Runs(i) => i \in mapped /\ ~single
                 /\ ~Runs(i) => multi[i] = NoInstance

\* An instance nobody is working at.
Rests(i) ==
  /\ multi[i].state # "connecting" /\ ~multi[i].reconnecting
  /\ multi[i].state = "connected" => proc[<<i, multi[i].mgr>>] # "none"

\* Every process is the one its mapping's instance names.
Held == \A i \in Ids, k \in Managers : proc[<<i, k>>] # "none" => multi[i].mgr = k

\* While the main flag has stayed where it was and the registry has obeyed, the
\* system proxy is that of the main mapping, and App knows.
Kept == {"moved", "kept"} \cap happened = {} /\ reg # None
Anchored == mainPort = reg /\ Runs(reg) /\ multi[reg].main /\ mainId = reg

Resting == Held /\ (\A i \in Ids : Rests(i)) /\ (Kept => Anchored)

\* startProxyInstance once the new instance is in the list, a reconnect between
\* two attempts, stopMultiProxy, and stopAllMulti.
Replaced == {"launch", "ready", "abort", "setproxy", "mainport", "up", "fail"}
Retrying == {"want", "sleep", "giveup"}
Starting == {"fetch"} \cup Replaced \cup Retrying
Stopping == {"stop", "own", "idlecheck", "unmap"}
StopsOne(t) == loc[t].op \in {"stop", "remove"} /\ loc[t].id \in Ids
StopsAll(t) == loc[t].op \in {"connect", "logout"}

\* What a goroutine at work relies on: the call it is in and its locals, ...
InCall(t) ==
  /\ pc[t] \in {"disconnect"} \cup Starting => loc[t].id \in mapped
  /\ pc[t] \in {"disconnect", "fetch"} \cup Replaced => loc[t].main = (loc[t].id = mainId)
  /\ pc[t] \in {"setproxy", "mainport"} => loc[t].main
  /\ pc[t] = "disconnect" => loc[t].op = "start"
  /\ pc[t] \in Stopping => StopsOne(t)
  /\ pc[t] \in {"all", "allstop"} => StopsAll(t)
  /\ pc[t] = "clear" => StopsOne(t) \/ StopsAll(t)

\* ... the instance it works at and the others, ...
AtInstance(t) ==
  /\ \A i \in Ids : Rests(i) \/ (pc[t] \in Starting /\ i = loc[t].id)
  /\ pc[t] = "fetch" /\ loc[t].op # "reconnect" => Rests(loc[t].id)
  /\ pc[t] \in Starting \cup {"next", "timer"} => ~single
  /\ pc[t] \in Retrying \/ (pc[t] = "fetch" /\ loc[t].op = "reconnect") =>
       Runs(loc[t].id) /\ multi[loc[t].id].state # "connected"
  /\ pc[t] \in Replaced =>
       multi[loc[t].id] = [mgr |-> loc[t].mgr, main |-> loc[t].main, reconnecting |-> FALSE,
                           state |-> "connecting"] /\ loc[t].mgr # 0
  /\ pc[t] \in {"ready", "setproxy", "mainport", "up"} => proc[Mgr(t)] = "up"
  /\ pc[t] \in {"own", "idlecheck", "unmap"} \/ (pc[t] = "clear" /\ StopsOne(t)) =>
       ~Runs(loc[t].id)
  /\ pc[t] \in {"allstop", "connected"} \/ (pc[t] = "clear" /\ StopsAll(t)) => NoneRuns

\* ... the processes, ...
Processes(t) ==
  /\ pc[t] # "allstop" => Held
  /\ pc[t] = "allstop" =>
       \A i \in Ids, k \in Managers : proc[<<i, k>>] # "none" => <<i, k>> \in loc[t].todo

\* ... and the system proxy.
Proxied(t) ==
  Kept => /\ pc[t] = "mainport" => reg = loc[t].id
          /\ pc[t] = "own" => mainPort = reg /\ (reg # loc[t].id => Anchored)
          /\ pc[t] = "allstop" => loc[t].main
          /\ pc[t] # "connected"
          /\ pc[t] \notin {"mainport", "own", "clear", "allstop"} => Anchored

Working(t) == InCall(t) /\ AtInstance(t) /\ Processes(t) /\ Proxied(t)

Orderly ==
  /\ OneThing /\ Tidy
  /\ \A t \in Threads : Busy(t) => Working(t)
  /\ (\A t \in Threads : ~Busy(t)) => Resting

Sequential == "overlap" \notin happened => Orderly

\* A goroutine at work has the place to itself, ...
Undisturbed(t) ==
  /\ t \in Threads /\ Busy(t)
  /\ Tidy /\ Working(t)
  /\ \A u \in Threads : u # t => ~Busy(u)
  /\ \A m \in Ids \X Managers : ~Fallen(m)

\* ... and leaves nobody else at work, and no process that has fallen.
LeftAlone(t) ==
  /\ \A u \in Threads : u # t => pc'[u] \in {"idle", "select"}
  /\ \A m \in Ids \X Managers : proc'[m] \in {"none", "up"}

\* While one thing happens after the other a goroutine at work is alone.
LEMMA Alone ==
  ASSUME Orderly, NEW t \in Threads, Busy(t)
  PROVE  Undisturbed(t)
BY DEF Orderly, OneThing, Undisturbed

\* What a step has to keep that leaves one goroutine at work, or none.
LEMMA AloneStep ==
  ASSUME NEW t \in Threads, LeftAlone(t), Tidy', Busy(t)' => Working(t)', ~Busy(t)' => Resting'
  PROVE  Orderly'
<1>1. \A u \in Threads : u # t => ~Busy(u)'
  BY DEF LeftAlone, Busy
<1>2. \A m \in Ids \X Managers : ~Fallen(m)'
  BY DEF LeftAlone, Fallen
<1>3. OneThing'
  BY <1>1, <1>2 DEF OneThing
<1>4. \A u \in Threads : Busy(u)' => Working(u)'
  BY <1>1
<1> QED
  BY <1>3, <1>4 DEF Orderly

\* failMulti leaves every instance its manager and its main flag.
LEMMA FailedKeeps ==
  ASSUME TypeOK, NEW i \in Ids
  PROVE  /\ \A j \in Ids : j # i => Failed(i)[j] = multi[j]
         /\ Failed(i)[i].mgr = multi[i].mgr /\ Failed(i)[i].main = multi[i].main
         /\ Failed(i)[i].reconnecting = multi[i].reconnecting
         /\ Runs(i) => Failed(i)[i].state = "error"
         /\ ~Runs(i) => Failed(i)[i] = multi[i]
BY DEF TypeOK, Failed, Instances, Runs

\* A start that fails leaves an instance that is listed as failed, or goes on
\* being reconnected.
LEMMA FailOrderly ==
  ASSUME ControlInv, Orderly, NEW t \in Threads, NEW from \in {"fetch", "launch", "fail"},
         FailMulti(t, from)
  PROVE  Orderly'
<1> SUFFICES ASSUME NEW i, i = loc[t].id PROVE Orderly'
  OBVIOUS
<1> USE DEF Undisturbed, Working
<1>1. /\ pc[t] = from /\ Busy(t)
      /\ multi' = Failed(i) /\ UNCHANGED <<mapped, mainId, mainPort, proc, reg, single, happened>>
  BY AfterFailure DEF FailMulti, Busy, ControlInv, settingVars, pastVars
<1>2. Undisturbed(t)
  BY <1>1, Alone
<1>3. i \in mapped /\ i \in Ids /\ ~single /\ Tidy /\ Held
  BY <1>1, <1>2 DEF InCall, AtInstance, Processes, Starting, Replaced, ControlInv, TypeOK
<1>4. /\ \A j \in Ids : j # i => multi'[j] = multi[j]
      /\ multi'[i].mgr = multi[i].mgr /\ multi'[i].main = multi[i].main
      /\ multi'[i].reconnecting = multi[i].reconnecting
      /\ Runs(i) => multi'[i].state = "error"
      /\ ~Runs(i) => multi'[i] = multi[i]
  BY <1>1, <1>3, FailedKeeps DEF ControlInv
<1>5. LeftAlone(t)
  BY <1>1, <1>2, AfterFailure DEF LeftAlone, Busy, Fallen, ControlInv, TypeOK
<1>6. Tidy'
  BY <1>1, <1>3, <1>4 DEF Tidy, Runs
<1>7. Held'
  BY <1>1, <1>3, <1>4 DEF Held
<1>8. Kept' => Anchored'
  <2>1. Kept => Anchored
    BY <1>1, <1>2 DEF Proxied
  <2> QED
    BY <1>1, <1>3, <1>4, <2>1 DEF Kept, Anchored, Runs, ControlInv, TypeOK, Ports
<1>9. \A j \in Ids : j # i => Rests(j)'
  <2>1. \A j \in Ids : j # i => Rests(j)
    BY <1>2 DEF AtInstance
  <2> QED
    BY <1>1, <1>4, <2>1 DEF Rests
<1>10. CASE loc[t].op = "reconnect"
  <2>1. pc'[t] \in {"want", "giveup"} /\ loc'[t].id = i
    BY <1>1, <1>10 DEF FailMulti, ReturnError, Goto, Leave, ControlInv, TypeOK, Locals
  <2>2. Runs(i)' /\ multi'[i].state # "connected"
    <3>1. Runs(i)
      BY <1>1, <1>2, <1>10 DEF AtInstance, Runs, Replaced
    <3> QED
      BY <1>4, <3>1 DEF Runs
  <2>3. InCall(t)' /\ AtInstance(t)' /\ Processes(t)' /\ Proxied(t)'
    BY <1>1, <1>3, <1>7, <1>8, <1>9, <2>1, <2>2
    DEF InCall, AtInstance, Processes, Proxied, Starting, Replaced, Retrying, Stopping, Runs
  <2> QED
    BY <1>2, <1>5, <1>6, <2>1, <2>3, AloneStep DEF Busy
<1>11. CASE loc[t].op # "reconnect"
  <2>1. Rests(i)'
    <3>1. CASE from = "fetch"
      <4>1. Rests(i)
        BY <1>1, <1>2, <1>11, <3>1 DEF AtInstance
      <4> QED
        BY <1>1, <1>4, <4>1 DEF Rests
    <3>2. CASE from # "fetch"
      <4>1. Runs(i) /\ ~multi[i].reconnecting
        BY <1>1, <1>2, <3>2 DEF AtInstance, Runs, Replaced
      <4> QED
        BY <1>4, <4>1 DEF Rests
    <3> QED
      BY <3>1, <3>2
  <2>2. Resting'
    BY <1>7, <1>8, <1>9, <2>1 DEF Resting
  <2>3. pc'[t] \in {"next", "idle"}
    BY <1>1, <1>11, AfterFailure DEF ControlInv
  <2>4. pc'[t] = "next" => InCall(t)' /\ AtInstance(t)' /\ Processes(t)' /\ Proxied(t)'
    BY <1>1, <1>3, <2>2
    DEF InCall, AtInstance, Processes, Proxied, Resting, Starting, Replaced, Retrying, Stopping
  <2> QED
    BY <1>2, <1>5, <1>6, <2>2, <2>3, <2>4, AloneStep DEF Busy
<1> QED
  BY <1>10, <1>11

\* The new instance takes the place of the old one, whose process is stopped.
LEMMA SwapOrderly ==
  ASSUME ControlInv, Orderly, NEW t \in Threads, Swap(t)
  PROVE  Orderly'
<1> SUFFICES ASSUME NEW i, i = loc[t].id PROVE Orderly'
  OBVIOUS
<1> USE DEF Undisturbed, Working
<1>1. PICK k \in Managers :
        /\ loc' = [loc EXCEPT ![t].mgr = k]
        /\ multi' = [multi EXCEPT ![i] = [mgr |-> k, main |-> loc[t].main, reconnecting |-> FALSE,
                                          state |-> "connecting"]]
  BY DEF Swap
<1>2. /\ pc[t] = "fetch" /\ pc' = [pc EXCEPT ![t] = "launch"]
      /\ proc' = HaltedInstance(i) /\ UNCHANGED <<mapped, mainId, mainPort, reg, single, happened>>
  BY DEF Swap, Goto, settingVars, pastVars
<1>3. Undisturbed(t)
  BY <1>2, Alone DEF Busy
<1>4. i \in mapped /\ i \in Ids /\ ~single /\ Tidy /\ Held /\ loc[t].main = (i = mainId)
  BY <1>2, <1>3 DEF InCall, AtInstance, Processes, Starting, Replaced, ControlInv, TypeOK
<1>5. k # 0 /\ k \in Managers
  BY MultiAssumption
<1>6. /\ pc'[t] = "launch" /\ loc'[t].id = i /\ loc'[t].mgr = k /\ loc'[t].main = loc[t].main
      /\ loc'[t].op = loc[t].op
  BY <1>1, <1>2 DEF ControlInv, TypeOK, Locals
<1>7. /\ multi'[i] = [mgr |-> k, main |-> loc[t].main, reconnecting |-> FALSE,
                      state |-> "connecting"]
      /\ \A j \in Ids : j # i => multi'[j] = multi[j]
  BY <1>1, <1>4 DEF ControlInv, TypeOK
<1>8. /\ \A n \in Managers : proc'[<<i, n>>] = "none"
      /\ \A j \in Ids, n \in Managers : j # i => proc'[<<j, n>>] = proc[<<j, n>>]
      /\ \A m \in Ids \X Managers : proc'[m] \in {"none", "up"}
  <2>1. ASSUME NEW n \in Managers, proc[<<i, n>>] # "none"
        PROVE  Runs(i) /\ n = multi[i].mgr
    BY <1>4, <2>1, MultiAssumption DEF Held, Runs
  <2>2. CASE Runs(i)
    <3>1. proc' = [proc EXCEPT ![<<i, multi[i].mgr>>] = IF @ = "noticed" THEN @ ELSE "none"]
      BY <1>2, <2>2 DEF HaltedInstance, Halted
    <3>2. \A m \in Ids \X Managers : proc[m] \in {"none", "up"}
      BY <1>3 DEF Fallen, ControlInv, TypeOK
    <3> QED
      BY <1>4, <2>1, <3>1, <3>2 DEF ControlInv, TypeOK
  <2>3. CASE ~Runs(i)
    BY <1>2, <1>3, <2>1, <2>3 DEF HaltedInstance, Fallen, ControlInv, TypeOK
  <2> QED
    BY <2>2, <2>3
<1>9. LeftAlone(t)
  BY <1>2, <1>3, <1>8 DEF LeftAlone, Busy, ControlInv, TypeOK
<1>10. Tidy'
  BY <1>2, <1>4, <1>5, <1>7 DEF Tidy, Runs
<1>11. InCall(t)'
  BY <1>2, <1>4, <1>6 DEF InCall, Starting, Replaced, Stopping
<1>12. AtInstance(t)'
  <2>1. \A j \in Ids : j # i => Rests(j)
    BY <1>3 DEF AtInstance
  <2>2. \A j \in Ids : j # i => Rests(j)'
    <3> SUFFICES ASSUME NEW j \in Ids, j # i PROVE Rests(j)'
      OBVIOUS
    <3>1. multi'[j] = multi[j] /\ Rests(j)
      BY <1>7, <2>1
    <3>2. multi[j].state = "connected" => multi[j].mgr \in Managers
      BY DEF ControlInv, TypeOK, ConnectedRuns, Runs, Instances
    <3> QED
      BY <1>8, <3>1, <3>2 DEF Rests
  <2> QED
    BY <1>2, <1>4, <1>5, <1>6, <1>7, <2>2 DEF AtInstance, Starting, Replaced, Retrying
<1>13. Processes(t)'
  BY <1>4, <1>6, <1>7, <1>8 DEF Processes, Held
<1>14. Proxied(t)'
  <2>1. Kept => Anchored
    BY <1>2, <1>3 DEF Proxied
  <2>2. ASSUME Kept' PROVE Anchored'
    <3>1. Anchored /\ reg \in Ids
      BY <1>2, <2>1, <2>2 DEF Kept, ControlInv, TypeOK, Ports
    <3>2. CASE reg = i
      <4>1. loc[t].main
        BY <1>4, <3>1, <3>2 DEF Anchored
      <4>2. multi'[reg].mgr = k /\ multi'[reg].main
        BY <1>7, <3>2, <4>1
      <4> QED
        BY <1>2, <1>5, <3>1, <4>2 DEF Anchored, Runs
    <3>3. CASE reg # i
      BY <1>2, <1>7, <3>1, <3>3 DEF Anchored, Runs
    <3> QED
      BY <3>2, <3>3
  <2> QED
    BY <1>6, <2>2 DEF Proxied
<1> QED
  BY <1>3, <1>6, <1>9, <1>10, <1>11, <1>12, <1>13, <1>14, AloneStep DEF Busy

\* startProxyInstance keeps everything in order, ...
LEMMA StartOrderly ==
  ASSUME ControlInv, Orderly, NEW s \in Threads, StartStep(s)
  PROVE  Orderly'
<1> USE MultiAssumption DEF ControlInv, TypeOK, Threads, Undisturbed, LeftAlone, Working, Busy, Fallen,
    Goto, Step, Return, StopsOne, StopsAll, Starting, Replaced, Retrying, Stopping, Runs, NoneRuns,
    Halted, HaltedInstance, settingVars, timerVars, pastVars
<1>1. ASSUME NEW t \in Threads, DisconnectSingle(t) PROVE Orderly'
  <2>1. Undisturbed(t)
    BY <1>1, Alone DEF DisconnectSingle
  <2>2. LeftAlone(t)
    BY <1>1, <2>1 DEF DisconnectSingle
  <2>3. Tidy'
    BY <1>1, <2>1 DEF DisconnectSingle, Tidy, InCall, AtInstance, NoInstance
  <2>4. InCall(t)'
    BY <1>1, <2>1 DEF DisconnectSingle, InCall
  <2>5. AtInstance(t)'
    BY <1>1, <2>1 DEF DisconnectSingle, AtInstance, InCall, Rests, NoInstance, Mgr, Tidy
  <2>6. Processes(t)'
    BY <1>1, <2>1 DEF DisconnectSingle, Processes, Held, AtInstance, Tidy, NoInstance
  <2>7. Proxied(t)'
    BY <1>1, <2>1 DEF DisconnectSingle, Proxied, InCall, AtInstance, Kept, Anchored
  <2>8. Busy(t)'
    BY <1>1, <2>1 DEF DisconnectSingle
  <2> QED
    BY <2>1, <2>2, <2>3, <2>4, <2>5, <2>6, <2>7, <2>8, AloneStep
<1>2. ASSUME NEW t \in Threads, Launch(t) PROVE Orderly'
  <2>1. Undisturbed(t)
    BY <1>2, Alone DEF Launch, Mgr
  <2>2. LeftAlone(t)
    BY <1>2, <2>1 DEF Launch, Mgr
  <2>3. Tidy'
    BY <1>2, <2>1 DEF Launch, Mgr, Tidy, InCall, AtInstance, NoInstance
  <2>4. InCall(t)'
    BY <1>2, <2>1 DEF Launch, Mgr, InCall
  <2>5. AtInstance(t)'
    <3>1. Mgr(t) \in Ids \X Managers
      BY <1>2, <2>1 DEF Launch, Mgr, InCall, LocalsSet, Locals
    <3>2. /\ pc[t] = "launch" /\ pc'[t] = "ready" /\ proc'[Mgr(t)] = "up"
          /\ UNCHANGED <<loc, multi, single>>
          /\ \A m \in Ids \X Managers : m # Mgr(t) => proc'[m] = proc[m]
      BY <1>2, <3>1 DEF Launch
    <3>3. ASSUME NEW i \in Ids, i # loc[t].id PROVE Rests(i)'
      <4>1. Rests(i) /\ (multi[i].state = "connected" => <<i, multi[i].mgr>> \in Ids \X Managers)
        BY <2>1, <3>3 DEF AtInstance, ConnectedRuns, Instances
      <4> QED
        BY <3>2, <4>1 DEF Rests, Mgr
    <3> QED
      BY <2>1, <3>2, <3>3 DEF AtInstance, Mgr
  <2>6. Processes(t)'
    BY <1>2, <2>1 DEF Launch, Mgr, Processes, Held, AtInstance, Tidy, NoInstance
  <2>7. Proxied(t)'
    BY <1>2, <2>1 DEF Launch, Mgr, Proxied, InCall, AtInstance, Kept, Anchored
  <2>8. Busy(t)'
    BY <1>2, <2>1 DEF Launch, Mgr
  <2> QED
    BY <2>1, <2>2, <2>3, <2>4, <2>5, <2>6, <2>7, <2>8, AloneStep
<1>3. ASSUME NEW t \in Threads, Ready(t) PROVE Orderly'
  <2>1. Undisturbed(t)
    BY <1>3, Alone DEF Ready, Mgr
  <2>2. LeftAlone(t)
    BY <1>3, <2>1 DEF Ready, Mgr
  <2>3. Tidy'
    BY <1>3, <2>1 DEF Ready, Mgr, Tidy, InCall, AtInstance, NoInstance
  <2>4. InCall(t)'
    BY <1>3, <2>1 DEF Ready, Mgr, InCall
  <2>5. AtInstance(t)'
    BY <1>3, <2>1 DEF Ready, Mgr, AtInstance, InCall, Rests, NoInstance, Tidy
  <2>6. Processes(t)'
    BY <1>3, <2>1 DEF Ready, Mgr, Processes, Held, AtInstance, Tidy, NoInstance
  <2>7. Proxied(t)'
    BY <1>3, <2>1 DEF Ready, Mgr, Proxied, InCall, AtInstance, Kept, Anchored
  <2>8. Busy(t)'
    BY <1>3, <2>1 DEF Ready, Mgr
  <2> QED
    BY <2>1, <2>2, <2>3, <2>4, <2>5, <2>6, <2>7, <2>8, AloneStep
<1>4. ASSUME NEW t \in Threads, NotReady(t) PROVE Orderly'
  <2>1. Undisturbed(t)
    BY <1>4, Alone DEF NotReady, Mgr
  <2>2. LeftAlone(t)
    BY <1>4, <2>1 DEF NotReady, Mgr
  <2>3. Tidy'
    BY <1>4, <2>1 DEF NotReady, Mgr, Tidy, InCall, AtInstance, NoInstance
  <2>4. InCall(t)'
    BY <1>4, <2>1 DEF NotReady, Mgr, InCall
  <2>5. AtInstance(t)'
    BY <1>4, <2>1 DEF NotReady, Mgr, AtInstance, InCall, Rests, NoInstance, Tidy
  <2>6. Processes(t)'
    BY <1>4, <2>1 DEF NotReady, Mgr, Processes, Held, AtInstance, Tidy, NoInstance
  <2>7. Proxied(t)'
    BY <1>4, <2>1 DEF NotReady, Mgr, Proxied, InCall, AtInstance, Kept, Anchored
  <2>8. Busy(t)'
    BY <1>4, <2>1 DEF NotReady, Mgr
  <2> QED
    BY <2>1, <2>2, <2>3, <2>4, <2>5, <2>6, <2>7, <2>8, AloneStep
<1>5. ASSUME NEW t \in Threads, Abort(t) PROVE Orderly'
  <2>1. Undisturbed(t)
    BY <1>5, Alone DEF Abort, Mgr
  <2>2. LeftAlone(t)
    BY <1>5, <2>1 DEF Abort, Mgr
  <2>3. Tidy'
    BY <1>5, <2>1 DEF Abort, Mgr, Tidy, InCall, AtInstance, NoInstance
  <2>4. InCall(t)'
    BY <1>5, <2>1 DEF Abort, Mgr, InCall
  <2>5. AtInstance(t)'
    BY <1>5, <2>1 DEF Abort, Mgr, AtInstance, InCall, Rests, NoInstance, Tidy
  <2>6. Processes(t)'
    BY <1>5, <2>1 DEF Abort, Mgr, Processes, Held, AtInstance, Tidy, NoInstance
  <2>7. Proxied(t)'
    BY <1>5, <2>1 DEF Abort, Mgr, Proxied, InCall, AtInstance, Kept, Anchored
  <2>8. Busy(t)'
    BY <1>5, <2>1 DEF Abort, Mgr
  <2> QED
    BY <2>1, <2>2, <2>3, <2>4, <2>5, <2>6, <2>7, <2>8, AloneStep
<1>6. ASSUME NEW t \in Threads, SetProxy(t) PROVE Orderly'
  <2>1. Undisturbed(t)
    BY <1>6, Alone DEF SetProxy
  <2>2. LeftAlone(t)
    BY <1>6, <2>1 DEF SetProxy
  <2>3. Tidy'
    BY <1>6, <2>1 DEF SetProxy, Tidy, InCall, AtInstance, NoInstance
  <2>4. InCall(t)'
    BY <1>6, <2>1 DEF SetProxy, InCall
  <2>5. AtInstance(t)'
    BY <1>6, <2>1 DEF SetProxy, AtInstance, InCall, Rests, NoInstance, Mgr, Tidy
  <2>6. Processes(t)'
    BY <1>6, <2>1 DEF SetProxy, Processes, Held, AtInstance, Tidy, NoInstance
  <2>7. Proxied(t)'
    BY <1>6, <2>1 DEF SetProxy, Proxied, InCall, AtInstance, Kept, Anchored
  <2>8. Busy(t)'
    BY <1>6, <2>1 DEF SetProxy
  <2> QED
    BY <2>1, <2>2, <2>3, <2>4, <2>5, <2>6, <2>7, <2>8, AloneStep
<1>7. ASSUME NEW t \in Threads, SetProxyFails(t) PROVE Orderly'
  <2>1. Undisturbed(t)
    BY <1>7, Alone DEF SetProxyFails
  <2>2. LeftAlone(t)
    BY <1>7, <2>1 DEF SetProxyFails
  <2>3. Tidy'
    BY <1>7, <2>1 DEF SetProxyFails, Tidy, InCall, AtInstance, NoInstance
  <2>4. InCall(t)'
    BY <1>7, <2>1 DEF SetProxyFails, InCall
  <2>5. AtInstance(t)'
    BY <1>7, <2>1 DEF SetProxyFails, AtInstance, InCall, Rests, NoInstance, Mgr, Tidy
  <2>6. Processes(t)'
    BY <1>7, <2>1 DEF SetProxyFails, Processes, Held, AtInstance, Tidy, NoInstance
  <2>7. Proxied(t)'
    BY <1>7, <2>1 DEF SetProxyFails, Proxied, InCall, AtInstance, Kept, Anchored
  <2>8. Busy(t)'
    BY <1>7, <2>1 DEF SetProxyFails
  <2> QED
    BY <2>1, <2>2, <2>3, <2>4, <2>5, <2>6, <2>7, <2>8, AloneStep
<1>8. ASSUME NEW t \in Threads, MainPort(t) PROVE Orderly'
  <2>1. Undisturbed(t)
    BY <1>8, Alone DEF MainPort
  <2>2. LeftAlone(t)
    BY <1>8, <2>1 DEF MainPort
  <2>3. Tidy'
    BY <1>8, <2>1 DEF MainPort, Tidy, InCall, AtInstance, NoInstance
  <2>4. InCall(t)'
    BY <1>8, <2>1 DEF MainPort, InCall
  <2>5. AtInstance(t)'
    BY <1>8, <2>1 DEF MainPort, AtInstance, InCall, Rests, NoInstance, Mgr, Tidy
  <2>6. Processes(t)'
    BY <1>8, <2>1 DEF MainPort, Processes, Held, AtInstance, Tidy, NoInstance
  <2>7. Proxied(t)'
    BY <1>8, <2>1 DEF MainPort, Proxied, InCall, AtInstance, Kept, Anchored
  <2>8. Busy(t)'
    BY <1>8, <2>1 DEF MainPort
  <2> QED
    BY <2>1, <2>2, <2>3, <2>4, <2>5, <2>6, <2>7, <2>8, AloneStep
<1>9. ASSUME NEW t \in Threads, Up(t) PROVE Orderly'
  <2>1. Undisturbed(t)
    BY <1>9, Alone DEF Up, Leave
  <2>2. LeftAlone(t)
    BY <1>9, <2>1 DEF Up, Leave
  <2>3. Tidy'
    <3>1. multi[loc[t].id].mgr = loc[t].mgr /\ loc[t].mgr # 0 /\ loc[t].id \in Ids
      BY <1>9, <2>1 DEF Up, AtInstance, InCall
    <3>2. \A i \in Ids : /\ Runs(i)' <=> Runs(i)
                         /\ ~Runs(i) => multi'[i] = multi[i]
      BY <1>9, <3>1 DEF Up, Instances
    <3> QED
      BY <1>9, <2>1, <3>2 DEF Up, Tidy
  <2>4. InCall(t)'
    BY <1>9, <2>1 DEF Up, Leave, InCall
  <2>5. AtInstance(t)'
    BY <1>9, <2>1 DEF Up, Leave, AtInstance, InCall, Rests, NoInstance, Mgr, Tidy
  <2>6. Processes(t)'
    BY <1>9, <2>1 DEF Up, Leave, Processes, Held, AtInstance, Tidy, NoInstance
  <2>7. Proxied(t)'
    BY <1>9, <2>1 DEF Up, Leave, Proxied, InCall, AtInstance, Kept, Anchored
  <2>8. Busy(t)'
    BY <1>9, <2>1 DEF Up, Leave
  <2> QED
    BY <2>1, <2>2, <2>3, <2>4, <2>5, <2>6, <2>7, <2>8, AloneStep
<1>10. ASSUME NEW t \in Threads, StartMultiRefresh(t) PROVE Orderly'
  <2>1. Undisturbed(t)
    BY <1>10, Alone DEF StartMultiRefresh, NoLocals
  <2>2. LeftAlone(t)
    BY <1>10, <2>1 DEF StartMultiRefresh, NoLocals
  <2>3. Tidy'
    BY <1>10, <2>1 DEF StartMultiRefresh, NoLocals, Tidy, InCall, AtInstance, NoInstance
  <2>4. Busy(t)' => InCall(t)'
    <3>1. pc'[t] \in {"next", "idle"}
      BY <1>10, <2>1 DEF StartMultiRefresh
    <3> QED
      BY <3>1 DEF InCall
  <2>5. Busy(t)' => AtInstance(t)'
    BY <1>10, <2>1 DEF StartMultiRefresh, NoLocals, AtInstance, InCall, Rests, NoInstance, Mgr, Tidy
  <2>6. Busy(t)' => Processes(t)'
    BY <1>10, <2>1 DEF StartMultiRefresh, NoLocals, Processes, Held, AtInstance, Tidy, NoInstance
  <2>7. Busy(t)' => Proxied(t)'
    BY <1>10, <2>1 DEF StartMultiRefresh, NoLocals, Proxied, InCall, AtInstance, Kept, Anchored
  <2>8. ~Busy(t)' => Resting'
    BY <1>10, <2>1 DEF StartMultiRefresh, NoLocals, InCall, AtInstance, Processes, Proxied, Resting,
      Held, Rests, Kept, Anchored, NoInstance, Tidy
  <2> QED
    BY <2>1, <2>2, <2>3, <2>4, <2>5, <2>6, <2>7, <2>8, AloneStep
<1> QED
  BY <1>1, <1>2, <1>3, <1>4, <1>5, <1>6, <1>7, <1>8, <1>9, <1>10, FailOrderly, SwapOrderly
  DEF StartStep, FetchFails, LaunchFails, Fails

\* ... and so do stopMultiProxy, stopAllMulti and what follows them.
LEMMA StopOrderly ==
  ASSUME ControlInv, Orderly, NEW s \in Callers, StopStep(s)
  PROVE  Orderly'
<1> USE MultiAssumption DEF ControlInv, TypeOK, Threads, Undisturbed, LeftAlone, Working, Busy, Fallen,
    Goto, Step, Return, StopsOne, StopsAll, Starting, Replaced, Retrying, Stopping, Runs, NoneRuns,
    Halted, HaltedInstance, settingVars, timerVars, pastVars
<1>1. ASSUME NEW t \in Callers, Stop(t) PROVE Orderly'
  <2>1. Undisturbed(t)
    BY <1>1, Alone DEF Stop, WasMain
  <2>2. LeftAlone(t)
    BY <1>1, <2>1 DEF Stop, WasMain
  <2>3. Tidy'
    BY <1>1, <2>1 DEF Stop, WasMain, Tidy, InCall, AtInstance, NoInstance
  <2>4. InCall(t)'
    BY <1>1, <2>1 DEF Stop, WasMain, InCall
  <2>5. AtInstance(t)'
    BY <1>1, <2>1 DEF Stop, WasMain, AtInstance, InCall, Rests, NoInstance, Mgr, Tidy
  <2>6. Processes(t)'
    BY <1>1, <2>1 DEF Stop, WasMain, Processes, Held, AtInstance, Tidy, NoInstance
  <2>7. Proxied(t)'
    BY <1>1, <2>1 DEF Stop, WasMain, Proxied, InCall, AtInstance, Kept, Anchored
  <2>8. Busy(t)'
    BY <1>1, <2>1 DEF Stop, WasMain
  <2> QED
    BY <2>1, <2>2, <2>3, <2>4, <2>5, <2>6, <2>7, <2>8, AloneStep
<1>2. ASSUME NEW t \in Callers, Own(t) PROVE Orderly'
  <2>1. Undisturbed(t)
    BY <1>2, Alone DEF Own
  <2>2. LeftAlone(t)
    BY <1>2, <2>1 DEF Own
  <2>3. Tidy'
    BY <1>2, <2>1 DEF Own, Tidy, InCall, AtInstance, NoInstance
  <2>4. InCall(t)'
    BY <1>2, <2>1 DEF Own, InCall
  <2>5. AtInstance(t)'
    BY <1>2, <2>1 DEF Own, AtInstance, InCall, Rests, NoInstance, Mgr, Tidy
  <2>6. Processes(t)'
    BY <1>2, <2>1 DEF Own, Processes, Held, AtInstance, Tidy, NoInstance
  <2>7. Proxied(t)'
    BY <1>2, <2>1 DEF Own, Proxied, InCall, AtInstance, Kept, Anchored
  <2>8. Busy(t)'
    BY <1>2, <2>1 DEF Own
  <2> QED
    BY <2>1, <2>2, <2>3, <2>4, <2>5, <2>6, <2>7, <2>8, AloneStep
<1>3. ASSUME NEW t \in Callers, Clear(t) PROVE Orderly'
  <2>1. Undisturbed(t)
    BY <1>3, Alone DEF Clear, AfterClear
  <2>2. LeftAlone(t)
    BY <1>3, <2>1 DEF Clear, AfterClear
  <2>3. Tidy'
    BY <1>3, <2>1 DEF Clear, AfterClear, Tidy, InCall, AtInstance, NoInstance
  <2>4. InCall(t)'
    BY <1>3, <2>1 DEF Clear, AfterClear, InCall
  <2>5. AtInstance(t)'
    BY <1>3, <2>1 DEF Clear, AfterClear, AtInstance, InCall, Rests, NoInstance, Mgr, Tidy
  <2>6. Processes(t)'
    BY <1>3, <2>1 DEF Clear, AfterClear, Processes, Held, AtInstance, Tidy, NoInstance
  <2>7. Proxied(t)'
    BY <1>3, <2>1 DEF Clear, AfterClear, Proxied, InCall, AtInstance, Kept, Anchored
  <2>8. Busy(t)'
    BY <1>3, <2>1 DEF Clear, AfterClear
  <2> QED
    BY <2>1, <2>2, <2>3, <2>4, <2>5, <2>6, <2>7, <2>8, AloneStep
<1>4. ASSUME NEW t \in Callers, ClearFails(t) PROVE Orderly'
  <2>1. Undisturbed(t)
    BY <1>4, Alone DEF ClearFails, AfterClear
  <2>2. LeftAlone(t)
    BY <1>4, <2>1 DEF ClearFails, AfterClear
  <2>3. Tidy'
    BY <1>4, <2>1 DEF ClearFails, AfterClear, Tidy, InCall, AtInstance, NoInstance
  <2>4. InCall(t)'
    BY <1>4, <2>1 DEF ClearFails, AfterClear, InCall
  <2>5. AtInstance(t)'
    BY <1>4, <2>1 DEF ClearFails, AfterClear, AtInstance, InCall, Rests, NoInstance, Mgr, Tidy
  <2>6. Processes(t)'
    BY <1>4, <2>1 DEF ClearFails, AfterClear, Processes, Held, AtInstance, Tidy, NoInstance
  <2>7. Proxied(t)'
    BY <1>4, <2>1 DEF ClearFails, AfterClear, Proxied, InCall, AtInstance, Kept, Anchored
  <2>8. Busy(t)'
    BY <1>4, <2>1 DEF ClearFails, AfterClear
  <2> QED
    BY <2>1, <2>2, <2>3, <2>4, <2>5, <2>6, <2>7, <2>8, AloneStep
<1>5. ASSUME NEW t \in Callers, StopMultiRefreshIfIdle(t) PROVE Orderly'
  <2>1. Undisturbed(t)
    BY <1>5, Alone DEF StopMultiRefreshIfIdle, CloseRefresh, NoLocals
  <2>2. LeftAlone(t)
    BY <1>5, <2>1 DEF StopMultiRefreshIfIdle, CloseRefresh, NoLocals
  <2>3. Tidy'
    BY <1>5, <2>1 DEF StopMultiRefreshIfIdle, CloseRefresh, NoLocals, Tidy, InCall, AtInstance,
      NoInstance
  <2>4. Busy(t)' => InCall(t)'
    BY <1>5, <2>1 DEF StopMultiRefreshIfIdle, CloseRefresh, NoLocals, InCall
  <2>5. Busy(t)' => AtInstance(t)'
    BY <1>5, <2>1 DEF StopMultiRefreshIfIdle, CloseRefresh, NoLocals, AtInstance, InCall, Rests,
      NoInstance, Mgr, Tidy
  <2>6. Busy(t)' => Processes(t)'
    BY <1>5, <2>1 DEF StopMultiRefreshIfIdle, CloseRefresh, NoLocals, Processes, Held, AtInstance,
      Tidy, NoInstance
  <2>7. Busy(t)' => Proxied(t)'
    BY <1>5, <2>1 DEF StopMultiRefreshIfIdle, CloseRefresh, NoLocals, Proxied, InCall, AtInstance,
      Kept, Anchored
  <2>8. ~Busy(t)' => Resting'
    BY <1>5, <2>1 DEF StopMultiRefreshIfIdle, CloseRefresh, NoLocals, InCall, AtInstance, Processes,
      Proxied, Resting, Held, Rests, Kept, Anchored, NoInstance, Tidy
  <2> QED
    BY <2>1, <2>2, <2>3, <2>4, <2>5, <2>6, <2>7, <2>8, AloneStep
<1>6. ASSUME NEW t \in Callers, Unmap(t) PROVE Orderly'
  <2>1. Undisturbed(t)
    BY <1>6, Alone DEF Unmap, NoLocals
  <2>2. LeftAlone(t)
    BY <1>6, <2>1 DEF Unmap, NoLocals
  <2>3. Tidy'
    BY <1>6, <2>1 DEF Unmap, NoLocals, Tidy, InCall, AtInstance, NoInstance
  <2>4. Resting'
    BY <1>6, <2>1 DEF Unmap, NoLocals, InCall, AtInstance, Processes, Proxied, Resting, Held, Rests,
      Kept, Anchored, NoInstance, Tidy
  <2>5. ~Busy(t)'
    BY <1>6, <2>1 DEF Unmap, NoLocals
  <2> QED
    BY <2>1, <2>2, <2>3, <2>4, <2>5, AloneStep
<1>7. ASSUME NEW t \in Callers, StopAll(t) PROVE Orderly'
  <2>1. Undisturbed(t)
    BY <1>7, Alone DEF StopAll, MainOwned, CloseRefresh
  <2>2. LeftAlone(t)
    BY <1>7, <2>1 DEF StopAll, MainOwned, CloseRefresh
  <2>3. Tidy'
    BY <1>7, <2>1 DEF StopAll, MainOwned, CloseRefresh, Tidy, InCall, AtInstance, NoInstance
  <2>4. InCall(t)'
    BY <1>7, <2>1 DEF StopAll, MainOwned, CloseRefresh, InCall
  <2>5. AtInstance(t)'
    BY <1>7, <2>1 DEF StopAll, MainOwned, CloseRefresh, AtInstance, InCall, Rests, NoInstance, Mgr,
      Tidy
  <2>6. Processes(t)'
    BY <1>7, <2>1 DEF StopAll, MainOwned, CloseRefresh, Processes, Held, AtInstance, Tidy,
      NoInstance
  <2>7. Proxied(t)'
    <3>1. Kept' => mainPort # None
      BY <1>7, <2>1 DEF StopAll, Proxied, Kept, Anchored
    <3>2. pc'[t] = "allstop" /\ loc'[t].main = MainOwned
      BY <1>7 DEF StopAll, MainOwned, Locals
    <3> QED
      BY <3>1, <3>2 DEF Proxied, MainOwned
  <2>8. Busy(t)'
    BY <1>7, <2>1 DEF StopAll, MainOwned, CloseRefresh
  <2> QED
    BY <2>1, <2>2, <2>3, <2>4, <2>5, <2>6, <2>7, <2>8, AloneStep
<1>8. ASSUME NEW t \in Callers, StopNext(t) PROVE Orderly'
  <2>1. Undisturbed(t)
    BY <1>8, Alone DEF StopNext
  <2>2. LeftAlone(t)
    BY <1>8, <2>1 DEF StopNext
  <2>3. Tidy'
    BY <1>8, <2>1 DEF StopNext, Tidy, InCall, AtInstance, NoInstance
  <2>4. InCall(t)'
    BY <1>8, <2>1 DEF StopNext, InCall
  <2>5. AtInstance(t)'
    BY <1>8, <2>1 DEF StopNext, AtInstance, InCall, Rests, NoInstance, Mgr, Tidy
  <2>6. Processes(t)'
    BY <1>8, <2>1 DEF StopNext, Processes, Held, AtInstance, Tidy, NoInstance
  <2>7. Proxied(t)'
    BY <1>8, <2>1 DEF StopNext, Proxied, InCall, AtInstance, Kept, Anchored
  <2>8. Busy(t)'
    BY <1>8, <2>1 DEF StopNext
  <2> QED
    BY <2>1, <2>2, <2>3, <2>4, <2>5, <2>6, <2>7, <2>8, AloneStep
<1>9. ASSUME NEW t \in Callers, StoppedAll(t) PROVE Orderly'
  <2>1. Undisturbed(t)
    BY <1>9, Alone DEF StoppedAll
  <2>2. LeftAlone(t)
    BY <1>9, <2>1 DEF StoppedAll
  <2>3. Tidy'
    BY <1>9, <2>1 DEF StoppedAll, Tidy, InCall, AtInstance, NoInstance
  <2>4. InCall(t)'
    BY <1>9, <2>1 DEF StoppedAll, InCall
  <2>5. AtInstance(t)'
    BY <1>9, <2>1 DEF StoppedAll, AtInstance, InCall, Rests, NoInstance, Mgr, Tidy
  <2>6. Processes(t)'
    BY <1>9, <2>1 DEF StoppedAll, Processes, Held, AtInstance, Tidy, NoInstance
  <2>7. Proxied(t)'
    BY <1>9, <2>1 DEF StoppedAll, Proxied, InCall, AtInstance, Kept, Anchored
  <2>8. Busy(t)'
    BY <1>9, <2>1 DEF StoppedAll
  <2> QED
    BY <2>1, <2>2, <2>3, <2>4, <2>5, <2>6, <2>7, <2>8, AloneStep
<1>10. ASSUME NEW t \in Callers, Connected(t) PROVE Orderly'
  <2>1. Undisturbed(t)
    BY <1>10, Alone DEF Connected, NoLocals
  <2>2. LeftAlone(t)
    BY <1>10, <2>1 DEF Connected, NoLocals
  <2>3. Tidy'
    BY <1>10, <2>1 DEF Connected, NoLocals, Tidy, InCall, AtInstance, NoInstance
  <2>4. Resting'
    BY <1>10, <2>1 DEF Connected, NoLocals, InCall, AtInstance, Processes, Proxied, Resting, Held,
      Rests, Kept, Anchored, NoInstance, Tidy
  <2>5. ~Busy(t)'
    BY <1>10, <2>1 DEF Connected, NoLocals
  <2> QED
    BY <2>1, <2>2, <2>3, <2>4, <2>5, AloneStep
<1> QED
  BY <1>1, <1>2, <1>3, <1>4, <1>5, <1>6, <1>7, <1>8, <1>9, <1>10 DEF StopStep

\* reconnectMulti between its attempts: the instance is in the list, and so is
\* the mapping.
LEMMA RetryOrderly ==
  ASSUME ControlInv, Orderly, NEW w \in Workers, Want(w) \/ Sleep(w) \/ GiveUp(w)
  PROVE  Orderly'
<1> SUFFICES ASSUME NEW i, i = loc[w].id PROVE Orderly'
  OBVIOUS
<1> USE DEF ControlInv, TypeOK, Undisturbed, Working
<1>1. /\ w \in Threads /\ pc[w] \in Retrying /\ Busy(w)
      /\ UNCHANGED <<mapped, mainId, mainPort, proc, reg, single, happened>>
  BY DEF Threads, Want, Sleep, GiveUp, Step, Goto, Return, Busy, Retrying, settingVars, pastVars
<1>2. Undisturbed(w)
  BY <1>1, Alone
<1>3. /\ i \in mapped /\ i \in Ids /\ ~single /\ Runs(i) /\ multi[i].state # "connected"
      /\ (\A j \in Ids : j # i => Rests(j))
      /\ Tidy /\ Held /\ (Kept => Anchored)
  BY <1>1, <1>2 DEF InCall, AtInstance, Processes, Proxied, Starting, Retrying
<1>4. LeftAlone(w)
  BY <1>1, <1>2 DEF LeftAlone, Want, Sleep, GiveUp, Step, Goto, Return, Busy, Fallen
<1>5. CASE Want(w) \/ Sleep(w)
  <2>1. /\ UNCHANGED multi
        /\ \/ pc'[w] = "sleep" /\ loc' = loc
           \/ /\ pc'[w] = "fetch" /\ loc'[w].id = i /\ loc'[w].op = "reconnect"
              /\ loc'[w].main = (i = mainId)
    BY <1>1, <1>3, <1>5 DEF Want, Sleep, Step, Goto, CallsFit, Locals, Return
  <2>2. Tidy' /\ Held' /\ (Kept' => Anchored') /\ (\A j \in Ids : j # i => Rests(j)')
    BY <1>1, <1>3, <2>1 DEF Tidy, Held, Kept, Anchored, Rests, Runs
  <2>3. InCall(w)' /\ AtInstance(w)' /\ Processes(w)' /\ Proxied(w)'
    BY <1>1, <1>3, <2>1, <2>2
    DEF InCall, AtInstance, Processes, Proxied, Runs, Starting, Replaced, Retrying, Stopping
  <2> QED
    BY <1>1, <1>4, <2>1, <2>2, <2>3, AloneStep DEF Busy
<1>6. CASE GiveUp(w)
  <2> DEFINE f == Failed(i)
  <2>1. /\ \A j \in Ids : j # i => f[j] = multi[j]
        /\ f \in [Ids -> Instances] /\ f[i].mgr = multi[i].mgr /\ f[i].main = multi[i].main
        /\ f[i].state = "error"
    BY <1>3, FailedKeeps, FailedTypes
  <2>2. multi' = [f EXCEPT ![i].reconnecting = FALSE] /\ pc'[w] = "idle"
    BY <1>1, <1>6 DEF GiveUp, Return, Goto
  <2> HIDE DEF f
  <2>3. /\ \A j \in Ids : j # i => multi'[j] = multi[j]
        /\ multi'[i].mgr = multi[i].mgr /\ multi'[i].main = multi[i].main
        /\ multi'[i].state = "error" /\ ~multi'[i].reconnecting
    BY <1>3, <2>1, <2>2 DEF Instances
  <2>4. Tidy' /\ Held'
    BY <1>1, <1>3, <2>3 DEF Tidy, Held, Runs
  <2>5. Kept' => Anchored'
    BY <1>1, <1>3, <2>3 DEF Kept, Anchored, Runs, Ports
  <2>6. \A j \in Ids : Rests(j)'
    BY <1>1, <1>3, <2>3 DEF Rests
  <2> QED
    BY <1>1, <1>4, <2>2, <2>4, <2>5, <2>6, AloneStep DEF Busy, Resting
<1> QED
  BY <1>5, <1>6

\* maybeRefreshMulti goes from one resting instance to the next.
LEMMA RefreshOrderly ==
  ASSUME ControlInv, Orderly, NEW w \in Workers, RefreshNext(w) \/ RefreshDone(w)
  PROVE  Orderly'
<1> USE DEF ControlInv, TypeOK, Undisturbed, Working
<1>1. /\ w \in Threads /\ pc[w] = "next" /\ Busy(w)
      /\ UNCHANGED <<mapped, mainId, multi, mainPort, proc, reg, single, happened>>
  BY DEF Threads, RefreshNext, RefreshDone, Goto, Busy, settingVars, pastVars
<1>2. Undisturbed(w)
  BY <1>1, Alone
<1>3. Tidy /\ Held /\ (Kept => Anchored) /\ ~single /\ \A i \in Ids : Rests(i)
  BY <1>1, <1>2 DEF AtInstance, Processes, Proxied, Starting, Replaced, Retrying
<1>4. LeftAlone(w)
  BY <1>1, <1>2 DEF LeftAlone, RefreshNext, RefreshDone, Goto, Busy, Fallen
<1>5. Tidy' /\ Held' /\ (Kept' => Anchored') /\ ~single' /\ \A i \in Ids : Rests(i)'
  BY <1>1, <1>3 DEF Tidy, Held, Kept, Anchored, Rests, Runs
<1>6. CASE RefreshNext(w)
  <2>1. PICK m \in loc[w].todo :
          /\ loc' = [loc EXCEPT ![w].todo = @ \ {m}, ![w].id = m[1], ![w].main = (m[1] = mainId)]
          /\ Goto(w, "next", IF m[1] \in mapped THEN "fetch" ELSE "next")
    BY <1>6 DEF RefreshNext
  <2>2. /\ pc'[w] \in {"fetch", "next"} /\ (pc'[w] = "fetch" => m[1] \in mapped)
        /\ loc'[w].id = m[1] /\ loc'[w].op = "refresh" /\ loc'[w].main = (m[1] = mainId)
    BY <1>1, <2>1 DEF Goto, CallsFit, Locals
  <2>3. InCall(w)' /\ AtInstance(w)' /\ Processes(w)' /\ Proxied(w)'
    BY <1>1, <1>5, <2>2
    DEF InCall, AtInstance, Processes, Proxied, Starting, Replaced, Retrying, Stopping
  <2> QED
    BY <1>1, <1>4, <1>5, <2>2, <2>3, AloneStep DEF Busy
<1>7. CASE RefreshDone(w)
  <2>1. pc'[w] = "select"
    BY <1>1, <1>7 DEF RefreshDone, Goto
  <2> QED
    BY <1>1, <1>4, <1>5, <2>1, AloneStep DEF Busy, Resting
<1> QED
  BY <1>6, <1>7

\* A refresh loop that ends disturbs nobody.
LEMMA LoopExitOrderly ==
  ASSUME ControlInv, Orderly, NEW w \in Workers, LoopExit(w)
  PROVE  Orderly'
<1> USE DEF ControlInv, TypeOK, Threads
<1>1. /\ pc[w] = "select" /\ pc' = [pc EXCEPT ![w] = "idle"]
      /\ \A u \in Threads : u # w => loc'[u] = loc[u] /\ pc'[u] = pc[u]
      /\ UNCHANGED <<mapped, mainId, multi, mainPort, proc, reg, single, happened>>
  BY DEF LoopExit, Return, Goto, settingVars, pastVars
<1>2. \A t \in Threads : Busy(t)' <=> Busy(t)
  BY <1>1 DEF Busy
<1>3. OneThing' /\ Tidy' /\ (Resting' <=> Resting)
  BY <1>1, <1>2 DEF Orderly, OneThing, Fallen, Tidy, Runs, Resting, Held, Rests, Kept, Anchored
<1>4. ASSUME NEW t \in Threads, Busy(t) PROVE Working(t)'
  <2>1. t # w /\ pc'[t] = pc[t] /\ loc'[t] = loc[t] /\ Working(t)
    BY <1>1, <1>4 DEF Busy, Orderly
  <2>2. InCall(t)'
    BY <1>1, <2>1 DEF Working, InCall, StopsOne, StopsAll
  <2>3. AtInstance(t)'
    BY <1>1, <2>1 DEF Working, AtInstance, Rests, StopsOne, StopsAll, NoneRuns, Runs, Mgr
  <2>4. Processes(t)'
    BY <1>1, <2>1 DEF Working, Processes, Held
  <2>5. Proxied(t)'
    BY <1>1, <2>1 DEF Working, Proxied, Kept, Anchored, Runs
  <2> QED
    BY <2>2, <2>3, <2>4, <2>5 DEF Working
<1> QED
  BY <1>2, <1>3, <1>4 DEF Orderly

\* With nothing on its way every goroutine and every process rests.
LEMMA AtRest ==
  ASSUME Orderly, \A t \in Threads : ~Busy(t)
  PROVE  /\ Tidy /\ Held /\ (\A i \in Ids : Rests(i)) /\ (Kept => Anchored)
BY DEF Orderly, Resting

\* A call that begins with nothing on its way finds everything in order.
LEMMA CallOrderly ==
  ASSUME ControlInv, Orderly, Quiet, "overlap" \notin happened', NEW s \in Callers, CallStep(s)
  PROVE  Orderly'
<1> USE MultiAssumption DEF ControlInv, TypeOK, CallsFit, Threads, LeftAlone, Goto, Busy, Starting,
    Replaced, Retrying, Stopping, StopsOne, StopsAll, settingVars, timerVars
<1>1. /\ Tidy /\ Held /\ (\A i \in Ids : Rests(i)) /\ (Kept => Anchored)
      /\ \A m \in Ids \X Managers : proc[m] \in {"none", "up"}
      /\ \A t \in Threads : pc[t] \in {"idle", "select"}
  BY AtRest DEF Quiet
<1>2. ASSUME NEW t \in Callers, NEW i \in Ids, StartMultiProxy(t, i) PROVE Orderly'
  <2>1. /\ LeftAlone(t) /\ pc'[t] = "disconnect"
        /\ UNCHANGED <<mapped, mainId, multi, mainPort, proc, reg, single>>
    BY <1>1, <1>2 DEF StartMultiProxy
  <2>2. i \in mapped /\ loc'[t].op = "start" /\ loc'[t].id = i /\ loc'[t].main = (i = mainId)
    BY <1>2 DEF StartMultiProxy, Locals
  <2>3. Kept' => Kept
    BY <1>2, <2>1 DEF StartMultiProxy, Begins, Kept
  <2>4. Tidy'
    BY <1>1, <2>1 DEF Tidy, Runs
  <2>5. Working(t)'
    BY <1>1, <2>1, <2>2, <2>3
    DEF Working, InCall, AtInstance, Rests, Processes, Held, Proxied, Anchored, Runs
  <2> QED
    BY <2>1, <2>4, <2>5, AloneStep
<1>3. ASSUME NEW t \in Callers, NEW i \in Ids, NEW o \in {"stop", "remove"}, NEW more,
             StopCall(t, o, i, more), UNCHANGED mapped, Kept' => mainId' = mainId
      PROVE  Orderly'
  <2>1. /\ LeftAlone(t) /\ pc'[t] = "stop" /\ UNCHANGED <<multi, mainPort, proc, reg, single>>
    BY <1>1, <1>3 DEF StopCall
  <2>2. loc'[t].op = o /\ loc'[t].id = i
    BY <1>3 DEF StopCall, Locals
  <2>3. Kept' => Kept
    BY <1>3, <2>1 DEF StopCall, Begins, Kept
  <2>4. Tidy'
    BY <1>1, <1>3, <2>1 DEF Tidy, Runs
  <2>5. Working(t)'
    BY <1>1, <1>3, <2>1, <2>2, <2>3
    DEF Working, InCall, AtInstance, Rests, Processes, Held, Proxied, Anchored, Runs
  <2> QED
    BY <2>1, <2>4, <2>5, AloneStep
<1>4. ASSUME NEW t \in Callers, NEW i \in Ids, StopMultiProxy(t, i) \/ RemoveMultiProxy(t, i)
      PROVE  Orderly'
  BY <1>3, <1>4 DEF StopMultiProxy, RemoveMultiProxy
<1>5. ASSUME NEW i, NEW m \in BOOLEAN, mainId' = WithMain(i, m), UNCHANGED reg, Begins(Moved(i, m))
      PROVE  (Kept' => Kept) /\ (Kept' => mainId' = mainId)
  BY <1>5 DEF Moved, Begins, Kept
<1>6. ASSUME NEW t \in Callers, NEW i \in Ids, NEW m \in BOOLEAN, UpdateMultiProxy(t, i, m)
      PROVE  Orderly'
  <2>1. StopCall(t, "stop", i, Moved(i, m)) /\ UNCHANGED mapped
    BY <1>6 DEF UpdateMultiProxy
  <2>2. Kept' => mainId' = mainId
    BY <1>5, <1>6 DEF UpdateMultiProxy, StopCall
  <2> QED
    BY <1>3, <2>1, <2>2
<1>7. ASSUME NEW t \in Callers, NEW i \in Ids, NEW m \in BOOLEAN, AddMultiProxy(t, i, m)
      PROVE  Orderly'
  <2>1. /\ LeftAlone(t) /\ pc'[t] = "idle" /\ UNCHANGED <<multi, mainPort, proc, reg, single>>
        /\ mapped \subseteq mapped'
    BY <1>1, <1>7 DEF AddMultiProxy
  <2>2. (Kept' => Kept) /\ (Kept' => mainId' = mainId)
    BY <1>5, <1>7 DEF AddMultiProxy
  <2>3. Tidy'
    BY <1>1, <2>1 DEF Tidy, Runs
  <2>4. Resting'
    BY <1>1, <2>1, <2>2 DEF Resting, Held, Rests, Anchored, Runs
  <2> QED
    BY <2>1, <2>3, <2>4, AloneStep
<1>8. ASSUME NEW t \in Callers, Connect(t) \/ Logout(t) PROVE Orderly'
  <2>1. /\ LeftAlone(t) /\ pc'[t] = "all" /\ UNCHANGED <<mapped, mainId, multi, mainPort, proc, reg>>
        /\ single' => single
    BY <1>1, <1>8 DEF Connect, Logout
  <2>2. loc'[t].op \in {"connect", "logout"}
    BY <1>8 DEF Connect, Logout, Locals
  <2>3. Kept' => Kept
    BY <1>8, <2>1 DEF Connect, Logout, Begins, Kept
  <2>4. Tidy'
    BY <1>1, <2>1 DEF Tidy, Runs
  <2>5. Working(t)'
    BY <1>1, <2>1, <2>2, <2>3
    DEF Working, InCall, AtInstance, Rests, Processes, Held, Proxied, Anchored, Runs
  <2> QED
    BY <2>1, <2>4, <2>5, AloneStep
<1> QED
  BY <1>2, <1>4, <1>6, <1>7, <1>8 DEF CallStep

\* So does a tick that finds something to refresh.
LEMMA TickOrderly ==
  ASSUME ControlInv, Orderly, Quiet, "overlap" \notin happened', NEW w \in Workers, Tick(w)
  PROVE  Orderly'
<1> USE DEF ControlInv, TypeOK, Threads, LeftAlone, Goto, Busy, settingVars, timerVars
<1>1. /\ Tidy /\ Held /\ (\A i \in Ids : Rests(i)) /\ (Kept => Anchored)
      /\ \A m \in Ids \X Managers : proc[m] \in {"none", "up"}
      /\ \A t \in Threads : pc[t] \in {"idle", "select"}
  BY AtRest DEF Quiet
<1>2. /\ LeftAlone(w) /\ pc'[w] = "next"
      /\ UNCHANGED <<mapped, mainId, multi, mainPort, proc, reg, single>>
  BY <1>1 DEF Tick
<1>3. ~single
  <2>1. PICK due \in (SUBSET {i \in Ids : Steady(i)}) \ {{}} : TRUE
    BY DEF Tick
  <2>2. PICK i \in Ids : Steady(i)
    BY <2>1
  <2> QED
    BY <1>1, <2>2 DEF Steady, Tidy
<1>4. Kept' => Kept
  BY <1>2 DEF Tick, Begins, Kept
<1>5. Tidy'
  BY <1>1, <1>2 DEF Tidy, Runs
<1>6. Working(w)'
  BY <1>1, <1>2, <1>3, <1>4
  DEF Working, InCall, AtInstance, Rests, Processes, Held, Proxied, Anchored, Runs, Starting,
    Replaced, Retrying, Stopping
<1> QED
  BY <1>2, <1>5, <1>6, AloneStep

\* A process that falls with nothing on its way is the only thing that happens,
\* and so is the end of its wait.
LEMMA FallOrderly ==
  ASSUME ControlInv, Orderly, (Crash /\ Quiet) \/ Notice
  PROVE  Orderly'
<1> USE DEF ControlInv, TypeOK, Fallen, settingVars
<1>1. PICK m \in Ids \X Managers :
        /\ \/ Crash /\ Quiet /\ Falls(m, "up", "down")
           \/ Notice /\ Falls(m, "down", "noticed")
  BY DEF Crash, Notice
<1>2. /\ UNCHANGED <<pc, loc, mapped, mainId, multi, mainPort, reg, single>>
      /\ proc[m] \in {"up", "down"} /\ proc'[m] \in {"down", "noticed"}
      /\ \A n \in Ids \X Managers : n # m => proc'[n] = proc[n]
  BY <1>1 DEF Falls
<1>3. \A t \in Threads : ~Busy(t)
  BY <1>1 DEF Quiet, Busy, Falls, Orderly, OneThing
<1>4. \A n \in Ids \X Managers : n # m => ~Fallen(n)
  BY <1>1 DEF Quiet, Falls, Orderly, OneThing
<1>5. Kept' => Kept
  BY <1>1, <1>2 DEF Kept, Crash, Notice, Begins, pastVars
<1>6. OneThing'
  BY <1>2, <1>3, <1>4 DEF OneThing, Busy
<1>7. \A i \in Ids : Rests(i)'
  <2> SUFFICES ASSUME NEW i \in Ids PROVE Rests(i)'
    OBVIOUS
  <2>1. Rests(i)
    BY <1>3, AtRest
  <2>2. multi[i].state = "connected" => <<i, multi[i].mgr>> \in Ids \X Managers
    BY DEF ConnectedRuns, Runs, Instances
  <2> QED
    BY <1>2, <2>1, <2>2 DEF Rests
<1>8. Held'
  BY <1>2, <1>3, AtRest DEF Held
<1>9. Tidy' /\ (Kept' => Anchored')
  BY <1>2, <1>3, <1>5, AtRest DEF Tidy, Anchored, Runs
<1> QED
  BY <1>2, <1>3, <1>6, <1>7, <1>8, <1>9 DEF Orderly, Resting, Busy

\* The exit of a process: a connected instance is reconnected, and no other
\* names the process.
LEMMA ExitOrderly ==
  ASSUME ControlInv, Orderly, NEW i \in Ids, NEW k \in Managers, OnMultiExit(i, k)
  PROVE  Orderly'
<1> USE MultiAssumption DEF ControlInv, TypeOK
<1>1. /\ proc[<<i, k>>] = "noticed" /\ proc' = [proc EXCEPT ![<<i, k>>] = "none"]
      /\ UNCHANGED <<mapped, mainId, mainPort, reg, single, happened>>
  BY DEF OnMultiExit, settingVars, pastVars
<1>2. \A t \in Threads : pc[t] \in {"idle", "select"}
  BY <1>1 DEF Orderly, OneThing, Fallen, Busy
<1>3. Tidy /\ Held /\ (\A j \in Ids : Rests(j)) /\ (Kept => Anchored)
  BY <1>2, AtRest DEF Busy
<1>4. multi[i].mgr = k /\ Runs(i) /\ ~multi[i].reconnecting /\ i \in mapped /\ ~single
  BY <1>1, <1>3 DEF Held, Runs, Rests, Tidy
<1>5. \A m \in Ids \X Managers : proc'[m] \in {"none", "up"}
  BY <1>1 DEF Orderly, OneThing, Fallen
<1>6. \A j \in Ids : j # i /\ multi'[j] = multi[j] => Rests(j)'
  <2> SUFFICES ASSUME NEW j \in Ids, j # i, multi'[j] = multi[j] PROVE Rests(j)'
    OBVIOUS
  <2>1. Rests(j) /\ (multi[j].state = "connected" => <<j, multi[j].mgr>> \in Ids \X Managers)
    BY <1>3 DEF ConnectedRuns, Runs, Instances
  <2> QED
    BY <1>1, <2>1 DEF Rests
<1>7. CASE Steady(i)
  <2>1. PICK w \in Workers :
          /\ Goto(w, "idle", "want")
          /\ loc' = [loc EXCEPT ![w].op = "reconnect", ![w].id = i, ![w].attempt = 1]
    BY <1>7 DEF OnMultiExit
  <2>2. multi' = [multi EXCEPT ![i].reconnecting = TRUE, ![i].state = "connecting"]
    BY <1>7 DEF OnMultiExit
  <2>3. /\ multi'[i].mgr = multi[i].mgr /\ multi'[i].main = multi[i].main
        /\ multi'[i].state = "connecting"
        /\ \A j \in Ids : j # i => multi'[j] = multi[j]
    BY <2>2 DEF Instances
  <2>4. w \in Threads /\ pc'[w] = "want" /\ loc'[w].id = i /\ LeftAlone(w)
    BY <1>2, <1>5, <2>1 DEF Threads, Goto, Locals, LeftAlone
  <2>5. Tidy'
    BY <1>1, <1>3, <1>4, <2>3 DEF Tidy, Runs
  <2>6. Held'
    BY <1>1, <1>3, <2>3 DEF Held
  <2>7. Kept' => Anchored'
    BY <1>1, <1>3, <2>3 DEF Kept, Anchored, Runs, Ports
  <2>8. Working(w)'
    BY <1>1, <1>4, <1>6, <2>3, <2>4, <2>6, <2>7
    DEF Working, InCall, AtInstance, Processes, Proxied, Runs, Starting, Replaced, Retrying,
      Stopping
  <2> QED
    BY <2>4, <2>5, <2>8, AloneStep DEF Busy
<1>8. CASE ~Steady(i)
  <2>1. UNCHANGED <<pc, loc, multi>>
    BY <1>8 DEF OnMultiExit
  <2>2. Rests(i)'
    BY <1>3, <1>4, <1>8, <2>1 DEF Rests, Steady
  <2>3. Tidy' /\ Held' /\ (Kept' => Anchored')
    BY <1>1, <1>3, <2>1 DEF Tidy, Held, Kept, Anchored, Runs
  <2>4. Resting'
    BY <1>6, <2>1, <2>2, <2>3 DEF Resting
  <2> QED
    BY <1>2, <1>5, <2>1, <2>3, <2>4 DEF Orderly, OneThing, Busy, Fallen
<1> QED
  BY <1>7, <1>8

\* History is not forgotten.
LEMMA OverlapStays ==
  ASSUME Next, "overlap" \in happened
  PROVE  "overlap" \in happened'
<1> USE DEF pastVars, Begins
<1>1. ASSUME NEW t \in Callers, CallStep(t) PROVE "overlap" \in happened'
  BY <1>1 DEF CallStep, StartMultiProxy, StopMultiProxy, RemoveMultiProxy, UpdateMultiProxy,
    AddMultiProxy, StopCall, Connect, Logout
<1>2. ASSUME NEW t \in Callers, StopStep(t) PROVE "overlap" \in happened'
  BY <1>2 DEF StopStep, Stop, Own, Clear, ClearFails, StopMultiRefreshIfIdle, Unmap, StopAll,
    StopNext, StoppedAll, Connected
<1>3. ASSUME NEW t \in Threads, StartStep(t) PROVE "overlap" \in happened'
  BY <1>3 DEF StartStep, DisconnectSingle, FetchFails, LaunchFails, Fails, FailMulti, Swap, Launch,
    Ready, NotReady, Abort, SetProxy, SetProxyFails, MainPort, Up, StartMultiRefresh
<1>4. ASSUME NEW w \in Workers, WorkerStep(w) PROVE "overlap" \in happened'
  BY <1>4 DEF WorkerStep, Want, Sleep, GiveUp, Tick, RefreshNext, RefreshDone, LoopExit
<1>5. ASSUME NEW i \in Ids, NEW k \in Managers, OnMultiExit(i, k) PROVE "overlap" \in happened'
  BY <1>5 DEF OnMultiExit
<1>6. ASSUME Crash \/ Notice PROVE "overlap" \in happened'
  BY <1>6 DEF Crash, Notice
<1> QED
  BY <1>1, <1>2, <1>3, <1>4, <1>5, <1>6 DEF Next

\* What begins before everything has come to rest is an overlap.
LEMMA BeginsQuiet ==
  ASSUME NEW more, Begins(more), "overlap" \notin happened'
  PROVE  Quiet
BY DEF Begins

\* Every step keeps the order there is.
LEMMA OrderStep ==
  ASSUME ControlInv, Sequential, Next
  PROVE  Sequential'
<1> SUFFICES ASSUME "overlap" \notin happened' PROVE Orderly'
  BY DEF Sequential
<1>1. Orderly
  BY OverlapStays DEF Sequential
<1>2. ASSUME NEW t \in Callers, CallStep(t) PROVE Orderly'
  <2>1. Quiet
    BY <1>2, BeginsQuiet DEF CallStep, StartMultiProxy, StopMultiProxy, RemoveMultiProxy,
      UpdateMultiProxy, AddMultiProxy, StopCall, Connect, Logout
  <2> QED
    BY <1>1, <1>2, <2>1, CallOrderly
<1>3. ASSUME NEW w \in Workers, WorkerStep(w) PROVE Orderly'
  <2>1. CASE Tick(w)
    BY <1>1, <2>1, BeginsQuiet, TickOrderly DEF Tick
  <2> QED
    BY <1>1, <1>3, <2>1, RetryOrderly, RefreshOrderly, LoopExitOrderly DEF WorkerStep
<1>4. ASSUME Crash \/ Notice PROVE Orderly'
  BY <1>1, <1>4, BeginsQuiet, FallOrderly DEF Crash
<1> QED
  BY <1>1, <1>2, <1>3, <1>4, StopOrderly, StartOrderly, ExitOrderly DEF Next

-----------------------------------------------------------------------------
(* The invariant, and the theorems                                         *)

\* The invariant holds when the program starts.
LEMMA Initially ==
  Init => IInv
<1> SUFFICES ASSUME Init PROVE IInv
  OBVIOUS
<1> USE MultiAssumption
<1>1. TypeOK
  <2>1. NoLocals \in Locals /\ NoInstance \in Instances
    BY DEF NoLocals, NoInstance, Locals, Instances, Ports
  <2>2. /\ pc \in [Threads -> Labels] /\ loc \in [Threads -> Locals]
        /\ multi \in [Ids -> Instances]
    BY <2>1 DEF Init, Labels
  <2>3. /\ mapped \subseteq Ids /\ mainId \in Ports /\ mainPort \in Ports /\ reg \in Ports
        /\ refreshStop \in Workers \cup {NoLoop} /\ stopped \subseteq Workers
    BY DEF Init, Ports
  <2>4. proc \in [Ids \X Managers -> {"none", "up", "down", "noticed"}]
    BY DEF Init
  <2>5. single \in BOOLEAN /\ happened \subseteq {"overlap", "moved", "kept"}
    BY DEF Init
  <2>6. events \in 0 .. MaxEvents
    BY DEF Init
  <2> QED
    BY <2>2, <2>3, <2>4, <2>5, <2>6 DEF TypeOK
<1>2. CallsFit /\ LocalsSet /\ ConnectedRuns
  BY DEF Init, NoLocals, NoInstance, CallsFit, LocalsSet, ConnectedRuns
<1>3. LoopsKnown
  BY DEF Init, NoLocals, Threads, LoopsKnown, IsLoop
<1>4. ConnectedIsRefreshed /\ ProxyIsOwned
  BY DEF Init, NoInstance, ConnectedIsRefreshed, ProxyIsOwned
<1> QED
  BY <1>1, <1>2, <1>3, <1>4 DEF IInv, ControlInv

\* Every step keeps the invariant.
LEMMA InvStep ==
  IInv /\ [Next]_vars => IInv'
<1> SUFFICES ASSUME IInv, [Next]_vars PROVE IInv'
  OBVIOUS
<1>1. CASE Next
  BY <1>1, TypeStep, CallsStep, LocalsStep, RunsStep, LoopsStep, RefreshedStep, OwnedStep
  DEF IInv, ControlInv
<1>2. CASE UNCHANGED vars
  BY <1>2 DEF vars, settingVars, timerVars, pastVars, IInv, ControlInv, TypeOK, CallsFit,
    LocalsSet, ConnectedRuns, Runs, LoopsKnown, IsLoop, ConnectedIsRefreshed, ProxyIsOwned
<1> QED
  BY <1>1, <1>2

\* The invariant holds in every reachable state.
THEOREM MultiInvariant ==
  Spec => []IInv
BY Initially, InvStep, PTL DEF Spec

\* Types: goroutines, instances and processes have the values declared.
THEOREM MultiTypeOK ==
  Spec => []TypeOK
<1>1. IInv => TypeOK
  BY DEF IInv, ControlInv
<1> QED
  BY <1>1, MultiInvariant, PTL

\* clearMultiSysproxy and stopAllMulti: the system proxy is not forgotten
\* while it points at a multi-proxy, whatever overlaps or fails.
THEOREM MultiProxyOwned ==
  Spec => []ProxyIsOwned
<1>1. IInv => ProxyIsOwned
  BY DEF IInv
<1> QED
  BY <1>1, MultiInvariant, PTL

\* startMultiRefresh and stopMultiRefreshIfIdle: no connected instance is left
\* without the loop that refreshes its credential.
THEOREM MultiRefreshed ==
  Spec => []ConnectedIsRefreshed
<1>1. IInv => ConnectedIsRefreshed
  BY DEF IInv
<1> QED
  BY <1>1, MultiInvariant, PTL

\* App.multiRefreshStop: one refresh loop at most goes on, and App can stop it.
THEOREM MultiOneRefreshLoop ==
  Spec => []OneRefreshLoop
<1>1. IInv => OneRefreshLoop
  BY DEF IInv, LoopsKnown, IsLoop, OneRefreshLoop
<1> QED
  BY <1>1, MultiInvariant, PTL

\* While nothing overlaps one goroutine works or one process has fallen, and
\* instances, processes and the system proxy agree with each other but where
\* that goroutine is at work.
THEOREM MultiSequential ==
  Spec => []Sequential
<1>1. Init => Sequential
  BY DEF Init, Sequential, Orderly, OneThing, Busy, Fallen, Tidy, Runs, NoInstance, Resting, Held,
    Rests, Kept
<1>2. IInv /\ Sequential /\ [Next]_vars => Sequential'
  <2> SUFFICES ASSUME IInv, Sequential, [Next]_vars PROVE Sequential'
    OBVIOUS
  <2>1. CASE Next
    BY <2>1, OrderStep DEF IInv
  <2>2. CASE UNCHANGED vars
    BY <2>2 DEF vars, settingVars, pastVars, Sequential, Orderly, OneThing, Busy, Fallen, Tidy, Runs,
      NoneRuns, Mgr, StopsOne, StopsAll, Working, InCall, AtInstance, Processes, Proxied, Resting,
      Held, Rests, Kept, Anchored
  <2> QED
    BY <2>1, <2>2
<1> QED
  BY <1>1, <1>2, MultiInvariant, PTL DEF Spec

\* With nothing on its way and nothing having overlapped, everything rests.
LEMMA QuietRests ==
  ASSUME IInv, Sequential, Quiet, "overlap" \notin happened
  PROVE  Tidy /\ Resting
BY AtRest DEF Sequential, Quiet, Busy, Orderly

\* GetMultiProxies: with one thing happening after the other the list of
\* proxies is what runs, and excludes the single connection.
THEOREM MultiListedAsRunning ==
  Spec => []ListedAsRunning
<1>1. IInv /\ Sequential => ListedAsRunning
  <2> SUFFICES ASSUME IInv, Sequential, Quiet, "overlap" \notin happened, NEW i \in Ids
               PROVE  /\ multi[i].state = "connected" => proc[<<i, multi[i].mgr>>] = "up"
                      /\ multi[i].state # "connecting"
                      /\ \A k \in Managers : proc[<<i, k>>] = "up" => multi[i].mgr = k /\ ~single
    BY DEF ListedAsRunning
  <2>1. Tidy /\ Held /\ Rests(i)
    BY QuietRests DEF Resting
  <2>2. multi[i].state = "connected" => <<i, multi[i].mgr>> \in Ids \X Managers
    BY DEF IInv, ControlInv, TypeOK, ConnectedRuns, Runs, Instances
  <2>3. multi[i].state = "connected" => proc[<<i, multi[i].mgr>>] = "up"
    BY <2>1, <2>2 DEF Rests, Quiet
  <2>4. \A k \in Managers : proc[<<i, k>>] = "up" => multi[i].mgr = k /\ ~single
    BY <2>1, MultiAssumption DEF Held, Tidy, Runs
  <2> QED
    BY <2>1, <2>3, <2>4 DEF Rests
<1> QED
  BY <1>1, MultiInvariant, MultiSequential, PTL

\* With one thing happening after the other, a main flag that does not move while
\* a system proxy is set and a registry that clears it when asked, a system proxy
\* that is set points at a proxy in the list, which instance, settings and
\* multiMainPort all name as its owner: what clearMultiSysproxy goes by.
THEOREM MultiStopClearsProxy ==
  Spec => []StopClearsProxy
<1>1. IInv /\ Sequential => StopClearsProxy
  <2> SUFFICES ASSUME IInv, Sequential, Quiet, happened = {}, reg # None PROVE Anchored
    BY DEF StopClearsProxy, Anchored
  <2>1. Resting /\ Kept
    BY QuietRests DEF Kept
  <2> QED
    BY <2>1 DEF Resting
<1> QED
  BY <1>1, MultiInvariant, MultiSequential, PTL
=============================================================================
