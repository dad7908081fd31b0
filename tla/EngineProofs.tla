---------------------------- MODULE EngineProofs ----------------------------
(***************************************************************************)
(* Proofs about Engine, for any number of processes, Start/Stop calls and  *)
(* WaitReady callers and for both readiness probes.                        *)
(***************************************************************************)
EXTENDS Engine, FiniteSetTheorems, TLAPS

(***************************************************************************)
(* gen identifies the managed process: the watcher of p compares equal     *)
(* exactly while p is m.cmd. The rest says what the two sides know of p:   *)
(* a watcher past Wait has a dead process, a process not launched yet has  *)
(* left no trace.                                                          *)
(***************************************************************************)
GenNamesCmd ==
  /\ cmd # NoProc => cmd <= started /\ born[cmd] = gen
  /\ \A p \in Procs : p <= started => born[p] <= gen
  /\ \A p \in Procs : p <= started /\ born[p] = gen => p = cmd

LaunchedOnly ==
  \A p \in Procs : /\ (p > started) <=> (proc[p] = "unborn")
                   /\ (p > started) <=> (watch[p] = "none")
                   /\ p \in killed => p <= started

WatcherSawDeath ==
  \A p \in Procs : /\ watch[p] \in {"reaped", "report", "end"} => proc[p] = "dead"
                   /\ p \in told => watch[p] = "end"

IInv ==
  /\ TypeOK
  /\ GenNamesCmd
  /\ LaunchedOnly
  /\ WatcherSawDeath
  /\ cmd \notin killed
  /\ NoUnmanagedProcess
  /\ PlannedStopIsSilent
  /\ NoStrayConfig

LEMMA InitIInv == Init => IInv
  BY EngineAssumption
  DEF Init, IInv, TypeOK, WaitStates, GenNamesCmd, LaunchedOnly, WatcherSawDeath,
      NoUnmanagedProcess, PlannedStopIsSilent, NoStrayConfig, Alive, Procs, NoProc

LEMMA NextIInv == IInv /\ [Next]_vars => IInv'
<1> SUFFICES ASSUME IInv, [Next]_vars PROVE IInv'
  OBVIOUS
<1> USE EngineAssumption
    DEF IInv, TypeOK, GenNamesCmd, LaunchedOnly, WatcherSawDeath, NoUnmanagedProcess,
        PlannedStopIsSilent, NoStrayConfig, Alive, Procs, NoProc, Killing,
        GenAfterReplacing
<1>1. CASE Stop
  BY <1>1 DEF Stop
<1>2. CASE StartSucceeds
  <2>1. TypeOK'
    BY <1>2 DEF StartSucceeds
  <2>2. GenNamesCmd'
    BY <1>2 DEF StartSucceeds
  <2>3. LaunchedOnly'
    BY <1>2 DEF StartSucceeds
  <2>4. WatcherSawDeath'
    BY <1>2 DEF StartSucceeds
  <2>5. cmd' \notin killed' /\ NoUnmanagedProcess' /\ PlannedStopIsSilent' /\ NoStrayConfig'
    BY <1>2 DEF StartSucceeds
  <2> QED
    BY <2>1, <2>2, <2>3, <2>4, <2>5
<1>3. CASE StartFails
  BY <1>3 DEF StartFails
<1>4. ASSUME NEW p \in Procs, Serve(p) PROVE IInv'
  BY <1>4 DEF Serve
<1>5. ASSUME NEW p \in Procs, Die(p) PROVE IInv'
  BY <1>5 DEF Die
<1>6. ASSUME NEW p \in Procs, Reap(p) PROVE IInv'
  BY <1>6 DEF Reap
<1>7. ASSUME NEW p \in Procs, Compare(p) PROVE IInv'
  BY <1>7 DEF Compare
<1>8. ASSUME NEW p \in Procs, Report(p) PROVE IInv'
  BY <1>8 DEF Report
<1>9. ASSUME NEW w \in Waiters,
             WaitBegin(w) \/ WaitReady(w) \/ WaitSeesExit(w) \/ WaitTimesOut(w) \/ WaitReturns(w)
      PROVE IInv'
  <2>1. PICK a \in {"idle", "poll", "ready", "failed"}, q \in Procs \cup {NoProc} :
           Waiting(w, a, q)
    <3>1. wait[w].on \in Procs \cup {NoProc}
      BY DEF WaitStates
    <3>2. started > 0 => started \in Procs
      OBVIOUS
    <3> QED
      BY <1>9, <3>1, <3>2 DEF WaitBegin, WaitReady, WaitSeesExit, WaitTimesOut, WaitReturns
  <2>2. wait' \in [Waiters -> WaitStates]
    BY <2>1 DEF Waiting, WaitStates
  <2>3. UNCHANGED <<cmd, gen, started, proc, killed, born, watch, told, files>>
    BY <1>9 DEF WaitBegin, WaitReady, WaitSeesExit, WaitTimesOut, WaitReturns
  <2> QED
    BY <2>2, <2>3
<1>10. CASE UNCHANGED vars
  BY <1>10 DEF vars
<1> QED
  BY <1>1, <1>2, <1>3, <1>4, <1>5, <1>6, <1>7, <1>8, <1>9, <1>10 DEF Next, Watcher

\* The strengthened invariant holds in every state of the manager.
THEOREM EngineInvariant == Spec => []IInv
  BY InitIInv, NextIInv, PTL DEF Spec

\* Every variable of the manager keeps its type.
THEOREM EngineTypeOK == Spec => []TypeOK
<1>1. IInv => TypeOK
  BY DEF IInv
<1> QED
  BY <1>1, EngineInvariant, PTL

\* The exit callback is never run, or about to run, for a process that a
\* planned Stop or a replacing Start killed (xray/manager.go:250-273).
THEOREM EnginePlannedStopIsSilent == Spec => []PlannedStopIsSilent
<1>1. IInv => PlannedStopIsSilent
  BY DEF IInv
<1> QED
  BY <1>1, EngineInvariant, PTL

\* Every live process nobody asked to die is the one m.cmd names.
THEOREM EngineNoUnmanagedProcess == Spec => []NoUnmanagedProcess
<1>1. IInv => NoUnmanagedProcess
  BY DEF IInv
<1> QED
  BY <1>1, EngineInvariant, PTL

\* No temp config outlives the management of its process.
THEOREM EngineNoStrayConfig == Spec => []NoStrayConfig
<1>1. IInv => NoStrayConfig
  BY DEF IInv
<1> QED
  BY <1>1, EngineInvariant, PTL
-----------------------------------------------------------------------------
(* Refinement                                                              *)

Reporting == {p \in Procs : watch[p] = "report"}

\* Compare posts at most one callback, Report takes one away.
LEMMA ReportingCounts ==
  /\ IsFiniteSet(Reporting)
  /\ Cardinality(Reporting) \in Nat
  /\ \A p \in Procs : p \notin Reporting =>
       Cardinality(Reporting \cup {p}) = Cardinality(Reporting) + 1
  /\ \A p \in Procs : p \in Reporting =>
       /\ Cardinality(Reporting \ {p}) = Cardinality(Reporting) - 1
       /\ Cardinality(Reporting) > 0
<1>1. IsFiniteSet(Procs)
  BY EngineAssumption, FS_Interval DEF Procs
<1>2. IsFiniteSet(Reporting)
  BY <1>1, FS_Subset DEF Reporting
<1>3. Cardinality(Reporting) \in Nat
  BY <1>2, FS_CardinalityType
<1>4. ASSUME NEW p \in Procs, p \notin Reporting
      PROVE  Cardinality(Reporting \cup {p}) = Cardinality(Reporting) + 1
  BY <1>2, <1>4, FS_AddElement
<1>5. ASSUME NEW p \in Procs, p \in Reporting
      PROVE  /\ Cardinality(Reporting \ {p}) = Cardinality(Reporting) - 1
             /\ Cardinality(Reporting) > 0
  <2>1. Cardinality(Reporting \ {p}) = Cardinality(Reporting) - 1
    BY <1>2, <1>5, FS_RemoveElement
  <2>2. Cardinality(Reporting) # 0
    BY <1>2, <1>5, FS_EmptySet
  <2> QED
    BY <2>1, <2>2, <1>3
<1> QED
  BY <1>2, <1>3, <1>4, <1>5

LEMMA RefinementStep == IInv /\ [Next]_vars => [Abs!Next]_(Abs!absVars)
<1> SUFFICES ASSUME IInv, [Next]_vars PROVE [Abs!Next]_(Abs!absVars)
  OBVIOUS
<1> DEFINE exits == Cardinality({p \in Procs : watch[p] = "report"})
<1>ab. exits = Cardinality(Reporting) /\ exits' = Cardinality(Reporting')
  BY DEF Reporting
<1> HIDE DEF exits
<1> SUFFICES \/ Abs!Launch \/ Abs!Halt \/ Abs!Fall \/ Abs!Notice \/ Abs!Deliver
             \/ absSt' = absSt /\ exits' = exits
  BY DEF Abs!Next, Abs!absVars, exits
<1> USE EngineAssumption
    DEF IInv, TypeOK, GenNamesCmd, LaunchedOnly, WatcherSawDeath, NoUnmanagedProcess,
        Alive, Procs, NoProc
<1>1. CASE Stop
  <2>1. absSt' = "none" /\ exits' = exits
    BY <1>1 DEF Stop, absSt, exits
  <2> QED
    BY <2>1 DEF Abs!Halt, exits
<1>2. CASE StartSucceeds
  <2>1. absSt' = "up"
    BY <1>2 DEF StartSucceeds, absSt
  <2>2. Reporting' = Reporting
    BY <1>2 DEF StartSucceeds, Reporting
  <2>3. exits' = exits
    BY <2>2, <1>ab
  <2> QED
    BY <2>1, <2>3 DEF Abs!Launch, exits
<1>3. CASE StartFails
  <2>1. absSt' = "none" /\ exits' = exits
    BY <1>3 DEF StartFails, absSt, exits
  <2> QED
    BY <2>1 DEF Abs!Halt, exits
<1>4. ASSUME NEW p \in Procs, Serve(p)
      PROVE  absSt' = absSt /\ exits' = exits
  <2>1. exits' = exits
    BY <1>4 DEF Serve, exits
  <2> QED
    BY <1>4, <2>1 DEF Serve, absSt
<1>5. ASSUME NEW p \in Procs, Die(p)
      PROVE  Abs!Fall \/ (absSt' = absSt /\ exits' = exits)
  <2>1. exits' = exits
    BY <1>5 DEF Die, exits
  <2>2. CASE p = cmd
    <3>1. absSt = "up" /\ absSt' = "down"
      BY <1>5, <2>2 DEF Die, absSt
    <3> QED
      BY <3>1, <2>1 DEF Abs!Fall, exits
  <2>3. CASE p # cmd
    BY <1>5, <2>1, <2>3 DEF Die, absSt
  <2> QED
    BY <2>2, <2>3
<1>6. ASSUME NEW p \in Procs, Reap(p)
      PROVE  absSt' = absSt /\ exits' = exits
  <2>1. Reporting' = Reporting
    BY <1>6 DEF Reap, Reporting
  <2> QED
    BY <1>6, <2>1, <1>ab DEF Reap, absSt
<1>7. ASSUME NEW p \in Procs, Compare(p)
      PROVE  Abs!Notice \/ (absSt' = absSt /\ exits' = exits)
  <2>1. CASE gen = born[p]
    <3>1. p = cmd
      BY <1>7, <2>1 DEF Compare
    <3>2. absSt = "down" /\ absSt' = "noticed"
      BY <1>7, <2>1, <3>1 DEF Compare, absSt
    <3>3. Reporting' = Reporting \cup {p} /\ p \notin Reporting
      BY <1>7, <2>1 DEF Compare, Reporting
    <3>4. exits' = exits + 1
      BY <3>3, <1>ab, ReportingCounts
    <3> QED
      BY <3>2, <3>4 DEF Abs!Notice, exits
  <2>2. CASE gen # born[p]
    <3>1. p # cmd
      BY <1>7, <2>2 DEF Compare
    <3>2. Reporting' = Reporting
      BY <1>7, <2>2 DEF Compare, Reporting
    <3> QED
      BY <1>7, <2>2, <3>1, <3>2, <1>ab DEF Compare, absSt
  <2> QED
    BY <2>1, <2>2
<1>8. ASSUME NEW p \in Procs, Report(p) PROVE Abs!Deliver
  <2>1. Reporting' = Reporting \ {p} /\ p \in Reporting
    BY <1>8 DEF Report, Reporting
  <2>2. exits > 0 /\ exits' = exits - 1
    BY <2>1, <1>ab, ReportingCounts
  <2>3. absSt' = absSt
    BY <1>8 DEF Report, absSt
  <2> QED
    BY <2>2, <2>3 DEF Abs!Deliver, exits
<1>9. ASSUME NEW w \in Waiters,
             WaitBegin(w) \/ WaitReady(w) \/ WaitSeesExit(w) \/ WaitTimesOut(w) \/ WaitReturns(w)
      PROVE  absSt' = absSt /\ exits' = exits
  BY <1>9 DEF WaitBegin, WaitReady, WaitSeesExit, WaitTimesOut, WaitReturns, absSt, exits
<1>10. CASE UNCHANGED vars
  BY <1>10 DEF vars, absSt, exits
<1> QED
  BY <1>1, <1>2, <1>3, <1>4, <1>5, <1>6, <1>7, <1>8, <1>9, <1>10 DEF Next, Watcher

\* The manager with its watchers, kills and gen behaves, step for step, like
\* the three-state manager the connection is composed with (safety part).
THEOREM EngineImplementsAbs == Spec => Abs!Init /\ [][Abs!Next]_(Abs!absVars)
<1>1. Init => Abs!Init
  <2> SUFFICES ASSUME Init PROVE Abs!Init
    OBVIOUS
  <2>1. absSt = "none"
    BY DEF Init, absSt
  <2>2. {p \in Procs : watch[p] = "report"} = {}
    BY DEF Init
  <2>3. Cardinality({p \in Procs : watch[p] = "report"}) = 0
    BY <2>2, FS_EmptySet
  <2> QED
    BY <2>1, <2>3 DEF Abs!Init
<1> QED
  BY <1>1, RefinementStep, EngineInvariant, PTL DEF Spec
=============================================================================
