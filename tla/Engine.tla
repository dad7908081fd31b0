------------------------------- MODULE Engine -------------------------------
(***************************************************************************)
(* The subprocess manager shared, line for line, by internal/xray and      *)
(* internal/singbox: Start, Stop, the watcher goroutine of each process    *)
(* and WaitReady. The managers differ in WaitReady only, chosen by Probe:  *)
(*                                                                         *)
(*   "port"    xray: a TCP dial of the SOCKS port, or the done channel     *)
(*   "handle"  sing-box: m.cmd is not nil                                  *)
(*                                                                         *)
(* Start and Stop run under m.mu and are one action each. The watcher      *)
(* takes m.mu only to compare gen, so Wait, the comparison and onExit are  *)
(* three steps. Killing is a request: the process dies in a step of its    *)
(* own. The exit handler is set once, before any Start (app.New), so every *)
(* watcher has one.                                                        *)
(***************************************************************************)
EXTENDS Naturals, FiniteSets

CONSTANTS
  MaxProc,   \* bound: processes launched in a behaviour
  MaxGen,    \* bound: value of m.gen up to which Start and Stop are called
  Waiters,   \* goroutines that may be inside WaitReady
  Probe      \* how WaitReady decides

ASSUME EngineAssumption ==
  /\ MaxProc \in Nat /\ MaxGen \in Nat
  /\ Probe \in {"port", "handle"}

Procs == 1 .. MaxProc
NoProc == 0

VARIABLES
  cmd,       \* m.cmd: the managed process or NoProc
  gen,       \* m.gen
  started,   \* processes launched so far; the last one owns m.done
  proc,      \* operating system: state of each process
  killed,    \* processes a Kill reached while they were alive
  born,      \* myGen captured by each watcher
  watch,     \* where each watcher goroutine is
  told,      \* processes whose onExit has run
  files,     \* temp configs on disk, named by the process they were made for
  wait       \* WaitReady calls: [at, on, by]

vars == <<cmd, gen, started, proc, killed, born, watch, told, files, wait>>

Alive(p) == proc[p] \in {"boot", "serving"}

WaitStates ==
  [at : {"idle", "poll", "ready", "failed"}, on : Procs \cup {NoProc}]

TypeOK ==
  /\ cmd \in Procs \cup {NoProc}
  /\ gen \in Nat
  /\ started \in 0 .. MaxProc
  /\ proc \in [Procs -> {"unborn", "boot", "serving", "dead"}]
  /\ killed \in SUBSET Procs
  /\ born \in [Procs -> Nat]
  /\ watch \in [Procs -> {"none", "wait", "reaped", "report", "end"}]
  /\ told \in SUBSET Procs
  /\ files \in SUBSET Procs
  /\ wait \in [Waiters -> WaitStates]

Init ==
  /\ cmd = NoProc
  /\ gen = 0
  /\ started = 0
  /\ proc = [p \in Procs |-> "unborn"]
  /\ killed = {}
  /\ born = [p \in Procs |-> 0]
  /\ watch = [p \in Procs |-> "none"]
  /\ told = {}
  /\ files = {}
  /\ wait = [w \in Waiters |-> [at |-> "idle", on |-> NoProc]]

-----------------------------------------------------------------------------
(* Stop and Start                                                          *)

\* Fault: the nil check of stopLocked is dropped.
KillingUnchecked == {cmd}

\* Fault: Start forgets to stop the process it replaces.
KillingNobody == {}

\* Process.Kill fails on a process that is gone; the error is returned, the
\* rest of stopLocked happens all the same.
Killing == IF cmd # NoProc /\ Alive(cmd) THEN {cmd} ELSE {}

\* Fault: Stop kills but keeps the handle of the killed process.
StopKeepsHandle ==
  /\ gen < MaxGen
  /\ gen' = gen + 1
  /\ killed' = killed \cup Killing
  /\ UNCHANGED <<cmd, files, started, proc, born, watch, told, wait>>

\* Fault: Stop kills without bumping gen.
StopKeepsGen ==
  /\ gen < MaxGen
  /\ killed' = killed \cup Killing
  /\ cmd' = NoProc
  /\ files' = files \ {cmd}
  /\ UNCHANGED <<gen, started, proc, born, watch, told, wait>>

\* stopLocked: gen++ whether or not there is a process.
Stop ==
  /\ gen < MaxGen
  /\ gen' = gen + 1
  /\ killed' = killed \cup Killing
  /\ cmd' = NoProc
  /\ files' = files \ {cmd}
  /\ UNCHANGED <<started, proc, born, watch, told, wait>>

\* Start stops the process it replaces before it looks at anything else.
GenAfterReplacing == IF cmd # NoProc THEN gen + 1 ELSE gen

StartSucceeds ==
  /\ started < MaxProc /\ gen < MaxGen
  /\ LET p == started + 1 IN
       /\ started' = p
       /\ cmd' = p
       /\ proc' = [proc EXCEPT ![p] = "boot"]
       /\ gen' = GenAfterReplacing + 1
       /\ born' = [born EXCEPT ![p] = GenAfterReplacing + 1]
       /\ watch' = [watch EXCEPT ![p] = "wait"]
       /\ files' = (files \ {cmd}) \cup {p}
  /\ killed' = killed \cup Killing
  /\ UNCHANGED <<told, wait>>

\* Fault: a failed Start leaves the config of the process it replaced.
StartFailsKeepsConfig ==
  /\ gen < MaxGen
  /\ gen' = GenAfterReplacing
  /\ killed' = killed \cup Killing
  /\ cmd' = NoProc
  /\ UNCHANGED <<files, started, proc, born, watch, told, wait>>

\* No binary, no temp file, no pipe or no process: the temp config of the
\* failed attempt is removed, but the process it was to replace is gone.
StartFails ==
  /\ gen < MaxGen
  /\ gen' = GenAfterReplacing
  /\ killed' = killed \cup Killing
  /\ cmd' = NoProc
  /\ files' = files \ {cmd}
  /\ UNCHANGED <<started, proc, born, watch, told, wait>>

-----------------------------------------------------------------------------
(* Processes                                                               *)

\* The inbound comes up; the port is taken while another process has it.
Serve(p) ==
  /\ proc[p] = "boot"
  /\ \A q \in Procs : proc[q] # "serving"
  /\ proc' = [proc EXCEPT ![p] = "serving"]
  /\ UNCHANGED <<cmd, gen, started, killed, born, watch, told, files, wait>>

\* A process dies: the Kill takes effect, or it falls over on its own.
Die(p) ==
  /\ Alive(p)
  /\ proc' = [proc EXCEPT ![p] = "dead"]
  /\ UNCHANGED <<cmd, gen, started, killed, born, watch, told, files, wait>>

-----------------------------------------------------------------------------
(* The watcher goroutine of a process                                      *)

\* cmd.Wait returns and done is closed.
Reap(p) ==
  /\ watch[p] = "wait"
  /\ proc[p] = "dead"
  /\ watch' = [watch EXCEPT ![p] = "reaped"]
  /\ UNCHANGED <<cmd, gen, started, proc, killed, born, told, files, wait>>

\* Fault: the comparison is inverted.
CompareInverted(p) ==
  /\ watch[p] = "reaped"
  /\ watch' = [watch EXCEPT ![p] = IF gen = born[p] THEN "end" ELSE "report"]
  /\ UNCHANGED <<cmd, gen, started, proc, killed, born, told, files, wait>>

\* crashed := m.gen == myGen, under m.mu.
Compare(p) ==
  /\ watch[p] = "reaped"
  /\ watch' = [watch EXCEPT ![p] = IF gen = born[p] THEN "report" ELSE "end"]
  /\ UNCHANGED <<cmd, gen, started, proc, killed, born, told, files, wait>>

\* onExit(), under no lock.
Report(p) ==
  /\ watch[p] = "report"
  /\ watch' = [watch EXCEPT ![p] = "end"]
  /\ told' = told \cup {p}
  /\ UNCHANGED <<cmd, gen, started, proc, killed, born, files, wait>>

-----------------------------------------------------------------------------
(* WaitReady                                                               *)

Waiting(w, at, on) == wait' = [wait EXCEPT ![w] = [at |-> at, on |-> on]]

\* The caller has just had a Start succeed; xray captures m.done here.
WaitBegin(w) ==
  /\ wait[w].at = "idle"
  /\ started > 0
  /\ Waiting(w, "poll", started)
  /\ UNCHANGED <<cmd, gen, started, proc, killed, born, watch, told, files>>

\* Fault: WaitReady selects on the timeout only, not on done.
ProbeGoneNever(w) == FALSE

\* Whether WaitReady sees the process gone, and whether it may return nil.
ProbeOK == IF Probe = "port" THEN \E p \in Procs : proc[p] = "serving"
                             ELSE cmd # NoProc
ProbeGone(w) == IF Probe = "port" THEN watch[wait[w].on] \in {"reaped", "report", "end"}
                                  ELSE cmd = NoProc

WaitReady(w) ==
  /\ wait[w].at = "poll"
  /\ ProbeOK
  /\ Waiting(w, "ready", wait[w].on)
  /\ UNCHANGED <<cmd, gen, started, proc, killed, born, watch, told, files>>

WaitSeesExit(w) ==
  /\ wait[w].at = "poll"
  /\ ProbeGone(w)
  /\ Waiting(w, "failed", wait[w].on)
  /\ UNCHANGED <<cmd, gen, started, proc, killed, born, watch, told, files>>

\* ctx ends (15 s in connectProxy and connectTUN).
WaitTimesOut(w) ==
  /\ wait[w].at = "poll"
  /\ Waiting(w, "failed", wait[w].on)
  /\ UNCHANGED <<cmd, gen, started, proc, killed, born, watch, told, files>>

WaitReturns(w) ==
  /\ wait[w].at \in {"ready", "failed"}
  /\ Waiting(w, "idle", NoProc)
  /\ UNCHANGED <<cmd, gen, started, proc, killed, born, watch, told, files>>

-----------------------------------------------------------------------------
Watcher(p) == Reap(p) \/ Compare(p) \/ Report(p)

Next ==
  \/ Stop \/ StartSucceeds \/ StartFails
  \/ \E p \in Procs : Serve(p) \/ Die(p) \/ Watcher(p)
  \/ \E w \in Waiters :
       \/ WaitBegin(w) \/ WaitReady(w) \/ WaitSeesExit(w)
       \/ WaitTimesOut(w) \/ WaitReturns(w)

Spec == Init /\ [][Next]_vars

\* Goroutines are scheduled and a killed process does die. Nothing obliges
\* anyone to call Start or Stop, or a process to fall over.
Fairness ==
  /\ \A p \in Procs : /\ WF_vars(Watcher(p))
                         /\ WF_vars(p \in killed /\ Die(p))
  /\ \A w \in Waiters : WF_vars(WaitSeesExit(w))

FairSpec == Spec /\ Fairness

-----------------------------------------------------------------------------
(* Properties                                                              *)

\* A process that Stop or a replacing Start killed never makes the manager
\* call onExit, however its death interleaves with later Starts and Stops:
\* the connection is not "recovered" after a planned stop.
PlannedStopIsSilent ==
  \A p \in Procs : watch[p] = "report" \/ p \in told => p \notin killed

\* No live process is lost track of: one that nobody asked to die is m.cmd.
NoUnmanagedProcess ==
  \A p \in Procs : Alive(p) /\ p \notin killed => p = cmd

\* The config of a process that is not managed any more (it holds the
\* user's keys) is not left on disk.
NoStrayConfig == files \subseteq {cmd}

\* A process that fell over while it was the current one is reported,
\* unless Start or Stop is called first.
CrashIsReported ==
  \A p \in Procs :
    (proc[p] = "dead" /\ p \notin killed /\ gen = born[p])
      ~> (p \in told \/ gen # born[p])

\* xray: a process that exits early ends the wait for it, without the
\* timeout (manager.go:98).
EarlyExitEndsWait ==
  \A w \in Waiters :
    (wait[w].at = "poll" /\ wait[w].on # NoProc /\ proc[wait[w].on] = "dead")
      ~> wait[w].at # "poll"

\* sing-box, manager.go:233: "WaitReady confirms the process is alive". When
\* it reports ready, the watcher has not seen the managed process exit.
ReadyMeansAlive ==
  [][\A w \in Waiters : wait[w].at = "poll" /\ wait'[w].at = "ready"
        => cmd # NoProc /\ watch[cmd] = "wait"]_vars

-----------------------------------------------------------------------------
(* The manager implements its abstract specification                       *)

absSt ==
  IF cmd = NoProc THEN "none"
  ELSE IF Alive(cmd) THEN "up"
  ELSE IF watch[cmd] \in {"wait", "reaped"} THEN "down"
  ELSE "noticed"

Abs == INSTANCE EngineAbs
         WITH st <- absSt,
              exits <- Cardinality({p \in Procs : watch[p] = "report"})

ImplementsAbs == Abs!Spec
=============================================================================
