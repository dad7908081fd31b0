------------------------------ MODULE EngineAbs ------------------------------
(***************************************************************************)
(* What a process manager (internal/xray, internal/singbox) promises to    *)
(* the code that drives it: one managed process, which may fall over, and  *)
(* an exit callback that is posted once for a process nobody stopped.      *)
(*                                                                         *)
(*   st     "none"     nothing is managed (m.cmd = nil)                    *)
(*          "up"       the managed process is alive                        *)
(*          "down"     it died; its watcher has not compared gen yet       *)
(*          "noticed"  it died and the watcher decided to call onExit      *)
(*   exits  decided onExit callbacks that have not run yet                 *)
(*                                                                         *)
(* A process that was stopped is no longer visible here: whether the       *)
(* operating system is done with it does not matter to the caller.         *)
(***************************************************************************)
EXTENDS Naturals

VARIABLES st, exits

absVars == <<st, exits>>

AbsTypeOK ==
  /\ st \in {"none", "up", "down", "noticed"}
  /\ exits \in Nat

Init == st = "none" /\ exits = 0

\* Start succeeded: whatever was managed before is replaced.
Launch == st' = "up" /\ UNCHANGED exits

\* Stop, or a Start that failed after stopping the old process.
Halt == st' = "none" /\ UNCHANGED exits

\* The managed process dies on its own.
Fall == st = "up" /\ st' = "down" /\ UNCHANGED exits

\* Its watcher finds gen unchanged and decides to call onExit ...
Notice == st = "down" /\ st' = "noticed" /\ exits' = exits + 1

\* ... and calls it, later, holding no lock.
Deliver == exits > 0 /\ exits' = exits - 1 /\ UNCHANGED st

Next == Launch \/ Halt \/ Fall \/ Notice \/ Deliver

Spec ==
  /\ Init /\ [][Next]_absVars
  /\ WF_absVars(Notice) /\ WF_absVars(Deliver)
=============================================================================
