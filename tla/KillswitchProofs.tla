-------------------------- MODULE KillswitchProofs --------------------------
(***************************************************************************)
(* Theorems about internal/killswitch for every set of requests, whatever  *)
(* commands netsh refuses, for any number of calls, crashes and restarts.  *)
(***************************************************************************)
EXTENDS Killswitch, TLAPS

\* Only a running process is engaged, and never before its CleanupStale is
\* through.
EngagedByCall == engaged => up /\ call.op # "cleanup"

\* A process that is down runs no call.
DownIsIdle == ~up => call.op = "none"

\* The rules Engage has dealt with before it comes to the step `at'.
Before(at) == CASE at = "lan"   -> {"loopback"}
                [] at = "node"  -> {"loopback", "lan"}
                [] at = "tun"   -> {"loopback", "lan", "node"}
                [] at = "block" -> {"loopback", "lan", "node"}
                [] OTHER        -> {}

RulesSoFar == call.op = "engage" => Wanted(call.p) \cap Before(call.at) \subseteq rules

IInv == TypeOK /\ EngagedMeansBlocked /\ EngagedByCall /\ DownIsIdle /\ RulesSoFar

LEMMA InitInvariant == Init => IInv
<1> SUFFICES ASSUME Init PROVE IInv
  OBVIOUS
<1>1. call = NoCall /\ ~engaged /\ up
  BY DEF Init
<1>2. TypeOK
  <2>1. call \in [op : Ops, at : Steps, p : Params] /\ call.at \in Progress(call.op)
    BY <1>1 DEF NoCall, NoParams, Params, Ops, Steps, Progress
  <2>2. calls \in 0 .. MaxCalls
    BY KillswitchAssumption DEF Init
  <2>3. policy \in {"allow", "block"} /\ user \in {"allow", "block"} /\ rules \in SUBSET Labels
    BY DEF Init
  <2>4. up \in BOOLEAN /\ engaged \in BOOLEAN /\ ours \in BOOLEAN /\ cut \in BOOLEAN /\ refused \in BOOLEAN
    BY DEF Init
  <2> QED  BY <2>1, <2>2, <2>3, <2>4 DEF TypeOK
<1> QED
  BY <1>1, <1>2
  DEF IInv, EngagedMeansBlocked, EngagedByCall, DownIsIdle, RulesSoFar, NoCall

LEMMA StepInvariant == IInv /\ [Next]_vars => IInv'
<1> SUFFICES ASSUME IInv, [Next]_vars PROVE IInv'
  OBVIOUS
<1> USE DEF IInv, TypeOK, EngagedMeansBlocked, EngagedByCall, DownIsIdle, RulesSoFar,
            NoCall, NoParams, Params, Ops, Steps, Progress, Labels,
            At, Goto, Return, Hidden, Works, Refused
<1>1. CASE \E p \in Requests : Engage(p)
  BY <1>1, KillswitchAssumption DEF Engage, Begin, Before
<1>2. CASE EngageClear
  BY <1>2 DEF EngageClear, DeleteRules, Before
<1>3. ASSUME NEW label \in Labels, EngageAdd(label) PROVE IInv'
  BY <1>3 DEF EngageAdd, AfterRule, Before, Wanted
<1>4. ASSUME NEW label \in Labels, EngageAddFails(label) PROVE IInv'
  BY <1>4 DEF EngageAddFails, Before, Wanted
<1>5. CASE EngageBlock
  BY <1>5 DEF EngageBlock, Block
<1>6. CASE EngageBlockFails
  BY <1>6 DEF EngageBlockFails, Before
<1>7. CASE EngageUndo
  BY <1>7 DEF EngageUndo, DeleteRules
<1>8. CASE Disengage
  BY <1>8, KillswitchAssumption DEF Disengage, Begin
<1>9. CASE RestoreAllow
  BY <1>9 DEF RestoreAllow, Allow
<1>10. CASE RestoreFails
  BY <1>10 DEF RestoreFails
<1>11. CASE RemoveRules
  BY <1>11 DEF RemoveRules, DeleteRules
<1>12. CASE CleanupNothing
  BY <1>12 DEF CleanupNothing
<1>13. CASE CleanupFound
  BY <1>13 DEF CleanupFound
<1>14. CASE Crash
  BY <1>14 DEF Crash
<1>15. CASE Restart
  BY <1>15, KillswitchAssumption DEF Restart
<1>16. CASE UNCHANGED vars
  BY <1>16 DEF vars
<1> QED
  BY <1>1, <1>2, <1>3, <1>4, <1>5, <1>6, <1>7, <1>8, <1>9, <1>10, <1>11, <1>12,
     <1>13, <1>14, <1>15, <1>16 DEF Next

\* What every step keeps, for any Requests and whatever netsh refuses.
THEOREM KillswitchInvariant == Spec => []IInv
BY InitInvariant, StepInvariant, PTL DEF Spec

\* Every state is one the code's variables can hold.
THEOREM KillswitchTypeOK == Spec => []TypeOK
<1>1. IInv => TypeOK  BY DEF IInv
<1> QED  BY <1>1, KillswitchInvariant, PTL

\* Engaged() is never true over an open firewall, whatever netsh refused.
THEOREM KillswitchEngagedMeansBlocked == Spec => []EngagedMeansBlocked
<1>1. IInv => EngagedMeansBlocked  BY DEF IInv
<1> QED  BY <1>1, KillswitchInvariant, PTL

\* The block goes up only behind the exits the caller asked for.
THEOREM KillswitchExitsBeforeBlock == Spec => ExitsBeforeBlock
<1> DEFINE Exits == policy = "allow" /\ policy' = "block"
                      => Wanted(call.p) \ {"tun"} \subseteq rules
<1>1. IInv /\ [Next]_vars => [Exits]_vars
  <2> SUFFICES ASSUME IInv, Next, policy = "allow", policy' = "block"
               PROVE  Wanted(call.p) \ {"tun"} \subseteq rules
    BY DEF vars
  <2>1. EngageBlock
    BY DEF Next, Engage, Begin, EngageClear, EngageAdd, EngageAddFails, EngageBlockFails,
           EngageUndo, Disengage, RestoreAllow, Allow, RestoreFails, RemoveRules,
           CleanupNothing, CleanupFound, Crash, Restart
  <2>2. Wanted(call.p) \cap {"loopback", "lan", "node"} \subseteq rules
    BY <2>1 DEF IInv, RulesSoFar, EngageBlock, At, Before
  <2> QED  BY <2>2 DEF IInv, TypeOK, Params, Wanted
<1> QED  BY <1>1, KillswitchInvariant, PTL DEF Spec, ExitsBeforeBlock

-----------------------------------------------------------------------------
(* While netsh has refused nothing                                         *)

\* Whose block the firewall is in: the guard that put it up is still engaged,
\* or the process that did is gone.
BlockIsOwned == ours => engaged \/ cut \/ ~up \/ call.op = "cleanup"

\* disengageLocked deletes rules only with the policy restored; Engage never
\* has a block to undo.
RestoredFirst == (call.at = "remove" => ~ours) /\ call.at # "undo"

Reliable == StrandWindow /\ (~refused => BlockIsOwned /\ RestoredFirst)

LEMMA ReliableStep == IInv /\ Reliable /\ [Next]_vars => Reliable'
<1> SUFFICES ASSUME IInv, Reliable, [Next]_vars PROVE Reliable'
  OBVIOUS
<1> USE DEF IInv, TypeOK, EngagedByCall, DownIsIdle, Reliable, StrandWindow, BlockIsOwned,
            RestoredFirst, Reengaging, NoCall, At, Goto, Return, Hidden, Works, Refused
<1>1. CASE \E p \in Requests : Engage(p)
  BY <1>1 DEF Engage, Begin
<1>2. CASE EngageClear
  BY <1>2 DEF EngageClear, DeleteRules
<1>3. ASSUME NEW label \in Labels, EngageAdd(label) PROVE Reliable'
  BY <1>3 DEF EngageAdd, AfterRule, Wanted, Labels
<1>4. ASSUME NEW label \in Labels, EngageAddFails(label) PROVE Reliable'
  BY <1>4 DEF EngageAddFails
<1>5. CASE EngageBlock
  BY <1>5 DEF EngageBlock, Block, RulesSoFar, Before, Wanted
<1>6. CASE EngageBlockFails
  BY <1>6 DEF EngageBlockFails
<1>7. CASE EngageUndo
  BY <1>7 DEF EngageUndo, DeleteRules
<1>8. CASE Disengage
  BY <1>8 DEF Disengage, Begin
<1>9. CASE RestoreAllow
  BY <1>9 DEF RestoreAllow, Allow
<1>10. CASE RestoreFails
  BY <1>10 DEF RestoreFails
<1>11. CASE RemoveRules
  BY <1>11 DEF RemoveRules, DeleteRules
<1>12. CASE CleanupNothing
  BY <1>12 DEF CleanupNothing
<1>13. CASE CleanupFound
  BY <1>13 DEF CleanupFound
<1>14. CASE Crash
  BY <1>14 DEF Crash
<1>15. CASE Restart
  BY <1>15 DEF Restart
<1>16. CASE UNCHANGED vars
  BY <1>16 DEF vars
<1> QED
  BY <1>1, <1>2, <1>3, <1>4, <1>5, <1>6, <1>7, <1>8, <1>9, <1>10, <1>11, <1>12,
     <1>13, <1>14, <1>15, <1>16 DEF Next

LEMMA ReliableInvariant == Spec => [](IInv /\ Reliable)
<1>1. Init => Reliable
  BY DEF Init, Reliable, StrandWindow, BlockIsOwned, RestoredFirst, NoCall
<1>2. IInv /\ Reliable /\ [Next]_vars => Reliable'
  BY ReliableStep
<1> QED  BY <1>1, <1>2, KillswitchInvariant, PTL DEF Spec

\* While netsh works, a block of ours has a rule to be found by, but for the
\* one window of a second Engage and for a process that ended in it.
THEOREM KillswitchStrandWindow == Spec => []StrandWindow
<1>1. Reliable => StrandWindow  BY DEF Reliable
<1> QED  BY <1>1, ReliableInvariant, PTL

\* While netsh works, a crash anywhere but in that window is recovered from by
\* the next start.
THEOREM KillswitchRecoverableAfterCrash == Spec => RecoverableAfterCrash
<1> DEFINE Recovers == call.op = "cleanup" /\ call'.op = "none" /\ up' /\ ~refused' /\ ~cut
                         => ~ours'
<1>1. IInv /\ Reliable /\ [Next]_vars => [Recovers]_vars
  <2> SUFFICES ASSUME IInv, Reliable, Next,
                      call.op = "cleanup", call'.op = "none", up', ~refused', ~cut
               PROVE  ~ours'
    BY DEF vars
  <2>1. CleanupNothing \/ RemoveRules
    BY DEF Next, Engage, Begin, EngageClear, EngageAdd, EngageAddFails, EngageBlock,
           EngageBlockFails, EngageUndo, Disengage, RestoreAllow, RestoreFails,
           CleanupFound, Crash, Restart, At, Goto
  <2>2. CASE CleanupNothing
    BY <2>2 DEF CleanupNothing, Reliable, StrandWindow, Reengaging, At, Works, Refused
  <2>3. CASE RemoveRules
    BY <2>3 DEF RemoveRules, DeleteRules, Reliable, RestoredFirst, At, Works, Refused
  <2> QED  BY <2>1, <2>2, <2>3
<1> QED  BY <1>1, ReliableInvariant, PTL DEF Spec, RecoverableAfterCrash

-----------------------------------------------------------------------------
(* Refinement                                                              *)

\* The guard of killswitch_windows.go, command by command, does no more than
\* GuardAbs lets a guard do: what Connection relies on.
THEOREM KillswitchImplementsAbs == Spec => ImplementsAbs
<1>1. Init => Abs!Init
  BY DEF Init, Abs!Init, NoCall
<1>2. IInv /\ [Next]_vars => [Abs!Next]_(Abs!guardVars)
  <2> SUFFICES ASSUME IInv, [Next]_vars PROVE [Abs!Next]_(Abs!guardVars)
    OBVIOUS
  <2> USE DEF Abs!guardVars, At, Goto, Return, Hidden, Works, Refused, NoCall
  <2>1. CASE EngageBlock
    BY <2>1 DEF EngageBlock, Block, Abs!Next, Abs!Engaging
  <2>2. CASE RestoreAllow
    BY <2>2 DEF RestoreAllow, Allow, Abs!Next, Abs!Disengaging, IInv, EngagedByCall
  <2>3. CASE RestoreFails
    BY <2>3 DEF RestoreFails, Abs!Next, Abs!DisengageFails, IInv, EngagedByCall
  <2>4. CASE RemoveRules
    BY <2>4 DEF RemoveRules, IInv, EngagedByCall
  <2>5. CASE Crash
    BY <2>5 DEF Crash, Abs!Next, Abs!Forget
  <2>6. CASE (\E p \in Requests : Engage(p)) \/ Disengage \/ Restart
    BY <2>6 DEF Engage, Disengage, Begin, Restart, IInv, DownIsIdle
  <2>7. CASE EngageClear \/ (\E label \in Labels : EngageAdd(label) \/ EngageAddFails(label))
               \/ EngageBlockFails \/ EngageUndo
    BY <2>7 DEF EngageClear, EngageAdd, EngageAddFails, EngageBlockFails, EngageUndo
  <2>8. CASE CleanupNothing \/ CleanupFound
    BY <2>8 DEF CleanupNothing, CleanupFound
  <2>9. CASE UNCHANGED vars
    BY <2>9 DEF vars
  <2> QED
    BY <2>1, <2>2, <2>3, <2>4, <2>5, <2>6, <2>7, <2>8, <2>9 DEF Next
<1> QED
  BY <1>1, <1>2, KillswitchInvariant, PTL DEF Spec, ImplementsAbs, Abs!Spec
=============================================================================
