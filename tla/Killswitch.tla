----------------------------- MODULE Killswitch -----------------------------
(***************************************************************************)
(* internal/killswitch on Windows, one netsh command per step. Guard.mu is *)
(* held for a whole call, so one call is in flight at a time: `call' is    *)
(* the call that holds the mutex. The firewall outlives the process, which *)
(* may end between any two commands; a new process begins with             *)
(* CleanupStale (main.go calls CleanupKillSwitch before it serves anyone). *)
(*                                                                         *)
(* netsh is external: a command either takes effect or is refused and      *)
(* changes nothing. What holds only while no command has been refused is   *)
(* stated with the history variable `refused'.                             *)
(***************************************************************************)
EXTENDS Naturals

CONSTANTS
  Requests,    \* the Params Engage is called with: the optional rules asked for
  MaxCalls     \* bound: calls and process restarts in a behaviour

Labels == {"loopback", "lan", "node", "tun"}

\* Params by what Engage tests of them: "lan" for AllowLAN, "node" for a
\* ServerHost, "tun" for a TunInterface.
Params == SUBSET {"lan", "node", "tun"}
NoParams == {}

ASSUME KillswitchAssumption ==
  Requests \subseteq Params /\ MaxCalls \in Nat

VARIABLES
  policy,     \* default outbound policy of the firewall
  rules,      \* labels of the rules named SAPN-VPN-KillSwitch that exist
  up,         \* the process runs
  engaged,    \* Guard.engaged
  call,       \* the call holding Guard.mu: [op, at, p, err]
  calls,      \* calls and restarts so far
  user,       \* history: the policy the machine had before the first run
  ours,       \* history: the last policy command that took effect was a block
  cut,        \* history: a process ended in the window of StrandWindow
  refused     \* history: netsh has refused a command

vars == <<policy, rules, up, engaged, call, calls, user, ours, cut, refused>>

\* The call that holds the mutex and the command it is about to run.
Progress(op) ==
  CASE op = "none"      -> {"idle"}
    [] op = "engage"    -> Labels \cup {"clear", "block", "undo"}
    [] op = "disengage" -> {"allow", "remove"}
    [] op = "cleanup"   -> {"show", "allow", "remove"}
Ops == {"none", "engage", "disengage", "cleanup"}
Steps == Labels \cup {"idle", "clear", "block", "undo", "show", "allow", "remove"}

TypeOK ==
  /\ policy \in {"allow", "block"} /\ user \in {"allow", "block"}
  /\ rules \in SUBSET Labels
  /\ up \in BOOLEAN /\ engaged \in BOOLEAN /\ ours \in BOOLEAN /\ cut \in BOOLEAN
  /\ refused \in BOOLEAN
  /\ call \in [op : Ops, at : Steps, p : Params]
  /\ call.at \in Progress(call.op)
  /\ calls \in 0 .. MaxCalls

NoCall == [op |-> "none", at |-> "idle", p |-> NoParams]

\* A first run on a machine no earlier run has touched.
Init ==
  /\ user \in {"allow", "block"}
  /\ policy = user
  /\ rules = {}
  /\ up = TRUE
  /\ engaged = FALSE
  /\ call = NoCall
  /\ calls = 0
  /\ ours = FALSE
  /\ cut = FALSE
  /\ refused = FALSE

At(op, at) == up /\ call.op = op /\ call.at = at
Goto(at) == call' = [op |-> call.op, at |-> at, p |-> call.p]
Return == call' = NoCall
Hidden == UNCHANGED <<up, calls, user>>

Works == UNCHANGED refused
Refused == refused' = TRUE

Begin(op, at, p) ==
  /\ up /\ call.op = "none"
  /\ calls < MaxCalls
  /\ calls' = calls + 1
  /\ call' = [op |-> op, at |-> at, p |-> p]
  /\ UNCHANGED <<policy, rules, up, engaged, user, ours, cut, refused>>

Block == policy' = "block" /\ ours' = TRUE /\ cut' = FALSE
Allow == policy' = "allow" /\ ours' = FALSE /\ cut' = FALSE

\* Engage on top of an earlier Engage has deleted its rules and not added the
\* first one again.
Reengaging == engaged /\ At("engage", "loopback")

-----------------------------------------------------------------------------
(* Engage                                                                  *)

Engage(p) == Begin("engage", "clear", p)

\* removeRulesLocked ignores the error of the delete command.
DeleteRules == (rules' = {} /\ Works) \/ (UNCHANGED rules /\ Refused)

EngageClear ==
  /\ At("engage", "clear")
  /\ DeleteRules
  /\ Goto("loopback")
  /\ Hidden /\ UNCHANGED <<policy, engaged, ours, cut>>

\* The allow rules in the order Engage adds them; those not asked for are
\* skipped. A rule that cannot be added ends the call, except Tun.
Wanted(p) == {"loopback"} \cup p

AfterRule(label) == CASE label = "loopback" -> "lan"
                      [] label = "lan"      -> "node"
                      [] label = "node"     -> "tun"
                      [] label = "tun"      -> "block"

EngageAdd(label) ==
  /\ At("engage", label)
  /\ rules' = IF label \in Wanted(call.p) THEN rules \cup {label} ELSE rules
  /\ Goto(AfterRule(label))
  /\ Hidden /\ Works /\ UNCHANGED <<policy, engaged, ours, cut>>

\* The LAN rules are four commands, so some of them may already be there.
EngageAddFailsOn(label) ==
  /\ Refused
  /\ At("engage", label) /\ label \in Wanted(call.p)
  /\ Goto(AfterRule(label))
  /\ Hidden /\ UNCHANGED <<policy, rules, engaged, ours, cut>>

EngageAddFailsLocked(label) ==
  /\ Refused
  /\ At("engage", label) /\ label \in Wanted(call.p)
  /\ Goto("idle")
  /\ Hidden /\ UNCHANGED <<policy, rules, engaged, ours, cut>>

EngageAddFails(label) ==
  /\ Refused
  /\ At("engage", label) /\ label \in Wanted(call.p)
  /\ IF label = "tun" THEN Goto("block") ELSE Return
  /\ rules' = rules \/ (label = "lan" /\ rules' = rules \cup {"lan"})
  /\ Hidden /\ UNCHANGED <<policy, engaged, ours, cut>>

EngageBlock ==
  /\ At("engage", "block")
  /\ Block
  /\ engaged' = TRUE
  /\ Return
  /\ Hidden /\ Works /\ UNCHANGED rules

EngageBlockFailsEngaged ==
  /\ Refused
  /\ At("engage", "block")
  /\ Goto("undo")
  /\ engaged' = TRUE
  /\ Hidden /\ UNCHANGED <<policy, rules, ours, cut>>

EngageBlockFails ==
  /\ Refused
  /\ At("engage", "block")
  /\ Goto("undo")
  /\ Hidden /\ UNCHANGED <<policy, rules, engaged, ours, cut>>

EngageUndo ==
  /\ At("engage", "undo")
  /\ DeleteRules
  /\ Return
  /\ Hidden /\ UNCHANGED <<policy, engaged, ours, cut>>

-----------------------------------------------------------------------------
(* Disengage and CleanupStale                                              *)

DisengageRulesOnly == Begin("disengage", "remove", NoParams)

Disengage == Begin("disengage", "allow", NoParams)

\* disengageLocked: the policy first, the rules whatever came of it.
RestoreAllow ==
  /\ At("disengage", "allow") \/ At("cleanup", "allow")
  /\ Allow
  /\ Goto("remove")
  /\ Hidden /\ Works /\ UNCHANGED <<rules, engaged>>

RestoreFails ==
  /\ Refused
  /\ At("disengage", "allow") \/ At("cleanup", "allow")
  /\ Goto("remove")
  /\ Hidden /\ UNCHANGED <<policy, rules, engaged, ours, cut>>

RemoveRulesKeepsEngaged ==
  /\ At("disengage", "remove") \/ At("cleanup", "remove")
  /\ DeleteRules
  /\ Return
  /\ Hidden /\ UNCHANGED <<policy, engaged, ours, cut>>

RemoveRules ==
  /\ At("disengage", "remove") \/ At("cleanup", "remove")
  /\ DeleteRules
  /\ engaged' = FALSE
  /\ Return
  /\ Hidden /\ UNCHANGED <<policy, ours, cut>>

CleanupUnlessEngaged ==
  /\ At("cleanup", "show")
  /\ ~engaged
  /\ Return
  /\ Hidden /\ Works /\ UNCHANGED <<policy, rules, engaged, ours, cut>>

\* No rule by our name, or show failed: not our business.
CleanupNothing ==
  /\ At("cleanup", "show")
  /\ (rules = {} /\ Works) \/ Refused
  /\ Return
  /\ Hidden /\ UNCHANGED <<policy, rules, engaged, ours, cut>>

CleanupFound ==
  /\ At("cleanup", "show")
  /\ rules # {}
  /\ Goto("allow")
  /\ Hidden /\ Works /\ UNCHANGED <<policy, rules, engaged, ours, cut>>

-----------------------------------------------------------------------------
(* The process                                                             *)

Crash ==
  /\ up
  /\ up' = FALSE
  /\ engaged' = FALSE
  /\ Return
  /\ cut' = (cut \/ Reengaging)
  /\ UNCHANGED <<policy, rules, calls, user, ours, refused>>

Restart ==
  /\ ~up
  /\ calls < MaxCalls
  /\ calls' = calls + 1
  /\ up' = TRUE
  /\ call' = [op |-> "cleanup", at |-> "show", p |-> NoParams]
  /\ UNCHANGED <<policy, rules, engaged, user, ours, cut, refused>>

-----------------------------------------------------------------------------
Next ==
  \/ \E p \in Requests : Engage(p)
  \/ EngageClear
  \/ \E label \in Labels : EngageAdd(label) \/ EngageAddFails(label)
  \/ EngageBlock \/ EngageBlockFails \/ EngageUndo
  \/ Disengage
  \/ RestoreAllow \/ RestoreFails \/ RemoveRules
  \/ CleanupNothing \/ CleanupFound
  \/ Crash \/ Restart

Spec == Init /\ [][Next]_vars

-----------------------------------------------------------------------------
(* Properties                                                              *)

\* Egress is cut off only behind the exits it needs: whenever Engage turns an
\* open machine fail-closed, loopback and whatever else was asked for (the
\* LAN, the node) is allowed already, netsh failures included. The Tun rule
\* is best effort in the code.
ExitsBeforeBlock ==
  [][policy = "allow" /\ policy' = "block"
       => Wanted(call.p) \ {"tun"} \subseteq rules]_vars

\* Engaged() never claims a protection that is gone: outside a disengage in
\* progress the default policy blocks, whatever failed on the way.
EngagedMeansBlocked ==
  engaged /\ call.op # "disengage" => policy = "block"

\* While netsh works, a block of ours without a single rule, which
\* CleanupStale cannot tell from the user's own, exists only while an Engage
\* on top of an earlier Engage is between its delete and its first rule, or
\* after a process ended exactly there.
StrandWindow ==
  ~refused /\ ours /\ rules = {} => cut \/ Reengaging

\* While netsh works, CleanupStale in a new process lifts every block an
\* earlier process left, at whatever command that process ended, but for the
\* window above.
RecoverableAfterCrash ==
  [][call.op = "cleanup" /\ call'.op = "none" /\ up' /\ ~refused' /\ ~cut => ~ours']_vars

\* killswitch_windows.go:93: "CleanupStale removes leftover rules and restores
\* default-allow. Call at startup to recover from a crash that left the
\* firewall locked down." Once it has returned in a new process, no block of
\* an earlier one is left.
CleanupRecovers ==
  [][call.op = "cleanup" /\ call'.op = "none" /\ up' /\ ~refused' => ~ours']_vars

\* killswitch_windows.go:79: "Always restore the default outbound to Allow
\* first so we never strand the machine with blocked egress, even if rule
\* removal fails."
DisengageNeverStrands ==
  [][At("disengage", "remove") /\ rules' = {} => ~ours']_vars

\* killswitch_windows.go:71: "Idempotent and safe to call when not engaged."
\* Disengage without an Engage before it leaves the user's policy alone.
DisengageSafeWhenNotEngaged ==
  [][At("disengage", "allow") /\ ~engaged /\ ~ours => policy' = policy]_vars

-----------------------------------------------------------------------------
(* The guard implements its abstract specification                         *)

Abs == INSTANCE GuardAbs
         WITH fw <- policy,
              on <- engaged /\ ~(call.op = "disengage" /\ call.at = "remove")

ImplementsAbs == Abs!Spec
=============================================================================
