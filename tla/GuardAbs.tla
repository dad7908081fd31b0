------------------------------ MODULE GuardAbs ------------------------------
(***************************************************************************)
(* What the kill-switch guard (internal/killswitch) promises to the code   *)
(* that drives it, command by netsh command hidden: whether the default    *)
(* outbound policy blocks, and whether the guard reports Engaged().        *)
(***************************************************************************)
VARIABLES fw, on

guardVars == <<fw, on>>

\* The user's own policy may block; a guard starts out not engaged.
Init == fw \in {"allow", "block"} /\ on = FALSE

Engaging == fw' = "block" /\ on' = TRUE

\* Engage reports an error: the guard's own record does not change.
EngageFails == UNCHANGED guardVars

Disengaging == fw' = "allow" /\ on' = FALSE

\* netsh refused to restore the policy; engaged is cleared all the same.
DisengageFails == on' = FALSE /\ UNCHANGED fw

\* The process ends; the firewall keeps its policy.
Forget == on' = FALSE /\ UNCHANGED fw

Next == Engaging \/ EngageFails \/ Disengaging \/ DisengageFails \/ Forget

Spec == Init /\ [][Next]_guardVars
=============================================================================
