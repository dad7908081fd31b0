------------------------------ MODULE Control -------------------------------
(***************************************************************************)
(* What the control API and the tray reach besides the connection: the     *)
(* update check (Updater), the user's own servers and their pings          *)
(* (CustomServers) and the window (Window). They run beside one            *)
(* another and beside the connection, of which they see the state and      *)
(* whether the TUN is up: Connection has the rest of it. One budget of     *)
(* events bounds them all.                                                 *)
(***************************************************************************)
EXTENDS Naturals, Sequences, FiniteSets

CONSTANTS Tags, Assets, Current, Callers, Loop, Failed, Ids, Inputs, Probes, Openers, None, MaxEvents

VARIABLES
  conn, tun,   \* App.state, and whether sing-box has its TUN up
  events,
  published, running, check, last, apply, launched, shown,  \* Updater
  list, disk, torn, unsaved, cache, fresh, probe,           \* CustomServers
  open, hwnd, opener,                                       \* Window
  raced                                                     \* history of Updater

U == INSTANCE Updater
S == INSTANCE CustomServers
W == INSTANCE Window

ASSUME ControlAssumption ==
  /\ Tags \in Seq(Seq(Nat)) /\ Current \in Seq(Nat)
  /\ Assets \in [1 .. Len(Tags) -> SUBSET {"exe", "zip", "other"}]
  /\ Loop \notin Callers /\ None \notin Ids \cup Openers /\ {None, Failed} \cap U!Results = {} /\ MaxEvents \in Nat

connVars == <<conn, tun>>
updateVars == <<published, running, check, last, apply, launched, shown, raced>>
probeVars == <<cache, fresh, probe>>
storeVars == <<list, disk, torn, unsaved>>
serverVars == <<storeVars, probeVars>>
windowVars == <<open, hwnd, opener>>
vars == <<updateVars, serverVars, windowVars, connVars, events>>

States == {"disconnected", "connecting", "connected", "error"}

TypeOK ==
  /\ U!TypeOK /\ S!TypeOK /\ W!TypeOK
  /\ conn \in States /\ tun \in BOOLEAN /\ events \in Nat

Init ==
  /\ U!Init /\ S!Init /\ W!Init
  /\ conn = "disconnected" /\ tun = FALSE /\ events = 0

-----------------------------------------------------------------------------
(* The connection, as the others see it                                    *)

Unseen == UNCHANGED <<updateVars, serverVars, windowVars>>

\* Connect and Disconnect, the reconnect loop and the crash handler, as far as
\* they are seen. They may overlap, and an attempt that fails before it has
\* come to sing-box (no configuration from the backend, a mode that does not
\* parse) leaves the TUN of the connection before it up: either part changes
\* whatever the other is.
Shows(state) ==
  conn # state /\ U!Happens /\ conn' = state /\ UNCHANGED tun /\ Unseen

Connect == Shows("connecting")
Up == Shows("connected")
Fail == Shows("error")
Disconnect == Shows("disconnected")

EngineUp == ~tun /\ tun' = TRUE /\ UNCHANGED <<conn, events>> /\ Unseen
EngineDown == tun /\ U!Happens /\ tun' = FALSE /\ UNCHANGED conn /\ Unseen

Connection == Connect \/ Up \/ Fail \/ Disconnect \/ EngineUp \/ EngineDown

\* The program ends anywhere and starts again; before it serves a call, the
\* engines of the run before are gone (Lifecycle).
Restart ==
  /\ U!Happens
  /\ conn' = "disconnected" /\ tun' = FALSE
  /\ U!Restart /\ S!Load /\ W!Restart

Next ==
  \/ Connection \/ Restart
  \/ U!Next /\ UNCHANGED <<connVars, serverVars, windowVars>>
  \/ S!Next /\ UNCHANGED <<updateVars, windowVars>>
  \/ W!Next /\ UNCHANGED <<connVars, updateVars, serverVars>>

Spec == Init /\ [][Next]_vars

-----------------------------------------------------------------------------
(* Properties of the parts, checked on all of them together                *)

PendingUpdateStays == U!PendingUpdateStays
LaunchedIsNewer == U!LaunchedIsNewer
ServersSurvive == S!ServersSurvive
NoFakePing == S!NoFakePing
OneWindow == W!OneWindow
=============================================================================
