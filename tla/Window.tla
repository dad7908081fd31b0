------------------------------- MODULE Window -------------------------------
(***************************************************************************)
(* The window (cmd/vpnclient/ui_windows.go) and the clicks of the tray     *)
(* (tray.go) that ask for it: one goroutine for every window asked for,    *)
(* WM_CLOSE posted to the window of the moment.                            *)
(***************************************************************************)
EXTENDS Naturals

CONSTANTS
  Openers,    \* goroutines running windowManager.Open
  None,
  MaxEvents   \* bound, shared with Control

VARIABLES
  open,       \* windowManager.open
  hwnd,       \* windowManager.hwnd: the goroutine whose window it is, or None
  opener,     \* Open of every goroutine
  events

windowVars == <<open, hwnd, opener>>

Happens == events < MaxEvents /\ events' = events + 1
\* The goroutines that have a window, or are making or unmaking one.
WithWindow == {o \in Openers : opener[o] \in {"creating", "shown", "closing"}}

TypeOK ==
  /\ open \in BOOLEAN /\ hwnd \in Openers \cup {None}
  /\ opener \in [Openers -> {"idle", "asked", "creating", "shown", "closing"}]

Init ==
  /\ open = FALSE /\ hwnd = None
  /\ opener = [o \in Openers |-> "idle"]

Goes(o, from, to) == opener[o] = from /\ opener' = [opener EXCEPT ![o] = to]

\* openWindow: at startup, on a tap of the icon, on the item of the menu.
OpenWindow(o) ==
  /\ ~open /\ Goes(o, "idle", "asked") /\ Happens
  /\ UNCHANGED <<open, hwnd>>

\* Fault: openWindow has looked, so Open does not look again.
OpenUnchecked(o) ==
  /\ Goes(o, "asked", "creating") /\ open' = TRUE
  /\ UNCHANGED <<hwnd, events>>

\* Open looks at the flag again and sets it, under mu.
Open(o) ==
  /\ IF open THEN Goes(o, "asked", "idle") /\ UNCHANGED open
             ELSE Goes(o, "asked", "creating") /\ open' = TRUE
  /\ UNCHANGED <<hwnd, events>>

\* NewWithOptions, and the handle for the others; or no WebView2.
Create(o) ==
  /\ \/ Goes(o, "creating", "shown") /\ hwnd' = o /\ UNCHANGED open
     \/ Goes(o, "creating", "idle") /\ open' = FALSE /\ UNCHANGED hwnd
  /\ UNCHANGED events

\* Close, from the title bar, the control API or main; without a handle it
\* does nothing. Run of the window's thread returns.
Close ==
  \E o \in Openers :
    /\ hwnd = o /\ Goes(o, "shown", "closing") /\ Happens
    /\ UNCHANGED <<open, hwnd>>

Destroy(o) ==
  /\ Goes(o, "closing", "idle")
  /\ hwnd' = None /\ open' = FALSE
  /\ UNCHANGED events

\* The program starts again (Control).
Restart ==
  /\ open' = FALSE /\ hwnd' = None /\ opener' = [o \in Openers |-> "idle"]

Next ==
  \/ Close
  \/ \E o \in Openers : OpenWindow(o) \/ Open(o) \/ Create(o) \/ Destroy(o)

-----------------------------------------------------------------------------
(* Properties                                                              *)

\* "Only one window exists at a time" (ui_windows.go:115-117), whatever clicks
\* overlap, and Close reaches it; and the flag is down again when it is gone,
\* so that it can be re-opened.
OneWindow ==
  /\ (\A o, q \in WithWindow : o = q) /\ (open <=> WithWindow # {})
  /\ \A o \in Openers : hwnd = o => opener[o] \in {"shown", "closing"}
=============================================================================
