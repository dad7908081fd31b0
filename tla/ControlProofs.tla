---------------------------- MODULE ControlProofs ----------------------------
(***************************************************************************)
(* Theorems about Control for any tags, callers, servers, probes and       *)
(* windows: types, the file of servers, the one window, the pending update *)
(* and the installers launched.                                            *)
(***************************************************************************)
EXTENDS Control, TLAPS

-----------------------------------------------------------------------------
(* Types                                                                   *)

LEMMA ResultsAre == \A r \in 1 .. Len(Tags) : U!Result(r) \in U!Results /\ U!Result(r).release = r
  BY DEF U!Result, U!Results, U!Releases

LEMMA ResultFields == \A r \in U!Results : r.release \in 1 .. Len(Tags)
  BY DEF U!Result, U!Results, U!Releases

LEMMA LenTags == Len(Tags) \in Nat
  BY ControlAssumption

Checks == [at : {"idle", "asking", "found", "failed"}, found : 0 .. Len(Tags)]
Checkers == Callers \cup {Loop}

LEMMA AtIs ==
  ASSUME NEW step \in {"idle", "asking", "found", "failed"}, NEW r \in 0 .. Len(Tags)
  PROVE  U!At(step, r) \in Checks /\ U!At(step, r).at = step /\ U!At(step, r).found = r
  BY DEF U!At, Checks

\* What a check has found has been published.
Found == \A c \in Checkers : check[c].at = "found" => check[c].found \in 1 .. published

\* A probe at work has a server.
Probing == \A p \in Probes : probe[p].at # "idle" => probe[p].of \in Ids

LEMMA TypesInit == Init => TypeOK /\ Found /\ Probing
<1> SUFFICES ASSUME Init PROVE TypeOK /\ Found /\ Probing
  OBVIOUS
<1>1. U!At("idle", 0) \in Checks /\ U!At("idle", 0).at = "idle"
  BY LenTags, AtIs
<1>2. check \in [Checkers -> Checks] /\ Found
  BY <1>1 DEF Init, U!Init, U!Checkers, Checkers, Found
<1>3. U!TypeOK
  <2>1. apply \in [Callers -> U!Results \cup {None}]
    BY DEF Init, U!Init
  <2>2. check \in [U!Checkers -> [at : {"idle", "asking", "found", "failed"}, found : 0 .. Len(Tags)]]
    BY <1>2 DEF U!Checkers, Checkers, Checks
  <2>3. /\ published = 0 /\ running = FALSE /\ raced = FALSE /\ last = None /\ launched = {}
        /\ shown = None
    BY DEF Init, U!Init
  <2>4. published \in 0 .. Len(Tags)
    BY <2>3, LenTags
  <2> QED
    BY <2>1, <2>2, <2>3, <2>4 DEF U!TypeOK
<1>4. S!TypeOK /\ Probing
  BY DEF Init, Probing, S!Init, S!TypeOK, S!NoProbe
<1>5. W!TypeOK
  BY DEF Init, W!Init, W!TypeOK
<1> QED
  BY <1>2, <1>3, <1>4, <1>5 DEF Init, TypeOK, States

LEMMA GoesIs ==
  ASSUME check \in [Checkers -> Checks], Found, NEW c \in Checkers, NEW from,
         NEW step \in {"idle", "asking", "found", "failed"}, NEW r \in 0 .. Len(Tags),
         step = "found" => r \in 1 .. published, published' = published,
         U!Goes(c, from, U!At(step, r))
  PROVE  check' \in [Checkers -> Checks] /\ Found'
  BY AtIs DEF U!Goes, Found

LEMMA UpdaterTypes ==
  ASSUME U!TypeOK, Found, U!Next
  PROVE  U!TypeOK' /\ Found'
<1> USE LenTags DEF U!TypeOK, U!Happens
<1>0. check \in [Checkers -> Checks] /\ U!Checkers = Checkers
  BY DEF U!Checkers, Checkers, Checks
<1> DEFINE Rest == /\ published' \in 0 .. Len(Tags) /\ running' \in BOOLEAN /\ raced' \in BOOLEAN
                   /\ last' \in U!Results \cup {None}
                   /\ apply' \in [Callers -> U!Results \cup {None}]
                   /\ launched' \subseteq U!Results
                   /\ shown' \in U!Results \cup {None, Failed}
<1>1. CASE U!Publish
  BY <1>1 DEF U!Publish, Found
<1>2. ASSUME NEW c \in Checkers, U!Asks(c) PROVE U!TypeOK' /\ Found'
  <2>1. check' \in [Checkers -> Checks] /\ Found'
    <3>1. U!Goes(c, "idle", U!At("asking", 0)) /\ published' = published /\ 0 \in 0 .. Len(Tags)
      BY <1>2 DEF U!Asks
    <3> QED
      BY <1>0, <3>1, GoesIs
  <2>2. Rest
    BY <1>2 DEF U!Asks
  <2> QED
    BY <2>1, <2>2 DEF U!Checkers, Checkers, Checks
<1>3. CASE U!StartUpdateChecker \/ U!StopUpdateChecker
  BY <1>3 DEF U!StartUpdateChecker, U!StopUpdateChecker, Found
<1>4. ASSUME NEW c \in Checkers, U!LatestRelease(c) PROVE U!TypeOK' /\ Found'
  <2>1. check' \in [Checkers -> Checks] /\ Found'
    <3>1. CASE published # 0 /\ U!Goes(c, "asking", U!At("found", published))
      <4>1. published' = published /\ published \in 0 .. Len(Tags) /\ published \in 1 .. published
        BY <1>4, <3>1 DEF U!LatestRelease
      <4> QED
        BY <1>0, <3>1, <4>1, GoesIs
    <3>2. CASE U!Goes(c, "asking", U!At("failed", 0))
      <4>1. published' = published /\ 0 \in 0 .. Len(Tags)
        BY <1>4 DEF U!LatestRelease
      <4> QED
        BY <1>0, <3>2, <4>1, GoesIs
    <3> QED
      BY <1>4, <3>1, <3>2 DEF U!LatestRelease
  <2>2. Rest
    BY <1>4 DEF U!LatestRelease
  <2> QED
    BY <2>1, <2>2 DEF U!Checkers, Checkers, Checks
<1>5. ASSUME NEW c \in Checkers, U!CacheResult(c) \/ U!CheckFails(c) PROVE U!TypeOK' /\ Found'
  <2>1. check' \in [Checkers -> Checks] /\ Found'
    <3>1. published' = published
      BY <1>5 DEF U!CacheResult, U!CheckFails, U!Ends
    <3>2. PICK from \in {"found", "failed"} : U!Goes(c, from, U!At("idle", 0))
      BY <1>5 DEF U!CacheResult, U!CheckFails, U!Ends
    <3>3. 0 \in 0 .. Len(Tags)
      OBVIOUS
    <3> QED
      BY <1>0, <3>1, <3>2, <3>3, GoesIs
  <2>2. check[c].at = "found" => U!Result(check[c].found) \in U!Results
    BY ResultsAre DEF Found
  <2>3. Rest
    BY <1>5, <2>2 DEF U!CacheResult, U!CheckFails, U!Ends
  <2> QED
    BY <2>1, <2>3 DEF U!Checkers, Checkers, Checks
<1>6. ASSUME NEW c \in Callers, U!ApplyUpdate(c) PROVE U!TypeOK' /\ Found'
  BY <1>6 DEF U!ApplyUpdate, Found
<1>7. ASSUME NEW c \in Callers, U!Launch(c) PROVE U!TypeOK' /\ Found'
  BY <1>7 DEF U!Launch, Found
<1> QED
  BY <1>0, <1>1, <1>2, <1>3, <1>4, <1>5, <1>6, <1>7 DEF U!Next, U!CheckUpdate, U!RunUpdateCheck, Checkers

LEMMA ServerTypes ==
  ASSUME S!TypeOK, Probing, S!Next
  PROVE  S!TypeOK' /\ Probing'
<1> USE DEF S!TypeOK, S!Happens, Probing
<1> DEFINE Goroutine == [of : Ids \cup {None}, at : {"idle", "spawned", "dial", "real", "fake"}]
<1>1. CASE S!AddCustomServer
  BY <1>1 DEF S!AddCustomServer, S!Persist, S!Unused, S!pingVars
<1>2. CASE S!RemoveCustomServer
  BY <1>2 DEF S!RemoveCustomServer, S!Persist, S!pingVars
<1>3. CASE S!Expire
  BY <1>3 DEF S!Expire, S!storeVars
<1>4. ASSUME NEW p \in Probes, S!Locations(p) \/ S!Refresh(p) \/ S!Measure(p)
      PROVE  S!TypeOK' /\ Probing'
  <2>1. /\ S!NoProbe \in Goroutine
        /\ \A a \in {"dial", "real", "fake"} : probe[p].of \in Ids => S!Dialled(p, a) \in Goroutine /\ S!Dialled(p, a).of \in Ids
        /\ \A i \in Ids : [of |-> i, at |-> "spawned"] \in Goroutine
    BY DEF S!NoProbe, S!Dialled
  <2>2. probe' \in [Probes -> Goroutine] /\ Probing'
    BY <1>4, <2>1 DEF S!Locations, S!Refresh, S!Measure, S!Goes, S!NoProbe
  <2> QED
    BY <1>4, <2>2 DEF S!Locations, S!Refresh, S!Measure, S!storeVars
<1>5. ASSUME NEW p \in Probes, S!Measured(p) PROVE S!TypeOK' /\ Probing'
  <2>1. probe' \in [Probes -> Goroutine] /\ Probing'
    BY <1>5 DEF S!Measured, S!Goes, S!NoProbe
  <2>2. probe[p].at \in {"real", "fake"} /\ probe[p].of \in Ids
    BY <1>5 DEF S!Measured
  <2> QED
    BY <1>5, <2>1, <2>2 DEF S!Measured, S!storeVars
<1> QED
  BY <1>1, <1>2, <1>3, <1>4, <1>5 DEF S!Next

LEMMA WindowTypes ==
  ASSUME W!TypeOK, W!Next
  PROVE  W!TypeOK'
<1> USE DEF W!TypeOK
<1>1. CASE W!Close
  BY <1>1 DEF W!Close, W!Goes
<1>2. ASSUME NEW o \in Openers, W!OpenWindow(o) \/ W!Open(o) \/ W!Create(o) \/ W!Destroy(o)
      PROVE  W!TypeOK'
  BY <1>2 DEF W!OpenWindow, W!Open, W!Create, W!Destroy, W!Goes
<1> QED
  BY <1>1, <1>2 DEF W!Next

LEMMA EventsNext ==
  ASSUME events \in Nat, U!Next \/ S!Next \/ W!Next
  PROVE  events' \in Nat
<1>1. CASE U!Next
  BY <1>1 DEF U!Next, U!Publish, U!CheckUpdate, U!RunUpdateCheck, U!Asks, U!StartUpdateChecker, U!StopUpdateChecker,
       U!LatestRelease, U!CacheResult, U!CheckFails, U!Ends, U!ApplyUpdate, U!Launch, U!Happens
<1>2. CASE S!Next
  <2>1. CASE S!AddCustomServer \/ S!RemoveCustomServer \/ S!Expire
    BY <2>1 DEF S!AddCustomServer, S!RemoveCustomServer, S!Expire, S!Happens
  <2>2. ASSUME NEW p \in Probes, S!Locations(p) \/ S!Refresh(p) \/ S!Measure(p) \/ S!Measured(p)
        PROVE  events' \in Nat
    <3>1. CASE S!Locations(p)
      BY <3>1 DEF S!Locations, S!Happens
    <3>2. CASE S!Refresh(p)
      BY <3>2 DEF S!Refresh
    <3>3. CASE S!Measure(p)
      BY <3>3 DEF S!Measure
    <3>4. CASE S!Measured(p)
      BY <3>4 DEF S!Measured
    <3> QED
      BY <2>2, <3>1, <3>2, <3>3, <3>4
  <2> QED
    BY <1>2, <2>1, <2>2 DEF S!Next
<1>3. CASE W!Next
  BY <1>3 DEF W!Next, W!Close, W!OpenWindow, W!Open, W!Create, W!Destroy, W!Happens
<1> QED
  BY <1>1, <1>2, <1>3

LEMMA ServersLeaveConnection == S!Next => UNCHANGED connVars
  BY DEF S!Next, S!AddCustomServer, S!RemoveCustomServer, S!Expire, S!Locations, S!Refresh, S!Measure, S!Measured,
     connVars

Types == TypeOK /\ Found /\ Probing

LEMMA TypesNext ==
  ASSUME Types, [Next]_vars
  PROVE  Types'
<1> USE DEF Types, TypeOK
<1>1. CASE Connection
  <2>1. UNCHANGED <<updateVars, serverVars, windowVars>>
    BY <1>1 DEF Connection, Connect, EngineUp, Up, EngineDown, Fail, Disconnect, Shows, Unseen
  <2>2. U!TypeOK' /\ W!TypeOK' /\ Found' /\ Probing'
    BY <2>1 DEF updateVars, serverVars, probeVars, windowVars, U!TypeOK, W!TypeOK, Found, Probing
  <2>3. S!TypeOK'
    BY <2>1 DEF serverVars, storeVars, probeVars, S!TypeOK
  <2>4. conn' \in States /\ tun' \in BOOLEAN /\ events' \in Nat
    <3>1. conn' \in States
      BY <1>1 DEF Connection, Connect, EngineUp, Up, EngineDown, Fail, Disconnect, Shows, States
    <3>2. tun' \in BOOLEAN
      BY <1>1 DEF Connection, Connect, EngineUp, Up, EngineDown, Fail, Disconnect, Shows
    <3>3. events' \in Nat
      BY <1>1 DEF Connection, Connect, EngineUp, Up, EngineDown, Fail, Disconnect, Shows, U!Happens
    <3> QED
      BY <3>1, <3>2, <3>3
  <2> QED
    BY <2>2, <2>3, <2>4
<1>2. CASE Restart
  <2>1. U!Restart /\ S!Load /\ W!Restart
    BY <1>2 DEF Restart
  <2>2. U!TypeOK' /\ Found'
    <3>1. U!At("idle", 0) \in Checks /\ U!At("idle", 0).at = "idle"
      BY LenTags, AtIs
    <3>2. check' \in [Checkers -> Checks] /\ Found'
      BY <2>1, <3>1 DEF U!Restart, U!Checkers, Checkers, Found
    <3>3. check' \in [U!Checkers -> [at : {"idle", "asking", "found", "failed"}, found : 0 .. Len(Tags)]]
      BY <3>2 DEF U!Checkers, Checkers, Checks
    <3>4. apply' \in [Callers -> U!Results \cup {None}]
      BY <2>1 DEF U!Restart
    <3> QED
      BY <2>1, <3>2, <3>3, <3>4 DEF U!Restart, U!TypeOK
  <2>3. S!TypeOK' /\ Probing'
    BY <2>1 DEF S!Load, S!TypeOK, S!NoProbe, Probing
  <2>4. W!TypeOK'
    BY <2>1 DEF W!Restart, W!TypeOK
  <2>5. conn' \in States /\ tun' \in BOOLEAN /\ events' \in Nat
    <3>1. conn' = "disconnected" /\ tun' = FALSE /\ events' = events + 1
      BY <1>2 DEF Restart, U!Happens
    <3>2. conn' \in States
      BY <3>1 DEF States
    <3>3. tun' \in BOOLEAN
      BY <3>1
    <3>4. events' \in Nat
      BY <3>1
    <3> QED
      BY <3>2, <3>3, <3>4
  <2> QED
    BY <2>2, <2>3, <2>4, <2>5
<1>3. CASE U!Next /\ UNCHANGED <<connVars, serverVars, windowVars>>
  BY <1>3, UpdaterTypes, EventsNext
     DEF connVars, serverVars, storeVars, probeVars, windowVars, S!TypeOK, W!TypeOK, Probing
<1>4. CASE S!Next /\ UNCHANGED <<updateVars, windowVars>>
  BY <1>4, ServerTypes, EventsNext, ServersLeaveConnection DEF updateVars, windowVars, connVars, U!TypeOK, W!TypeOK, Found
<1>5. CASE W!Next /\ UNCHANGED <<connVars, updateVars, serverVars>>
  BY <1>5, WindowTypes, EventsNext DEF connVars, updateVars, serverVars, storeVars, probeVars, U!TypeOK, S!TypeOK, Found, Probing
<1>6. CASE UNCHANGED vars
  BY <1>6 DEF vars, updateVars, serverVars, storeVars, probeVars, windowVars, connVars, U!TypeOK, S!TypeOK, W!TypeOK,
       Found, Probing
<1> QED
  BY <1>1, <1>2, <1>3, <1>4, <1>5, <1>6 DEF Next

\* Type correctness of the four parts together, and what checks and probes at
\* work hold: a published release, a server.
THEOREM ControlTypeOK == Spec => []TypeOK
<1>1. Spec => []Types
  BY TypesInit, TypesNext, PTL DEF Spec, Types
<1> QED
  BY <1>1, PTL DEF Types

-----------------------------------------------------------------------------
(* The file of servers                                                     *)

LEMMA SurviveNext ==
  ASSUME ServersSurvive, [Next]_vars
  PROVE  ServersSurvive'
<1> USE DEF ServersSurvive, S!ServersSurvive
<1>1. CASE S!Next
  <2>1. CASE S!AddCustomServer \/ S!RemoveCustomServer
    BY <2>1 DEF S!AddCustomServer, S!RemoveCustomServer, S!Persist
  <2>2. CASE UNCHANGED storeVars
    BY <2>2 DEF storeVars
  <2> QED
    BY <1>1, <2>1, <2>2 DEF S!Next, S!Expire, S!Locations, S!Refresh, S!Measure, S!Measured, S!storeVars, storeVars
<1>2. CASE Restart
  BY <1>2 DEF Restart, S!Load
<1>3. CASE UNCHANGED storeVars
  BY <1>3 DEF storeVars
<1>4. Connection => UNCHANGED storeVars
  BY DEF Connection, Connect, EngineUp, Up, EngineDown, Fail, Disconnect, Shows, Unseen, serverVars
<1> QED
  BY <1>1, <1>2, <1>3, <1>4 DEF Next, vars, serverVars

\* Unless the last write has failed, the file is whole and has the servers of
\* the program, through failed and torn writes and restarts before.
THEOREM ControlServersSurvive == Spec => []ServersSurvive
<1>1. Init => ServersSurvive
  BY DEF Init, S!Init, ServersSurvive, S!ServersSurvive
<1> QED
  BY <1>1, SurviveNext, PTL DEF Spec

-----------------------------------------------------------------------------
(* The window                                                              *)

WindowInv ==
  /\ \A o, q \in W!WithWindow : o = q
  /\ open <=> W!WithWindow # {}
  /\ \A o \in Openers : hwnd = o => opener[o] \in {"shown", "closing"}

LEMMA WindowNext ==
  ASSUME Types, WindowInv, [Next]_vars
  PROVE  WindowInv'
<1>0. W!TypeOK
  BY DEF Types, TypeOK
<1> USE DEF WindowInv, W!TypeOK, W!WithWindow
<1>1. CASE Connection
  BY <1>1 DEF Connection, Connect, EngineUp, Up, EngineDown, Fail, Disconnect, Shows, Unseen, windowVars
<1>2. CASE Restart
  <2>1. W!WithWindow' = {} /\ open' = FALSE /\ hwnd' = None
    BY <1>2 DEF Restart, W!Restart
  <2> QED
    BY <2>1, ControlAssumption
<1>3. CASE U!Next /\ UNCHANGED <<connVars, serverVars, windowVars>>
  BY <1>3 DEF windowVars
<1>4. CASE S!Next /\ UNCHANGED <<updateVars, windowVars>>
  BY <1>4 DEF windowVars
<1>5. CASE W!Next
  <2>1. CASE W!Close
    BY <1>0, <2>1 DEF W!Close, W!Goes
  <2>2. ASSUME NEW o \in Openers, W!OpenWindow(o) PROVE WindowInv'
    BY <1>0, <2>2 DEF W!OpenWindow, W!Goes
  <2>3. ASSUME NEW o \in Openers, W!Open(o) PROVE WindowInv'
    BY <1>0, <2>3 DEF W!Open, W!Goes
  <2>4. ASSUME NEW o \in Openers, W!Create(o) PROVE WindowInv'
    BY <1>0, <2>4 DEF W!Create, W!Goes
  <2>5. ASSUME NEW o \in Openers, W!Destroy(o) PROVE WindowInv'
    BY <1>0, <2>5, ControlAssumption DEF W!Destroy, W!Goes
  <2> QED
    BY <1>5, <2>1, <2>2, <2>3, <2>4, <2>5 DEF W!Next
<1>6. CASE UNCHANGED vars
  BY <1>6 DEF vars, windowVars
<1> QED
  BY <1>1, <1>2, <1>3, <1>4, <1>5, <1>6 DEF Next

\* One window at a time, whatever clicks, closes and restarts overlap, and the
\* flag is down whenever there is none.
THEOREM ControlOneWindow == Spec => []OneWindow
<1>1. Init => WindowInv
  BY ControlAssumption DEF Init, W!Init, WindowInv, W!WithWindow
<1>2. WindowInv => OneWindow
  BY DEF WindowInv, OneWindow, W!OneWindow
<1>3. Spec => []WindowInv
  BY <1>1, WindowNext, TypesInit, TypesNext, PTL DEF Spec, Types
<1> QED
  BY <1>2, <1>3, PTL

-----------------------------------------------------------------------------
(* The pending update                                                      *)

\* The cached release has been published; and as long as no two checks
\* overlap, the one at work has found nothing older than it.
CheckInv ==
  /\ last # None => last.release \in 1 .. published
  /\ ~raced =>
       /\ \A c, d \in Checkers : check[c].at # "idle" /\ check[d].at # "idle" => c = d
       /\ \A c \in Checkers : last # None /\ check[c].at = "found" => check[c].found >= last.release

LEMMA UpdaterNext ==
  ASSUME U!TypeOK, Found, CheckInv, U!Next
  PROVE  /\ CheckInv'
         /\ last # None => last' # None /\ (raced' \/ last'.release >= last.release)
         /\ shown' = Failed /\ shown # Failed => last = None
<1> DEFINE Stays == /\ last # None => last' # None /\ (raced' \/ last'.release >= last.release)
                    /\ shown' = Failed /\ shown # Failed => last = None
<1>0. /\ check \in [Checkers -> Checks] /\ U!Checkers = Checkers
      /\ published \in Nat /\ last \in U!Results \cup {None} /\ raced \in BOOLEAN
      /\ last # None => last.release \in Nat
  BY LenTags, ResultFields DEF U!TypeOK, U!Checkers, Checkers, Checks
<1> USE DEF CheckInv, U!Happens
<1>1. ASSUME UNCHANGED <<check, last, shown, raced>>, published' \in {published, published + 1}
      PROVE  CheckInv' /\ Stays
  BY <1>0, <1>1
<1>2. ASSUME NEW c \in Checkers, U!Asks(c) PROVE CheckInv' /\ Stays
  <2>1. check[c].at = "idle" /\ check' = [check EXCEPT ![c] = U!At("asking", 0)]
    BY <1>2 DEF U!Asks, U!Goes
  <2>2. U!At("asking", 0).at = "asking"
    BY LenTags, AtIs
  <2>3. \A d \in Checkers : check'[d].at = "found" => check'[d] = check[d] /\ d # c
    BY <1>0, <2>1, <2>2
  <2>4. ~raced' => ~raced /\ \A d \in Checkers : check[d].at = "idle"
    BY <1>0, <1>2 DEF U!Asks
  <2>5. ~raced' => \A d \in Checkers : check'[d].at # "idle" => d = c
    BY <1>0, <2>1, <2>4
  <2> QED
    BY <1>0, <1>2, <2>3, <2>4, <2>5 DEF U!Asks
<1>3. ASSUME NEW c \in Checkers, U!LatestRelease(c) PROVE CheckInv' /\ Stays
  <2>1. PICK step \in {"found", "failed"}, r \in {0, published} :
          /\ check[c].at = "asking" /\ check' = [check EXCEPT ![c] = U!At(step, r)]
          /\ step = "found" => r = published
    BY <1>3 DEF U!LatestRelease, U!Goes
  <2>2. r \in 0 .. Len(Tags)
    BY LenTags DEF U!TypeOK
  <2>3. U!At(step, r).at = step /\ U!At(step, r).found = r
    BY <2>2, AtIs
  <2>4. /\ \A d \in Checkers : (check'[d].at # "idle") = (check[d].at # "idle")
        /\ \A d \in Checkers : check'[d].at = "found" => check'[d].found = published \/ check'[d] = check[d]
    BY <1>0, <2>1, <2>3
  <2> QED
    BY <1>0, <1>3, <2>4 DEF U!LatestRelease
<1>4. ASSUME NEW c \in Checkers, U!CacheResult(c) \/ U!CheckFails(c) PROVE CheckInv' /\ Stays
  <2>1. check' = [check EXCEPT ![c] = U!At("idle", 0)] /\ UNCHANGED <<published, raced>>
    BY <1>4 DEF U!CacheResult, U!CheckFails, U!Ends, U!Goes
  <2>2. U!At("idle", 0).at = "idle"
    BY LenTags, AtIs
  <2>3. \A d \in Checkers : check'[d].at # "idle" => check'[d] = check[d] /\ d # c
    BY <1>0, <2>1, <2>2
  <2>4. CASE U!CacheResult(c)
    <3>1. check[c].at = "found" /\ last' = U!Result(check[c].found) /\ check[c].found \in 1 .. published
      BY <1>0, <2>4 DEF U!CacheResult, Found
    <3>2. check[c].found \in 1 .. Len(Tags)
      BY <3>1, LenTags DEF U!TypeOK
    <3>3. last' \in U!Results /\ last'.release = check[c].found /\ last' # None /\ last' # Failed
      BY <3>1, <3>2, ResultsAre, ControlAssumption
    <3>4. shown' \in {shown, last'}
      BY <2>4 DEF U!CacheResult, U!Ends
    <3>5. ~raced => \A d \in Checkers : check'[d].at = "idle"
      BY <2>3, <3>1
    <3> QED
      BY <1>0, <2>1, <2>3, <3>1, <3>3, <3>4, <3>5
  <2>5. CASE U!CheckFails(c)
    <3>1. last' = last /\ (shown' = shown \/ shown' = IF last = None THEN Failed ELSE last)
      BY <2>5 DEF U!CheckFails, U!Ends
    <3>2. last # Failed \/ last = None
      BY <1>0, ControlAssumption
    <3> QED
      BY <1>0, <2>1, <2>3, <3>1, <3>2
  <2> QED
    BY <1>4, <2>4, <2>5
<1>5. CASE \/ U!Publish \/ U!StartUpdateChecker \/ U!StopUpdateChecker
           \/ \E c \in Callers : U!ApplyUpdate(c) \/ U!Launch(c)
  BY <1>1, <1>5 DEF U!Publish, U!StartUpdateChecker, U!StopUpdateChecker, U!ApplyUpdate, U!Launch
<1> QED
  BY <1>0, <1>2, <1>3, <1>4, <1>5 DEF U!Next, U!CheckUpdate, U!RunUpdateCheck, Checkers

Pending ==
  U!Restart \/
  /\ last # None => last' # None /\ (raced' \/ last'.release >= last.release)
  /\ shown' = Failed /\ shown # Failed => last = None

LEMMA PendingNext ==
  ASSUME Types, CheckInv, [Next]_vars
  PROVE  CheckInv' /\ Pending
<1>0. U!TypeOK /\ Found
  BY DEF Types, TypeOK
<1>1. CASE UNCHANGED updateVars
  <2>1. last # None => last.release >= last.release
    BY LenTags, ResultFields, <1>0 DEF U!TypeOK
  <2> QED
    BY <1>1, <2>1 DEF updateVars, CheckInv, Pending
<1>2. CASE Restart
  <2>1. U!Restart /\ U!At("idle", 0).at = "idle"
    BY <1>2, LenTags, AtIs DEF Restart
  <2>2. last' = None /\ \A c \in Checkers : check'[c].at = "idle"
    BY <2>1 DEF U!Restart, U!Checkers, Checkers
  <2> QED
    BY <2>1, <2>2 DEF CheckInv, Pending
<1>3. CASE U!Next
  BY <1>0, <1>3, UpdaterNext DEF Pending
<1>4. Connection => UNCHANGED updateVars
  BY DEF Connection, Connect, EngineUp, Up, EngineDown, Fail, Disconnect, Shows, Unseen
<1> QED
  BY <1>1, <1>2, <1>3, <1>4 DEF Next, vars

\* A check that fails hides no update that was found, and unless checks
\* overlap a release gives way to a later one only.
THEOREM ControlPendingUpdateStays == Spec => PendingUpdateStays
<1>1. Init => CheckInv
  <2> SUFFICES ASSUME Init PROVE CheckInv
    OBVIOUS
  <2>1. last = None /\ \A c \in Checkers : check[c] = U!At("idle", 0)
    BY DEF Init, U!Init, U!Checkers, Checkers
  <2>2. U!At("idle", 0).at = "idle"
    BY LenTags, AtIs
  <2> QED
    BY <2>1, <2>2 DEF CheckInv
<1>2. Spec => [](Types /\ CheckInv)
  BY <1>1, PendingNext, TypesInit, TypesNext, PTL DEF Spec, Types
<1>3. Types /\ CheckInv /\ [Next]_vars => [Pending]_<<U!updateVars, events>>
  BY PendingNext
<1>4. Spec => [][Pending]_<<U!updateVars, events>>
  BY <1>2, <1>3, PTL DEF Spec
<1> QED
  BY <1>4 DEF Pending, PendingUpdateStays, U!PendingUpdateStays

-----------------------------------------------------------------------------
(* The installers                                                          *)

LEMMA SemverOrder ==
  ASSUME NEW v \in [1 .. 3 -> Nat], NEW w \in [1 .. 3 -> Nat], U!Compares(v, w)
  PROVE  U!Later(v, w)
<1>1. PICK i \in 1 .. 3 : v[i] > w[i] /\ \A j \in 1 .. i - 1 : v[j] = w[j]
  BY DEF U!Compares
<1>2. CASE i = 1
  BY <1>1, <1>2 DEF U!Later
<1>3. CASE i = 2
  BY <1>1, <1>3 DEF U!Later
<1>4. CASE i = 3
  BY <1>1, <1>4 DEF U!Later
<1> QED
  BY <1>2, <1>3, <1>4

LEMMA SemverType ==
  ASSUME NEW tag \in Seq(Nat)
  PROVE  U!ParseSemver(tag) \in [1 .. 3 -> Nat]
  BY DEF U!ParseSemver

\* ApplyUpdate works from a result that has an update and a file.
Applies(r) == r.available /\ r.asset # None

LEMMA AppliesLater ==
  ASSUME NEW r \in U!Results, Applies(r)
  PROVE  /\ U!ParseOK(Tags[r.release])
         /\ U!ParseOK(Current) => U!Later(U!ParseSemver(Tags[r.release]), U!ParseSemver(Current))
<1>1. r.release \in 1 .. Len(Tags) /\ r.available = U!IsNewer(Current, Tags[r.release])
  BY DEF U!Results, U!Result, U!Releases
<1>2. Tags[r.release] \in Seq(Nat) /\ Current \in Seq(Nat)
  BY <1>1, ControlAssumption
<1> QED
  BY <1>1, <1>2, SemverOrder, SemverType DEF Applies, U!IsNewer

InstallInv ==
  /\ \A c \in Callers : apply[c] # None => Applies(apply[c])
  /\ \A r \in launched : Applies(r)

LEMMA InstallNext ==
  ASSUME Types, InstallInv, [Next]_vars
  PROVE  InstallInv'
<1>0. apply \in [Callers -> U!Results \cup {None}]
  BY DEF Types, TypeOK, U!TypeOK
<1> USE DEF InstallInv
<1>1. CASE UNCHANGED <<apply, launched>>
  BY <1>1
<1>2. CASE Restart
  BY <1>2 DEF Restart, U!Restart
<1>3. ASSUME NEW c \in Callers, U!ApplyUpdate(c) PROVE InstallInv'
  BY <1>0, <1>3 DEF U!ApplyUpdate, Applies
<1>4. ASSUME NEW c \in Callers, U!Launch(c) PROVE InstallInv'
  BY <1>0, <1>4 DEF U!Launch
<1>5. Connection \/ UNCHANGED updateVars => UNCHANGED <<apply, launched>>
  BY DEF Connection, Connect, EngineUp, Up, EngineDown, Fail, Disconnect, Shows, Unseen, updateVars
<1>6. CASE U!Next
  BY <1>1, <1>3, <1>4, <1>6 DEF U!Next, U!Publish, U!CheckUpdate, U!RunUpdateCheck, U!Asks, U!StartUpdateChecker,
     U!StopUpdateChecker, U!LatestRelease, U!CacheResult, U!CheckFails, U!Ends
<1> QED
  BY <1>1, <1>2, <1>5, <1>6 DEF Next, vars

\* Whatever checks replace the cached result meanwhile, an installer that is
\* launched is of a release later than the build, and one that has a file.
THEOREM ControlLaunchedIsNewer == Spec => []LaunchedIsNewer
<1>1. Init => InstallInv
  BY DEF Init, U!Init, InstallInv
<1>2. Types /\ InstallInv => LaunchedIsNewer
  <2>1. Types => launched \subseteq U!Results
    BY DEF Types, TypeOK, U!TypeOK
  <2> QED
    BY <2>1, AppliesLater DEF InstallInv, Applies, LaunchedIsNewer, U!LaunchedIsNewer
<1>3. Spec => [](Types /\ InstallInv)
  BY <1>1, InstallNext, TypesInit, TypesNext, PTL DEF Spec, Types
<1> QED
  BY <1>2, <1>3, PTL

=============================================================================
