------------------------------ MODULE Settings ------------------------------
(***************************************************************************)
(* internal/settings and what internal/app makes of it: settings.json and  *)
(* the copy in memory, the ports in force, the Run key, the multi-proxy    *)
(* mappings kept in the same file, and which mapping every running proxy   *)
(* was started from. Calls of the control API run at the same time. Each   *)
(* of them reads a copy, changes it and saves it; only the parts under     *)
(* Store.mu (Get, Save), App.mu (the ports) and multiMu are atomic.        *)
(*                                                                         *)
(* What a proxy does once it runs is MultiProxy, how the rules come out of *)
(* the direct list is Routing. The server of a mapping goes with its port. *)
(***************************************************************************)
EXTENDS Routing, FiniteSets

CONSTANTS
  Callers,      \* goroutines serving the control API
  Ids,          \* what newProxyID returns
  Ports,        \* ports calls ask for; 0 stands for every invalid one
  DefaultSocks, DefaultHTTP,
  Lists,        \* direct lists the user enters
  Russia,       \* the values of russia_direct
  None, Torn,   \* settings.json is missing, or was cut off while written
  May,          \* what may fail: see Failures
  MaxCalls      \* bound: calls and restarts

Failures == {"write", "registry", "start"}
Defaults == {DefaultSocks, DefaultHTTP}
ValidPorts == (Ports \cup Defaults) \ {0}

VARIABLES
  cur,       \* Store.cur
  file,      \* settings.json
  inForce,   \* App.socksPort, App.httpPort
  runKey,    \* the Run key of the registry holds the program
  multi,     \* App.multi: the port each instance was started with, or None
  pc, loc,   \* calls: where they are, and their locals
  calls, happened

callVars == <<pc, loc>>
pastVars == <<calls, happened>>
vars == <<cur, file, inForce, runKey, multi, callVars, pastVars>>

Mapping == [id : Ids, port : ValidPorts, main : BOOLEAN]
Normal == [socks : ValidPorts, http : ValidPorts, direct : Lists \cup {{}}, russia : BOOLEAN,
           autostart : BOOLEAN, mappings : SUBSET Mapping]

ASSUME SettingsAssumption ==
  /\ Ports \subseteq Nat /\ Defaults \subseteq Nat \ {0}
  /\ \A l \in Lists : l \subseteq Entries
  /\ Russia \subseteq BOOLEAN /\ May \subseteq Failures /\ MaxCalls \in Nat
  /\ None \notin Ids /\ {None, Torn} \cap Normal = {}

Default == [socks |-> DefaultSocks, http |-> DefaultHTTP, direct |-> {}, russia |-> FALSE,
            autostart |-> FALSE, mappings |-> {}]

OrDefault(p, d) == IF p \in ValidPorts THEN p ELSE d

\* Entries with an invalid port go, and of several main ones one stays (the
\* order of the list is not kept here, so which one is left to CHOOSE).
NormalMappings(s) ==
  LET kept == {m \in s : m.port \in ValidPorts}
  IN  {[m EXCEPT !.main = @ /\ m = (CHOOSE k \in kept : k.main)] : m \in kept}
Normalise(s) ==
  [socks |-> OrDefault(s.socks, DefaultSocks), http |-> OrDefault(s.http, DefaultHTTP),
   direct |-> s.direct, russia |-> s.russia, autostart |-> s.autostart,
   mappings |-> NormalMappings(s.mappings)]

\* Load.
Loaded(f) == IF f \in {None, Torn} THEN Default ELSE Normalise(f)

NoLocals == [op |-> "none", id |-> None, port |-> 0, next |-> Default]

Init ==
  /\ file = None /\ cur = Loaded(file)
  /\ inForce = [socks |-> cur.socks, http |-> cur.http]
  /\ runKey = FALSE
  /\ multi = [i \in Ids |-> None]
  /\ pc = [t \in Callers |-> "idle"] /\ loc = [t \in Callers |-> NoLocals]
  /\ calls = 0 /\ happened = {}

-----------------------------------------------------------------------------
(* Calls                                                                   *)

Goto(t, from, to) == pc[t] = from /\ pc' = [pc EXCEPT ![t] = to]
Step(t, from, to) == Goto(t, from, to) /\ UNCHANGED loc
Return(t, from) == Goto(t, from, "idle") /\ loc' = [loc EXCEPT ![t] = NoLocals]

Quiet == \A t \in Callers : pc[t] = "idle"

Happens(what) ==
  /\ calls < MaxCalls /\ calls' = calls + 1
  /\ happened' = happened \cup what \cup (IF Quiet THEN {} ELSE {"overlap"})

\* A call begins; `args' are its locals.
Begin(t, to, args, what) ==
  /\ Goto(t, "idle", to)
  /\ loc' = [loc EXCEPT ![t] = args]
  /\ Happens(what)

Args(op, id, port, next) == [op |-> op, id |-> id, port |-> port, next |-> next]

\* Fault: an updated proxy goes on as it was.
AfterSaveUnstopped(op) == IF op = "put" THEN "reread" ELSE "idle"

\* What is left to do after Save.
AfterSave(op) == CASE op = "put" -> "reread" [] op = "update" -> "stop" [] OTHER -> "idle"

\* Fault: the copy in memory is changed first.
SaveMemoryFirst(t) ==
  /\ Return(t, "save") /\ cur' = Normalise(loc[t].next)
  /\ file' \in {Normalise(loc[t].next), file, Torn}
  /\ UNCHANGED <<inForce, runKey, multi, pastVars>>

\* Store.Save of loc.next: the file, and then the copy in memory. A write that
\* fails leaves the old file or a part of the new one.
Save(t) ==
  /\ \/ /\ IF AfterSave(loc[t].op) = "idle" THEN Return(t, "save")
                                           ELSE Step(t, "save", AfterSave(loc[t].op))
        /\ file' = Normalise(loc[t].next) /\ cur' = Normalise(loc[t].next)
     \/ /\ "write" \in May
        /\ Return(t, "save")
        /\ file' \in {file, Torn} /\ UNCHANGED cur
  /\ UNCHANGED <<inForce, runKey, multi, pastVars>>

-----------------------------------------------------------------------------
(* App.SaveSettings: PUT /settings. The settings page sends every field it *)
(* shows; proxy_mappings is not among them.                                *)

PutSettings(t) ==
  \E socks \in Ports, http \in {0, DefaultHTTP}, direct \in Lists, ru \in Russia, auto \in BOOLEAN :
    /\ Begin(t, "save",
         Args("put", None, 0, [socks |-> socks, http |-> http, direct |-> direct, russia |-> ru,
                               autostart |-> auto, mappings |-> {}]), {"put"})
    /\ UNCHANGED <<cur, file, inForce, runKey, multi>>

\* Fault: the body of the request is taken for what was stored.
PutNotReread(t) ==
  /\ Step(t, "reread", "ports")
  /\ UNCHANGED <<cur, file, inForce, runKey, multi, pastVars>>

\* cur := set.Get(), beside the caller's own s.Autostart.
PutReread(t) ==
  /\ Goto(t, "reread", "ports")
  /\ loc' = [loc EXCEPT ![t].next = [cur EXCEPT !.autostart = loc[t].next.autostart]]
  /\ UNCHANGED <<cur, file, inForce, runKey, multi, pastVars>>

PutPorts(t) ==
  /\ Step(t, "ports", "runkey")
  /\ inForce' = [socks |-> loc[t].next.socks, http |-> loc[t].next.http]
  /\ UNCHANGED <<cur, file, runKey, multi, pastVars>>

\* autostart.Set; a failure is logged.
PutRunKey(t) ==
  /\ Return(t, "runkey")
  /\ \/ runKey' = loc[t].next.autostart
     \/ "registry" \in May /\ UNCHANGED runKey
  /\ UNCHANGED <<cur, file, inForce, multi, pastVars>>

-----------------------------------------------------------------------------
(* Multi-proxy mappings                                                    *)

IdsOf(s) == {m.id : m \in s.mappings}

\* Fault: the ports of the other mappings are not looked at.
ValidPortAlone(port, self, s) == port \in ValidPorts /\ port \notin {s.socks, s.http}

\* validatePort, over the settings read at the beginning of the call.
ValidPort(port, self, s) ==
  /\ port \in ValidPorts /\ port \notin {s.socks, s.http}
  /\ \A m \in s.mappings : m.id # self => m.port # port

\* A new main mapping takes the flag from the others.
Unmained(s, main) == {[m EXCEPT !.main = @ /\ ~main] : m \in s}

\* newProxyID returns no id that is in use anywhere.
Fresh(id) ==
  /\ id \notin IdsOf(cur) /\ multi[id] = None
  /\ \A t \in Callers : loc[t].id # id /\ id \notin IdsOf(loc[t].next)

\* A refused port changes nothing: no step.
AddMultiProxy(t) ==
  \E id \in Ids, port \in Ports, main \in BOOLEAN :
    /\ Fresh(id) /\ ValidPort(port, None, cur)
    /\ Begin(t, "save",
         Args("add", id, port,
              [cur EXCEPT !.mappings =
                 Unmained(@, main) \cup {[id |-> id, port |-> port, main |-> main]}]), {})
    /\ UNCHANGED <<cur, file, inForce, runKey, multi>>

UpdateMultiProxy(t) ==
  \E m \in cur.mappings, port \in Ports, main \in BOOLEAN :
    /\ ValidPort(port, m.id, cur)
    /\ Begin(t, "save",
         Args("update", m.id, port,
              [cur EXCEPT !.mappings =
                 Unmained(@ \ {m}, main) \cup {[id |-> m.id, port |-> port, main |-> main]}]), {})
    /\ UNCHANGED <<cur, file, inForce, runKey, multi>>

\* RemoveMultiProxy and StopMultiProxy of any id the UI may still show.
RemoveMultiProxy(t) ==
  \E id \in Ids :
    /\ id \in IdsOf(cur) \/ multi[id] # None
    /\ Begin(t, "stop", Args("remove", id, 0, Default), {})
    /\ UNCHANGED <<cur, file, inForce, runKey, multi>>

StopMultiProxy(t) ==
  \E id \in Ids :
    /\ multi[id] # None
    /\ Begin(t, "stop", Args("stop", id, 0, Default), {})
    /\ UNCHANGED <<cur, file, inForce, runKey, multi>>

\* StopMultiProxy proper, by itself or within a removal or an update.
Stop(t) ==
  /\ IF loc[t].op = "remove" THEN Step(t, "stop", "filter") ELSE Return(t, "stop")
  /\ multi' = [multi EXCEPT ![loc[t].id] = None]
  /\ UNCHANGED <<cur, file, inForce, runKey, pastVars>>

\* Fault: the filter keeps the wrong ones.
RemoveOthers(t) ==
  /\ Goto(t, "filter", "save")
  /\ loc' = [loc EXCEPT ![t].next =
               [cur EXCEPT !.mappings = {m \in @ : m.id = loc[t].id}]]
  /\ UNCHANGED <<cur, file, inForce, runKey, multi, pastVars>>

RemoveFiltered(t) ==
  /\ Goto(t, "filter", "save")
  /\ loc' = [loc EXCEPT ![t].next =
               [cur EXCEPT !.mappings = {m \in @ : m.id # loc[t].id}]]
  /\ UNCHANGED <<cur, file, inForce, runKey, multi, pastVars>>

\* StartMultiProxy finds the mapping; after the call of the backend
\* startProxyInstance enters the instance, or fails before it does.
StartMultiProxy(t) ==
  \E m \in cur.mappings :
    /\ Begin(t, "run", Args("start", m.id, m.port, Default), {})
    /\ UNCHANGED <<cur, file, inForce, runKey, multi>>

StartInstance(t) ==
  /\ Return(t, "run")
  /\ \/ multi' = [multi EXCEPT ![loc[t].id] = loc[t].port]
     \/ "start" \in May /\ UNCHANGED multi
  /\ UNCHANGED <<cur, file, inForce, runKey, pastVars>>

\* stopAllMulti: the single connection starts, or the user logs out.
StopAllMulti ==
  /\ \E i \in Ids : multi[i] # None
  /\ Happens({})
  /\ multi' = [i \in Ids |-> None]
  /\ UNCHANGED <<cur, file, inForce, runKey, callVars>>

-----------------------------------------------------------------------------
(* The program ends, whatever it is doing, and starts again: Load, New. A  *)
(* write it was at is done, not begun or cut off.                          *)

Restart ==
  /\ Happens({})
  /\ file' \in {file} \cup {f \in {Torn} : \E t \in Callers : pc[t] = "save"}
               \cup {Normalise(loc[t].next) : t \in {u \in Callers : pc[u] = "save"}}
  /\ cur' = Loaded(file')
  /\ inForce' = [socks |-> cur'.socks, http |-> cur'.http]
  /\ multi' = [i \in Ids |-> None]
  /\ pc' = [t \in Callers |-> "idle"] /\ loc' = [t \in Callers |-> NoLocals]
  /\ UNCHANGED runKey

Begins(t) ==
  \/ PutSettings(t) \/ AddMultiProxy(t) \/ UpdateMultiProxy(t)
  \/ RemoveMultiProxy(t) \/ StopMultiProxy(t) \/ StartMultiProxy(t)
Continues(t) ==
  \/ Save(t) \/ PutReread(t) \/ PutPorts(t) \/ PutRunKey(t)
  \/ Stop(t) \/ RemoveFiltered(t) \/ StartInstance(t)

Next == StopAllMulti \/ Restart \/ \E t \in Callers : Begins(t) \/ Continues(t)

Spec == Init /\ [][Next]_vars

-----------------------------------------------------------------------------
(* Properties                                                              *)

Raw == [socks : Ports \cup Defaults, http : Ports \cup Defaults \cup {0}, direct : Lists \cup {{}},
        russia : BOOLEAN, autostart : BOOLEAN, mappings : SUBSET Mapping]
Ops == {"none", "put", "add", "update", "remove", "stop", "start"}

TypeOK ==
  /\ cur \in Normal /\ file \in Normal \cup {None, Torn}
  /\ inForce \in [socks : ValidPorts, http : ValidPorts]
  /\ runKey \in BOOLEAN
  /\ multi \in [Ids -> ValidPorts \cup {None}]
  /\ pc \in [Callers -> {"idle", "save", "reread", "ports", "runkey", "stop", "filter", "run"}]
  /\ loc \in [Callers -> [op : Ops, id : Ids \cup {None}, port : Ports \cup Defaults \cup {0}, next : Raw]]
  /\ calls \in Nat /\ happened \subseteq {"put", "overlap"}

\* Calls came one at a time.
OneAtATime == "overlap" \notin happened

\* Whatever calls race, no two mappings share a port or an id, at most one is
\* main, and none has a port of the main proxy (validatePort, normalise): the
\* settings are saved whole, as the caller that checked them saw them.
Apart(s) ==
  \A m, n \in s.mappings :
    /\ m.port \notin {s.socks, s.http}
    /\ m.port = n.port \/ m.id = n.id \/ (m.main /\ n.main) => m = n
MappingsApart == Apart(cur)

\* The next start finds exactly what the program works with now, unless a
\* write has cut the file off: a write that failed has not changed the copy in
\* memory either (Save sets cur last).
DiskIsMemory == file # Torn => Loaded(file) = cur

\* With one call at a time the ports in force are those of the settings.
PortsInForce == Quiet /\ OneAtATime => inForce = [socks |-> cur.socks, http |-> cur.http]

\* With one call at a time, and until the settings page is saved, a running
\* proxy is listed, with the port it listens on.
RunsAsConfigured ==
  Quiet /\ OneAtATime /\ "put" \notin happened =>
    \A i \in Ids : multi[i] # None => \E m \in cur.mappings : m.id = i /\ m.port = multi[i]

\* With one call at a time a mapping goes, or changes its port, only by a call
\* about it (or the settings page, or a file that was cut off).
MappingsKept ==
  [][\A m \in cur.mappings :
       \/ \E n \in cur'.mappings : n.id = m.id /\ n.port = m.port
       \/ \E t \in Callers : pc[t] = "save" /\
            (loc[t].op = "put" \/ (loc[t].op \in {"update", "remove"} /\ loc[t].id = m.id))
       \/ ~OneAtATime' \/ file = Torn]_vars

\* "Empty when the feature is unused" (settings.go:50).
EmptyOnlyWhenUnused ==
  Quiet /\ OneAtATime /\ cur.mappings = {} => \A i \in Ids : multi[i] = None

\* The rules made of the settings in force split traffic as the user asked,
\* in both engines (Routing), and names are resolved as they are routed.
\* The sets are constant, so TLC computes them once.
Options == {RouteOptions(l, ru) : l \in Lists \cup {{}}, ru \in BOOLEAN}
WellSplit == {o \in Options : SplitsAsAsked(o)}
WellResolved == {o \in Options : ResolvesAsRouted(o)}

SplitTunnel == RouteOptions(cur.direct, cur.russia) \in WellSplit
ResolverFollowsRoute == RouteOptions(cur.direct, cur.russia) \in WellResolved
=============================================================================
