--------------------------- MODULE SettingsProofs ---------------------------
(***************************************************************************)
(* Theorems about Settings for every set of ids, ports, lists and callers. *)
(* What the invariants rest on: normalise leaves one main mapping and one  *)
(* mapping per id and port, whatever it is given, and everything that      *)
(* reaches the store or the file has been through it; the store is set     *)
(* last, after the file; and with one call at a time the copy a call       *)
(* saves differs from the store by that call's change only. What is split  *)
(* off needs no induction: the first rule that matches is found once for a *)
(* list of rules that lead to one place, and the rest is putting such      *)
(* lists together.                                                         *)
(***************************************************************************)
EXTENDS Settings, SequenceTheorems, WellFoundedInduction, TLAPS

LEMMA MappingMain ==
  ASSUME NEW m \in Mapping, NEW b \in BOOLEAN
  PROVE  /\ [m EXCEPT !.main = b] \in Mapping
         /\ [m EXCEPT !.main = b].id = m.id
         /\ [m EXCEPT !.main = b].port = m.port
         /\ [m EXCEPT !.main = b].main = b
         /\ b = m.main => [m EXCEPT !.main = b] = m
  BY DEF Mapping

TheMain(s) == CHOOSE k \in s : k.main

LEMMA MainUnique ==
  ASSUME NEW s, \A m, n \in s : m.main /\ n.main => m = n,
         NEW m \in s, m.main
  PROVE  m = TheMain(s)
  BY Zenon DEF TheMain

LEMMA NormalMappingsAre ==
  ASSUME NEW s \in SUBSET Mapping
  PROVE  /\ NormalMappings(s) = {[m EXCEPT !.main = m.main /\ m = TheMain(s)] : m \in s}
         /\ NormalMappings(s) \in SUBSET Mapping
         /\ \A x \in NormalMappings(s) : \E m \in s :
              /\ x.id = m.id /\ x.port = m.port /\ x.main = (m.main /\ m = TheMain(s))
              /\ x = [m EXCEPT !.main = m.main /\ m = TheMain(s)]
<1>1. {m \in s : m.port \in ValidPorts} = s
  BY DEF Mapping
<1>2. NormalMappings(s) = {[m EXCEPT !.main = m.main /\ m = TheMain(s)] : m \in s}
  BY <1>1 DEF NormalMappings, TheMain
<1>3. \A m \in s : /\ m \in Mapping /\ (m.main /\ m = TheMain(s)) \in BOOLEAN
  BY DEF Mapping
<1>4. \A x \in NormalMappings(s) : \E m \in s :
         /\ x = [m EXCEPT !.main = m.main /\ m = TheMain(s)]
         /\ x.id = m.id /\ x.port = m.port /\ x.main = (m.main /\ m = TheMain(s)) /\ x \in Mapping
  <2>1. TAKE x \in NormalMappings(s)
  <2>2. PICK m \in s : x = [m EXCEPT !.main = m.main /\ m = TheMain(s)]
    BY <1>2
  <2>3. x.id = m.id /\ x.port = m.port /\ x.main = (m.main /\ m = TheMain(s)) /\ x \in Mapping
    <3> DEFINE b == m.main /\ m = TheMain(s)
    <3>1. m \in Mapping /\ b \in BOOLEAN /\ x = [m EXCEPT !.main = b]
      BY <1>3, <2>2
    <3> HIDE DEF b
    <3>2. x.id = m.id /\ x.port = m.port /\ x.main = b /\ x \in Mapping
      BY <3>1, MappingMain
    <3> QED
      BY <3>2 DEF b
  <2> QED
    BY <2>2, <2>3
<1> QED
  BY <1>2, <1>4

LEMMA OneMain ==
  ASSUME NEW s \in SUBSET Mapping
  PROVE  \A x, y \in NormalMappings(s) : x.main /\ y.main => x = y
<1>1. SUFFICES ASSUME NEW x \in NormalMappings(s), NEW y \in NormalMappings(s), x.main, y.main
               PROVE  x = y
  OBVIOUS
<1>2. PICK m \in s : /\ x.main = (m.main /\ m = TheMain(s))
                     /\ x = [m EXCEPT !.main = m.main /\ m = TheMain(s)]
  BY NormalMappingsAre
<1>3. PICK n \in s : /\ y.main = (n.main /\ n = TheMain(s))
                     /\ y = [n EXCEPT !.main = n.main /\ n = TheMain(s)]
  BY NormalMappingsAre
<1> QED
  BY <1>1, <1>2, <1>3, Zenon

LEMMA NormalMappingsIdempotent ==
  ASSUME NEW s \in SUBSET Mapping, \A m, n \in s : m.main /\ n.main => m = n
  PROVE  NormalMappings(s) = s
<1>1. \A m \in s : [m EXCEPT !.main = m.main /\ m = TheMain(s)] = m
  <2>1. TAKE m \in s
  <2>2. m \in Mapping /\ m.main \in BOOLEAN
    BY DEF Mapping
  <2>3. (m.main /\ m = TheMain(s)) = m.main
    BY <2>2, MainUnique, Zenon
  <2> QED
    BY <2>2, <2>3, MappingMain, Zenon
<1> QED
  BY <1>1, NormalMappingsAre, Z3

LEMMA NormaliseNormal ==
  ASSUME NEW s \in Raw
  PROVE  Normalise(s) \in Normal
<1>1. s.mappings \in SUBSET Mapping
  BY DEF Raw
<1>2. NormalMappings(s.mappings) \in SUBSET Mapping
  BY <1>1, NormalMappingsAre
<1>3. DefaultSocks \in ValidPorts /\ DefaultHTTP \in ValidPorts
  BY SettingsAssumption DEF ValidPorts, Defaults
<1>4. OrDefault(s.socks, DefaultSocks) \in ValidPorts /\ OrDefault(s.http, DefaultHTTP) \in ValidPorts
  BY <1>3 DEF OrDefault
<1> QED
  BY <1>2, <1>4 DEF Normalise, Normal, Raw

LEMMA NormalIsRaw == Normal \subseteq Raw
  BY SettingsAssumption DEF Normal, Raw, ValidPorts

LEMMA NormaliseIdempotent ==
  ASSUME NEW s \in Raw
  PROVE  Normalise(Normalise(s)) = Normalise(s)
<1> DEFINE n == Normalise(s)
<1>1. n \in Normal /\ n \in Raw
  BY NormaliseNormal, NormalIsRaw
<1>2. s.mappings \in SUBSET Mapping /\ n.mappings = NormalMappings(s.mappings)
  BY DEF Normalise, Raw
<1>3. n.mappings \in SUBSET Mapping /\ \A x, y \in n.mappings : x.main /\ y.main => x = y
  BY <1>2, OneMain, NormalMappingsAre
<1>4. NormalMappings(n.mappings) = n.mappings
  BY <1>3, NormalMappingsIdempotent
<1>5. OrDefault(n.socks, DefaultSocks) = n.socks /\ OrDefault(n.http, DefaultHTTP) = n.http
  BY <1>1 DEF Normal, OrDefault
<1> HIDE DEF n
<1>6. Normalise(n) = [socks |-> n.socks, http |-> n.http, direct |-> n.direct,
                      russia |-> n.russia, autostart |-> n.autostart, mappings |-> n.mappings]
  BY <1>4, <1>5 DEF Normalise
<1>7. Normalise(n) = n
  BY <1>1, <1>6 DEF Normal
<1> QED
  BY <1>7 DEF n

-----------------------------------------------------------------------------
(* Type correctness                                                        *)

\* What a call at work has read is well formed where it is used.
Locals ==
  \A t \in Callers :
    /\ pc[t] \in {"ports", "runkey"} => loc[t].next \in Normal
    /\ pc[t] = "run" => loc[t].port \in ValidPorts

Types == TypeOK /\ Locals

LEMMA DefaultNormal == Default \in Normal /\ Default \in Raw
<1>1. DefaultSocks \in ValidPorts /\ DefaultHTTP \in ValidPorts
  BY SettingsAssumption DEF ValidPorts, Defaults
<1>2. Default \in Normal
  BY <1>1 DEF Default, Normal
<1> QED
  BY <1>2, NormalIsRaw

LEMMA LoadedNormal ==
  ASSUME NEW f \in Normal \cup {None, Torn}
  PROVE  Loaded(f) \in Normal
  BY DefaultNormal, NormaliseNormal, NormalIsRaw DEF Loaded

LEMMA ArgsType ==
  ASSUME NEW op \in Ops, NEW id \in Ids \cup {None}, NEW port \in Ports \cup Defaults \cup {0}, NEW next \in Raw
  PROVE  /\ Args(op, id, port, next) \in
              [op : Ops, id : Ids \cup {None}, port : Ports \cup Defaults \cup {0}, next : Raw]
         /\ Args(op, id, port, next).op = op /\ Args(op, id, port, next).id = id
         /\ Args(op, id, port, next).port = port /\ Args(op, id, port, next).next = next
  BY DEF Args

LEMMA WithMappings ==
  ASSUME NEW s \in Normal, NEW ms \in SUBSET Mapping
  PROVE  /\ [s EXCEPT !.mappings = ms] \in Normal /\ [s EXCEPT !.mappings = ms] \in Raw
         /\ [s EXCEPT !.mappings = ms].mappings = ms
         /\ [s EXCEPT !.mappings = ms].socks = s.socks /\ [s EXCEPT !.mappings = ms].http = s.http
<1>1. [s EXCEPT !.mappings = ms] \in Normal
  BY DEF Normal
<1>2. /\ [s EXCEPT !.mappings = ms].mappings = ms
      /\ [s EXCEPT !.mappings = ms].socks = s.socks /\ [s EXCEPT !.mappings = ms].http = s.http
  BY DEF Normal
<1> QED
  BY <1>1, <1>2, NormalIsRaw

LEMMA UnmainedType ==
  ASSUME NEW s \in SUBSET Mapping, NEW main \in BOOLEAN
  PROVE  /\ Unmained(s, main) \in SUBSET Mapping
         /\ \A x \in Unmained(s, main) : \E m \in s :
              /\ x = [m EXCEPT !.main = m.main /\ ~main]
              /\ x.id = m.id /\ x.port = m.port /\ x.main = (m.main /\ ~main)
<1>1. \A m \in s : m \in Mapping /\ (m.main /\ ~main) \in BOOLEAN
  BY DEF Mapping
<1>2. ASSUME NEW x \in Unmained(s, main)
      PROVE  /\ x \in Mapping
             /\ \E m \in s : /\ x = [m EXCEPT !.main = m.main /\ ~main]
                            /\ x.id = m.id /\ x.port = m.port /\ x.main = (m.main /\ ~main)
  <2>1. PICK m \in s : x = [m EXCEPT !.main = m.main /\ ~main]
    BY DEF Unmained
  <2>2. x.id = m.id /\ x.port = m.port /\ x.main = (m.main /\ ~main) /\ x \in Mapping
    BY <1>1, <2>1, MappingMain, Zenon
  <2> QED
    BY <2>1, <2>2
<1> QED
  BY <1>2

\* The mappings of cur as the calls change them.
LEMMA NewMapping ==
  ASSUME NEW id \in Ids, NEW port \in ValidPorts, NEW main \in BOOLEAN
  PROVE  [id |-> id, port |-> port, main |-> main] \in Mapping
  BY DEF Mapping

LEMMA TypesInit == Init => Types
<1> SUFFICES ASSUME Init PROVE Types
  OBVIOUS
<1>1. cur \in Normal /\ file \in Normal \cup {None, Torn}
  BY LoadedNormal DEF Init
<1>2. loc \in [Callers -> [op : Ops, id : Ids \cup {None}, port : Ports \cup Defaults \cup {0}, next : Raw]]
  BY DefaultNormal DEF Init, NoLocals, Ops
<1> QED
  BY <1>1, <1>2 DEF Init, Types, TypeOK, Locals, Normal

LEMMA TypesNext == Types /\ [Next]_vars => Types'
<1> SUFFICES ASSUME Types, [Next]_vars PROVE Types'
  OBVIOUS
<1> DEFINE LocType == [op : Ops, id : Ids \cup {None}, port : Ports \cup Defaults \cup {0}, next : Raw]
<1> USE DEF Types
<1>1. /\ cur \in Normal /\ file \in Normal \cup {None, Torn} /\ cur \in Raw
      /\ cur.mappings \in SUBSET Mapping /\ cur.socks \in ValidPorts /\ cur.http \in ValidPorts
  BY NormalIsRaw DEF TypeOK, Normal
<1>2. \A t \in Callers : /\ loc[t] \in LocType /\ loc[t].op \in Ops /\ loc[t].id \in Ids \cup {None}
                        /\ loc[t].port \in Ports \cup Defaults \cup {0} /\ loc[t].next \in Raw
  BY DEF TypeOK
<1>3. ASSUME NEW t \in Callers, NEW to, NEW args, NEW what,
             Begin(t, to, args, what), args \in LocType, what \subseteq {"put", "overlap"},
             to \in {"save", "stop", "run"}, to = "run" => args.port \in ValidPorts,
             UNCHANGED <<cur, file, inForce, runKey, multi>>
      PROVE  Types'
  <2>1. loc' \in [Callers -> LocType] /\ \A u \in Callers : loc'[u] = IF u = t THEN args ELSE loc[u]
    BY <1>3 DEF TypeOK, Begin
  <2>2. /\ pc' \in [Callers -> {"idle", "save", "reread", "ports", "runkey", "stop", "filter", "run"}]
        /\ \A u \in Callers : pc'[u] = IF u = t THEN to ELSE pc[u]
    BY <1>3 DEF TypeOK, Begin, Goto
  <2>3. calls' \in Nat /\ happened' \subseteq {"put", "overlap"}
    BY <1>3 DEF TypeOK, Begin, Happens
  <2>4. TypeOK'
    BY <1>3, <2>1, <2>2, <2>3 DEF TypeOK
  <2>5. Locals'
    BY <1>3, <2>1, <2>2 DEF Locals
  <2> QED
    BY <2>4, <2>5
<1>4. ASSUME NEW t \in Callers, NEW from, NEW to, Step(t, from, to),
             to \in {"reread", "stop", "filter"} \/ (from = "ports" /\ to = "runkey")
      PROVE  /\ pc' \in [Callers -> {"idle", "save", "reread", "ports", "runkey", "stop", "filter", "run"}]
             /\ loc' = loc /\ Locals'
  BY <1>4 DEF TypeOK, Step, Goto, Locals
<1>5. ASSUME NEW t \in Callers, NEW from, Return(t, from)
      PROVE  /\ pc' \in [Callers -> {"idle", "save", "reread", "ports", "runkey", "stop", "filter", "run"}]
             /\ loc' \in [Callers -> LocType] /\ Locals'
  <2>1. NoLocals \in LocType
    BY DefaultNormal DEF NoLocals, Ops
  <2> QED
    BY <1>5, <2>1 DEF TypeOK, Return, Goto, Locals
<1>6. ASSUME NEW t \in Callers, Begins(t) PROVE Types'
  <2>1. CASE PutSettings(t)
    <3>1. PICK socks \in Ports, http \in {0, DefaultHTTP}, direct \in Lists, ru \in Russia, auto \in BOOLEAN :
            /\ Begin(t, "save",
                 Args("put", None, 0, [socks |-> socks, http |-> http, direct |-> direct, russia |-> ru,
                                       autostart |-> auto, mappings |-> {}]), {"put"})
            /\ UNCHANGED <<cur, file, inForce, runKey, multi>>
      BY <2>1 DEF PutSettings
    <3>2. [socks |-> socks, http |-> http, direct |-> direct, russia |-> ru,
           autostart |-> auto, mappings |-> {}] \in Raw
      BY SettingsAssumption DEF Raw, Defaults
    <3>3. Args("put", None, 0, [socks |-> socks, http |-> http, direct |-> direct, russia |-> ru,
                                autostart |-> auto, mappings |-> {}]) \in LocType
      BY <3>2, ArgsType DEF Ops
    <3> QED
      BY <1>3, <3>1, <3>3
  <2>2. CASE AddMultiProxy(t)
    <3>1. PICK id \in Ids, port \in Ports, main \in BOOLEAN :
            /\ ValidPort(port, None, cur)
            /\ Begin(t, "save",
                 Args("add", id, port,
                      [cur EXCEPT !.mappings =
                         Unmained(cur.mappings, main) \cup {[id |-> id, port |-> port, main |-> main]}]), {})
            /\ UNCHANGED <<cur, file, inForce, runKey, multi>>
      BY <2>2 DEF AddMultiProxy
    <3>2. Unmained(cur.mappings, main) \cup {[id |-> id, port |-> port, main |-> main]} \in SUBSET Mapping
      BY <1>1, <3>1, UnmainedType, NewMapping DEF ValidPort
    <3>3. Args("add", id, port,
              [cur EXCEPT !.mappings =
                 Unmained(cur.mappings, main) \cup {[id |-> id, port |-> port, main |-> main]}]) \in LocType
      BY <1>1, <3>2, WithMappings, ArgsType DEF Ops
    <3> QED
      BY <1>3, <3>1, <3>3
  <2>3. CASE UpdateMultiProxy(t)
    <3>1. PICK m \in cur.mappings, port \in Ports, main \in BOOLEAN :
            /\ ValidPort(port, m.id, cur)
            /\ Begin(t, "save",
                 Args("update", m.id, port,
                      [cur EXCEPT !.mappings =
                         Unmained(cur.mappings \ {m}, main)
                           \cup {[id |-> m.id, port |-> port, main |-> main]}]), {})
            /\ UNCHANGED <<cur, file, inForce, runKey, multi>>
      BY <2>3 DEF UpdateMultiProxy
    <3>2. m.id \in Ids
      BY <1>1 DEF Mapping
    <3>3. Unmained(cur.mappings \ {m}, main) \cup {[id |-> m.id, port |-> port, main |-> main]}
            \in SUBSET Mapping
      BY <1>1, <3>1, <3>2, UnmainedType, NewMapping DEF ValidPort
    <3>4. Args("update", m.id, port,
              [cur EXCEPT !.mappings =
                 Unmained(cur.mappings \ {m}, main)
                   \cup {[id |-> m.id, port |-> port, main |-> main]}]) \in LocType
      BY <1>1, <3>2, <3>3, WithMappings, ArgsType DEF Ops
    <3> QED
      BY <1>3, <3>1, <3>4
  <2>4. CASE RemoveMultiProxy(t)
    <3>1. PICK id \in Ids : /\ Begin(t, "stop", Args("remove", id, 0, Default), {})
                            /\ UNCHANGED <<cur, file, inForce, runKey, multi>>
      BY <2>4 DEF RemoveMultiProxy
    <3>2. Args("remove", id, 0, Default) \in LocType
      BY DefaultNormal, ArgsType DEF Ops
    <3> QED
      BY <1>3, <3>1, <3>2
  <2>5. CASE StopMultiProxy(t)
    <3>1. PICK id \in Ids : /\ Begin(t, "stop", Args("stop", id, 0, Default), {})
                            /\ UNCHANGED <<cur, file, inForce, runKey, multi>>
      BY <2>5 DEF StopMultiProxy
    <3>2. Args("stop", id, 0, Default) \in LocType
      BY DefaultNormal, ArgsType DEF Ops
    <3> QED
      BY <1>3, <3>1, <3>2
  <2>6. CASE StartMultiProxy(t)
    <3>1. PICK m \in cur.mappings : /\ Begin(t, "run", Args("start", m.id, m.port, Default), {})
                                   /\ UNCHANGED <<cur, file, inForce, runKey, multi>>
      BY <2>6 DEF StartMultiProxy
    <3>2. m.id \in Ids /\ m.port \in ValidPorts /\ m.port \in Ports \cup Defaults \cup {0}
      BY <1>1 DEF Mapping, ValidPorts
    <3>3. /\ Args("start", m.id, m.port, Default) \in LocType
          /\ Args("start", m.id, m.port, Default).port = m.port
      BY <3>2, DefaultNormal, ArgsType DEF Ops
    <3> QED
      BY <1>3, <3>1, <3>2, <3>3
  <2> QED
    BY <1>6, <2>1, <2>2, <2>3, <2>4, <2>5, <2>6 DEF Begins
<1>7. ASSUME NEW t \in Callers, Continues(t) PROVE Types'
  <2>1. CASE Save(t)
    <3>1. Normalise(loc[t].next) \in Normal
      BY <1>2, NormaliseNormal
    <3>2. /\ pc' \in [Callers -> {"idle", "save", "reread", "ports", "runkey", "stop", "filter", "run"}]
          /\ loc' \in [Callers -> LocType] /\ Locals'
      <4>1. CASE Return(t, "save")
        BY <1>5, <4>1
      <4>2. CASE Step(t, "save", AfterSave(loc[t].op)) /\ AfterSave(loc[t].op) # "idle"
        <5>1. AfterSave(loc[t].op) \in {"reread", "stop"}
          BY <4>2 DEF AfterSave
        <5> QED
          BY <1>4, <4>2, <5>1 DEF TypeOK
      <4> QED
        BY <2>1, <4>1, <4>2 DEF Save
    <3>3. cur' \in Normal /\ file' \in Normal \cup {None, Torn}
      BY <1>1, <2>1, <3>1 DEF Save
    <3> QED
      BY <2>1, <3>2, <3>3 DEF Save, TypeOK, pastVars
  <2>2. CASE PutReread(t)
    <3> DEFINE next == [cur EXCEPT !.autostart = loc[t].next.autostart]
    <3>1. loc[t].next.autostart \in BOOLEAN
      BY <1>2 DEF Raw
    <3>2. next \in Normal /\ next \in Raw
      BY <1>1, <3>1, NormalIsRaw DEF Normal
    <3>3. [loc[t] EXCEPT !.next = next] \in LocType /\ [loc[t] EXCEPT !.next = next].next = next
      BY <1>2, <3>2
    <3>4. /\ loc' \in [Callers -> LocType] /\ loc'[t].next = next
          /\ \A u \in Callers : u # t => loc'[u] = loc[u]
      BY <2>2, <3>3 DEF PutReread, TypeOK
    <3>5. /\ pc' \in [Callers -> {"idle", "save", "reread", "ports", "runkey", "stop", "filter", "run"}]
          /\ pc'[t] = "ports" /\ \A u \in Callers : u # t => pc'[u] = pc[u]
      BY <2>2 DEF PutReread, TypeOK, Goto
    <3>6. Locals'
      BY <3>2, <3>4, <3>5 DEF Locals
    <3> QED
      BY <2>2, <3>4, <3>5, <3>6 DEF PutReread, TypeOK, pastVars
  <2>3. CASE PutPorts(t)
    <3>1. loc[t].next.socks \in ValidPorts /\ loc[t].next.http \in ValidPorts
      BY <2>3 DEF PutPorts, Step, Goto, Locals, Normal
    <3>2. inForce' \in [socks : ValidPorts, http : ValidPorts]
      BY <2>3, <3>1 DEF PutPorts
    <3> QED
      BY <1>4, <2>3, <3>2 DEF PutPorts, TypeOK, pastVars
  <2>4. CASE PutRunKey(t)
    <3>1. runKey' \in BOOLEAN
      BY <1>2, <2>4 DEF PutRunKey, TypeOK, Raw
    <3> QED
      BY <1>5, <2>4, <3>1 DEF PutRunKey, TypeOK, pastVars
  <2>5. CASE Stop(t)
    <3>1. /\ pc' \in [Callers -> {"idle", "save", "reread", "ports", "runkey", "stop", "filter", "run"}]
          /\ loc' \in [Callers -> LocType] /\ Locals'
      BY <1>4, <1>5, <2>5 DEF Stop, TypeOK
    <3> QED
      BY <2>5, <3>1 DEF Stop, TypeOK, pastVars
  <2>6. CASE RemoveFiltered(t)
    <3> DEFINE next == [cur EXCEPT !.mappings = {m \in cur.mappings : m.id # loc[t].id}]
    <3>1. next \in Raw
      BY <1>1, WithMappings
    <3>2. [loc[t] EXCEPT !.next = next] \in LocType
      BY <1>2, <3>1
    <3>3. loc' \in [Callers -> LocType] /\ \A u \in Callers : u # t => loc'[u] = loc[u]
      BY <2>6, <3>2 DEF RemoveFiltered, TypeOK
    <3>4. /\ pc' \in [Callers -> {"idle", "save", "reread", "ports", "runkey", "stop", "filter", "run"}]
          /\ pc'[t] = "save" /\ \A u \in Callers : u # t => pc'[u] = pc[u]
      BY <2>6 DEF RemoveFiltered, TypeOK, Goto
    <3>5. Locals'
      BY <3>3, <3>4 DEF Locals
    <3> QED
      BY <2>6, <3>3, <3>4, <3>5 DEF RemoveFiltered, TypeOK, pastVars
  <2>7. CASE StartInstance(t)
    <3>1. loc[t].port \in ValidPorts
      BY <2>7 DEF StartInstance, Return, Goto, Locals
    <3>2. multi' \in [Ids -> ValidPorts \cup {None}]
      BY <2>7, <3>1 DEF StartInstance, TypeOK
    <3> QED
      BY <1>5, <2>7, <3>2 DEF StartInstance, TypeOK, pastVars
  <2> QED
    BY <1>7, <2>1, <2>2, <2>3, <2>4, <2>5, <2>6, <2>7 DEF Continues
<1>8. CASE StopAllMulti
  BY <1>8 DEF StopAllMulti, Happens, callVars, TypeOK, Locals
<1>9. CASE Restart
  <2>1. file' \in Normal \cup {None, Torn}
    BY <1>1, <1>2, <1>9, NormaliseNormal DEF Restart
  <2>2. cur' \in Normal
    BY <1>9, <2>1, LoadedNormal DEF Restart
  <2>3. inForce' \in [socks : ValidPorts, http : ValidPorts]
    BY <1>9, <2>2 DEF Restart, Normal
  <2>4. loc' \in [Callers -> LocType]
    BY <1>9, DefaultNormal DEF Restart, NoLocals, Ops
  <2>5. calls' \in Nat /\ happened' \subseteq {"put", "overlap"}
    BY <1>9 DEF Restart, Happens, TypeOK
  <2> QED
    BY <1>9, <2>1, <2>2, <2>3, <2>4, <2>5 DEF Restart, TypeOK, Locals
<1>10. CASE UNCHANGED vars
  BY <1>10 DEF vars, callVars, pastVars, TypeOK, Locals
<1> QED
  BY <1>6, <1>7, <1>8, <1>9, <1>10 DEF Next

\* The settings in memory, in force and on disk are normalised ones: no call
\* saves or puts in force what normalise would not leave.
THEOREM SettingsTypes == Spec => []Types
<1> QED
  BY TypesInit, TypesNext, PTL DEF Spec

\* Type correctness, and that of what a call at work has read.
THEOREM SettingsTypeOK == Spec => []TypeOK
<1>1. Types => TypeOK
  BY DEF Types
<1> QED
  BY <1>1, SettingsTypes, PTL

-----------------------------------------------------------------------------
(* The file                                                                *)

LEMMA DiskNext == Types /\ DiskIsMemory /\ [Next]_vars => DiskIsMemory'
<1> SUFFICES ASSUME Types, DiskIsMemory, [Next]_vars PROVE DiskIsMemory'
  OBVIOUS
<1> USE DEF Types
<1>1. \A t \in Callers : loc[t].next \in Raw
  BY DEF TypeOK
<1>2. CASE UNCHANGED <<cur, file>>
  BY <1>2 DEF DiskIsMemory
<1>3. ASSUME NEW t \in Callers, Save(t) PROVE DiskIsMemory'
  <2>1. CASE file' = Normalise(loc[t].next) /\ cur' = Normalise(loc[t].next)
    <3>1. file' \in Normal /\ Normalise(file') = cur'
      BY <1>1, <2>1, NormaliseNormal, NormaliseIdempotent
    <3> QED
      BY <3>1, SettingsAssumption DEF DiskIsMemory, Loaded
  <2>2. CASE file' \in {file, Torn} /\ cur' = cur
    BY <2>2 DEF DiskIsMemory
  <2> QED
    BY <1>3, <2>1, <2>2 DEF Save
<1>4. CASE Restart
  BY <1>4 DEF Restart, DiskIsMemory
<1>5. CASE StopAllMulti
  BY <1>2, <1>5 DEF StopAllMulti
<1>6. ASSUME NEW t \in Callers, Begins(t) PROVE DiskIsMemory'
  BY <1>2, <1>6 DEF Begins, PutSettings, AddMultiProxy, UpdateMultiProxy, RemoveMultiProxy,
                    StopMultiProxy, StartMultiProxy
<1>7. ASSUME NEW t \in Callers, Continues(t) PROVE DiskIsMemory'
  BY <1>2, <1>3, <1>7 DEF Continues, PutReread, PutPorts, PutRunKey, Stop, RemoveFiltered, StartInstance
<1>8. CASE UNCHANGED vars
  BY <1>2, <1>8 DEF vars
<1> QED
  BY <1>4, <1>5, <1>6, <1>7, <1>8 DEF Next

\* The file is what the program works with, unless it was cut off.
THEOREM SettingsDiskIsMemory == Spec => []DiskIsMemory
<1>1. Init => DiskIsMemory
  BY DEF Init, DiskIsMemory
<1> QED
  BY <1>1, DiskNext, SettingsTypes, PTL DEF Spec

-----------------------------------------------------------------------------
(* Mappings                                                                *)

\* What a call is about to save keeps the mappings apart, by itself: a save
\* replaces the settings whole, whatever others have saved meanwhile.
Ready(s) == Apart(s) /\ (s.mappings = {} \/ (s.socks \in ValidPorts /\ s.http \in ValidPorts))
ReadyToSave == \A t \in Callers : pc[t] = "save" => Ready(loc[t].next)

ApartInv == MappingsApart /\ ReadyToSave

\* Saving what is ready keeps the mappings apart.
LEMMA NormaliseApart ==
  ASSUME NEW s \in Raw, Ready(s)
  PROVE  Apart(Normalise(s))
<1> DEFINE n == Normalise(s)
<1>1. s.mappings \in SUBSET Mapping
  BY DEF Raw
<1>2. n.mappings = NormalMappings(s.mappings)
  BY DEF Normalise
<1>3. s.mappings = {} \/ (n.socks = s.socks /\ n.http = s.http)
  BY DEF Normalise, OrDefault, Ready
<1>4. \A x \in n.mappings : \E m \in s.mappings :
        /\ x.id = m.id /\ x.port = m.port
        /\ x = [m EXCEPT !.main = m.main /\ m = TheMain(s.mappings)]
  BY <1>1, <1>2, NormalMappingsAre
<1>5. \A x, y \in n.mappings : x.main /\ y.main => x = y
  BY <1>1, <1>2, OneMain
<1> HIDE DEF n
<1>6. SUFFICES ASSUME NEW x \in n.mappings, NEW y \in n.mappings
               PROVE  /\ x.port \notin {n.socks, n.http}
                      /\ x.port = y.port \/ x.id = y.id \/ (x.main /\ y.main) => x = y
  BY DEF Apart, n
<1>7. PICK m \in s.mappings : /\ x.id = m.id /\ x.port = m.port
                             /\ x = [m EXCEPT !.main = m.main /\ m = TheMain(s.mappings)]
  BY <1>4
<1>8. PICK k \in s.mappings : /\ y.id = k.id /\ y.port = k.port
                             /\ y = [k EXCEPT !.main = k.main /\ k = TheMain(s.mappings)]
  BY <1>4
<1>9. /\ m.port \notin {s.socks, s.http}
      /\ m.port = k.port \/ m.id = k.id => m = k
  BY DEF Ready, Apart
<1>10. x.port \notin {n.socks, n.http}
  BY <1>3, <1>7, <1>9
<1>11. ASSUME x.port = y.port \/ x.id = y.id PROVE x = y
  <2>1. m = k
    BY <1>7, <1>8, <1>9, <1>11
  <2> QED
    BY <1>7, <1>8, <2>1, Zenon
<1> QED
  BY <1>5, <1>10, <1>11

LEMMA DefaultApart == Apart(Default)
  BY DEF Apart, Default

\* A mapping with a port that was checked, and a new id or its old one.
LEMMA AddedApart ==
  ASSUME NEW s \in Normal, Apart(s), NEW others \in SUBSET s.mappings,
         NEW id \in Ids, NEW port \in ValidPorts, NEW main \in BOOLEAN,
         \A m \in others : m.id # id /\ m.port # port,
         port \notin {s.socks, s.http}
  PROVE  Ready([s EXCEPT !.mappings = Unmained(others, main) \cup {[id |-> id, port |-> port, main |-> main]}])
<1> DEFINE new == [id |-> id, port |-> port, main |-> main]
           all == Unmained(others, main) \cup {new}
           next == [s EXCEPT !.mappings = all]
<1>1. others \in SUBSET Mapping /\ s.socks \in ValidPorts /\ s.http \in ValidPorts
  BY DEF Normal
<1>2. Unmained(others, main) \in SUBSET Mapping
  BY <1>1, UnmainedType
<1>3. \A x \in Unmained(others, main) : \E m \in others :
        /\ x = [m EXCEPT !.main = m.main /\ ~main]
        /\ x.id = m.id /\ x.port = m.port /\ x.main = (m.main /\ ~main)
  BY <1>1, UnmainedType
<1>4. new \in Mapping /\ new.id = id /\ new.port = port /\ new.main = main
  BY NewMapping
<1>5. all \in SUBSET Mapping
  BY <1>2, <1>4
<1>6. next.mappings = all /\ next.socks = s.socks /\ next.http = s.http
  BY <1>5, WithMappings
<1> HIDE DEF all, new, next
<1>7. ASSUME NEW x \in all PROVE x.port \notin {s.socks, s.http}
  <2>1. CASE x = new
    BY <1>4, <2>1
  <2>2. CASE x \in Unmained(others, main)
    <3>1. PICK m \in others : x.port = m.port
      BY <1>3, <2>2
    <3> QED
      BY <3>1 DEF Apart
  <2> QED
    BY <1>7, <2>1, <2>2 DEF all
<1>8. ASSUME NEW x \in Unmained(others, main), NEW y \in Unmained(others, main),
             x.port = y.port \/ x.id = y.id \/ (x.main /\ y.main)
      PROVE  x = y
  <2>1. PICK m \in others : /\ x = [m EXCEPT !.main = m.main /\ ~main]
                            /\ x.id = m.id /\ x.port = m.port /\ x.main = (m.main /\ ~main)
    BY <1>3
  <2>2. PICK k \in others : /\ y = [k EXCEPT !.main = k.main /\ ~main]
                            /\ y.id = k.id /\ y.port = k.port /\ y.main = (k.main /\ ~main)
    BY <1>3
  <2>3. m.port = k.port \/ m.id = k.id \/ (m.main /\ k.main)
    BY <1>8, <2>1, <2>2, Zenon
  <2>4. m = k
    BY <2>3, Zenon DEF Apart
  <2> QED
    BY <2>1, <2>2, <2>4, Zenon
<1>9. ASSUME NEW x \in Unmained(others, main)
      PROVE  x.port # new.port /\ x.id # new.id /\ ~(x.main /\ new.main)
  <2>1. PICK m \in others : x.id = m.id /\ x.port = m.port /\ x.main = (m.main /\ ~main)
    BY <1>3
  <2>2. x.port # new.port /\ x.id # new.id
    BY <1>4, <2>1
  <2>3. ~(x.main /\ new.main)
    BY <1>4, <2>1, Zenon
  <2> QED
    BY <2>2, <2>3
<1>10. \A x, y \in all : x.port = y.port \/ x.id = y.id \/ (x.main /\ y.main) => x = y
  <2>1. SUFFICES ASSUME NEW x \in all, NEW y \in all,
                        x.port = y.port \/ x.id = y.id \/ (x.main /\ y.main)
                 PROVE  x = y
    OBVIOUS
  <2>2. (x \in Unmained(others, main) \/ x = new) /\ (y \in Unmained(others, main) \/ y = new)
    BY DEF all
  <2>3. CASE x \in Unmained(others, main) /\ y \in Unmained(others, main)
    BY <1>8, <2>1, <2>3
  <2>4. CASE x \in Unmained(others, main) /\ y = new
    BY <1>9, <2>1, <2>4
  <2>5. CASE x = new /\ y \in Unmained(others, main)
    BY <1>9, <2>1, <2>5
  <2> QED
    BY <2>2, <2>3, <2>4, <2>5
<1>11. Apart(next)
  BY <1>6, <1>7, <1>10 DEF Apart
<1>12. Ready(next)
  BY <1>1, <1>6, <1>11 DEF Ready
<1> QED
  BY <1>12 DEF next, all, new

LEMMA ApartNext == Types /\ Types' /\ DiskIsMemory /\ ApartInv /\ [Next]_vars => ApartInv'
<1> SUFFICES ASSUME Types, Types', DiskIsMemory, ApartInv, [Next]_vars PROVE ApartInv'
  OBVIOUS
<1> USE DEF Types
<1>1. /\ cur \in Normal /\ cur.mappings \in SUBSET Mapping
      /\ cur.socks \in ValidPorts /\ cur.http \in ValidPorts /\ Apart(cur)
  BY DEF TypeOK, Normal, ApartInv, MappingsApart
<1>2. \A t \in Callers : loc[t].next \in Raw
  BY DEF TypeOK
<1>3. ASSUME NEW t \in Callers, cur' = cur,
             \A u \in Callers : u # t => pc'[u] = pc[u] /\ loc'[u] = loc[u],
             pc'[t] = "save" => Ready(loc'[t].next)
      PROVE  ApartInv'
  BY <1>3 DEF ApartInv, MappingsApart, ReadyToSave
<1>4. ASSUME NEW t \in Callers, NEW to, NEW op \in Ops, NEW id \in Ids \cup {None},
             NEW port \in Ports \cup Defaults \cup {0}, NEW next \in Raw, NEW what,
             Begin(t, to, Args(op, id, port, next), what), to = "save" => Ready(next), cur' = cur
      PROVE  ApartInv'
  <2>1. \A u \in Callers : u # t => pc'[u] = pc[u] /\ loc'[u] = loc[u]
    BY <1>4 DEF Begin, Goto, TypeOK
  <2>2. pc'[t] = to /\ loc'[t] = Args(op, id, port, next)
    BY <1>4 DEF Begin, Goto, TypeOK
  <2>3. loc'[t].next = next
    BY <2>2, ArgsType
  <2> QED
    BY <1>3, <1>4, <2>1, <2>2, <2>3
<1>5. ASSUME NEW t \in Callers, NEW from, NEW to, to # "save",
             Step(t, from, to) \/ Return(t, from)
      PROVE  /\ \A u \in Callers : u # t => pc'[u] = pc[u] /\ loc'[u] = loc[u]
             /\ pc'[t] # "save"
  BY <1>5 DEF Step, Return, Goto, TypeOK
<1>6. ASSUME NEW t \in Callers, Begins(t) PROVE ApartInv'
  <2>1. CASE PutSettings(t)
    <3>1. PICK socks \in Ports, http \in {0, DefaultHTTP}, direct \in Lists, ru \in Russia, auto \in BOOLEAN :
            /\ Begin(t, "save",
                 Args("put", None, 0, [socks |-> socks, http |-> http, direct |-> direct, russia |-> ru,
                                       autostart |-> auto, mappings |-> {}]), {"put"})
            /\ cur' = cur
      BY <2>1 DEF PutSettings
    <3> DEFINE next == [socks |-> socks, http |-> http, direct |-> direct, russia |-> ru,
                        autostart |-> auto, mappings |-> {}]
    <3>2. next \in Raw
      BY SettingsAssumption DEF Raw, Defaults
    <3>3. next.mappings = {}
      OBVIOUS
    <3> HIDE DEF next
    <3>4. Ready(next)
      BY <3>3 DEF Ready, Apart
    <3>5. Begin(t, "save", Args("put", None, 0, next), {"put"})
      BY <3>1 DEF next
    <3>6. "put" \in Ops /\ None \in Ids \cup {None} /\ 0 \in Ports \cup Defaults \cup {0}
      BY DEF Ops
    <3> QED
      BY <1>4, <3>1, <3>2, <3>4, <3>5, <3>6
  <2>2. CASE AddMultiProxy(t)
    <3>1. PICK id \in Ids, port \in Ports, main \in BOOLEAN :
            /\ Fresh(id) /\ ValidPort(port, None, cur)
            /\ Begin(t, "save",
                 Args("add", id, port,
                      [cur EXCEPT !.mappings =
                         Unmained(cur.mappings, main) \cup {[id |-> id, port |-> port, main |-> main]}]), {})
            /\ cur' = cur
      BY <2>2 DEF AddMultiProxy
    <3> DEFINE all == Unmained(cur.mappings, main) \cup {[id |-> id, port |-> port, main |-> main]}
               next == [cur EXCEPT !.mappings = all]
    <3>2. \A m \in cur.mappings : m.id \in Ids /\ m.id # id /\ m.id # None
      BY <1>1, <3>1, SettingsAssumption DEF Fresh, IdsOf, Mapping
    <3>3. /\ port \in ValidPorts /\ port \notin {cur.socks, cur.http}
          /\ \A m \in cur.mappings : m.port # port
      BY <3>1, <3>2 DEF ValidPort
    <3>4. Ready(next)
      BY <1>1, <3>2, <3>3, AddedApart
    <3>5. next \in Raw
      <4>1. all \in SUBSET Mapping
        BY <1>1, <3>3, UnmainedType, NewMapping
      <4> QED
        BY <1>1, <4>1, WithMappings
    <3>6. "add" \in Ops /\ port \in Ports \cup Defaults \cup {0}
      BY DEF Ops
    <3> HIDE DEF next
    <3>7. Begin(t, "save", Args("add", id, port, next), {})
      BY <3>1 DEF next
    <3> QED
      BY <1>4, <3>1, <3>4, <3>5, <3>6, <3>7
  <2>3. CASE UpdateMultiProxy(t)
    <3>1. PICK m \in cur.mappings, port \in Ports, main \in BOOLEAN :
            /\ ValidPort(port, m.id, cur)
            /\ Begin(t, "save",
                 Args("update", m.id, port,
                      [cur EXCEPT !.mappings =
                         Unmained(cur.mappings \ {m}, main)
                           \cup {[id |-> m.id, port |-> port, main |-> main]}]), {})
            /\ cur' = cur
      BY <2>3 DEF UpdateMultiProxy
    <3> DEFINE others == cur.mappings \ {m}
               all == Unmained(others, main) \cup {[id |-> m.id, port |-> port, main |-> main]}
               next == [cur EXCEPT !.mappings = all]
    <3>2. m.id \in Ids
      BY <1>1 DEF Mapping
    <3>3. \A k \in others : k.id # m.id
      BY <1>1 DEF Apart
    <3>4. /\ port \in ValidPorts /\ port \notin {cur.socks, cur.http}
          /\ \A k \in others : k.port # port
      BY <3>1, <3>3 DEF ValidPort
    <3>5. Ready(next)
      BY <1>1, <3>2, <3>3, <3>4, AddedApart
    <3>6. next \in Raw
      <4>1. all \in SUBSET Mapping
        BY <1>1, <3>2, <3>4, UnmainedType, NewMapping
      <4> QED
        BY <1>1, <4>1, WithMappings
    <3>7. "update" \in Ops /\ port \in Ports \cup Defaults \cup {0}
      BY DEF Ops
    <3> HIDE DEF next
    <3>8. Begin(t, "save", Args("update", m.id, port, next), {})
      BY <3>1 DEF next
    <3> QED
      BY <1>4, <3>1, <3>2, <3>5, <3>6, <3>7, <3>8
  <2>4. CASE RemoveMultiProxy(t)
    <3>1. PICK id \in Ids : Begin(t, "stop", Args("remove", id, 0, Default), {}) /\ cur' = cur
      BY <2>4 DEF RemoveMultiProxy
    <3>2. "remove" \in Ops /\ id \in Ids \cup {None} /\ 0 \in Ports \cup Defaults \cup {0}
      BY DEF Ops
    <3> QED
      BY <1>4, <3>1, <3>2, DefaultNormal
  <2>5. CASE StopMultiProxy(t)
    <3>1. PICK id \in Ids : Begin(t, "stop", Args("stop", id, 0, Default), {}) /\ cur' = cur
      BY <2>5 DEF StopMultiProxy
    <3>2. "stop" \in Ops /\ id \in Ids \cup {None} /\ 0 \in Ports \cup Defaults \cup {0}
      BY DEF Ops
    <3> QED
      BY <1>4, <3>1, <3>2, DefaultNormal
  <2>6. CASE StartMultiProxy(t)
    <3>1. PICK m \in cur.mappings : Begin(t, "run", Args("start", m.id, m.port, Default), {}) /\ cur' = cur
      BY <2>6 DEF StartMultiProxy
    <3>2. m.id \in Ids /\ m.port \in Ports \cup Defaults \cup {0}
      BY <1>1 DEF Mapping, ValidPorts
    <3> QED
      BY <1>4, <3>1, <3>2, DefaultNormal DEF Ops
  <2> QED
    BY <1>6, <2>1, <2>2, <2>3, <2>4, <2>5, <2>6 DEF Begins
<1>7. ASSUME NEW t \in Callers, Continues(t) PROVE ApartInv'
  <2>1. CASE Save(t)
    <3>1. pc[t] = "save" /\ Ready(loc[t].next)
      BY <2>1 DEF Save, Return, Step, Goto, ApartInv, ReadyToSave
    <3>2. Apart(cur')
      <4>1. Apart(Normalise(loc[t].next))
        BY <1>2, <3>1, NormaliseApart
      <4> QED
        BY <1>1, <2>1, <4>1 DEF Save
    <3>3. AfterSave(loc[t].op) # "save"
      BY DEF AfterSave
    <3>4. \A u \in Callers : u # t => pc'[u] = pc[u] /\ loc'[u] = loc[u]
      BY <1>5, <2>1, <3>3 DEF Save
    <3>5. pc'[t] # "save"
      BY <1>5, <2>1, <3>3 DEF Save
    <3> QED
      BY <3>2, <3>4, <3>5 DEF ApartInv, MappingsApart, ReadyToSave
  <2>2. CASE PutReread(t)
    <3>1. /\ \A u \in Callers : u # t => pc'[u] = pc[u] /\ loc'[u] = loc[u]
          /\ pc'[t] = "ports" /\ cur' = cur
      BY <2>2 DEF PutReread, Goto, TypeOK
    <3> QED
      BY <1>3, <3>1
  <2>3. CASE PutPorts(t) \/ PutRunKey(t) \/ Stop(t) \/ StartInstance(t)
    <3>1. cur' = cur
      BY <2>3 DEF PutPorts, PutRunKey, Stop, StartInstance
    <3>2. \E from, to : to # "save" /\ (Step(t, from, to) \/ Return(t, from))
      <4>1. CASE PutPorts(t)
        BY <4>1 DEF PutPorts
      <4>2. CASE PutRunKey(t)
        BY <4>2 DEF PutRunKey
      <4>3. CASE Stop(t)
        BY <4>3 DEF Stop
      <4>4. CASE StartInstance(t)
        BY <4>4 DEF StartInstance
      <4> QED
        BY <2>3, <4>1, <4>2, <4>3, <4>4
    <3> QED
      BY <1>3, <1>5, <3>1, <3>2
  <2>4. CASE RemoveFiltered(t)
    <3> DEFINE rest == {m \in cur.mappings : m.id # loc[t].id}
               next == [cur EXCEPT !.mappings = rest]
    <3>1. next.mappings = rest /\ next.socks = cur.socks /\ next.http = cur.http
      BY <1>1, WithMappings
    <3>2. rest \subseteq cur.mappings
      OBVIOUS
    <3> HIDE DEF rest
    <3>3. Ready(next)
      BY <1>1, <3>1, <3>2 DEF Ready, Apart
    <3>4. /\ \A u \in Callers : u # t => pc'[u] = pc[u] /\ loc'[u] = loc[u]
          /\ loc'[t].next = next /\ cur' = cur
      BY <2>4 DEF RemoveFiltered, Goto, TypeOK, rest
    <3> QED
      BY <1>3, <3>3, <3>4
  <2> QED
    BY <1>7, <2>1, <2>2, <2>3, <2>4 DEF Continues
<1>8. CASE StopAllMulti
  BY <1>8 DEF StopAllMulti, callVars, ApartInv, MappingsApart, ReadyToSave
<1>9. CASE Restart
  <2>1. \A t \in Callers : pc'[t] = "idle"
    BY <1>9 DEF Restart
  <2>2. Apart(cur')
    <3>1. CASE file' = file \/ file' = Torn
      <4>1. Apart(Loaded(file')) \/ (file' = Torn /\ Loaded(file') = Default)
        BY <1>1, <3>1 DEF DiskIsMemory, Loaded
      <4> QED
        BY <1>9, <4>1, DefaultApart DEF Restart
    <3>2. ASSUME NEW t \in Callers, pc[t] = "save", file' = Normalise(loc[t].next)
          PROVE  Apart(cur')
      <4>1. Apart(file') /\ file' \in Normal /\ Normalise(file') = file'
        BY <1>2, <3>2, NormaliseApart, NormaliseNormal, NormaliseIdempotent DEF ApartInv, ReadyToSave
      <4>2. Loaded(file') = file'
        BY <4>1, SettingsAssumption DEF Loaded
      <4> QED
        BY <1>9, <4>1, <4>2 DEF Restart
    <3> QED
      BY <1>9, <3>1, <3>2 DEF Restart
  <2> QED
    BY <2>1, <2>2 DEF ApartInv, MappingsApart, ReadyToSave
<1>10. CASE UNCHANGED vars
  BY <1>10 DEF vars, callVars, ApartInv, MappingsApart, ReadyToSave
<1> QED
  BY <1>6, <1>7, <1>8, <1>9, <1>10 DEF Next

\* No two mappings share a port or an id, whatever calls race.
THEOREM SettingsMappingsApart == Spec => []MappingsApart
<1>1. Init => ApartInv
  <2>1. Init => cur = Default /\ \A t \in Callers : pc[t] = "idle"
    BY DEF Init, Loaded
  <2> QED
    BY <2>1, DefaultApart DEF ApartInv, MappingsApart, ReadyToSave
<1>2. ApartInv => MappingsApart
  BY DEF ApartInv
<1> QED
  BY <1>1, <1>2, ApartNext, SettingsTypes, SettingsDiskIsMemory, PTL DEF Spec

-----------------------------------------------------------------------------
(* One call at a time                                                      *)

PortsOf(s) == [socks |-> s.socks, http |-> s.http]

\* With one call at a time only a save of the settings page stands between the
\* settings and the ports in force, and it has not read them yet, or as they are.
Alone ==
  /\ \A t, u \in Callers : pc[t] # "idle" /\ pc[u] # "idle" => t = u
  /\ \A t \in Callers :
       /\ pc[t] = "ports" => PortsOf(loc[t].next) = PortsOf(cur)
       /\ pc[t] = "save" /\ loc[t].op # "put" => PortsOf(loc[t].next) = PortsOf(cur)
  /\ (\A t \in Callers : pc[t] \notin {"reread", "ports"}) => inForce = PortsOf(cur)

AloneInv == OneAtATime => Alone

LEMMA AloneNext == Types /\ Types' /\ AloneInv /\ [Next]_vars => AloneInv'
<1> SUFFICES ASSUME Types, Types', AloneInv, [Next]_vars, OneAtATime' PROVE Alone'
  BY DEF AloneInv
<1> USE DEF Types
<1>0. OneAtATime
  <2>1. happened \subseteq happened'
    BY DEF Next, Begins, Continues, PutSettings, AddMultiProxy, UpdateMultiProxy, RemoveMultiProxy,
           StopMultiProxy, StartMultiProxy, Save, PutReread, PutPorts, PutRunKey, Stop, RemoveFiltered,
           StartInstance, StopAllMulti, Restart, Begin, Happens, vars, pastVars
  <2> QED
    BY <2>1 DEF OneAtATime
<1>1. Alone
  BY <1>0 DEF AloneInv
<1>2. ASSUME NEW what, Happens(what), ~Quiet PROVE FALSE
  BY <1>2 DEF Happens, OneAtATime
<1>3. ASSUME NEW t \in Callers, NEW to, NEW op \in Ops, NEW id \in Ids \cup {None},
             NEW port \in Ports \cup Defaults \cup {0}, NEW next \in Raw, NEW what,
             Begin(t, to, Args(op, id, port, next), what), to \in {"save", "stop", "run"},
             to = "save" /\ op # "put" => PortsOf(next) = PortsOf(cur),
             UNCHANGED <<cur, inForce>>
      PROVE  Alone'
  <2>1. \A u \in Callers : pc[u] = "idle"
    BY <1>2, <1>3 DEF Begin, Quiet
  <2>2. inForce = PortsOf(cur)
    BY <1>1, <2>1 DEF Alone
  <2>3. \A u \in Callers : pc'[u] = IF u = t THEN to ELSE "idle"
    BY <1>3, <2>1 DEF Begin, Goto, TypeOK
  <2>4. loc'[t] = Args(op, id, port, next)
    BY <1>3 DEF Begin, TypeOK
  <2>5. loc'[t].next = next /\ loc'[t].op = op
    BY <2>4, ArgsType
  <2> QED
    BY <1>3, <2>2, <2>3, <2>5 DEF Alone
<1>4. ASSUME NEW t \in Callers, Begins(t) PROVE Alone'
  <2>1. CASE PutSettings(t)
    <3>1. PICK socks \in Ports, http \in {0, DefaultHTTP}, direct \in Lists, ru \in Russia, auto \in BOOLEAN :
            /\ Begin(t, "save",
                 Args("put", None, 0, [socks |-> socks, http |-> http, direct |-> direct, russia |-> ru,
                                       autostart |-> auto, mappings |-> {}]), {"put"})
            /\ UNCHANGED <<cur, inForce>>
      BY <2>1 DEF PutSettings
    <3> DEFINE next == [socks |-> socks, http |-> http, direct |-> direct, russia |-> ru,
                        autostart |-> auto, mappings |-> {}]
    <3>2. next \in Raw
      BY SettingsAssumption DEF Raw, Defaults
    <3> HIDE DEF next
    <3>3. Begin(t, "save", Args("put", None, 0, next), {"put"})
      BY <3>1 DEF next
    <3>4. "put" \in Ops /\ None \in Ids \cup {None} /\ 0 \in Ports \cup Defaults \cup {0}
      BY DEF Ops
    <3> QED
      BY <1>3, <3>1, <3>2, <3>3, <3>4
  <2>2. CASE AddMultiProxy(t)
    <3>1. PICK id \in Ids, port \in Ports, main \in BOOLEAN :
            /\ ValidPort(port, None, cur)
            /\ Begin(t, "save",
                 Args("add", id, port,
                      [cur EXCEPT !.mappings =
                         Unmained(cur.mappings, main) \cup {[id |-> id, port |-> port, main |-> main]}]), {})
            /\ UNCHANGED <<cur, inForce>>
      BY <2>2 DEF AddMultiProxy
    <3> DEFINE all == Unmained(cur.mappings, main) \cup {[id |-> id, port |-> port, main |-> main]}
               next == [cur EXCEPT !.mappings = all]
    <3>2. cur \in Normal /\ cur.mappings \in SUBSET Mapping
      BY DEF TypeOK, Normal
    <3>3. all \in SUBSET Mapping
      BY <3>1, <3>2, UnmainedType, NewMapping DEF ValidPort
    <3>4. next \in Raw /\ next.socks = cur.socks /\ next.http = cur.http
      BY <3>2, <3>3, WithMappings
    <3> HIDE DEF next
    <3>5. Begin(t, "save", Args("add", id, port, next), {})
      BY <3>1 DEF next
    <3>6. "add" \in Ops /\ port \in Ports \cup Defaults \cup {0}
      BY DEF Ops
    <3>7. PortsOf(next) = PortsOf(cur)
      BY <3>4 DEF PortsOf
    <3> QED
      BY <1>3, <3>1, <3>4, <3>5, <3>6, <3>7
  <2>3. CASE UpdateMultiProxy(t)
    <3>1. PICK m \in cur.mappings, port \in Ports, main \in BOOLEAN :
            /\ ValidPort(port, m.id, cur)
            /\ Begin(t, "save",
                 Args("update", m.id, port,
                      [cur EXCEPT !.mappings =
                         Unmained(cur.mappings \ {m}, main)
                           \cup {[id |-> m.id, port |-> port, main |-> main]}]), {})
            /\ UNCHANGED <<cur, inForce>>
      BY <2>3 DEF UpdateMultiProxy
    <3> DEFINE all == Unmained(cur.mappings \ {m}, main) \cup {[id |-> m.id, port |-> port, main |-> main]}
               next == [cur EXCEPT !.mappings = all]
    <3>2. cur \in Normal /\ cur.mappings \in SUBSET Mapping /\ m.id \in Ids
      BY DEF TypeOK, Normal, Mapping
    <3>3. all \in SUBSET Mapping
      BY <3>1, <3>2, UnmainedType, NewMapping DEF ValidPort
    <3>4. next \in Raw /\ next.socks = cur.socks /\ next.http = cur.http
      BY <3>2, <3>3, WithMappings
    <3> HIDE DEF next
    <3>5. Begin(t, "save", Args("update", m.id, port, next), {})
      BY <3>1 DEF next
    <3>6. "update" \in Ops /\ port \in Ports \cup Defaults \cup {0}
      BY DEF Ops
    <3>7. PortsOf(next) = PortsOf(cur)
      BY <3>4 DEF PortsOf
    <3> QED
      BY <1>3, <3>1, <3>2, <3>4, <3>5, <3>6, <3>7
  <2>4. CASE RemoveMultiProxy(t)
    <3>1. PICK id \in Ids : /\ Begin(t, "stop", Args("remove", id, 0, Default), {})
                            /\ UNCHANGED <<cur, inForce>>
      BY <2>4 DEF RemoveMultiProxy
    <3>2. "remove" \in Ops /\ id \in Ids \cup {None} /\ 0 \in Ports \cup Defaults \cup {0}
      BY DEF Ops
    <3> QED
      BY <1>3, <3>1, <3>2, DefaultNormal
  <2>5. CASE StopMultiProxy(t)
    <3>1. PICK id \in Ids : /\ Begin(t, "stop", Args("stop", id, 0, Default), {})
                            /\ UNCHANGED <<cur, inForce>>
      BY <2>5 DEF StopMultiProxy
    <3>2. "stop" \in Ops /\ id \in Ids \cup {None} /\ 0 \in Ports \cup Defaults \cup {0}
      BY DEF Ops
    <3> QED
      BY <1>3, <3>1, <3>2, DefaultNormal
  <2>6. CASE StartMultiProxy(t)
    <3>1. PICK m \in cur.mappings : /\ Begin(t, "run", Args("start", m.id, m.port, Default), {})
                                   /\ UNCHANGED <<cur, inForce>>
      BY <2>6 DEF StartMultiProxy
    <3>2. m.id \in Ids /\ m.port \in Ports \cup Defaults \cup {0} /\ "start" \in Ops
      BY DEF Mapping, ValidPorts, TypeOK, Normal, Ops
    <3> QED
      BY <1>3, <3>1, <3>2, DefaultNormal
  <2> QED
    BY <1>4, <2>1, <2>2, <2>3, <2>4, <2>5, <2>6 DEF Begins
<1>5. ASSUME NEW t \in Callers, Continues(t) PROVE Alone'
  <2>1. CASE Save(t)
    <3>1. pc[t] = "save" /\ \A u \in Callers : u # t => pc[u] = "idle"
      BY <1>1, <2>1 DEF Save, Return, Step, Goto, Alone
    <3>2. inForce' = PortsOf(cur)
      BY <1>1, <2>1, <3>1 DEF Alone, Save
    <3>3. /\ pc'[t] \in {"idle", AfterSave(loc[t].op)}
          /\ \A u \in Callers : u # t => pc'[u] = "idle"
      BY <2>1, <3>1 DEF Save, Return, Step, Goto, TypeOK
    <3>4. CASE loc[t].op = "put" /\ pc'[t] = "reread"
      BY <3>3, <3>4 DEF Alone
    <3>5. CASE loc[t].op = "put" /\ pc'[t] # "reread"
      <4>1. cur' = cur /\ pc'[t] = "idle"
        BY <2>1, <3>3, <3>5 DEF Save, Step, Goto, AfterSave, TypeOK
      <4> QED
        BY <3>2, <3>3, <4>1 DEF Alone
    <3>6. CASE loc[t].op # "put"
      <4>1. PortsOf(loc[t].next) = PortsOf(cur)
        BY <1>1, <3>1, <3>6 DEF Alone
      <4>2. loc[t].next.socks = cur.socks /\ loc[t].next.http = cur.http
        BY <4>1 DEF PortsOf
      <4>3. cur.socks \in ValidPorts /\ cur.http \in ValidPorts
        BY DEF TypeOK, Normal
      <4>4. PortsOf(Normalise(loc[t].next)) = PortsOf(cur)
        BY <4>2, <4>3 DEF Normalise, OrDefault, PortsOf
      <4>5. PortsOf(cur') = PortsOf(cur)
        BY <2>1, <4>4 DEF Save
      <4>6. pc'[t] \in {"idle", "stop"}
        BY <3>3, <3>6 DEF AfterSave
      <4> QED
        BY <3>2, <3>3, <4>5, <4>6 DEF Alone
    <3> QED
      BY <3>4, <3>5, <3>6
  <2>2. CASE PutReread(t)
    <3> DEFINE next == [cur EXCEPT !.autostart = loc[t].next.autostart]
    <3>1. /\ pc'[t] = "ports" /\ cur' = cur
          /\ \A u \in Callers : u # t => pc[u] = "idle" /\ pc'[u] = "idle"
      BY <1>1, <2>2 DEF PutReread, Goto, TypeOK, Alone
    <3>2. next.socks = cur.socks /\ next.http = cur.http
      BY DEF TypeOK, Normal
    <3>3. loc'[t].next = next
      BY <2>2 DEF PutReread, TypeOK
    <3>4. PortsOf(loc'[t].next) = PortsOf(cur')
      BY <3>1, <3>2, <3>3 DEF PortsOf
    <3> QED
      BY <3>1, <3>4 DEF Alone
  <2>3. CASE PutPorts(t)
    <3>1. /\ pc'[t] = "runkey" /\ cur' = cur
          /\ \A u \in Callers : u # t => pc[u] = "idle" /\ pc'[u] = "idle"
      BY <1>1, <2>3 DEF PutPorts, Step, Goto, TypeOK, Alone
    <3>2. inForce' = PortsOf(cur')
      BY <1>1, <2>3, <3>1 DEF PutPorts, Step, Goto, Alone, PortsOf
    <3> QED
      BY <3>1, <3>2 DEF Alone
  <2>4. CASE PutRunKey(t) \/ Stop(t) \/ StartInstance(t)
    <3>1. /\ pc'[t] \in {"idle", "filter"} /\ UNCHANGED <<cur, inForce>>
          /\ pc[t] \in {"runkey", "stop", "run"}
          /\ \A u \in Callers : u # t => pc[u] = "idle" /\ pc'[u] = "idle"
      BY <1>1, <2>4 DEF PutRunKey, Stop, StartInstance, Step, Return, Goto, TypeOK, Alone
    <3>2. inForce = PortsOf(cur)
      BY <1>1, <3>1 DEF Alone
    <3> QED
      BY <3>1, <3>2 DEF Alone
  <2>5. CASE RemoveFiltered(t)
    <3> DEFINE rest == {m \in cur.mappings : m.id # loc[t].id}
               next == [cur EXCEPT !.mappings = rest]
    <3>1. /\ pc[t] = "filter" /\ pc'[t] = "save" /\ UNCHANGED <<cur, inForce>>
          /\ \A u \in Callers : u # t => pc[u] = "idle" /\ pc'[u] = "idle"
      BY <1>1, <2>5 DEF RemoveFiltered, Goto, TypeOK, Alone
    <3>2. cur \in Normal /\ rest \in SUBSET Mapping
      BY DEF TypeOK, Normal
    <3>3. next.socks = cur.socks /\ next.http = cur.http
      BY <3>2, WithMappings
    <3>4. loc'[t].next = next
      BY <2>5 DEF RemoveFiltered, TypeOK
    <3>5. PortsOf(loc'[t].next) = PortsOf(cur') /\ inForce = PortsOf(cur)
      BY <1>1, <3>1, <3>3, <3>4 DEF PortsOf, Alone
    <3> QED
      BY <3>1, <3>5 DEF Alone
  <2> QED
    BY <1>5, <2>1, <2>2, <2>3, <2>4, <2>5 DEF Continues
<1>6. CASE StopAllMulti
  BY <1>1, <1>6 DEF StopAllMulti, callVars, Alone
<1>7. CASE Restart
  BY <1>7 DEF Restart, Alone, PortsOf
<1>8. CASE UNCHANGED vars
  BY <1>1, <1>8 DEF vars, callVars, Alone
<1> QED
  BY <1>4, <1>5, <1>6, <1>7, <1>8 DEF Next

\* With one call at a time the ports in force are those of the settings.
THEOREM SettingsPortsInForce == Spec => []PortsInForce
<1>1. Init => AloneInv
  BY DEF Init, AloneInv, Alone, PortsOf
<1>2. AloneInv => PortsInForce
  BY DEF AloneInv, Alone, PortsInForce, Quiet, PortsOf
<1> QED
  BY <1>1, <1>2, AloneNext, SettingsTypes, PTL DEF Spec
-----------------------------------------------------------------------------
(* Mappings and what runs                                                  *)

Holds(s, id, port) == \E n \in s.mappings : n.id = id /\ n.port = port

\* With one call at a time a save keeps every mapping but the one it is about,
\* and what runs is listed, or about to be stopped.
Listed ==
  /\ \A t \in Callers :
       /\ pc[t] = "save" => loc[t].op \in {"put", "add", "update", "remove"}
       /\ pc[t] = "save" /\ loc[t].op # "put" =>
            \A m \in cur.mappings :
              (loc[t].op \in {"update", "remove"} /\ m.id = loc[t].id) \/ Holds(loc[t].next, m.id, m.port)
       /\ pc[t] = "filter" => loc[t].op = "remove"
       /\ pc[t] = "stop" => loc[t].op \in {"update", "remove", "stop"}
  /\ "put" \notin happened =>
       /\ \A i \in Ids : multi[i] # None =>
            \/ Holds(cur, i, multi[i])
            \/ \E t \in Callers : pc[t] = "stop" /\ loc[t].op = "update" /\ loc[t].id = i
       /\ \A t \in Callers :
            /\ pc[t] = "run" => Holds(cur, loc[t].id, loc[t].port)
            /\ pc[t] \in {"filter", "save"} /\ loc[t].op = "remove" =>
                 \A i \in Ids : i = loc[t].id => multi[i] = None
            /\ pc[t] = "save" => loc[t].op # "put"
ListedInv == OneAtATime => Listed

LEMMA NormaliseHolds ==
  ASSUME NEW s \in Raw, NEW id, NEW port, Holds(s, id, port)
  PROVE  Holds(Normalise(s), id, port)
<1>1. s.mappings \in SUBSET Mapping /\ Normalise(s).mappings = NormalMappings(s.mappings)
  BY DEF Raw, Normalise
<1>2. PICK m \in s.mappings : m.id = id /\ m.port = port
  BY DEF Holds
<1> DEFINE x == [m EXCEPT !.main = m.main /\ m = TheMain(s.mappings)]
<1>3. x \in NormalMappings(s.mappings)
  BY <1>1, <1>2, NormalMappingsAre
<1>4. m \in Mapping /\ (m.main /\ m = TheMain(s.mappings)) \in BOOLEAN
  BY <1>1 DEF Mapping
<1>5. x.id = id /\ x.port = port
  BY <1>2, <1>4, MappingMain, Zenon
<1> QED
  BY <1>1, <1>3, <1>5 DEF Holds

LEMMA UnmainedHolds ==
  ASSUME NEW s \in SUBSET Mapping, NEW main \in BOOLEAN, NEW m \in s
  PROVE  \E x \in Unmained(s, main) : x.id = m.id /\ x.port = m.port
<1>1. m \in Mapping /\ (m.main /\ ~main) \in BOOLEAN
  BY DEF Mapping
<1>2. [m EXCEPT !.main = m.main /\ ~main] \in Unmained(s, main)
  BY DEF Unmained
<1>3. [m EXCEPT !.main = m.main /\ ~main].id = m.id /\ [m EXCEPT !.main = m.main /\ ~main].port = m.port
  BY <1>1, MappingMain, Zenon
<1> QED
  BY <1>2, <1>3

LEMMA ListedNext == Types /\ Types' /\ AloneInv /\ ListedInv /\ [Next]_vars => ListedInv'
<1> SUFFICES ASSUME Types, Types', AloneInv, ListedInv, [Next]_vars, OneAtATime' PROVE Listed'
  BY DEF ListedInv
<1> USE DEF Types
<1>0. happened \subseteq happened'
  BY DEF Next, Begins, Continues, PutSettings, AddMultiProxy, UpdateMultiProxy, RemoveMultiProxy,
         StopMultiProxy, StartMultiProxy, Save, PutReread, PutPorts, PutRunKey, Stop, RemoveFiltered,
         StartInstance, StopAllMulti, Restart, Begin, Happens, vars, pastVars
<1>1. Alone /\ Listed
  BY <1>0 DEF AloneInv, ListedInv, OneAtATime
<1>2. ASSUME NEW what, Happens(what) PROVE Quiet
  BY <1>2 DEF Happens, OneAtATime
<1>3. ASSUME NEW t \in Callers, NEW to, NEW op \in Ops, NEW id \in Ids \cup {None},
             NEW port \in Ports \cup Defaults \cup {0}, NEW next \in Raw, NEW what,
             Begin(t, to, Args(op, id, port, next), what), UNCHANGED <<cur, multi>>,
             \/ /\ to = "save" /\ op \in {"put", "add", "update"}
                /\ op = "put" => "put" \in what
                /\ op # "put" => \A m \in cur.mappings :
                                   (op = "update" /\ m.id = id) \/ Holds(next, m.id, m.port)
             \/ to = "stop" /\ op \in {"remove", "stop"}
             \/ to = "run" /\ Holds(cur, id, port)
      PROVE  Listed'
  <2>1. \A u \in Callers : pc[u] = "idle"
    BY <1>2, <1>3 DEF Begin, Quiet
  <2>2. \A u \in Callers : pc'[u] = IF u = t THEN to ELSE "idle"
    BY <1>3, <2>1 DEF Begin, Goto, TypeOK
  <2>3. /\ loc'[t].op = op /\ loc'[t].id = id /\ loc'[t].port = port /\ loc'[t].next = next
    <3>1. loc'[t] = Args(op, id, port, next)
      BY <1>3 DEF Begin, TypeOK
    <3> QED
      BY <3>1, ArgsType
  <2>4. "put" \in what => "put" \in happened'
    BY <1>3 DEF Begin, Happens
  <2>5. \A u \in Callers :
          /\ pc'[u] = "save" => loc'[u].op \in {"put", "add", "update", "remove"}
          /\ pc'[u] = "save" /\ loc'[u].op # "put" =>
               \A m \in cur'.mappings :
                 (loc'[u].op \in {"update", "remove"} /\ m.id = loc'[u].id) \/ Holds(loc'[u].next, m.id, m.port)
          /\ pc'[u] = "filter" => loc'[u].op = "remove"
          /\ pc'[u] = "stop" => loc'[u].op \in {"update", "remove", "stop"}
    BY <1>3, <2>2, <2>3
  <2>6. ASSUME "put" \notin happened'
        PROVE  /\ \A i \in Ids : multi'[i] # None => Holds(cur', i, multi'[i])
               /\ \A u \in Callers :
                    /\ pc'[u] = "run" => Holds(cur', loc'[u].id, loc'[u].port)
                    /\ ~(pc'[u] \in {"filter", "save"} /\ loc'[u].op = "remove")
                    /\ pc'[u] = "save" => loc'[u].op # "put"
    <3>1. \A i \in Ids : multi[i] # None => Holds(cur, i, multi[i])
      BY <1>0, <1>1, <2>1, <2>6 DEF Listed
    <3> QED
      BY <1>3, <2>2, <2>3, <2>4, <2>6, <3>1 DEF Holds
  <2> QED
    BY <2>5, <2>6 DEF Listed
<1>4. ASSUME NEW t \in Callers, Begins(t) PROVE Listed'
  <2>0. cur \in Normal /\ cur.mappings \in SUBSET Mapping
    BY DEF TypeOK, Normal
  <2>1. CASE PutSettings(t)
    <3>1. PICK socks \in Ports, http \in {0, DefaultHTTP}, direct \in Lists, ru \in Russia, auto \in BOOLEAN :
            /\ Begin(t, "save",
                 Args("put", None, 0, [socks |-> socks, http |-> http, direct |-> direct, russia |-> ru,
                                       autostart |-> auto, mappings |-> {}]), {"put"})
            /\ UNCHANGED <<cur, multi>>
      BY <2>1 DEF PutSettings
    <3> DEFINE next == [socks |-> socks, http |-> http, direct |-> direct, russia |-> ru,
                        autostart |-> auto, mappings |-> {}]
    <3>2. next \in Raw
      BY SettingsAssumption DEF Raw, Defaults
    <3> HIDE DEF next
    <3>3. Begin(t, "save", Args("put", None, 0, next), {"put"})
      BY <3>1 DEF next
    <3>4. "put" \in Ops /\ None \in Ids \cup {None} /\ 0 \in Ports \cup Defaults \cup {0}
      BY DEF Ops
    <3> QED
      BY <1>3, <3>1, <3>2, <3>3, <3>4
  <2>2. CASE AddMultiProxy(t)
    <3>1. PICK id \in Ids, port \in Ports, main \in BOOLEAN :
            /\ ValidPort(port, None, cur)
            /\ Begin(t, "save",
                 Args("add", id, port,
                      [cur EXCEPT !.mappings =
                         Unmained(cur.mappings, main) \cup {[id |-> id, port |-> port, main |-> main]}]), {})
            /\ UNCHANGED <<cur, multi>>
      BY <2>2 DEF AddMultiProxy
    <3> DEFINE all == Unmained(cur.mappings, main) \cup {[id |-> id, port |-> port, main |-> main]}
               next == [cur EXCEPT !.mappings = all]
    <3>2. all \in SUBSET Mapping
      BY <2>0, <3>1, UnmainedType, NewMapping DEF ValidPort
    <3>3. next \in Raw /\ next.mappings = all
      BY <2>0, <3>2, WithMappings
    <3>4. \A m \in cur.mappings : Holds(next, m.id, m.port)
      BY <2>0, <3>3, UnmainedHolds DEF Holds
    <3> HIDE DEF next
    <3>5. Begin(t, "save", Args("add", id, port, next), {})
      BY <3>1 DEF next
    <3>6. "add" \in Ops /\ port \in Ports \cup Defaults \cup {0}
      BY DEF Ops
    <3> QED
      BY <1>3, <3>1, <3>3, <3>4, <3>5, <3>6
  <2>3. CASE UpdateMultiProxy(t)
    <3>1. PICK k \in cur.mappings, port \in Ports, main \in BOOLEAN :
            /\ ValidPort(port, k.id, cur)
            /\ Begin(t, "save",
                 Args("update", k.id, port,
                      [cur EXCEPT !.mappings =
                         Unmained(cur.mappings \ {k}, main)
                           \cup {[id |-> k.id, port |-> port, main |-> main]}]), {})
            /\ UNCHANGED <<cur, multi>>
      BY <2>3 DEF UpdateMultiProxy
    <3> DEFINE others == cur.mappings \ {k}
               all == Unmained(others, main) \cup {[id |-> k.id, port |-> port, main |-> main]}
               next == [cur EXCEPT !.mappings = all]
    <3>2. k.id \in Ids /\ others \in SUBSET Mapping
      BY <2>0 DEF Mapping
    <3>3. all \in SUBSET Mapping
      BY <3>1, <3>2, UnmainedType, NewMapping DEF ValidPort
    <3>4. next \in Raw /\ next.mappings = all
      BY <2>0, <3>3, WithMappings
    <3>5. \A m \in cur.mappings : m.id = k.id \/ Holds(next, m.id, m.port)
      <4>1. TAKE m \in cur.mappings
      <4>2. m # k => \E x \in Unmained(others, main) : x.id = m.id /\ x.port = m.port
        BY <3>1, <3>2, UnmainedHolds
      <4> QED
        BY <3>4, <4>2 DEF Holds
    <3> HIDE DEF next
    <3>6. Begin(t, "save", Args("update", k.id, port, next), {})
      BY <3>1 DEF next
    <3>7. "update" \in Ops /\ port \in Ports \cup Defaults \cup {0}
      BY DEF Ops
    <3> QED
      BY <1>3, <3>1, <3>2, <3>4, <3>5, <3>6, <3>7
  <2>4. CASE RemoveMultiProxy(t)
    <3>1. PICK id \in Ids : /\ Begin(t, "stop", Args("remove", id, 0, Default), {})
                            /\ UNCHANGED <<cur, multi>>
      BY <2>4 DEF RemoveMultiProxy
    <3>2. "remove" \in Ops /\ id \in Ids \cup {None} /\ 0 \in Ports \cup Defaults \cup {0}
      BY DEF Ops
    <3> QED
      BY <1>3, <3>1, <3>2, DefaultNormal
  <2>5. CASE StopMultiProxy(t)
    <3>1. PICK id \in Ids : /\ Begin(t, "stop", Args("stop", id, 0, Default), {})
                            /\ UNCHANGED <<cur, multi>>
      BY <2>5 DEF StopMultiProxy
    <3>2. "stop" \in Ops /\ id \in Ids \cup {None} /\ 0 \in Ports \cup Defaults \cup {0}
      BY DEF Ops
    <3> QED
      BY <1>3, <3>1, <3>2, DefaultNormal
  <2>6. CASE StartMultiProxy(t)
    <3>1. PICK m \in cur.mappings : /\ Begin(t, "run", Args("start", m.id, m.port, Default), {})
                                   /\ UNCHANGED <<cur, multi>>
      BY <2>6 DEF StartMultiProxy
    <3>2. m.id \in Ids /\ m.port \in Ports \cup Defaults \cup {0} /\ "start" \in Ops
      BY <2>0 DEF Mapping, ValidPorts, Ops
    <3>3. Holds(cur, m.id, m.port)
      BY DEF Holds
    <3> QED
      BY <1>3, <3>1, <3>2, <3>3, DefaultNormal
  <2> QED
    BY <1>4, <2>1, <2>2, <2>3, <2>4, <2>5, <2>6 DEF Begins
<1>5. ASSUME NEW t \in Callers, Continues(t) PROVE Listed'
  <2>0. \A u \in Callers : u # t => pc[u] = "idle"
    BY <1>1, <1>5 DEF Continues, Save, PutReread, PutPorts, PutRunKey, Stop, RemoveFiltered, StartInstance,
         Return, Step, Goto, Alone
  <2>1. CASE Save(t)
    <3>1. pc[t] = "save" /\ happened' = happened /\ multi' = multi
      BY <2>1 DEF Save, Return, Step, Goto, pastVars
    <3>2. /\ pc'[t] \in {"idle", AfterSave(loc[t].op)}
          /\ \A u \in Callers : u # t => pc'[u] = "idle"
      BY <2>0, <2>1 DEF Save, Return, Step, Goto, TypeOK
    <3>3. CASE cur' = cur /\ pc'[t] = "idle"
      BY <1>1, <2>0, <3>1, <3>2, <3>3 DEF Listed, Holds
    <3>4. CASE cur' = Normalise(loc[t].next) /\ (pc'[t] = "stop" => loc' = loc)
      <4>1. pc'[t] = "stop" => loc[t].op = "update"
        BY <3>2 DEF AfterSave
      <4>2. pc'[t] \notin {"save", "filter", "run"}
        BY <3>2 DEF AfterSave
      <4>3. loc[t].op = "update" => pc'[t] \in {"idle", "stop"}
        BY <3>2 DEF AfterSave
      <4>4. ASSUME "put" \notin happened, NEW i \in Ids, multi[i] # None
            PROVE  Holds(cur', i, multi[i]) \/ (loc[t].op = "update" /\ loc[t].id = i)
        <5>1. loc[t].op # "put" /\ (loc[t].op = "remove" => i # loc[t].id)
          BY <1>1, <3>1, <4>4 DEF Listed
        <5>2. Holds(cur, i, multi[i])
          BY <1>1, <2>0, <3>1, <4>4 DEF Listed
        <5>3. (loc[t].op = "update" /\ loc[t].id = i) \/ Holds(loc[t].next, i, multi[i])
          <6>1. PICK m \in cur.mappings : m.id = i /\ m.port = multi[i]
            BY <5>2 DEF Holds
          <6> QED
            BY <1>1, <3>1, <5>1, <6>1 DEF Listed
        <5>4. loc[t].next \in Raw
          BY DEF TypeOK
        <5> QED
          BY <3>4, <5>3, <5>4, NormaliseHolds
      <4>5. pc'[t] = "idle" => loc[t].op # "update" \/ "put" \in happened \/ cur' = cur
        BY <2>1, <3>1 DEF Save, Return, Step, Goto, AfterSave, TypeOK
      <4> HIDE DEF Holds
      <4>6. CASE cur' = cur
        BY <3>3, <4>6, <1>1, <2>0, <3>1, <3>2, <3>4, <4>1, <4>2 DEF Listed, Holds
      <4>7. CASE cur' # cur
        BY <3>1, <3>2, <3>4, <4>1, <4>2, <4>3, <4>4, <4>5, <4>7 DEF Listed
      <4> QED
        BY <4>6, <4>7
    <3> QED
      BY <2>1, <3>3, <3>4 DEF Save, Return, Step, Goto, TypeOK
  <2>2. CASE PutReread(t) \/ PutPorts(t) \/ PutRunKey(t)
    <3>1. /\ pc[t] \in {"reread", "ports", "runkey"} /\ pc'[t] \in {"ports", "runkey", "idle"}
          /\ UNCHANGED <<cur, multi, happened>> /\ \A u \in Callers : u # t => pc'[u] = "idle"
      BY <2>0, <2>2 DEF PutReread, PutPorts, PutRunKey, Step, Return, Goto, TypeOK, pastVars
    <3> QED
      BY <1>1, <2>0, <3>1 DEF Listed, Holds
  <2>3. CASE Stop(t)
    <3>1. /\ pc[t] = "stop" /\ pc'[t] \in {"filter", "idle"} /\ UNCHANGED <<cur, happened>>
          /\ pc'[t] = "filter" => loc' = loc /\ loc[t].op = "remove"
          /\ \A u \in Callers : u # t => pc'[u] = "idle"
          /\ \A i \in Ids : multi'[i] = IF i = loc[t].id THEN None ELSE multi[i]
      BY <2>0, <2>3 DEF Stop, Step, Return, Goto, TypeOK, pastVars
    <3> QED
      BY <1>1, <2>0, <3>1 DEF Listed, Holds
  <2>4. CASE RemoveFiltered(t)
    <3> DEFINE rest == {m \in cur.mappings : m.id # loc[t].id}
               next == [cur EXCEPT !.mappings = rest]
    <3>1. /\ pc[t] = "filter" /\ pc'[t] = "save" /\ UNCHANGED <<cur, multi, happened>>
          /\ \A u \in Callers : u # t => pc'[u] = "idle"
      BY <2>0, <2>4 DEF RemoveFiltered, Goto, TypeOK, pastVars
    <3>2. cur \in Normal /\ rest \in SUBSET Mapping
      BY DEF TypeOK, Normal
    <3>3. next.mappings = rest
      BY <3>2, WithMappings
    <3>4. loc'[t].next = next /\ loc'[t].op = loc[t].op /\ loc'[t].id = loc[t].id
      BY <2>4 DEF RemoveFiltered, TypeOK
    <3>5. loc[t].op = "remove"
      BY <1>1, <3>1 DEF Listed
    <3>6. \A m \in cur.mappings : m.id = loc[t].id \/ Holds(next, m.id, m.port)
      BY <3>3 DEF Holds
    <3> HIDE DEF next
    <3> QED
      BY <1>1, <2>0, <3>1, <3>4, <3>5, <3>6 DEF Listed, Holds
  <2>5. CASE StartInstance(t)
    <3>1. /\ pc[t] = "run" /\ pc'[t] = "idle" /\ UNCHANGED <<cur, happened>>
          /\ \A u \in Callers : u # t => pc'[u] = "idle"
          /\ \A i \in Ids : multi'[i] = multi[i] \/ (i = loc[t].id /\ multi'[i] = loc[t].port)
      BY <2>0, <2>5 DEF StartInstance, Return, Goto, TypeOK, pastVars
    <3> QED
      BY <1>1, <2>0, <3>1 DEF Listed, Holds
  <2> QED
    BY <1>5, <2>1, <2>2, <2>3, <2>4, <2>5 DEF Continues
<1>6. CASE StopAllMulti
  <2>1. \A u \in Callers : pc'[u] = "idle"
    BY <1>2, <1>6 DEF StopAllMulti, callVars, Quiet
  <2>2. \A i \in Ids : multi'[i] = None
    BY <1>6 DEF StopAllMulti
  <2> QED
    BY <2>1, <2>2 DEF Listed
<1>7. CASE Restart
  <2>1. (\A u \in Callers : pc'[u] = "idle") /\ \A i \in Ids : multi'[i] = None
    BY <1>7 DEF Restart
  <2> QED
    BY <2>1 DEF Listed
<1>8. CASE UNCHANGED vars
  BY <1>1, <1>8 DEF vars, callVars, pastVars, Listed, Holds
<1> QED
  BY <1>4, <1>5, <1>6, <1>7, <1>8 DEF Next

\* With one call at a time, and until the settings page is saved, a running
\* proxy is listed, with the port it listens on.
THEOREM SettingsRunsAsConfigured == Spec => []RunsAsConfigured
<1>1. Init => AloneInv /\ ListedInv
  BY DEF Init, AloneInv, Alone, PortsOf, ListedInv, Listed
<1>2. ListedInv => RunsAsConfigured
  BY DEF ListedInv, Listed, Holds, RunsAsConfigured, Quiet
<1> QED
  BY <1>1, <1>2, AloneNext, ListedNext, SettingsTypes, SettingsDiskIsMemory, PTL DEF Spec

LEMMA KeptStep ==
  ASSUME Types, AloneInv, ListedInv, DiskIsMemory, [Next]_vars, OneAtATime', file # Torn,
         NEW m \in cur.mappings
  PROVE  \/ Holds(cur', m.id, m.port)
         \/ \E t \in Callers : pc[t] = "save" /\
              (loc[t].op = "put" \/ (loc[t].op \in {"update", "remove"} /\ loc[t].id = m.id))
<1> USE DEF Types
<1>1. Holds(cur, m.id, m.port)
  BY DEF Holds
<1>2. ASSUME NEW t \in Callers, Save(t), cur' # cur
      PROVE  \/ Holds(cur', m.id, m.port)
             \/ loc[t].op = "put" \/ (loc[t].op \in {"update", "remove"} /\ loc[t].id = m.id)
  <2>1. pc[t] = "save" /\ cur' = Normalise(loc[t].next) /\ OneAtATime
    BY <1>2 DEF Save, Return, Step, Goto, pastVars, OneAtATime
  <2>2. loc[t].next \in Raw
    BY DEF TypeOK
  <2> QED
    BY <2>1, <2>2, NormaliseHolds DEF ListedInv, Listed
<1>3. CASE Restart
  <2>1. Quiet
    BY <1>3 DEF Restart, Happens, OneAtATime
  <2>2. file' = file /\ cur' = Loaded(file')
    BY <1>3, <2>1 DEF Restart, Quiet
  <2>3. cur' = cur
    BY <2>2 DEF DiskIsMemory
  <2> QED
    BY <1>1, <2>3
<1>4. CASE cur' = cur
  BY <1>1, <1>4
<1>5. ~Restart /\ cur' # cur => \E t \in Callers : Save(t) /\ pc[t] = "save"
  BY DEF Next, Begins, Continues, PutSettings, AddMultiProxy, UpdateMultiProxy, RemoveMultiProxy,
         StopMultiProxy, StartMultiProxy, Save, Return, Step, Goto, PutReread, PutPorts, PutRunKey, Stop,
         RemoveFiltered, StartInstance, StopAllMulti, vars
<1> QED
  BY <1>2, <1>3, <1>4, <1>5

\* With one call at a time a mapping goes, or changes its port, only by a call
\* about it.
THEOREM SettingsMappingsKept == Spec => MappingsKept
<1> DEFINE Kept ==
      \A m \in cur.mappings :
        \/ \E n \in cur'.mappings : n.id = m.id /\ n.port = m.port
        \/ \E t \in Callers : pc[t] = "save" /\
             (loc[t].op = "put" \/ (loc[t].op \in {"update", "remove"} /\ loc[t].id = m.id))
        \/ ~OneAtATime' \/ file = Torn
<1>1. Types /\ AloneInv /\ ListedInv /\ DiskIsMemory /\ [Next]_vars => Kept
  BY KeptStep DEF Holds
<1>2. Init => AloneInv /\ ListedInv
  BY DEF Init, AloneInv, Alone, PortsOf, ListedInv, Listed
<1>3. Spec => [](Types /\ AloneInv /\ ListedInv /\ DiskIsMemory)
  BY <1>2, AloneNext, ListedNext, SettingsTypes, SettingsDiskIsMemory, PTL DEF Spec
<1>4. Types /\ AloneInv /\ ListedInv /\ DiskIsMemory /\ [Next]_vars => [Kept]_vars
  BY <1>1
<1>5. Spec => [][Kept]_vars
  BY <1>3, <1>4, PTL DEF Spec
<1> QED
  BY <1>5 DEF MappingsKept

-----------------------------------------------------------------------------
\* Routing: the outbound is that of the first rule that matches.
LEMMA MinIsLeast ==
  ASSUME NEW S \in SUBSET Nat, S # {}
  PROVE  Min(S) \in S /\ \A y \in S : Min(S) <= y
<1>1. PICK x \in S : \A y \in S : <<y, x>> \notin OpToRel(<, Nat)
  BY NatLessThanWellFounded, WFMin
<1>2. ASSUME NEW y \in S PROVE x <= y
  <2>1. x \in Nat /\ y \in Nat /\ <<y, x>> \in Nat \X Nat
    OBVIOUS
  <2>2. y < x => <<y, x>> \in OpToRel(<, Nat)
    BY <2>1 DEF OpToRel
  <2>3. ~(y < x)
    BY <1>1, <2>2, Zenon
  <2> QED
    BY <2>1, <2>3
<1> QED
  BY <1>2 DEF Min

\* Some rule matches; every rule leads to the same place.
Some(rules, d) == \E i \in 1 .. Len(rules) : Matches(rules[i], d)
AllTo(rules, to) == \A i \in 1 .. Len(rules) : rules[i].to = to

\* The outbound is that of the first rule that matches.
LEMMA OutboundIsFirst ==
  ASSUME NEW R, NEW rules \in Seq(R), NEW default, NEW d
  PROVE  \/ ~Some(rules, d) /\ Outbound(rules, default, d) = default
         \/ \E i \in 1 .. Len(rules) :
              /\ Matches(rules[i], d) /\ \A j \in 1 .. i - 1 : ~Matches(rules[j], d)
              /\ Outbound(rules, default, d) = rules[i].to
<1> DEFINE I == {i \in 1 .. Len(rules) : Matches(rules[i], d)}
<1>1. SelectInSeq(rules, LAMBDA r : Matches(r, d)) = IF I # {} THEN Min(I) ELSE 0
  BY DEF SelectInSeq
<1>2. Len(rules) \in Nat /\ I \in SUBSET Nat /\ (I = {} <=> ~Some(rules, d))
  BY DEF Some
<1>3. CASE I = {}
  BY <1>1, <1>2, <1>3 DEF Outbound
<1>4. CASE I # {}
  <2>1. Min(I) \in I /\ \A y \in I : Min(I) <= y
    BY <1>2, <1>4, MinIsLeast
  <2>2. Outbound(rules, default, d) = rules[Min(I)].to
    BY <1>1, <1>4, <2>1 DEF Outbound
  <2>3. Min(I) \in 1 .. Len(rules) /\ Matches(rules[Min(I)], d)
    BY <2>1
  <2>4. \A j \in 1 .. Min(I) - 1 : ~Matches(rules[j], d)
    BY <1>2, <2>1
  <2> HIDE DEF I
  <2> QED
    BY <2>2, <2>3, <2>4
<1> QED
  BY <1>3, <1>4

LEMMA OutboundOfAll ==
  ASSUME NEW R, NEW rules \in Seq(R), NEW default, NEW d, NEW to, AllTo(rules, to)
  PROVE  Outbound(rules, default, d) = IF Some(rules, d) THEN to ELSE default
  BY OutboundIsFirst DEF Some, AllTo

\* Rules that all lead to one place shadow what follows them, or leave it be.
LEMMA OutboundOfConcat ==
  ASSUME NEW R, NEW a \in Seq(R), NEW b \in Seq(R), NEW default, NEW d, NEW to, AllTo(a, to)
  PROVE  Outbound(a \o b, default, d) =
           IF Some(a, d) THEN to ELSE Outbound(b, default, d)
<1> DEFINE ab == a \o b
<1>1. /\ ab \in Seq(R) /\ Len(ab) = Len(a) + Len(b) /\ Len(a) \in Nat /\ Len(b) \in Nat
      /\ \A i \in 1 .. Len(ab) : ab[i] = IF i <= Len(a) THEN a[i] ELSE b[i - Len(a)]
  BY ConcatProperties
<1>2. \A i \in 1 .. Len(a) : ab[i] = a[i]
  BY <1>1
<1>3. \A i \in 1 .. Len(b) : ab[i + Len(a)] = b[i]
  BY <1>1
<1>5. \/ ~Some(b, d) /\ Outbound(b, default, d) = default
      \/ \E i \in 1 .. Len(b) :
           /\ Matches(b[i], d) /\ \A j \in 1 .. i - 1 : ~Matches(b[j], d)
           /\ Outbound(b, default, d) = b[i].to
  BY OutboundIsFirst
<1> HIDE DEF ab
<1>4. \/ ~Some(ab, d) /\ Outbound(ab, default, d) = default
      \/ \E i \in 1 .. Len(ab) :
           /\ Matches(ab[i], d) /\ \A j \in 1 .. i - 1 : ~Matches(ab[j], d)
           /\ Outbound(ab, default, d) = ab[i].to
  <2> DEFINE First(s) ==
        \/ ~Some(s, d) /\ Outbound(s, default, d) = default
        \/ \E i \in 1 .. Len(s) :
             /\ Matches(s[i], d) /\ \A j \in 1 .. i - 1 : ~Matches(s[j], d)
             /\ Outbound(s, default, d) = s[i].to
  <2>1. \A s \in Seq(R) : First(s)
    BY OutboundIsFirst
  <2> HIDE DEF First
  <2>2. First(ab)
    BY <1>1, <2>1
  <2> QED
    BY <2>2 DEF First
<1>6. CASE Some(a, d)
  <2>1. PICK k \in 1 .. Len(a) : Matches(a[k], d)
    BY <1>6 DEF Some
  <2>2. k \in 1 .. Len(ab) /\ Matches(ab[k], d)
    BY <1>1, <1>2, <2>1
  <2>3. PICK i \in 1 .. Len(ab) :
           /\ Matches(ab[i], d) /\ \A j \in 1 .. i - 1 : ~Matches(ab[j], d)
           /\ Outbound(ab, default, d) = ab[i].to
    BY <1>4, <2>2 DEF Some
  <2>4. i <= k
    BY <1>1, <2>2, <2>3
  <2>5. i \in 1 .. Len(a) /\ ab[i] = a[i]
    BY <1>1, <1>2, <2>4
  <2> QED
    BY <1>6, <2>3, <2>5 DEF AllTo, ab
<1>7. CASE ~Some(a, d)
  <2>1. \A i \in 1 .. Len(a) : ~Matches(ab[i], d)
    BY <1>2, <1>7 DEF Some
  <2>2. CASE Some(b, d)
    <3>1. PICK i \in 1 .. Len(b) :
           /\ Matches(b[i], d) /\ \A j \in 1 .. i - 1 : ~Matches(b[j], d)
           /\ Outbound(b, default, d) = b[i].to
      BY <1>5, <2>2
    <3>2. i + Len(a) \in 1 .. Len(ab) /\ Matches(ab[i + Len(a)], d)
      BY <1>1, <1>3, <3>1
    <3>3. PICK k \in 1 .. Len(ab) :
           /\ Matches(ab[k], d) /\ \A j \in 1 .. k - 1 : ~Matches(ab[j], d)
           /\ Outbound(ab, default, d) = ab[k].to
      BY <1>4, <3>2 DEF Some
    <3>4. k > Len(a) /\ k <= i + Len(a)
      BY <1>1, <2>1, <3>2, <3>3
    <3>5. k - Len(a) \in 1 .. Len(b) /\ ab[k] = b[k - Len(a)]
      BY <1>1, <3>4
    <3>6. k - Len(a) = i
      <4>1. k - Len(a) \notin 1 .. i - 1
        BY <3>1, <3>3, <3>5
      <4>2. i \in Int /\ k \in Int /\ Len(a) \in Int
        BY <1>1
      <4>3. k - Len(a) \in Int /\ k - Len(a) >= 1 /\ k - Len(a) <= i
        BY <3>4, <4>2
      <4> HIDE DEF ab
      <4> QED
        BY <4>1, <4>2, <4>3
    <3> QED
      BY <1>7, <3>1, <3>3, <3>5, <3>6 DEF ab
  <2>3. CASE ~Some(b, d)
    <3>1. \A i \in 1 .. Len(ab) : ~Matches(ab[i], d)
      <4> SUFFICES ASSUME NEW i \in 1 .. Len(ab), i > Len(a) PROVE ~Matches(ab[i], d)
        BY <1>1, <2>1
      <4>1. i - Len(a) \in 1 .. Len(b) /\ ab[i] = b[i - Len(a)]
        BY <1>1
      <4> QED
        BY <4>1, <2>3 DEF Some
    <3> QED
      BY <1>4, <1>5, <1>7, <2>3, <3>1 DEF Some, ab
  <2> QED
    BY <2>2, <2>3
<1> QED
  BY <1>6, <1>7

\* What lists of rules put together match, and where they lead.
LEMMA SomeOfConcat ==
  ASSUME NEW R, NEW a \in Seq(R), NEW b \in Seq(R), NEW d, NEW to
  PROVE  /\ a \o b \in Seq(R)
         /\ Some(a \o b, d) <=> Some(a, d) \/ Some(b, d)
         /\ AllTo(a, to) /\ AllTo(b, to) => AllTo(a \o b, to)
<1> DEFINE ab == a \o b
<1>1. /\ ab \in Seq(R) /\ Len(ab) = Len(a) + Len(b) /\ Len(a) \in Nat /\ Len(b) \in Nat
      /\ \A i \in 1 .. Len(ab) : ab[i] = IF i <= Len(a) THEN a[i] ELSE b[i - Len(a)]
  BY ConcatProperties
<1>2. \A i \in 1 .. Len(a) : i \in 1 .. Len(ab) /\ ab[i] = a[i]
  BY <1>1
<1>3. \A i \in 1 .. Len(b) : i + Len(a) \in 1 .. Len(ab) /\ ab[i + Len(a)] = b[i]
  BY <1>1
<1>4. \A i \in 1 .. Len(ab) :
        \/ i \in 1 .. Len(a) /\ ab[i] = a[i]
        \/ i - Len(a) \in 1 .. Len(b) /\ ab[i] = b[i - Len(a)]
  BY <1>1
<1> HIDE DEF ab
<1>5. Some(ab, d) <=> Some(a, d) \/ Some(b, d)
  BY <1>2, <1>3, <1>4 DEF Some
<1>6. AllTo(a, to) /\ AllTo(b, to) => AllTo(ab, to)
  BY <1>4 DEF AllTo
<1> QED
  BY <1>1, <1>5, <1>6 DEF ab

Places == {"direct", "block", "hijack-dns", "dns-direct"}
Rules == [names : SUBSET Names, addrs : SUBSET Addrs, dns : BOOLEAN, to : Places]

LEMMA RuleIs ==
  ASSUME NEW names \in SUBSET Names, NEW addrs \in SUBSET Addrs, NEW to \in Places, NEW d
  PROVE  /\ Rule(names, addrs, to) \in Rules /\ Rule(names, addrs, to).to = to
         /\ Matches(Rule(names, addrs, to), d) <=> d.name \in names \/ d.addr \in addrs
  BY DEF Rule, Rules, Matches

LEMMA NamesRule ==
  ASSUME NEW names \in SUBSET Names, NEW to \in Places, NEW d
  PROVE  /\ Rule(names, {}, to) \in Rules /\ Rule(names, {}, to).to = to
         /\ Matches(Rule(names, {}, to), d) <=> d.name \in names
  BY DEF Rule, Rules, Matches

LEMMA AddrsRule ==
  ASSUME NEW addrs \in SUBSET Addrs, NEW to \in Places, NEW d
  PROVE  /\ Rule({}, addrs, to) \in Rules /\ Rule({}, addrs, to).to = to
         /\ Matches(Rule({}, addrs, to), d) <=> d.addr \in addrs
  BY DEF Rule, Rules, Matches

LEMMA TwoRules ==
  ASSUME NEW r \in Rules, NEW s \in Rules
  PROVE  <<r, s>> = <<r>> \o <<s>>
<1>1. <<r>> \in Seq(Rules) /\ <<s>> \in Seq(Rules) /\ <<r, s>> \in Seq(Rules)
  OBVIOUS
<1>2. /\ <<r>> \o <<s>> \in Seq(Rules) /\ Len(<<r>> \o <<s>>) = 2
      /\ (<<r>> \o <<s>>)[1] = r /\ (<<r>> \o <<s>>)[2] = s
  BY <1>1, ConcatProperties
<1> DEFINE u == <<r>> \o <<s>>
           v == <<r, s>>
<1>3. v \in Seq(Rules) /\ Len(v) = 2 /\ v[1] = r /\ v[2] = s
  BY <1>1
<1>4. u \in Seq(Rules) /\ Len(u) = 2 /\ u[1] = r /\ u[2] = s
  BY <1>2
<1> HIDE DEF u, v
<1>5. Len(v) = Len(u) /\ \A i \in 1 .. Len(v) : v[i] = u[i]
  <2>1. \A i \in 1 .. 2 : i = 1 \/ i = 2
    OBVIOUS
  <2> QED
    BY <1>3, <1>4, <2>1
<1>6. v = u
  BY <1>3, <1>4, <1>5, SeqEqual
<1> QED
  BY <1>6 DEF u, v

LEMMA OneRule ==
  ASSUME NEW r \in Rules, NEW d
  PROVE  /\ <<r>> \in Seq(Rules) /\ AllTo(<<r>>, r.to)
         /\ Some(<<r>>, d) <=> Matches(r, d)
  BY DEF Some, AllTo
LEMMA IfRule ==
  ASSUME NEW c \in BOOLEAN, NEW r \in Rules, NEW d
  PROVE  /\ If(c, <<r>>) \in Seq(Rules) /\ AllTo(If(c, <<r>>), r.to)
         /\ Some(If(c, <<r>>), d) <=> c /\ Matches(r, d)
<1>1. <<>> \in Seq(Rules) /\ AllTo(<<>>, r.to) /\ ~Some(<<>>, d)
  BY DEF Some, AllTo
<1> QED
  BY <1>1, OneRule DEF If

\* A suffix of a name is somewhere in it.
LEMMA UnderIsWithin ==
  ASSUME NEW n \in Seq(STRING), NEW l \in Seq(STRING), Under(n, l)
  PROVE  Within(n, l)
<1> DEFINE k == Len(n) - Len(l)
<1>1. Len(n) \in Nat /\ Len(l) \in Nat /\ Len(Reverse(n)) = Len(n) /\ Len(Reverse(l)) = Len(l)
  BY DEF Reverse
<1>2. /\ Reverse(n) \in Seq(STRING) /\ Reverse(l) \in Seq(STRING)
      /\ \A i \in 1 .. Len(n) : Reverse(n)[i] = n[(Len(n) - i) + 1]
      /\ \A i \in 1 .. Len(l) : Reverse(l)[i] = l[(Len(l) - i) + 1]
  BY <1>1 DEF Reverse
<1>3. Len(l) <= Len(n) /\ SubSeq(Reverse(l), 1, Len(l)) = SubSeq(Reverse(n), 1, Len(l))
  BY <1>1 DEF Under, IsSuffix, IsPrefix
<1>4. \A i \in 1 .. Len(l) : Reverse(l)[i] = Reverse(n)[i]
  BY <1>1, <1>2, <1>3
<1>5. \A i \in 1 .. Len(l) : l[i] = n[k + i]
  <2>1. TAKE i \in 1 .. Len(l)
  <2>2. (Len(l) - i) + 1 \in 1 .. Len(l) /\ (Len(l) - i) + 1 \in 1 .. Len(n)
    BY <1>1, <1>3
  <2>3. Reverse(l)[(Len(l) - i) + 1] = Reverse(n)[(Len(l) - i) + 1]
    BY <1>4, <2>2
  <2>4. (Len(l) - ((Len(l) - i) + 1)) + 1 = i /\ (Len(n) - ((Len(l) - i) + 1)) + 1 = k + i
    BY <1>1
  <2> QED
    BY <1>2, <2>2, <2>3, <2>4
<1>6. k \in 0 .. Len(n) - Len(l)
  BY <1>1, <1>3
<1>7. /\ SubSeq(n, k + 1, k + Len(l)) \in Seq(STRING)
      /\ Len(SubSeq(n, k + 1, k + Len(l))) = Len(l)
      /\ \A i \in 1 .. Len(l) : SubSeq(n, k + 1, k + Len(l))[i] = n[k + i]
  BY <1>1, <1>3, SubSeqProperties
<1>8. SubSeq(n, k + 1, k + Len(l)) = l
  BY <1>1, <1>5, <1>7, SeqEqual
<1> QED
  BY <1>6, <1>8 DEF Within

LEMMA OptionsAre ==
  ASSUME NEW list \in SUBSET Entries, NEW russia \in BOOLEAN
  PROVE  LET o == RouteOptions(list, russia)
         IN  /\ o.domains \in SUBSET Entries /\ o.ipcidrs \in SUBSET Addrs /\ o.russia = russia
             /\ \A e \in o.domains : e.labels \in Seq(STRING)
<1> DEFINE o == RouteOptions(list, russia)
<1>1. o.domains = {e \in list : ~LooksLikeIPOrCIDR(e)} /\ o.russia = russia
  BY DEF RouteOptions
<1>2. o.ipcidrs = UNION {e.addrs : e \in {f \in list : LooksLikeIPOrCIDR(f)}}
  BY DEF RouteOptions
<1>3. \A e \in list : e.addrs \in SUBSET Addrs /\ e.labels \in Seq(STRING)
  <2>1. <<>> \in Seq(STRING)
    OBVIOUS
  <2> QED
    BY <2>1, RoutingAssumption DEF Entries
<1>4. o.ipcidrs \in SUBSET Addrs
  BY <1>2, <1>3
<1> QED
  BY <1>1, <1>3, <1>4

\* The rules xray is given: the connections they send past the tunnel.
LEMMA XrayIs ==
  ASSUME NEW o, o.domains \in SUBSET Entries, o.ipcidrs \in SUBSET Addrs, o.russia \in BOOLEAN,
         NEW d \in Dests
  PROVE  XrayOutbound(o, d) =
           IF \/ d.name \in XrayNames(o.domains) \/ d.addr \in o.ipcidrs
              \/ o.russia /\ d.name \in Names /\ Under(d.name, <<"ru">>)
              \/ o.russia /\ d.addr \in GeoIP
           THEN "direct" ELSE "proxy"
<1> DEFINE r1 == Rule(XrayNames(o.domains), {}, "direct")
           r2 == Rule({}, o.ipcidrs, "direct")
           r3 == Rule({n \in Names : Under(n, <<"ru">>)}, {}, "direct")
           r4 == Rule({}, GeoIP, "direct")
           R1 == If(o.domains # {}, <<r1>>)
           R2 == If(o.ipcidrs # {}, <<r2>>)
           R3 == If(o.russia, <<r3>>)
           R4 == If(o.russia, <<r4>>)
<1>1. /\ r1 \in Rules /\ r1.to = "direct" /\ (Matches(r1, d) <=> d.name \in XrayNames(o.domains))
      /\ r2 \in Rules /\ r2.to = "direct" /\ (Matches(r2, d) <=> d.addr \in o.ipcidrs)
      /\ r3 \in Rules /\ r3.to = "direct"
      /\ (Matches(r3, d) <=> d.name \in Names /\ Under(d.name, <<"ru">>))
      /\ r4 \in Rules /\ r4.to = "direct" /\ (Matches(r4, d) <=> d.addr \in GeoIP)
  <2>1. XrayNames(o.domains) \in SUBSET Names /\ GeoIP \in SUBSET Addrs
    BY RoutingAssumption DEF XrayNames
  <2>2. r1 \in Rules /\ r1.to = "direct" /\ (Matches(r1, d) <=> d.name \in XrayNames(o.domains))
    BY <2>1, RuleIs, NamesRule, AddrsRule DEF Places
  <2>3. r2 \in Rules /\ r2.to = "direct" /\ (Matches(r2, d) <=> d.addr \in o.ipcidrs)
    BY RuleIs, NamesRule, AddrsRule DEF Places
  <2>4. /\ r3 \in Rules /\ r3.to = "direct"
        /\ (Matches(r3, d) <=> d.name \in Names /\ Under(d.name, <<"ru">>))
    BY RuleIs, NamesRule, AddrsRule DEF Places
  <2>5. r4 \in Rules /\ r4.to = "direct" /\ (Matches(r4, d) <=> d.addr \in GeoIP)
    BY <2>1, RuleIs, NamesRule, AddrsRule DEF Places
  <2> QED
    BY <2>2, <2>3, <2>4, <2>5
<1>2. If(o.russia, <<r3, r4>>) = R3 \o R4
  <2> HIDE DEF r3, r4
  <2>1. <<r3, r4>> = <<r3>> \o <<r4>>
    BY <1>1, TwoRules
  <2>2. <<>> = <<>> \o <<>>
    OBVIOUS
  <2> QED
    BY <2>1, <2>2 DEF If
<1> HIDE DEF r1, r2, r3, r4
<1>3. /\ R1 \in Seq(Rules) /\ AllTo(R1, "direct")
      /\ Some(R1, d) <=> o.domains # {} /\ d.name \in XrayNames(o.domains)
  BY <1>1, IfRule
<1>4. /\ R2 \in Seq(Rules) /\ AllTo(R2, "direct")
      /\ Some(R2, d) <=> o.ipcidrs # {} /\ d.addr \in o.ipcidrs
  BY <1>1, IfRule
<1>5. /\ R3 \in Seq(Rules) /\ AllTo(R3, "direct")
      /\ Some(R3, d) <=> o.russia /\ d.name \in Names /\ Under(d.name, <<"ru">>)
  BY <1>1, IfRule
<1>6. /\ R4 \in Seq(Rules) /\ AllTo(R4, "direct")
      /\ Some(R4, d) <=> o.russia /\ d.addr \in GeoIP
  BY <1>1, IfRule
<1>7. XrayRoutingRules(o) = (R1 \o R2) \o (R3 \o R4)
  BY <1>2 DEF XrayRoutingRules, r1, r2, r3, r4
<1> HIDE DEF R1, R2, R3, R4
<1>8. /\ R1 \o R2 \in Seq(Rules) /\ AllTo(R1 \o R2, "direct")
      /\ Some(R1 \o R2, d) <=> Some(R1, d) \/ Some(R2, d)
      /\ R3 \o R4 \in Seq(Rules) /\ AllTo(R3 \o R4, "direct")
      /\ Some(R3 \o R4, d) <=> Some(R3, d) \/ Some(R4, d)
  BY <1>3, <1>4, <1>5, <1>6, SomeOfConcat
<1> DEFINE L == R1 \o R2
           M == R3 \o R4
<1>9. /\ L \in Seq(Rules) /\ AllTo(L, "direct") /\ M \in Seq(Rules) /\ AllTo(M, "direct")
  BY <1>8
<1>10. XrayOutbound(o, d) =
         IF Some(L, d) THEN "direct" ELSE IF Some(M, d) THEN "direct" ELSE "proxy"
  <2>1. XrayOutbound(o, d) = Outbound(L \o M, "proxy", d)
    BY <1>7 DEF XrayOutbound
  <2> HIDE DEF L, M
  <2>2. Outbound(L \o M, "proxy", d) = IF Some(L, d) THEN "direct" ELSE Outbound(M, "proxy", d)
    BY <1>9, OutboundOfConcat
  <2>3. Outbound(M, "proxy", d) = IF Some(M, d) THEN "direct" ELSE "proxy"
    BY <1>9, OutboundOfAll
  <2> QED
    BY <2>1, <2>2, <2>3
<1>11. d.name \in XrayNames(o.domains) => o.domains # {}
  BY DEF XrayNames
<1> QED
  BY <1>3, <1>4, <1>5, <1>6, <1>8, <1>10, <1>11

\* The rules sing-box is given, in the order that matters.
LEMMA SingIs ==
  ASSUME NEW o, o.domains \in SUBSET Entries, o.ipcidrs \in SUBSET Addrs, o.russia \in BOOLEAN,
         NEW d \in Dests, ~d.dns
  PROVE  SingOutbound(o, d) =
           IF \/ d.name = Node /\ Node \in Names
              \/ d.name \in DnsSuffixes(o.domains) \/ d.addr \in o.ipcidrs
              \/ o.russia /\ (d.name \in GeoSite \/ d.addr \in GeoIP)
           THEN "direct" ELSE IF d.addr \in V6 THEN "block" ELSE "vless-out"
<1> DEFINE r0 == [Rule({}, {}, "hijack-dns") EXCEPT !.dns = TRUE]
           rn == Rule({Node} \cap Names, {}, "direct")
           r1 == Rule(DnsSuffixes(o.domains), {}, "direct")
           r2 == Rule({}, o.ipcidrs, "direct")
           r3 == Rule(GeoSite, GeoIP, "direct")
           r6 == Rule({}, V6, "block")
           R1 == If(o.domains # {}, <<r1>>)
           R2 == If(o.ipcidrs # {}, <<r2>>)
           R3 == If(o.russia, <<r3>>)
<1>1. /\ r0 \in Rules /\ r0.to = "hijack-dns" /\ ~Matches(r0, d)
      /\ rn \in Rules /\ rn.to = "direct" /\ (Matches(rn, d) <=> d.name = Node /\ Node \in Names)
      /\ r1 \in Rules /\ r1.to = "direct" /\ (Matches(r1, d) <=> d.name \in DnsSuffixes(o.domains))
      /\ r2 \in Rules /\ r2.to = "direct" /\ (Matches(r2, d) <=> d.addr \in o.ipcidrs)
      /\ r3 \in Rules /\ r3.to = "direct"
      /\ (Matches(r3, d) <=> d.name \in GeoSite \/ d.addr \in GeoIP)
      /\ r6 \in Rules /\ r6.to = "block" /\ (Matches(r6, d) <=> d.addr \in V6)
  <2>1. /\ DnsSuffixes(o.domains) \in SUBSET Names /\ GeoIP \in SUBSET Addrs
        /\ GeoSite \in SUBSET Names /\ V6 \in SUBSET Addrs /\ {Node} \cap Names \in SUBSET Names
    BY RoutingAssumption DEF DnsSuffixes
  <2> DEFINE r == Rule({}, {}, "hijack-dns")
  <2>2. r \in Rules /\ r.names = {} /\ r.addrs = {} /\ r.to = "hijack-dns"
    BY DEF Rule, Rules, Places
  <2> HIDE DEF r
  <2>3. r0 \in Rules /\ r0.to = "hijack-dns" /\ r0.names = {} /\ r0.addrs = {}
    <3>1. /\ [r EXCEPT !.dns = TRUE] \in Rules /\ [r EXCEPT !.dns = TRUE].to = r.to
          /\ [r EXCEPT !.dns = TRUE].names = r.names /\ [r EXCEPT !.dns = TRUE].addrs = r.addrs
      BY <2>2 DEF Rules
    <3> QED
      BY <2>2, <3>1 DEF r
  <2>4. ~Matches(r0, d)
    BY <2>3 DEF Matches
  <2>5. rn \in Rules /\ rn.to = "direct" /\ (Matches(rn, d) <=> d.name = Node /\ Node \in Names)
    BY <2>1, RuleIs, NamesRule, AddrsRule DEF Places
  <2>6. r1 \in Rules /\ r1.to = "direct" /\ (Matches(r1, d) <=> d.name \in DnsSuffixes(o.domains))
    BY <2>1, RuleIs, NamesRule, AddrsRule DEF Places
  <2>7. r2 \in Rules /\ r2.to = "direct" /\ (Matches(r2, d) <=> d.addr \in o.ipcidrs)
    BY RuleIs, NamesRule, AddrsRule DEF Places
  <2>8. /\ r3 \in Rules /\ r3.to = "direct"
        /\ (Matches(r3, d) <=> d.name \in GeoSite \/ d.addr \in GeoIP)
    BY <2>1, RuleIs, NamesRule, AddrsRule DEF Places
  <2>9. r6 \in Rules /\ r6.to = "block" /\ (Matches(r6, d) <=> d.addr \in V6)
    BY <2>1, RuleIs, NamesRule, AddrsRule DEF Places
  <2> QED
    BY <2>3, <2>4, <2>5, <2>6, <2>7, <2>8, <2>9
<1>2. SingRouteRules(o) = (<<r0, rn>> \o ((R1 \o R2) \o R3)) \o <<r6>>
  BY DEF SingRouteRules, SingOwnRules, SingUserRules, NoV6
<1> HIDE DEF r0, rn, r1, r2, r3, r6
<1>3. <<r0, rn>> = <<r0>> \o <<rn>>
  BY <1>1, TwoRules
<1>4. /\ <<r0>> \in Seq(Rules) /\ AllTo(<<r0>>, "hijack-dns") /\ ~Some(<<r0>>, d)
      /\ <<rn>> \in Seq(Rules) /\ AllTo(<<rn>>, "direct")
      /\ Some(<<rn>>, d) <=> d.name = Node /\ Node \in Names
      /\ <<r6>> \in Seq(Rules) /\ AllTo(<<r6>>, "block") /\ (Some(<<r6>>, d) <=> d.addr \in V6)
  BY <1>1, OneRule
<1>5. /\ R1 \in Seq(Rules) /\ AllTo(R1, "direct")
      /\ Some(R1, d) <=> o.domains # {} /\ d.name \in DnsSuffixes(o.domains)
  BY <1>1, IfRule
<1>6. /\ R2 \in Seq(Rules) /\ AllTo(R2, "direct")
      /\ Some(R2, d) <=> o.ipcidrs # {} /\ d.addr \in o.ipcidrs
  BY <1>1, IfRule
<1>7. /\ R3 \in Seq(Rules) /\ AllTo(R3, "direct")
      /\ Some(R3, d) <=> o.russia /\ (d.name \in GeoSite \/ d.addr \in GeoIP)
  BY <1>1, IfRule
<1> DEFINE H == <<r0>>
           N == <<rn>>
           B == <<r6>>
           L == R1 \o R2
           U == L \o R3
           D == N \o U
<1> HIDE DEF R1, R2, R3, H, N, B
<1>8. /\ L \in Seq(Rules) /\ AllTo(L, "direct") /\ (Some(L, d) <=> Some(R1, d) \/ Some(R2, d))
  BY <1>5, <1>6, SomeOfConcat
<1> HIDE DEF L
<1>9. /\ U \in Seq(Rules) /\ AllTo(U, "direct") /\ (Some(U, d) <=> Some(L, d) \/ Some(R3, d))
  BY <1>7, <1>8, SomeOfConcat
<1> HIDE DEF U
<1>10. /\ N \in Seq(Rules) /\ AllTo(N, "direct") /\ (Some(N, d) <=> d.name = Node /\ Node \in Names)
       /\ H \in Seq(Rules) /\ AllTo(H, "hijack-dns") /\ ~Some(H, d)
       /\ B \in Seq(Rules) /\ AllTo(B, "block") /\ (Some(B, d) <=> d.addr \in V6)
  BY <1>4 DEF N, H, B
<1>11. /\ D \in Seq(Rules) /\ AllTo(D, "direct") /\ (Some(D, d) <=> Some(N, d) \/ Some(U, d))
  BY <1>9, <1>10, SomeOfConcat
<1>12. SingRouteRules(o) = H \o (D \o B)
  <2>1. SingRouteRules(o) = ((H \o N) \o U) \o B
    BY <1>2, <1>3 DEF H, N, U, L, B
  <2>2. (H \o N) \o U = H \o D
    BY <1>9, <1>10, ConcatAssociative
  <2> HIDE DEF D
  <2>3. (H \o D) \o B = H \o (D \o B)
    BY <1>10, <1>11, ConcatAssociative
  <2> QED
    BY <2>1, <2>2, <2>3
<1> HIDE DEF D
<1> DEFINE DB == D \o B
<1>13. DB \in Seq(Rules)
  BY <1>10, <1>11, SomeOfConcat
<1>14. Outbound(DB, "vless-out", d) = IF Some(D, d) THEN "direct" ELSE Outbound(B, "vless-out", d)
  BY <1>10, <1>11, OutboundOfConcat
<1> HIDE DEF DB
<1>15. Outbound(H \o DB, "vless-out", d) = Outbound(DB, "vless-out", d)
  BY <1>10, <1>13, OutboundOfConcat
<1>16. Outbound(B, "vless-out", d) = IF Some(B, d) THEN "block" ELSE "vless-out"
  BY <1>10, OutboundOfAll
<1>17. SingOutbound(o, d) =
         IF Some(D, d) THEN "direct" ELSE IF Some(B, d) THEN "block" ELSE "vless-out"
  BY <1>12, <1>14, <1>15, <1>16 DEF SingOutbound, DB
<1>18. d.name \in DnsSuffixes(o.domains) => o.domains # {}
  BY DEF DnsSuffixes
<1> QED
  BY <1>5, <1>6, <1>7, <1>8, <1>9, <1>10, <1>11, <1>17, <1>18

LEMMA ResolverIs ==
  ASSUME NEW o, o.domains \in SUBSET Entries, o.russia \in BOOLEAN, NEW n \in Names
  PROVE  SingResolver(o, n) =
           IF (o.russia /\ n \in GeoSite) \/ n \in DnsSuffixes(o.domains)
           THEN "dns-direct" ELSE "dns-remote"
<1> DEFINE q == [name |-> n, addr |-> NoName, dns |-> TRUE]
           r1 == Rule(GeoSite, {}, "dns-direct")
           r2 == Rule(DnsSuffixes(o.domains), {}, "dns-direct")
           R1 == If(o.russia, <<r1>>)
           R2 == If(o.domains # {}, <<r2>>)
<1>1. /\ r1 \in Rules /\ r1.to = "dns-direct" /\ (Matches(r1, q) <=> n \in GeoSite)
      /\ r2 \in Rules /\ r2.to = "dns-direct" /\ (Matches(r2, q) <=> n \in DnsSuffixes(o.domains))
  <2>1. DnsSuffixes(o.domains) \in SUBSET Names /\ GeoSite \in SUBSET Names
    BY RoutingAssumption DEF DnsSuffixes
  <2>2. q.name = n /\ q.addr \notin {}
    OBVIOUS
  <2> HIDE DEF q
  <2>3. r1 \in Rules /\ r1.to = "dns-direct" /\ (Matches(r1, q) <=> n \in GeoSite)
    BY <2>1, <2>2, RuleIs, NamesRule, AddrsRule DEF Places
  <2>4. r2 \in Rules /\ r2.to = "dns-direct" /\ (Matches(r2, q) <=> n \in DnsSuffixes(o.domains))
    BY <2>1, <2>2, RuleIs, NamesRule, AddrsRule DEF Places
  <2> QED
    BY <2>3, <2>4
<1>2. SingResolver(o, n) = Outbound(R1 \o R2, "dns-remote", q)
  BY DEF SingResolver, SingDnsRules
<1> HIDE DEF r1, r2, q
<1>3. /\ R1 \in Seq(Rules) /\ AllTo(R1, "dns-direct")
      /\ Some(R1, q) <=> o.russia /\ n \in GeoSite
  BY <1>1, IfRule
<1>4. /\ R2 \in Seq(Rules) /\ AllTo(R2, "dns-direct")
      /\ Some(R2, q) <=> o.domains # {} /\ n \in DnsSuffixes(o.domains)
  BY <1>1, IfRule
<1> HIDE DEF R1, R2
<1>5. Outbound(R1 \o R2, "dns-remote", q) =
        IF Some(R1, q) THEN "dns-direct" ELSE Outbound(R2, "dns-remote", q)
  BY <1>3, <1>4, OutboundOfConcat
<1>6. Outbound(R2, "dns-remote", q) = IF Some(R2, q) THEN "dns-direct" ELSE "dns-remote"
  BY <1>4, OutboundOfAll
<1>7. n \in DnsSuffixes(o.domains) => o.domains # {}
  BY DEF DnsSuffixes
<1> QED
  BY <1>2, <1>3, <1>4, <1>5, <1>6, <1>7

\* Every direct list is split off as the user asked.
THEOREM ListsSplitAsAsked ==
  ASSUME NEW list \in SUBSET Entries, NEW russia \in BOOLEAN
  PROVE  SplitsAsAsked(RouteOptions(list, russia))
<1> DEFINE o == RouteOptions(list, russia)
<1>1. /\ o.domains \in SUBSET Entries /\ o.ipcidrs \in SUBSET Addrs /\ o.russia \in BOOLEAN
      /\ \A e \in o.domains : e.labels \in Seq(STRING)
  BY OptionsAre
<1> HIDE DEF o
<1>2. SUFFICES ASSUME NEW d \in Dests, ~d.dns
      PROVE  /\ InList(o, d) => XrayOutbound(o, d) = "direct" /\ SingOutbound(o, d) = "direct"
             /\ XrayOutbound(o, d) = "direct" =>
                  InList(o, d) \/ Russian(o, d) \/ Keyword(o, d)
                  \/ (o.russia /\ d.name # NoName /\ Under(d.name, <<"ru">>))
             /\ SingOutbound(o, d) = "direct" => InList(o, d) \/ Russian(o, d) \/ d.name = Node
             /\ SingOutbound(o, d) = "vless-out" => d.addr \notin V6
  BY Zenon DEF SplitsAsAsked, o
<1> DEFINE x == XrayOutbound(o, d)
           s == SingOutbound(o, d)
<1>3. x = IF \/ d.name \in XrayNames(o.domains) \/ d.addr \in o.ipcidrs
             \/ o.russia /\ d.name \in Names /\ Under(d.name, <<"ru">>)
             \/ o.russia /\ d.addr \in GeoIP
          THEN "direct" ELSE "proxy"
  BY <1>1, <1>2, XrayIs
<1>4. s = IF \/ d.name = Node /\ Node \in Names
             \/ d.name \in DnsSuffixes(o.domains) \/ d.addr \in o.ipcidrs
             \/ o.russia /\ (d.name \in GeoSite \/ d.addr \in GeoIP)
          THEN "direct" ELSE IF d.addr \in V6 THEN "block" ELSE "vless-out"
  BY <1>1, <1>2, SingIs
<1> HIDE DEF x, s
<1>5. d.name \in Names \cup {NoName} /\ NoName \notin Names
  BY <1>2, RoutingAssumption DEF Dests
<1>6. d.name \in DnsSuffixes(o.domains) <=> d.name # NoName /\ \E e \in o.domains : Under(d.name, e.labels)
  BY <1>5 DEF DnsSuffixes
<1>7. d.name \in XrayNames(o.domains) <=>
        /\ d.name # NoName
        /\ \E e \in o.domains : IF e.dot THEN Under(d.name, e.labels) ELSE Within(d.name, e.labels)
  BY <1>5 DEF XrayNames
<1>8. \A e \in o.domains : d.name # NoName /\ Under(d.name, e.labels) => Within(d.name, e.labels)
  <2>1. d.name # NoName => d.name \in Seq(STRING)
    BY <1>5, RoutingAssumption
  <2> QED
    BY <1>1, <2>1, UnderIsWithin
<1>9. InList(o, d) <=> d.addr \in o.ipcidrs \/ d.name \in DnsSuffixes(o.domains)
  BY <1>6 DEF InList
<1>10. d.name \in DnsSuffixes(o.domains) => d.name \in XrayNames(o.domains)
  BY <1>6, <1>7, <1>8
<1>11. d.name \in XrayNames(o.domains) => d.name \in DnsSuffixes(o.domains) \/ Keyword(o, d)
  BY <1>6, <1>7 DEF Keyword
<1>12. InList(o, d) => x = "direct" /\ s = "direct"
  BY <1>3, <1>4, <1>9, <1>10
<1>13. x = "direct" =>
         InList(o, d) \/ Russian(o, d) \/ Keyword(o, d)
         \/ (o.russia /\ d.name # NoName /\ Under(d.name, <<"ru">>))
  BY <1>3, <1>5, <1>9, <1>11 DEF Russian
<1>14. s = "direct" => InList(o, d) \/ Russian(o, d) \/ d.name = Node
  BY <1>4, <1>9 DEF Russian
<1>15. s = "vless-out" => d.addr \notin V6
  BY <1>4
<1> QED
  BY <1>12, <1>13, <1>14, <1>15 DEF x, s

\* Where some address is neither Russian nor on the list, the names resolved
\* outside the tunnel are those every connection to which is direct.
THEOREM ListsResolveAsRouted ==
  ASSUME NEW list \in SUBSET Entries, NEW russia \in BOOLEAN,
         NEW a \in Addrs, a \notin GeoIP, \A e \in list : a \notin e.addrs
  PROVE  ResolvesAsRouted(RouteOptions(list, russia))
<1> DEFINE o == RouteOptions(list, russia)
<1>1. /\ o.domains \in SUBSET Entries /\ o.ipcidrs \in SUBSET Addrs /\ o.russia \in BOOLEAN
  BY OptionsAre
<1>2. a \notin o.ipcidrs
  BY DEF RouteOptions
<1> HIDE DEF o
<1>3. SUFFICES ASSUME NEW n \in Names \ {Node}
      PROVE  SingResolver(o, n) = "dns-direct" <=>
               \A b \in Addrs : SingOutbound(o, [name |-> n, addr |-> b, dns |-> FALSE]) = "direct"
  BY Zenon DEF ResolvesAsRouted, o
<1> DEFINE ByName == (o.russia /\ n \in GeoSite) \/ n \in DnsSuffixes(o.domains)
           d(b) == [name |-> n, addr |-> b, dns |-> FALSE]
<1>4. SingResolver(o, n) = "dns-direct" <=> ByName
  BY <1>1, ResolverIs
<1>5. ASSUME NEW b \in Addrs
      PROVE  SingOutbound(o, d(b)) = "direct" <=>
               ByName \/ b \in o.ipcidrs \/ (o.russia /\ b \in GeoIP)
  <2>1. d(b) \in Dests /\ d(b).name = n /\ d(b).addr = b /\ ~d(b).dns
    BY DEF Dests
  <2> DEFINE c == d(b)
  <2> HIDE DEF c
  <2>2. c \in Dests /\ c.name = n /\ c.addr = b /\ ~c.dns
    BY <2>1 DEF c
  <2>3. SingOutbound(o, c) =
          IF \/ c.name = Node /\ Node \in Names
             \/ c.name \in DnsSuffixes(o.domains) \/ c.addr \in o.ipcidrs
             \/ o.russia /\ (c.name \in GeoSite \/ c.addr \in GeoIP)
          THEN "direct" ELSE IF c.addr \in V6 THEN "block" ELSE "vless-out"
    BY <1>1, <2>2, SingIs
  <2> QED
    BY <1>3, <2>2, <2>3 DEF c
<1> QED
  BY <1>2, <1>4, <1>5

LEMMA ListsAreEntries == \A l \in Lists \cup {{}} : l \in SUBSET Entries
  BY SettingsAssumption

\* Whatever list and switch are in force, a listed destination goes past the
\* tunnel in both engines and nothing else does but what SplitsAsAsked names.
THEOREM SettingsSplitTunnel == Spec => []SplitTunnel
<1>1. \A l \in Lists \cup {{}}, ru \in BOOLEAN : RouteOptions(l, ru) \in WellSplit
  BY ListsAreEntries, ListsSplitAsAsked DEF WellSplit, Options
<1>2. TypeOK => SplitTunnel
  BY <1>1 DEF TypeOK, Normal, SplitTunnel
<1> QED
  BY <1>2, SettingsTypeOK, PTL

\* An address neither Russian nor on any list: what tells a name split off by
\* name from one whose addresses all happen to be listed.
SomeElsewhere == \E a \in Addrs : a \notin GeoIP /\ \A l \in Lists : \A e \in l : a \notin e.addrs

\* Then names are always resolved as they are routed.
THEOREM SettingsResolverFollowsRoute ==
  ASSUME SomeElsewhere PROVE Spec => []ResolverFollowsRoute
<1>1. \A l \in Lists \cup {{}}, ru \in BOOLEAN : RouteOptions(l, ru) \in WellResolved
  <2>1. SUFFICES ASSUME NEW l \in Lists \cup {{}}, NEW ru \in BOOLEAN
        PROVE  ResolvesAsRouted(RouteOptions(l, ru))
    BY DEF WellResolved, Options
  <2>2. PICK a \in Addrs : a \notin GeoIP /\ \A e \in l : a \notin e.addrs
    BY <2>1 DEF SomeElsewhere
  <2>3. l \in SUBSET Entries
    BY <2>1, ListsAreEntries
  <2> QED
    BY <2>1, <2>2, <2>3, ListsResolveAsRouted
<1>2. TypeOK => ResolverFollowsRoute
  BY <1>1 DEF TypeOK, Normal, ResolverFollowsRoute
<1> QED
  BY <1>2, SettingsTypeOK, PTL
=============================================================================
