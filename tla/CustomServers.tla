--------------------------- MODULE CustomServers ----------------------------
(***************************************************************************)
(* The user's own servers (internal/customserver, App.AddCustomServer,     *)
(* RemoveCustomServer) and their pings (internal/app/pinger.go and         *)
(* App.Locations): servers of the list in custom_servers.json, and probes  *)
(* that measure them in the background while no tunnel is up.              *)
(*                                                                         *)
(* A probe that goes out while the TUN is up is answered on this machine:  *)
(* it measures about 1 ms, whatever the server ("fake").                   *)
(***************************************************************************)
EXTENDS Naturals, FiniteSets

CONSTANTS
  Ids,        \* what newID returns
  Inputs,     \* inputs of the user: the links in them, TRUE for one that parses
  Probes,     \* goroutines of Locations
  None,
  MaxEvents   \* bound, shared with Control

VARIABLES
  list,       \* Store.list: the ids of the servers
  disk, torn, \* custom_servers.json, and whether it was cut off while written
  unsaved,    \* history: the last write failed
  cache,      \* pinger.cache: 0, "real" or "fake"
  fresh,      \* ids measured within pingTTL
  probe,      \* background goroutines: the server, and how far they are
  conn, tun,  \* App.state, and whether sing-box has its TUN up (Control)
  events

storeVars == <<list, disk, torn, unsaved>>
pingVars == <<cache, fresh, probe>>
serverVars == <<storeVars, pingVars>>

Happens == events < MaxEvents /\ events' = events + 1
NoProbe == [of |-> None, at |-> "idle"]

TypeOK ==
  /\ list \subseteq Ids /\ disk \subseteq Ids /\ torn \in BOOLEAN /\ unsaved \in BOOLEAN
  /\ cache \in [Ids -> {"none", "real", "fake"}] /\ fresh \subseteq Ids
  /\ probe \in [Probes -> [of : Ids \cup {None},
                           at : {"idle", "spawned", "dial", "real", "fake"}]]

Init ==
  /\ list = {} /\ disk = {} /\ torn = FALSE /\ unsaved = FALSE
  /\ cache = [i \in Ids |-> "none"] /\ fresh = {}
  /\ probe = [p \in Probes |-> NoProbe]

-----------------------------------------------------------------------------
(* The list                                                                *)

\* persist: the write may fail, before it or within it; the list stays
\* changed, and the caller gets the error.
Persist(l) ==
  \/ disk' = l /\ torn' = FALSE /\ unsaved' = FALSE
  \/ UNCHANGED disk /\ torn' \in {torn, TRUE} /\ unsaved' = TRUE

\* Ids no server has had: newID is random.
Unused == {i \in Ids \ (list \cup disk) : cache[i] = "none" /\ \A p \in Probes : probe[p].of # i}

\* ParseVLESS of a link, ParseSubscription of several: how many servers come of it.
Parsed(input) == Cardinality({l \in DOMAIN input : input[l]})

\* AddCustomServer: one link, or the links of a subscription. Those that do
\* not parse are skipped; with none left it is an error and nothing changes.
AddCustomServer ==
  \E input \in Inputs, new \in SUBSET Unused :
    /\ Happens
    /\ new # {} /\ Cardinality(new) = Parsed(input)
    /\ list' = list \cup new /\ Persist(list')
    /\ UNCHANGED <<pingVars, conn, tun>>

\* Fault: the file is written before the server is taken out.
RemoveAfterSave ==
  \E i \in list :
    /\ Happens
    /\ Persist(list) /\ list' = list \ {i}
    /\ UNCHANGED <<pingVars, conn, tun>>

RemoveCustomServer ==
  \E i \in list :
    /\ Happens
    /\ list' = list \ {i} /\ Persist(list')
    /\ UNCHANGED <<pingVars, conn, tun>>

\* The program starts again (Control): a file it cannot read is taken for an
\* empty one, and the pinger knows nothing.
Load ==
  /\ list' = IF torn THEN {} ELSE disk
  /\ unsaved' = (unsaved /\ torn) /\ UNCHANGED <<disk, torn>>
  /\ cache' = [i \in Ids |-> "none"] /\ fresh' = {}
  /\ probe' = [p \in Probes |-> NoProbe]

-----------------------------------------------------------------------------
(* Pings                                                                   *)

Goes(p, from, to) == probe[p].at = from /\ probe' = [probe EXCEPT ![p] = to]
Dialled(p, at) == [of |-> probe[p].of, at |-> at]

\* Locations reads the state under App.mu, before the goroutines start.
Clean == conn \in {"disconnected", "error"}

\* A goroutine for a server of the list.
Locations(p) ==
  \E i \in list :
    /\ Clean /\ Happens
    /\ Goes(p, "idle", [of |-> i, at |-> "spawned"])
    /\ UNCHANGED <<storeVars, cache, fresh, conn, tun>>

\* Refresh: a value within its TTL is not measured again.
Refresh(p) ==
  /\ IF probe[p].of \in fresh THEN Goes(p, "spawned", NoProbe)
                              ELSE Goes(p, "spawned", Dialled(p, "dial"))
  /\ UNCHANGED <<storeVars, cache, fresh, conn, tun, events>>

\* measure: the least of three tries, or nothing.
Measure(p) ==
  /\ \/ Goes(p, "dial", NoProbe)
     \/ Goes(p, "dial", Dialled(p, IF tun THEN "fake" ELSE "real"))
  /\ UNCHANGED <<storeVars, cache, fresh, conn, tun, events>>

Measured(p) ==
  /\ probe[p].at \in {"real", "fake"} /\ Goes(p, probe[p].at, NoProbe)
  /\ cache' = [cache EXCEPT ![probe[p].of] = probe[p].at]
  /\ fresh' = fresh \cup {probe[p].of}
  /\ UNCHANGED <<storeVars, conn, tun, events>>

\* pingTTL.
Expire ==
  \E i \in fresh :
    /\ Happens /\ fresh' = fresh \ {i}
    /\ UNCHANGED <<storeVars, cache, probe, conn, tun>>

Next ==
  \/ AddCustomServer \/ RemoveCustomServer \/ Expire
  \/ \E p \in Probes : Locations(p) \/ Refresh(p) \/ Measure(p) \/ Measured(p)

-----------------------------------------------------------------------------
(* Properties                                                              *)

\* The file holds the list of the program unless the last write failed, so a
\* restart finds every server added and none removed; and a file that was cut
\* off is never taken for a list.
ServersSurvive == ~unsaved => disk = list /\ ~torn

\* "We measure only while the tunnel is not up" (app.go:336, in Russian), where
\* "a local TCP-connect probe [...] makes every node read ~1 ms" (app.go:303).
\* The code does not keep it: a probe goes on when the TUN comes up, and an
\* error may hide one that is up. No listed run has it (MCControl_ping.cfg).
NoFakePing == \A i \in Ids : cache[i] # "fake"
=============================================================================
