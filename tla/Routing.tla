------------------------------ MODULE Routing ------------------------------
(***************************************************************************)
(* Split tunnelling: the user's direct list (internal/routing) and the     *)
(* rules the two configuration generators make of it (xray/config.go for   *)
(* the proxy modes, singbox/config.go for TUN).                            *)
(*                                                                         *)
(* A host name is a sequence of labels, an address a model value. A rule   *)
(* is the names and the addresses it matches and where it sends them; the  *)
(* engines, which are not under src/, take the first rule that matches.    *)
(***************************************************************************)
EXTENDS Naturals, SequencesExt

CONSTANTS
  Names,          \* host names: sequences of labels
  Addrs, V6,      \* addresses, and those of IPv6
  GeoSite, GeoIP, \* Russian names and addresses in the geo databases
  Node,           \* the VPN server: a name or an address
  NoName          \* a connection whose name is not known

ASSUME RoutingAssumption ==
  /\ Names \subseteq Seq(STRING) /\ V6 \subseteq Addrs
  /\ GeoSite \subseteq Names /\ GeoIP \subseteq Addrs
  /\ NoName \notin Names

\* One line of the list: a leading dot, a slash, the labels (none in an
\* address or a range of addresses) and the addresses it stands for.
Entries == [dot : BOOLEAN, slash : BOOLEAN, labels : Names \cup {<<>>}, addrs : SUBSET Addrs]

\* A connection: its name, where it is known (sniffed or asked for), its
\* address, and whether it is a DNS query.
Dests == [name : Names \cup {NoName}, addr : Addrs, dns : BOOLEAN]

-----------------------------------------------------------------------------
(* The list                                                                *)

LooksLikeIPOrCIDR(e) == e.slash \/ e.labels = <<>>

\* routing.Options: SplitList of the list, and the Russian databases.
RouteOptions(list, russia) ==
  [domains |-> {e \in list : ~LooksLikeIPOrCIDR(e)},
   ipcidrs |-> UNION {e.addrs : e \in {f \in list : LooksLikeIPOrCIDR(f)}},
   russia |-> russia]

-----------------------------------------------------------------------------
(* Rules                                                                   *)

Rule(names, addrs, to) == [names |-> names, addrs |-> addrs, dns |-> FALSE, to |-> to]
Matches(r, d) == d.name \in r.names \/ d.addr \in r.addrs \/ (r.dns /\ d.dns)

\* The outbound of a connection: the first rule, or the default.
Outbound(rules, default, d) ==
  LET i == SelectInSeq(rules, LAMBDA r : Matches(r, d))
  IN  IF i = 0 THEN default ELSE rules[i].to

\* A suffix ("domain:" of xray, domain_suffix of sing-box) matches whole
\* labels; a plain string of xray matches anywhere in the name.
Under(n, labels) == IsSuffix(labels, n)
Within(n, labels) ==
  \E i \in 0 .. Len(n) - Len(labels) : SubSeq(n, i + 1, i + Len(labels)) = labels

XrayNames(domains) ==
  {n \in Names : \E e \in domains : IF e.dot THEN Under(n, e.labels) ELSE Within(n, e.labels)}
DnsSuffixes(domains) == {n \in Names : \E e \in domains : Under(n, e.labels)}

If(c, rules) == IF c THEN rules ELSE <<>>

XrayRoutingRules(o) ==
  If(o.domains # {}, <<Rule(XrayNames(o.domains), {}, "direct")>>)
  \o If(o.ipcidrs # {}, <<Rule({}, o.ipcidrs, "direct")>>)
  \o If(o.russia, <<Rule({n \in Names : Under(n, <<"ru">>)}, {}, "direct"),
                    Rule({}, GeoIP, "direct")>>)
XrayOutbound(o, d) == Outbound(XrayRoutingRules(o), "proxy", d)

SingUserRules(o) ==
  If(o.domains # {}, <<Rule(DnsSuffixes(o.domains), {}, "direct")>>)
  \o If(o.ipcidrs # {}, <<Rule({}, o.ipcidrs, "direct")>>)
  \o If(o.russia, <<Rule(GeoSite, GeoIP, "direct")>>)

\* The rule for the node names it in the domain field, whatever it is.
SingOwnRules ==
  << [Rule({}, {}, "hijack-dns") EXCEPT !.dns = TRUE],
     Rule({Node} \cap Names, {}, "direct") >>
NoV6 == <<Rule({}, V6, "block")>>

\* Fault: IPv6 is dropped before the user's list is looked at.
SingRouteV6First(o) == SingOwnRules \o NoV6 \o SingUserRules(o)

SingRouteRules(o) == SingOwnRules \o SingUserRules(o) \o NoV6
SingOutbound(o, d) == Outbound(SingRouteRules(o), "vless-out", d)

\* Fault: the user's domains are split off by the route only.
SingDnsGeoOnly(o) == If(o.russia, <<Rule(GeoSite, {}, "dns-direct")>>)

SingDnsRules(o) ==
  If(o.russia, <<Rule(GeoSite, {}, "dns-direct")>>)
  \o If(o.domains # {}, <<Rule(DnsSuffixes(o.domains), {}, "dns-direct")>>)
\* The server that resolves a name.
SingResolver(o, n) ==
  Outbound(SingDnsRules(o), "dns-remote", [name |-> n, addr |-> NoName, dns |-> TRUE])

-----------------------------------------------------------------------------
(* What the user asked for                                                 *)

InList(o, d) ==
  d.addr \in o.ipcidrs \/ (d.name # NoName /\ \E e \in o.domains : Under(d.name, e.labels))
Russian(o, d) == o.russia /\ (d.name \in GeoSite \/ d.addr \in GeoIP)
Keyword(o, d) == d.name # NoName /\ \E e \in o.domains : ~e.dot /\ Within(d.name, e.labels)

\* A listed destination bypasses the tunnel in both modes; nothing else does,
\* but what is Russian when that is on, what only xray's reading of an entry
\* covers, and in TUN the node itself; and IPv6 never enters the TUN tunnel.
SplitsAsAsked(o) ==
  \A d \in Dests : ~d.dns =>
    /\ InList(o, d) => XrayOutbound(o, d) = "direct" /\ SingOutbound(o, d) = "direct"
    /\ XrayOutbound(o, d) = "direct" =>
         InList(o, d) \/ Russian(o, d) \/ Keyword(o, d)
         \/ (o.russia /\ d.name # NoName /\ Under(d.name, <<"ru">>))
    /\ SingOutbound(o, d) = "direct" => InList(o, d) \/ Russian(o, d) \/ d.name = Node
    /\ SingOutbound(o, d) = "vless-out" => d.addr \notin V6

\* In TUN a name, the node's aside, is resolved outside the tunnel exactly when
\* it is split off by name: then every connection to it is direct, whatever its
\* address.
ResolvesAsRouted(o) ==
  \A n \in Names \ {Node} :
    SingResolver(o, n) = "dns-direct" <=>
      \A a \in Addrs : SingOutbound(o, [name |-> n, addr |-> a, dns |-> FALSE]) = "direct"
=============================================================================
