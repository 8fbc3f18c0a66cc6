----------------------------- MODULE MCServices -----------------------------
(***************************************************************************)
(* The services of the daemon beside the offloading of connections.  A     *)
(* behaviour is about one of them.                                         *)
(***************************************************************************)
EXTENDS Sockets, Mcast, L2Flow, BridgePorts, Ipsec, Rules

CONSTANTS lst1, lst2, lst3, lst4,   \* multicast listeners
          mac1, mac2                \* MAC addresses

VARIABLE focus

servicesVars == <<sockVars, mcVars, l2Vars, brVars, saVars, ruleVars, focus>>

\* Multicast: two listeners share an interface, one is not on a real one.
MCFamilyOf == [g \in Groups |-> 4]
MCItfOf == (lst1 :> "A") @@ (lst2 :> "A") @@ (lst3 :> "B") @@ (lst4 :> "acp")

\* Bridges
MCMacOrder == <<mac1, mac2>>
MCPeerOf == [r \in Relays |-> <<mac1, mac2>>]

\* SAs: an ordinary connection, one that is secured in one direction only, and
\* one that the kernel has more handles for than a message holds.
Handles(origIn, origOut, repIn, repOut) ==
  (<<"orig", "in">> :> origIn) @@ (<<"orig", "out">> :> origOut)
    @@ (<<"rep", "in">> :> repIn) @@ (<<"rep", "out">> :> repOut)
MCSAUses == {Handles("none", "o1", "i1", "none"), Handles("i1", "none", "none", "none"),
             Handles("none", "none", "many", "o1")}

\* Configuration rules
Option(name, value) == [name |-> name, value |-> value]
MCOptions == {Option("port", "p"), Option("orig_src_ipv6", "a"), Option("ip_v6_addr", "a"),
              Option("proto", "tcp")}
MCAsymOptions == {Option("orig_dst_port", "p"), Option("interface", "eth0")}

Conntrack6(sport, dport, src, dst, proto, itf) ==
  [family |-> "v6", mcast |-> FALSE, iif |-> "lan", route |-> "unicast",
   attrs |-> [orig_src_port |-> sport, orig_dst_port |-> dport,
              repl_src_port |-> dport, repl_dst_port |-> sport,
              orig_src_ipv6 |-> src, orig_dst_ipv6 |-> dst,
              reply_src_ipv6 |-> dst, reply_dst_ipv6 |-> src,
              proto |-> proto, interface |-> itf]]
Conntrack4(dport, proto, iif, route) ==
  [family |-> "v4", mcast |-> FALSE, iif |-> iif, route |-> route,
   attrs |-> [orig_src_port |-> "q", orig_dst_port |-> dport,
              repl_src_port |-> dport, repl_dst_port |-> "q", proto |-> proto]]
MCConntracks ==
  {Conntrack6(sp, dp, s, d, "tcp", "eth0") : sp \in {"p", "q"}, dp \in {"p", "q"},
      s \in {"a", "b"}, d \in {"a", "b"}}
  \cup {Conntrack6("q", "p", "b", "a", x, i) : x \in {"tcp", "udp"}, i \in {"eth0", "gone"}}
  \cup {Conntrack4(dp, x, "none", "unicast") : dp \in {"p", "q"}, x \in {"tcp", "udp"}}
  \cup {Conntrack4("q", "udp", i, r) :
          i \in {"lo", "none", "lan"}, r \in {"unicast", "local", "none"}}

\* Sessions are alike, and so are the two listeners that share an interface.
ServicesSymmetry == Permutations(Sessions) \cup Permutations({lst1, lst2})

ServicesInit ==
  /\ focus \in {"sockets", "multicast", "flows", "bridges", "sas", "rules"}
  /\ SockInit /\ McInit /\ L2Init /\ BrInit /\ SAInit /\ RuleInit

ServicesNext ==
  \/ focus = "sockets" /\ SockNext /\ UNCHANGED <<mcVars, l2Vars, brVars, saVars, ruleVars, focus>>
  \/ focus = "multicast" /\ McNext /\ UNCHANGED <<sockVars, l2Vars, brVars, saVars, ruleVars, focus>>
  \/ focus = "flows" /\ L2Next /\ UNCHANGED <<sockVars, mcVars, brVars, saVars, ruleVars, focus>>
  \/ focus = "bridges" /\ BrNext /\ UNCHANGED <<sockVars, mcVars, l2Vars, saVars, ruleVars, focus>>
  \/ focus = "sas" /\ SANext /\ UNCHANGED <<sockVars, mcVars, l2Vars, brVars, ruleVars, focus>>
  \/ focus = "rules" /\ RuleNext /\ UNCHANGED <<sockVars, mcVars, l2Vars, brVars, saVars, focus>>

ServicesSpec == ServicesInit /\ [][ServicesNext]_servicesVars
=============================================================================
