---------------------------- MODULE MCInterfaces ----------------------------
(***************************************************************************)
(* Interfaces on small instances: a port and two interfaces over it, in     *)
(* stacks that between them have every kind of interface.                   *)
(***************************************************************************)
EXTENDS Interfaces

CONSTANTS if1, if2, if3

MCOrder == <<if1, if2, if3>>
MCTwo == <<if1, if2>>

Stack(kx, ky, ly) ==
    [kind |-> (if1 :> "eth") @@ (if2 :> kx) @@ (if3 :> ky),
     lower |-> (if1 :> if1) @@ (if2 :> if1) @@ (if3 :> ly),
     policy |-> "allow"]

MCTopologies ==
    {Stack(k, "absent", if3) : k \in {"ppp", "macvlan", "autotnl", "clitnl", "floating"}}
    \cup {Stack("vlan", "vlan", if2), [Stack("vlan", "absent", if3) EXCEPT !.policy = "manual"]}

MCVlan == {[kind |-> (if1 :> "eth") @@ (if2 :> "vlan"),
             lower |-> (if1 :> if1) @@ (if2 :> if1), policy |-> "allow"]}
=============================================================================
