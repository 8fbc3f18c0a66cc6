------------------------------ MODULE CpalBpf ------------------------------
(***************************************************************************)
(* The XDP forward engine as cpal_bpf.c drives it: a BPF array of next hops *)
(* found by hashing the route identifier (route_info), and a BPF map with   *)
(* two entries per connection, each holding the index of its next hop.      *)
(* IPv4 and IPv6 connections share the next hops and are handled alike.     *)
(*                                                                         *)
(* CMM issues the commands as Offload proves it does: an identifier is      *)
(* registered once, a connection command names registered routes, and a     *)
(* route is removed when no connection needs it.                            *)
(***************************************************************************)
EXTENDS Integers

CONSTANTS
  N,           \* MAX_FP_ROUTES
  Ids,         \* route identifiers
  Dsts,        \* next hops
  Cts,         \* connections, with tuples of their own
  OrigMayFail, \* may CMM disable the originator's leg
  None

ASSUME NAssumption == N \in Nat /\ N > 1
ASSUME IdsAre == Ids \subseteq Nat /\ 0 \notin Ids
ASSUME HomeInRange == \A i \in Ids \cup {0} : i % N \in 0..(N - 1)
ASSUME OrigMayFailType == OrigMayFail \in BOOLEAN

VARIABLES
  route_info,  \* the identifier kept at each index, 0 if free
  route_map,   \* the BPF array of next hops
  ct_map,      \* the two entries of each connection: indices, -1 for none
  asked,       \* what CMM last asked for: identifiers, 0 for a disabled leg
  stale        \* the legs whose entry a refused update left behind

bpfVars == <<route_info, route_map, ct_map, asked, stale>>

Legs == {"orig", "rep"}
Index == 0..(N - 1)

ASSUME NoneIsNone == /\ None \notin Dsts
                     /\ None \notin [Legs -> Ids \cup {0, -1}]
                     /\ None \notin [Legs -> Index \cup {-1}]

BpfInit ==
  /\ route_info = [k \in Index |-> 0]
  /\ route_map = [k \in Index |-> None]
  /\ ct_map = [c \in Cts |-> None]
  /\ asked = [c \in Cts |-> None]
  /\ stale = [c \in Cts |-> {}]

(* How far the probe for identifier i walks to reach index k.               *)
Walk(i, k) == IF k >= i % N THEN k - (i % N) ELSE k - (i % N) + N

(* The linear probe for identifier i: the first index in S, if any.  The    *)
(* index before the first one (limit) ends the probe and is never used.     *)
FirstFrom(i, S) ==
  LET near == {k \in S : Walk(i, k) < N - 1}
  IN  {k \in near : \A j \in near : Walk(i, k) <= Walk(i, j)}

(* A bug to compare with: the last index of the probe is handed out.        *)
HashToLimit(i) ==
  {k \in Index : /\ route_info[k] = 0
                 /\ \A j \in Index : route_info[j] = 0 => Walk(i, k) <= Walk(i, j)}

(* The index for a new route: none (-1 in the code) when no index is free.  *)
hash_route_id(i) == FirstFrom(i, {k \in Index : route_info[k] = 0})

find_route_id(i) == FirstFrom(i, {k \in Index : route_info[k] = i})

(* What a connection entry stores for identifier i.                         *)
RouteIndex(i) == IF find_route_id(i) = {} THEN {-1} ELSE find_route_id(i)

-----------------------------------------------------------------------------
(* CMM's side: which commands it sends.                                     *)
Registered == {i \in Ids : find_route_id(i) # {}}

Requests ==
  {v \in [Legs -> Registered \cup {0}] : ~ OrigMayFail => v["orig"] # 0}

Needed(i) == \E c \in Cts : asked[c] # None /\ \E l \in Legs : asked[c][l] = i

(* FPP_ACTION_REGISTER for a next hop: refused when every index is taken or  *)
(* the array has a next hop there (no state changes).  The array holds a    *)
(* next hop with a non-zero redir_ifindex, so an empty one is None.         *)
RouteRegister(i, d) ==
  /\ i \notin Registered
  /\ \E k \in hash_route_id(i) :
        /\ route_map[k] = None
        /\ route_map' = [route_map EXCEPT ![k] = d]
        /\ route_info' = [route_info EXCEPT ![k] = i]
  /\ UNCHANGED <<ct_map, asked, stale>>

(* A bug to compare with: the next hop is cleared, its index kept.          *)
RouteDeregisterKeeps(i) ==
  /\ ~ Needed(i)
  /\ \E k \in find_route_id(i) : route_map' = [route_map EXCEPT ![k] = None]
  /\ UNCHANGED <<route_info, ct_map, asked, stale>>

(* FPP_ACTION_DEREGISTER for a next hop.                                    *)
RouteDeregister(i) ==
  /\ ~ Needed(i)
  /\ \E k \in find_route_id(i) :
        /\ route_map' = [route_map EXCEPT ![k] = None]
        /\ route_info' = [route_info EXCEPT ![k] = 0]
  /\ UNCHANGED <<ct_map, asked, stale>>

(* The indices the two entries of a connection get.  Only the reply's        *)
(* disabled flag is looked at: a disabled originator's leg has route_id 0.  *)
EntriesFor(v) ==
  {e \in [Legs -> Index \cup {-1}] :
      /\ e["orig"] \in RouteIndex(v["orig"])
      /\ e["rep"] \in (IF v["rep"] = 0 THEN {-1} ELSE RouteIndex(v["rep"]))}

(* FPP_ACTION_REGISTER for a connection: both entries or neither (the first *)
(* is deleted when the second cannot be added).                             *)
CtRegister(c, v) ==
  /\ ct_map[c] = None
  /\ \E l \in Legs : v[l] # 0
  /\ \E e \in EntriesFor(v) : ct_map' = [ct_map EXCEPT ![c] = e]
  /\ asked' = [asked EXCEPT ![c] = v]
  /\ stale' = [stale EXCEPT ![c] = {}]
  /\ UNCHANGED <<route_info, route_map>>

(* How far an update gets: the originator's entry is written first, and the *)
(* reply's only if that succeeds; nothing is taken back.                    *)
Written == {{}, {"orig"}, Legs}

(* A bug to compare with: only the originator's entry is written back, and  *)
(* the update reported as done.                                             *)
CtUpdateOneLeg(c, v) ==
  /\ ct_map[c] # None
  /\ asked[c] # None
  /\ \E e \in EntriesFor(v) : ct_map' = [ct_map EXCEPT ![c]["orig"] = e["orig"]]
  /\ asked' = [asked EXCEPT ![c] = v]
  /\ stale' = [stale EXCEPT ![c] = {}]
  /\ UNCHANGED <<route_info, route_map>>

(* FPP_ACTION_UPDATE for a connection.  CMM has taken the new routes into   *)
(* its own tables before it asks, and lets go of the old ones whatever the  *)
(* answer; a leg that was not written is stale from then on, unless it was  *)
(* right already.                                                           *)
CtUpdate(c, v) ==
  /\ ct_map[c] # None
  /\ asked[c] # None
  /\ \E e \in EntriesFor(v), w \in Written :
        /\ ct_map' = [ct_map EXCEPT ![c] = [l \in Legs |-> IF l \in w THEN e[l] ELSE @[l]]]
        /\ stale' = [stale EXCEPT ![c] =
                       {l \in Legs \ w : l \in @ \/ v[l] # asked[c][l]}]
  /\ asked' = [asked EXCEPT ![c] = v]
  /\ UNCHANGED <<route_info, route_map>>

(* FPP_ACTION_DEREGISTER for a connection.                                  *)
CtDeregister(c) ==
  /\ ct_map[c] # None
  /\ asked[c] # None
  /\ ct_map' = [ct_map EXCEPT ![c] = None]
  /\ asked' = [asked EXCEPT ![c] = None]
  /\ stale' = [stale EXCEPT ![c] = {}]
  /\ UNCHANGED <<route_info, route_map>>

(* A connection times out: CMM is told (and releases its routes) before the *)
(* entries are deleted, so other commands may come in between.              *)
TimeoutReported(c) ==
  /\ asked[c] # None
  /\ asked' = [asked EXCEPT ![c] = None]
  /\ stale' = [stale EXCEPT ![c] = {}]
  /\ UNCHANGED <<route_info, route_map, ct_map>>

TimeoutDeleted(c) ==
  /\ asked[c] = None
  /\ ct_map[c] # None
  /\ ct_map' = [ct_map EXCEPT ![c] = None]
  /\ UNCHANGED <<route_info, route_map, asked, stale>>

BpfNext ==
  \/ \E i \in Ids, d \in Dsts : RouteRegister(i, d)
  \/ \E i \in Ids : RouteDeregister(i)
  \/ \E c \in Cts, v \in Requests : CtRegister(c, v) \/ CtUpdate(c, v)
  \/ \E c \in Cts : CtDeregister(c) \/ TimeoutReported(c) \/ TimeoutDeleted(c)

BpfSpec == BpfInit /\ [][BpfNext]_bpfVars

-----------------------------------------------------------------------------
(* The arrays and the map hold values of their types.                       *)
BpfTypeOK ==
  /\ route_info \in [Index -> Ids \cup {0}]
  /\ route_map \in [Index -> Dsts \cup {None}]
  /\ ct_map \in [Cts -> [Legs -> Index \cup {-1}] \cup {None}]
  /\ asked \in [Cts -> [Legs -> Ids \cup {0}] \cup {None}]
  /\ stale \in [Cts -> SUBSET Legs]

(* hash_route_id and find_route_id agree for ever: an identifier is kept at *)
(* one index only, where the probe of find_route_id reaches it, and an      *)
(* index holds an identifier exactly while the BPF array has a next hop     *)
(* there, whatever was registered and removed on the way.                   *)
RouteFound ==
  \A k \in Index :
     /\ (route_info[k] = 0) <=> (route_map[k] = None)
     /\ route_info[k] # 0 => find_route_id(route_info[k]) = {k}

(* Both legs of a connection follow the next hops CMM asked for, although   *)
(* the entries keep indices that are freed and handed out again.  The       *)
(* exception is a leg that an update refused half way did not write: it     *)
(* keeps an index that may be free or another route's by now, until an      *)
(* update succeeds.  The other leg of such a connection is right.           *)
LegsAsAsked ==
  \A c \in Cts : asked[c] # None =>
     /\ ct_map[c] # None
     /\ \A l \in Legs \ stale[c] : asked[c][l] # 0 =>
           /\ ct_map[c][l] # -1
           /\ route_info[ct_map[c][l]] = asked[c][l]

(* A leg that CMM has disabled has no next hop.                             *)
DisabledHasNoRoute ==
  \A c \in Cts : asked[c] # None =>
     \A l \in Legs \ stale[c] : asked[c][l] = 0 =>
        ct_map[c][l] = -1 \/ route_map[ct_map[c][l]] = None

BpfInv == BpfTypeOK /\ RouteFound /\ LegsAsAsked

-----------------------------------------------------------------------------
(* The engine that CMM sees.                                                *)
RtView ==
  [i \in Ids |->
     IF i \in Registered THEN route_map[CHOOSE k \in Index : route_info[k] = i] ELSE None]

LegView(c, l) ==
  IF l \in stale[c] THEN -1 ELSE IF ct_map[c][l] = -1 THEN 0 ELSE route_info[ct_map[c][l]]

CtView ==
  [c \in Cts |-> IF asked[c] = None THEN None ELSE [l \in Legs |-> LegView(c, l)]]

E == INSTANCE Engine WITH engine_rt <- RtView, engine_ct <- CtView

(* While the originator's leg is never disabled, the arrays and the hashing *)
(* of cpal_bpf.c are a forward engine as CMM expects it: a leg is forwarded *)
(* by the route it names, and the legs CMM cannot rely on are those that a  *)
(* refused update has left behind.                                          *)
ImplementsEngine == E!EngineSpec
=============================================================================
