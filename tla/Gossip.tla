------------------------------ MODULE Gossip ------------------------------
(***************************************************************************)
(* Endpoint discovery: what pkg/gossip returns to discoverEndpoints of     *)
(* cmd/stratus.  The cluster's nodes are first asked for over RPC; if that *)
(* yields no RPC node, a gossip client listens for contact infos until its *)
(* timeout and then asks over RPC a second time, because its gossip half   *)
(* can only end with an error.  Datagrams may be lost, repeated and        *)
(* reordered.  A discovery shares nothing with the rest of the program     *)
(* before it returns, so it is given by the set of its possible results.   *)
(*                                                                         *)
(* A node is [id, clock, shred, url], url being None when it offers no RPC;*)
(* in an RPC answer the clock is 0 and an id is None when it is invalid.   *)
(***************************************************************************)
EXTENDS Integers, Sequences, FiniteSets, SequencesExt

CONSTANTS
    Ids,          \* node identities
    Infos,        \* contact infos in the network
    ClusterViews, \* answers to getClusterNodes, as sequences of nodes
    Shred,        \* config.ShredVersion (0: no filter)
    MaxNodes,     \* config.MaxNodes
    MaxMessages,  \* bound on the contact infos one discovery receives
    None, Failed

ASSUME GossipAssumption ==
    /\ MaxNodes \in Nat \ {0} /\ Shred \in Nat /\ MaxMessages \in Nat
    /\ \A v \in Infos : v.id \in Ids
    /\ IsFiniteSet(Ids)
    /\ \A view \in ClusterViews : view \in Seq(Range(view))

(* The nodes of a list that are among some.                                *)
Only(list, nodes) ==
    FoldLeft(LAMBDA kept, n : IF n \in nodes THEN Append(kept, n) ELSE kept, <<>>, list)

(* The URLs of the nodes that offer RPC: RPCNodes and RPCURL. *)
RpcUrls(list) ==
    LET rpc == Only(list, {n \in Range(list) : n.url # None})
    IN [i \in DOMAIN rpc |-> rpc[i].url]

(* GetClusterNodes leaves out a node whose key does not parse; the others  *)
(* have no wall clock.                                                     *)
ClusterNodes(view) ==
    LET valid == Only(view, {n \in Range(view) : n.id # None})
    IN [i \in DOMAIN valid |-> [valid[i] EXCEPT !.clock = 0]]

(* processCRDSValue: of a node the contact info with the newest wall clock *)
(* is kept, and of two with the same one the first.                        *)
Newest(msgs, id) ==
    LET of == {k \in DOMAIN msgs : msgs[k].id = id}
        best == {k \in of : \A j \in of : \/ msgs[j].clock < msgs[k].clock
                                          \/ msgs[j].clock = msgs[k].clock /\ j >= k}
    IN IF of = {} THEN None ELSE msgs[CHOOSE k \in best : TRUE]

(* discoverViaGossip: until the deadline anything in the network may come, *)
(* whatever was asked of whom.                                             *)
Heard == BoundedSeq(Infos, MaxMessages)

(* The filter on the shred version. *)
Matching(list) == Only(list, {n \in Range(list) : Shred = 0 \/ n.shred = Shred})

(* discoverViaRPC stops once it has MaxNodes. *)
DiscoverViaRPC(view) ==
    LET match == Matching(ClusterNodes(view))
    IN SubSeq(match, 1, IF Len(match) < MaxNodes THEN Len(match) ELSE MaxNodes)

(* What discoverViaRPC leaves in the cache: its nodes replace those of the *)
(* same identity whatever their wall clocks, the last one of a list wins.  *)
Cached(msgs, list) ==
    [i \in Ids |->
        IF \E n \in Range(list) : n.id = i
        THEN list[CHOOSE k \in DOMAIN list : /\ list[k].id = i
                                             /\ \A j \in k+1..Len(list) : list[j].id # i]
        ELSE Newest(msgs, i)]

(* Collecting the cache behind the nodes found so far, in the order the    *)
(* map yields them.  The bound is looked at after a node was added, so one *)
(* that is reached already still lets one node through.                    *)
Collected(list, order) ==
    LET upTo(k) == list \o Matching(SubSeq(order, 1, k))
        full == {k \in DOMAIN order : Len(upTo(k)) >= MaxNodes}
    IN IF full = {} THEN list \o Matching(order)
       ELSE upTo(CHOOSE k \in full : \A j \in full : k <= j)

(* QuickDiscoverRPCEndpoints takes every RPC node of an answer. *)
QuickDiscoveries == {RpcUrls(ClusterNodes(view)) : view \in ClusterViews} \ {<<>>}

(* Client.Discover with what was received: the RPC fallback may fail. *)
FallbackLists == {DiscoverViaRPC(view) : view \in ClusterViews} \cup {<<>>}
Discovered(msgs) ==
    UNION {{Collected(list, order) : order \in SetToSeqs(Range(Cached(msgs, list)) \ {None})}
           : list \in FallbackLists}

(* discoverEndpoints fails when no node with an RPC endpoint is found. *)
Discoveries ==
    QuickDiscoveries \cup
    {IF RpcUrls(list) = <<>> THEN Failed ELSE RpcUrls(list)
     : list \in UNION {Discovered(msgs) : msgs \in Heard}}
=============================================================================
