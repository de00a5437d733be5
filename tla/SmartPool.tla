----------------------------- MODULE SmartPool -----------------------------
(***************************************************************************)
(* SmartPool of cmd/stratus/main.go: the RPC endpoints the fetcher uses,   *)
(* handed out in turn while they are healthy.  A call that fails marks its *)
(* endpoint unhealthy, a good one healthy; a goroutine compares every      *)
(* endpoint with a reference slot and another one adds what a later        *)
(* discovery (module Gossip) brings.  The health check sets the flags      *)
(* without the pool's lock, one endpoint at a time.                        *)
(*                                                                         *)
(* The endpoints of Down never answer.  The others answer truthfully except*)
(* for MaxFaults times, when they do anything: fail, lag, or lie.          *)
(***************************************************************************)
EXTENDS Gossip

CONSTANTS
    Down,         \* URLs that never answer
    References,   \* referenceEndpoints
    Threshold,    \* slotThreshold
    FirstTip, MaxSlot, \* the cluster's slot at the start, and the bound on it
    WrongSlots,   \* slots a wrong answer gives (0: an RPC error read as such)
    MaxFaults     \* bound on the wrong answers of endpoints that are up

Slots == 0..MaxSlot

ASSUME PoolAssumption ==
    /\ Threshold \in Nat /\ MaxSlot \in Nat /\ FirstTip \in Slots /\ WrongSlots \subseteq Slots
    /\ MaxFaults \in Nat
    /\ References \in Seq(Range(References)) /\ Len(References) > 0

VARIABLES
    tip,       \* the cluster's latest slot
    faults,    \* wrong answers given
    cancelled, \* the context of main, of which all others are children
    endpoints, \* p.endpoints: [url, healthy]
    idx,       \* p.idx, from 1
    check      \* the health check in progress: [ref, todo] or None

poolVars == <<endpoints, idx, check>>

(* The answers to a call: a result, or one of                              *)
(*   "down"     no HTTP answer: refused, timed out, cancelled, status        *)
(*   "error"    an RPC error, or a result that cannot be decoded             *)
(*   "missing"  an RPC error that says the slot was skipped: -32007, -32009  *)
(*   "unavailable"  the RPC error that says there is no block for it: -32004 *)
(*   "null"     the empty result                                             *)
Result(value) == [kind |-> "result", value |-> value]
Other(kind) == [kind |-> kind, value |-> None]

(* What a call to u may end with, and the faults that makes: after a       *)
(* cancellation it may also fail for that.                                 *)
Replies(u, right, wrong) ==
    (IF u \in Down THEN {[got |-> Other("down"), faults |-> faults]}
     ELSE [got : right, faults : {faults}]
          \cup [got : wrong, faults : {faults + 1} \cap 0..MaxFaults])
    \cup [got : {Other("down")}, faults : IF cancelled THEN {faults} ELSE {}]

(* getSlot; an RPC error in the body is read as slot 0. *)
SlotReplies(u) == Replies(u, {Result(tip)}, {Result(s) : s \in WrongSlots} \cup {Other("down")})

-----------------------------------------------------------------------------
WithUrls_KeepsDuplicates(eps, urls) ==
    eps \o [k \in DOMAIN urls |-> [url |-> urls[k], healthy |-> TRUE]]

(* NewSmartPool and rediscoverEndpoints add every URL once, as healthy. *)
WithUrl(eps, url) ==
    IF url \in {e.url : e \in Range(eps)} THEN eps
    ELSE Append(eps, [url |-> url, healthy |-> TRUE])
WithUrls(eps, urls) == FoldLeft(WithUrl, eps, urls)

(* GetEndpoint: the next healthy endpoint from idx on, else the first one, *)
(* which leaves idx alone.                                                 *)
Healthy == {i \in DOMAIN endpoints : endpoints[i].healthy}
Turn(i) == (i - idx) % Len(endpoints)
Picked == IF Healthy = {} THEN 1
          ELSE CHOOSE i \in Healthy : \A j \in Healthy : Turn(i) <= Turn(j)
GetEndpoint(url) ==
    /\ url = endpoints[Picked].url
    /\ idx' = IF Healthy = {} THEN idx ELSE (Picked % Len(endpoints)) + 1

(* MarkHealthy and MarkUnhealthy. *)
Marked(url, healthy) ==
    [i \in DOMAIN endpoints |-> IF endpoints[i].url = url
                                THEN [endpoints[i] EXCEPT !.healthy = healthy]
                                ELSE endpoints[i]]

-----------------------------------------------------------------------------
PoolInit ==
    /\ tip = FirstTip
    /\ faults = 0
    /\ cancelled = FALSE
    /\ endpoints = <<>>
    /\ idx = 1
    /\ check = None

(* The cluster goes on. *)
Advance ==
    /\ tip < MaxSlot
    /\ tip' = tip + 1
    /\ UNCHANGED <<faults, cancelled, poolVars>>

(* healthCheck begins: the first reference endpoint that answers gives the *)
(* slot, each one before it having failed, and the list is read without the*)
(* lock.  When none answers the check ends there, and nothing has changed. *)
BeginCheck ==
    /\ ~cancelled /\ endpoints # <<>> /\ check = None
    /\ \E k \in DOMAIN References :
          LET failing == {j \in 1..k-1 : References[j] \notin Down}
          IN \E reply \in SlotReplies(References[k]) :
                /\ reply.got.kind = "result"
                /\ check' = [ref |-> reply.got.value, todo |-> DOMAIN endpoints]
                /\ faults' = reply.faults + Cardinality(failing)
                /\ faults' <= MaxFaults
    /\ UNCHANGED <<tip, cancelled, endpoints, idx>>

(* An endpoint that is ahead of the reference is healthy: the difference is *)
(* not taken then.                                                         *)
Behind(slot) == check.ref > slot /\ check.ref - slot > Threshold

Checked_NeverRestores(i, got) ==
    endpoints[i].healthy /\ got.kind = "result" /\ ~Behind(got.value)

(* The flag a check sets, whatever it was. *)
Checked(i, got) == got.kind = "result" /\ ~Behind(got.value)

(* One of the check's goroutines has heard from its endpoint. *)
CheckEndpoint ==
    /\ check # None
    /\ \E i \in check.todo :
          /\ check' = IF check.todo = {i} THEN None ELSE [check EXCEPT !.todo = @ \ {i}]
          /\ \E reply \in SlotReplies(endpoints[i].url) :
                /\ endpoints' = [endpoints EXCEPT ![i].healthy = Checked(i, reply.got)]
                /\ faults' = reply.faults
    /\ UNCHANGED <<tip, cancelled, idx>>

(* rediscoverEndpoints calls the discovery and adds what it found. *)
Rediscover ==
    /\ ~cancelled /\ endpoints # <<>>
    /\ \E urls \in Discoveries \ {Failed} : endpoints' = WithUrls(endpoints, urls)
    /\ UNCHANGED <<tip, faults, cancelled, idx, check>>

PoolNext == Advance \/ BeginCheck \/ CheckEndpoint \/ Rediscover

PoolTypeOK ==
    /\ tip \in Slots /\ faults \in 0..MaxFaults /\ cancelled \in BOOLEAN
    /\ IsInjective([i \in DOMAIN endpoints |-> endpoints[i].url])
    /\ endpoints # <<>> => idx \in DOMAIN endpoints
    /\ check # None => check.ref \in Slots /\ check.todo \subseteq DOMAIN endpoints
=============================================================================
