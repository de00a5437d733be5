------------------------------ MODULE Fetcher ------------------------------
(***************************************************************************)
(* cmd/stratus, the block verifier: main discovers the endpoints (Gossip), *)
(* makes the pool (SmartPool), connects the fetcher of pkg/rpcfetch and    *)
(* counts the blocks it gets until a signal cancels the context.           *)
(*                                                                         *)
(* The fetcher's two goroutines share the pool: slotPollingLoop keeps      *)
(* latestSlot up to date, blockFetchingLoop asks for one slot after the    *)
(* other and sends the blocks to a bounded channel, of which it drops the  *)
(* oldest block rather than wait.  Each call is two steps, so that the pool*)
(* and the other calls move between the choice of an endpoint and its      *)
(* answer.  The two loops that ask for a slot again after an error         *)
(* (fetchBlockWithRetry and the loop around it) differ in their delays only*)
(* and are one.  Connect and Close are called once, by main.               *)
(***************************************************************************)
EXTENDS SmartPool

CONSTANTS
    Garbled, Zero, VoteProgram,  \* of the blocks (module RpcBlock)
    FromSlots,  \* values of config.FromSlot (None: where the cluster is)
    ChanSize,   \* config.BlockChannelSize
    BlockAt,    \* the cluster's blocks: [slots that have one -> answers]
    SkipReplies, \* how an endpoint answers for a slot that has none
    BadAnswers  \* answers that do not convert

ASSUME FetcherAssumption ==
    /\ FromSlots \subseteq Slots \cup {None}
    /\ ChanSize \in Nat \ {0}
    /\ DOMAIN BlockAt \subseteq Slots
    /\ SkipReplies \subseteq {"null", "missing", "unavailable"}

INSTANCE RpcBlock

(* What the transactions of the cluster's blocks are like: they have a     *)
(* signer for each signature, whether the answer marks the signers or not, *)
(* their programs are among their accounts, and the first account, which   *)
(* pays the fee, is no program.                                            *)
Sanitized(tx) ==
    LET marked == {i \in DOMAIN tx.keys : tx.keys[i].object /\ tx.keys[i].signer}
    IN /\ tx.keys \in Seq(Range(tx.keys)) /\ tx.sigs \in Seq(Range(tx.sigs))
       /\ Cardinality(marked) \in {0, Len(tx.sigs)} /\ Len(tx.sigs) <= Len(tx.keys)
       /\ \A j \in DOMAIN tx.ixs :
             tx.ixs[j].program \in {None} \cup {n - 1 : n \in DOMAIN tx.keys}
       /\ tx.keys # <<>> => tx.keys[1].pubkey # VoteProgram

ASSUME AnswersAssumption ==
    /\ VoteProgram \notin {None, Zero}
    /\ \A s \in DOMAIN BlockAt : \A i \in DOMAIN BlockAt[s].txs : Sanitized(BlockAt[s].txs[i])
    /\ \A s \in Slots, r \in BadAnswers : Block(s, r) = Failed

VARIABLES
    main,      \* program counter of main
    start,     \* config.FromSlot, then the slot Connect began with
    latest,    \* latestSlot
    next,      \* nextSlot
    polling,   \* slotPollingLoop: "off", "idle" or the URL it waits for
    fetching,  \* blockFetchingLoop: "off", "idle", "ask", "send", "full" or "resend"
    asked,     \* the URL it waits for while it asks
    block,     \* the block in its hands
    blocks,    \* the channel
    received,  \* what main took from it
    dropped,   \* slots whose blocks the fetcher threw away
    saidSkipped \* slots an endpoint called skipped when asked for their block

mainVars == <<main, start, received>>
pollVars == <<latest, polling>>
fetchVars == <<next, fetching, asked, block, blocks, dropped, saidSkipped>>
vars == <<poolVars, tip, faults, cancelled, mainVars, pollVars, fetchVars>>

Urls == {e.url : e \in Range(endpoints)}

Running == main \notin {"exited", "failed"}

(* call: a failed request marks its endpoint unhealthy, a decoded result,   *)
(* null included, healthy; an RPC error leaves it as it is.                 *)
Mark(url, reply) ==
    CASE reply.kind = "down" -> Marked(url, FALSE)
      [] reply.kind \in {"error", "missing", "unavailable"} -> endpoints
      [] reply.kind \in {"null", "result"} -> Marked(url, TRUE)

Settled(url, reply) ==
    /\ endpoints' = Mark(url, reply.got)
    /\ faults' = reply.faults

(* RPCClient.GetSlot asks at config.Commitment, getBlock at the server's    *)
(* own, finalized: the slot may be ahead of tip, the latest slot whose block *)
(* is given.                                                               *)
GetSlot(url) ==
    Replies(url, {Result(s) : s \in tip..MaxSlot},
            {Result(s) : s \in WrongSlots} \cup {Other("down"), Other("error")})

(* RPCClient.GetBlock: a block that is not there yet is unavailable.        *)
TrueAnswers(slot) ==
    IF slot > tip THEN {Other("error"), Other("unavailable")}
    ELSE IF slot \in DOMAIN BlockAt THEN {Result(BlockAt[slot])}
    ELSE {Other(k) : k \in SkipReplies}

GetBlock(url, slot) ==
    Replies(url, TrueAnswers(slot),
            {Result(r) : r \in BadAnswers} \cup {Other(k) : k \in {"down", "error", "null", "missing", "unavailable"}})

-----------------------------------------------------------------------------
Init ==
    /\ PoolInit
    /\ main = "discover"
    /\ start \in FromSlots /\ latest = 0 /\ next = 0
    /\ polling = "off" /\ fetching = "off" /\ asked = None
    /\ block = None /\ blocks = <<>> /\ received = <<>>
    /\ dropped = {} /\ saidSkipped = {}

(* SIGINT or SIGTERM. *)
Signal ==
    /\ Running
    /\ cancelled' = TRUE
    /\ UNCHANGED <<poolVars, tip, faults, mainVars, pollVars, fetchVars>>

(* main discovers the endpoints, or takes the reference endpoints, and     *)
(* makes and starts the pool.                                              *)
MakePool ==
    /\ main = "discover"
    /\ main' = "connect"
    /\ \E urls \in Discoveries :
          endpoints' = WithUrls(<<>>, IF urls = Failed THEN References ELSE urls)
    /\ UNCHANGED <<idx, check, tip, faults, cancelled, start, received, pollVars, fetchVars>>

(* Connect starts the two loops at config.FromSlot ... *)
Loops(slot) ==
    /\ start' = slot /\ latest' = slot /\ next' = slot
    /\ polling' = "idle" /\ fetching' = "idle"
    /\ main' = "run"
    /\ UNCHANGED <<asked, block, blocks, dropped, saidSkipped, received>>

ConnectAt ==
    /\ main = "connect" /\ start # None
    /\ Loops(start)
    /\ UNCHANGED <<poolVars, tip, faults, cancelled>>

(* ... or at the slot an endpoint gives; a failure ends the program. *)
ConnectAsk ==
    /\ main = "connect" /\ start = None /\ polling = "off"
    /\ \E u \in Urls : polling' = u /\ GetEndpoint(u)
    /\ UNCHANGED <<endpoints, check, tip, faults, cancelled, mainVars, latest, fetchVars>>

ConnectAnswer ==
    /\ main = "connect" /\ polling # "off"
    /\ \E reply \in GetSlot(polling) :
          /\ Settled(polling, reply)
          /\ IF reply.got.kind = "result" THEN Loops(reply.got.value)
             ELSE /\ main' = "failed"
                  /\ UNCHANGED <<start, received, pollVars, fetchVars>>
    /\ UNCHANGED <<idx, check, tip, cancelled>>

(* slotPollingLoop: its ticker may win over a cancelled context. *)
PollAsk ==
    /\ Running /\ polling = "idle"
    /\ \E u \in Urls : polling' = u /\ GetEndpoint(u)
    /\ UNCHANGED <<endpoints, check, tip, faults, cancelled, mainVars, latest, fetchVars>>

PollAnswer ==
    /\ main \in {"run", "closing"} /\ polling \in Urls
    /\ polling' = "idle"
    /\ \E reply \in GetSlot(polling) :
          /\ Settled(polling, reply)
          /\ latest' = IF reply.got.kind = "result" /\ reply.got.value > latest
                         THEN reply.got.value ELSE latest
    /\ UNCHANGED <<idx, check, tip, cancelled, mainVars, fetchVars>>

PollStop ==
    /\ Running /\ polling = "idle" /\ cancelled
    /\ polling' = "off"
    /\ UNCHANGED <<poolVars, tip, faults, cancelled, mainVars, latest, fetchVars>>

(* blockFetchingLoop asks for the next slot once it is known to exist. *)
FetchAsk ==
    /\ fetching = "idle" /\ ~cancelled /\ next <= latest
    /\ fetching' = "ask"
    /\ \E u \in Urls : asked' = u /\ GetEndpoint(u)
    /\ UNCHANGED <<endpoints, check, tip, faults, cancelled, mainVars, pollVars,
                   next, block, blocks, dropped, saidSkipped>>

Skipped_AnyRpcError(got) == got.kind \in {"null", "missing", "unavailable", "error"}

(* fetchBlockWithRetry: what is taken to mean that the slot has no block.  *)
(* IsSlotSkipped counts "unavailable" too, but the fetcher does not use it. *)
Skipped(got) == got.kind \in {"null", "missing"}

(* A skipped slot is passed over, any other error has it asked again. *)
FetchAnswer ==
    /\ fetching = "ask" /\ asked' = None
    /\ \E reply \in GetBlock(asked, next) :
          LET answer == IF reply.got.kind = "result" THEN Block(next, reply.got.value) ELSE Failed
          IN /\ Settled(asked, reply)
             /\ next' = IF Skipped(reply.got) THEN next + 1 ELSE next
             /\ saidSkipped' = IF reply.got.kind \in {"null", "missing"}
                               THEN saidSkipped \cup {next} ELSE saidSkipped
             /\ IF answer = Failed THEN fetching' = "idle" /\ UNCHANGED block
                ELSE fetching' = "send" /\ block' = answer
    /\ UNCHANGED <<idx, check, tip, cancelled, mainVars, pollVars, blocks, dropped>>

(* Sending the block without waiting ... *)
Sent ==
    /\ blocks' = Append(blocks, block) /\ block' = None
    /\ next' = next + 1
    /\ fetching' = "idle"
    /\ UNCHANGED <<dropped, saidSkipped>>

Send ==
    /\ fetching = "send"
    /\ IF Len(blocks) < ChanSize THEN Sent
       ELSE fetching' = "full" /\ UNCHANGED <<next, block, blocks, dropped, saidSkipped>>
    /\ UNCHANGED <<poolVars, tip, faults, cancelled, mainVars, pollVars, asked>>

DropOldest_Waits ==
    /\ fetching = "full"
    /\ fetching' = "resend"
    /\ UNCHANGED <<poolVars, tip, faults, cancelled, mainVars, pollVars, next, asked, block, blocks, dropped, saidSkipped>>

(* ... by dropping the oldest one from a full channel, if main has not     *)
(* emptied it by then ...                                                  *)
DropOldest ==
    /\ fetching = "full"
    /\ fetching' = "resend"
    /\ IF blocks = <<>> THEN UNCHANGED <<blocks, dropped>>
       ELSE blocks' = Tail(blocks) /\ dropped' = dropped \cup {Head(blocks).slot}
    /\ UNCHANGED <<poolVars, tip, faults, cancelled, mainVars, pollVars, next, asked, block, saidSkipped>>

(* ... and then by a send that would wait for room. *)
Resend ==
    /\ fetching = "resend" /\ Len(blocks) < ChanSize
    /\ Sent
    /\ UNCHANGED <<poolVars, tip, faults, cancelled, mainVars, pollVars, asked>>

FetchStop ==
    /\ fetching = "idle" /\ cancelled
    /\ fetching' = "off"
    /\ UNCHANGED <<poolVars, tip, faults, cancelled, mainVars, pollVars,
                   next, asked, block, blocks, dropped, saidSkipped>>

(* main takes a block. *)
Process ==
    /\ main = "run" /\ blocks # <<>>
    /\ received' = Append(received, Head(blocks))
    /\ blocks' = Tail(blocks)
    /\ UNCHANGED <<poolVars, tip, faults, cancelled, main, start, pollVars,
                   next, fetching, asked, block, dropped, saidSkipped>>

(* The goroutine that prints the status asks for the fetcher's health, which*)
(* takes a turn of the pool.                                               *)
Status ==
    /\ main \in {"run", "closing"}
    /\ \E u \in Urls : GetEndpoint(u)
    /\ UNCHANGED <<endpoints, check, tip, faults, cancelled, mainVars, pollVars, fetchVars>>

(* main returns once the context is cancelled, and its deferred Close waits  *)
(* for the two loops.                                                      *)
Stop ==
    /\ main = "run" /\ cancelled
    /\ main' = "closing"
    /\ UNCHANGED <<poolVars, tip, faults, cancelled, start, received, pollVars, fetchVars>>

Close ==
    /\ main = "closing" /\ polling = "off" /\ fetching = "off"
    /\ main' = "exited"
    /\ UNCHANGED <<poolVars, tip, faults, cancelled, start, received, pollVars, fetchVars>>

Exited == ~Running /\ UNCHANGED vars

MainNext == MakePool \/ ConnectAt \/ ConnectAsk \/ ConnectAnswer \/ Process \/ Stop \/ Close
PollNext == PollAsk \/ PollAnswer \/ PollStop
FetchNext == FetchAsk \/ FetchAnswer \/ Send \/ DropOldest \/ Resend \/ FetchStop

Around == Running /\ UNCHANGED <<mainVars, pollVars, fetchVars>>

Next ==
    \/ Signal \/ MainNext \/ PollNext \/ FetchNext \/ Status \/ Exited
    \/ Around /\ PoolNext

(***************************************************************************)
(* Each goroutine goes on: requests and listening end by their timeouts,   *)
(* tickers tick.  A select picks at random among what is ready, so that    *)
(* slotPollingLoop sees the cancelled context in the end although its      *)
(* ticker keeps ticking.  Nothing is assumed of the cluster, the signals   *)
(* and the rediscoveries.                                                  *)
(***************************************************************************)
Fairness ==
    /\ WF_vars(MainNext) /\ WF_vars(FetchNext)
    /\ WF_vars(PollAsk \/ PollAnswer) /\ SF_vars(PollStop)
    /\ WF_vars(Around /\ (BeginCheck \/ CheckEndpoint))

Spec == Init /\ [][Next]_vars /\ Fairness

-----------------------------------------------------------------------------
(* The variables keep their types, and the pool has one entry for each URL *)
(* although discovery may name a node twice.                               *)
TypeOK ==
    /\ PoolTypeOK
    /\ main \in {"discover", "connect", "run", "closing", "exited", "failed"}
    /\ start \in Slots \cup {None} /\ latest \in Slots /\ next \in 0..MaxSlot+1
    /\ polling \in {"off", "idle"} \cup Urls
    /\ fetching \in {"off", "idle", "ask", "send", "full", "resend"}
    /\ asked \in IF fetching = "ask" THEN Urls ELSE {None}
    /\ Len(blocks) <= ChanSize
    /\ dropped \cup saidSkipped \subseteq Slots

SlotsOf(s) == [i \in DOMAIN s |-> s[i].slot]

(* blockFetchingLoop, fetcher.go:255: whatever fails and however main keeps *)
(* up, blocks are handed on in slot order, none twice, and each slot that   *)
(* was passed was handed on, is in the channel, was called skipped by an    *)
(* endpoint, or was thrown away for later ones - exactly one of these.      *)
SlotsAccounted ==
    LET out == SlotsOf(received \o blocks)
        handed == Range(out)
    IN main \in {"run", "closing", "exited"} =>
        /\ \A i, j \in DOMAIN out : i < j => out[i] < out[j]
        /\ handed \cup dropped \cup saidSkipped = start..next-1
        /\ handed \cap dropped = {} /\ saidSkipped \cap (handed \cup dropped) = {}
        /\ \A i \in DOMAIN blocks, s \in dropped : s < blocks[i].slot
        /\ block # None => block.slot = next

(* convertTransaction, client.go:331: a block that is handed on needs of    *)
(* each transaction as many signers as it carries signatures, whichever     *)
(* form the account keys had, and counts the votes the cluster counts.      *)
HeadersKept ==
    \A b \in Range(received \o blocks) :
        \A i \in DOMAIN b.txs :
            LET told == BlockAt[b.slot].txs[i]
            IN /\ b.txs[i].header.signers = Len(told.sigs)
               /\ b.txs[i].header.signers <= Len(b.txs[i].keys)
               /\ b.txs[i].vote <=> \E j \in DOMAIN told.ixs :
                     /\ told.ixs[j].program # None
                     /\ told.keys[told.ixs[j].program + 1].pubkey = VoteProgram

(* Close, fetcher.go:407: once a signal has come the program ends, be main  *)
(* the only reader of the channel and gone by then.                         *)
FetcherStops == cancelled ~> ~Running

(* The pool's recovery, main.go:301: while a signal does not end it, and    *)
(* with an endpoint in the pool that answers, every slot the cluster has    *)
(* reached is passed in the end (those before FirstTip with it), although   *)
(* that endpoint may have been marked unhealthy and the one used instead    *)
(* never answers.  This needs endpoints that answer null or skipped for a   *)
(* slot without a block: if they call it unavailable, which errors.go:51    *)
(* counts among the missing and skipped ones, the fetcher asks for it for   *)
(* ever and passes no later slot.                                           *)
EverySlotFetched ==
    \A s \in FirstTip..MaxSlot : (main = "run" /\ s <= tip /\ ~(Urls \subseteq Down)) ~> (next > s \/ cancelled)
=============================================================================
