---------------------------- MODULE GeyserClient ----------------------------
(***************************************************************************)
(* pkg/geyser/client.go: the client that keeps a subscription to a Geyser  *)
(* server alive and hands the blocks it receives to a bounded channel.     *)
(*                                                                         *)
(* Every connection comes with goroutines (receiveLoop, healthCheckLoop),  *)
(* numbered here as the connection.  They share c.conn and c.stream, c.ctx *)
(* and the flag connected, and read the fields anew at each turn, so that  *)
(* a loop of an old connection works on the current one.  handleDisconnect,*)
(* called by any of them, closes the current connection and starts a       *)
(* reconnect goroutine, which nobody waits for.  Connect and Close are     *)
(* called by the node's Start and Stop.                                    *)
(*                                                                         *)
(* Time is abstracted: a timer may fire at any moment, except that a       *)
(* ticker's first tick comes after Connect has stored connected (the       *)
(* interval is seconds, the gap a few instructions).  The ping loop, which *)
(* changes nothing the model tells apart and ends as the health loop does, *)
(* is left out, as are slot updates, handled as the block updates are.     *)
(***************************************************************************)
EXTENDS Integers, Sequences, FiniteSets

CONSTANTS
    BlockCap,        \* config.BlockChannelSize
    MaxReconnects,   \* values of config.MaxReconnects (0: unlimited)
    MaxConns,        \* bound on the connections the server accepts; the last of
                     \* them does not go stale, as nothing could replace it
    MaxOutages       \* bound on the failures of the server

ASSUME ClientAssumption ==
    /\ BlockCap \in Nat \ {0}
    /\ MaxReconnects \subseteq Nat /\ MaxReconnects # {}
    /\ MaxConns \in Nat \ {0} /\ MaxOutages \in Nat

Conns == 1..MaxConns

VARIABLES
    \* the server and the network
    serverUp,
    broken,        \* connections the server side has ended
    outages,
    \* Client
    maxReconnects,
    connected, closed,
    conns,         \* connections made so far
    conn,          \* c.conn and c.stream (0: nil)
    open,          \* connections not closed by the client
    ctxDone,       \* c.ctx is cancelled
    ctxOwn,        \* c.ctx is a background context of reconnect's
    stale,         \* lastUpdate is older than StaleTimeout
    blocks,        \* number of blocks in the channel blocks
    chanOpen,
    panicked,      \* something was sent on the closed channel
    \* the callers: the node's Start, then its Stop
    caller,        \* progress of Connect
    callerDone,    \* the context given to Connect is cancelled
    closer,        \* progress of Close
    \* goroutines, by connection
    recv,          \* program counters of receiveLoop
    reads,         \* the connection it calls Recv on (0: none)
    health,        \* program counters of healthCheckLoop
    rec,           \* rec[i]: the reconnect started when connection i was lost
    attempt        \* its local attempt

serverVars == <<serverUp, broken, outages>>
linkVars == <<conns, conn, open>>
ctxVars == <<ctxDone, ctxOwn>>
chanVars == <<blocks, chanOpen, panicked>>
callVars == <<caller, callerDone, closer>>
recvVars == <<recv, reads>>
recVars == <<rec, attempt>>
vars == <<serverVars, maxReconnects, connected, closed, linkVars, ctxVars, stale,
          chanVars, callVars, recvVars, health, recVars>>

(* The variables keep their types.                                         *)
TypeOK ==
    /\ serverUp \in BOOLEAN /\ broken \subseteq Conns
    /\ outages \in 0..MaxOutages
    /\ maxReconnects \in MaxReconnects
    /\ connected \in BOOLEAN /\ closed \in BOOLEAN
    /\ conns \in 0..MaxConns /\ conn \in 0..MaxConns /\ open \subseteq Conns
    /\ ctxDone \in BOOLEAN /\ ctxOwn \in BOOLEAN /\ stale \in BOOLEAN
    /\ blocks \in 0..BlockCap
    /\ chanOpen \in BOOLEAN /\ panicked \in BOOLEAN
    /\ caller \in {"idle", "dial", "spawn", "mark", "up"}
    /\ callerDone \in BOOLEAN
    /\ closer \in {"no", "cancel", "wait", "done"}
    /\ recv \in [Conns -> {"off", "top", "recv", "got", "evict", "push", "lost",
                           "clean", "exit", "last"}]
    /\ reads \in [Conns -> 0..MaxConns]
    /\ health \in [Conns -> {"off", "sel", "lost", "clean"}]
    /\ rec \in [Conns -> {"off", "check", "wait", "fired", "dial", "mark", "spawn"}]
    /\ attempt \in [Conns -> Nat]

Init ==
    /\ serverUp = TRUE /\ broken = {} /\ outages = 0
    /\ maxReconnects \in MaxReconnects
    /\ connected = FALSE /\ closed = FALSE
    /\ conns = 0 /\ conn = 0 /\ open = {}
    /\ ctxDone = FALSE /\ ctxOwn = FALSE /\ stale = FALSE
    /\ blocks = 0 /\ chanOpen = TRUE /\ panicked = FALSE
    /\ caller = "idle" /\ callerDone = FALSE /\ closer = "no"
    /\ recv = [i \in Conns |-> "off"]
    /\ reads = [i \in Conns |-> 0]
    /\ health = [i \in Conns |-> "off"]
    /\ rec = [i \in Conns |-> "off"] /\ attempt = [i \in Conns |-> 0]

-----------------------------------------------------------------------------
(* The server and the passing of time                                      *)

Accepts == serverUp /\ conns < MaxConns

(* The server, or the network, goes away: every stream ends.               *)
Outage ==
    /\ serverUp /\ outages < MaxOutages
    /\ serverUp' = FALSE
    /\ outages' = outages + 1
    /\ broken' = broken \cup open
    /\ UNCHANGED <<maxReconnects, connected, closed, linkVars, ctxVars, stale,
                   chanVars, callVars, recvVars, health, recVars>>

Recover ==
    /\ ~serverUp
    /\ serverUp' = TRUE
    /\ UNCHANGED <<broken, outages, maxReconnects, connected, closed, linkVars,
                   ctxVars, stale, chanVars, callVars, recvVars, health, recVars>>

(* StaleTimeout passes without an update.                                  *)
GoStale ==
    /\ ~stale /\ conns < MaxConns
    /\ stale' = TRUE
    /\ UNCHANGED <<serverVars, maxReconnects, connected, closed, linkVars, ctxVars,
                   chanVars, callVars, recvVars, health, recVars>>

(* The node's blockIngestionLoop takes a block, until its context ends.    *)
Consume ==
    /\ ~callerDone /\ blocks > 0
    /\ blocks' = blocks - 1
    /\ UNCHANGED <<serverVars, maxReconnects, connected, closed, linkVars, ctxVars,
                   stale, chanOpen, panicked, callVars, recvVars, health, recVars>>

-----------------------------------------------------------------------------
(* connect, the part Connect and reconnect share                           *)

(* Dialling replaces c.conn and c.stream ...                               *)
DialSucceeds ==
    /\ Accepts /\ ~ctxDone
    /\ conns' = conns + 1
    /\ conn' = conns + 1
    /\ open' = open \cup {conns + 1}

(* ... and after a failure leaves nothing open.                            *)
DialFails ==
    /\ ~Accepts \/ ctxDone
    /\ UNCHANGED linkVars

StartLoops_NoHealth(i) ==
    /\ recv' = [recv EXCEPT ![i] = "top"]
    /\ UNCHANGED health

StartLoops(i) ==
    /\ recv' = [recv EXCEPT ![i] = "top"]
    /\ health' = [health EXCEPT ![i] = "sel"]

-----------------------------------------------------------------------------
(* Connect                                                                 *)

ConnectBegin ==
    /\ caller = "idle"
    /\ ~closed /\ ~connected /\ ~callerDone
    /\ ctxDone' = FALSE /\ ctxOwn' = FALSE
    /\ caller' = "dial"
    /\ UNCHANGED <<serverVars, maxReconnects, connected, closed, linkVars, stale,
                   chanVars, callerDone, closer, recvVars, health, recVars>>

ConnectDials ==
    /\ caller = "dial"
    /\ DialSucceeds
    /\ caller' = "spawn"
    /\ UNCHANGED <<serverVars, maxReconnects, connected, closed, ctxVars, stale,
                   chanVars, callerDone, closer, recvVars, health, recVars>>

(* It cancels the context it made, and the node's Start fails.             *)
ConnectFails ==
    /\ caller = "dial"
    /\ DialFails
    /\ ctxDone' = TRUE
    /\ caller' = "idle"
    /\ UNCHANGED <<serverVars, maxReconnects, connected, closed, ctxOwn, stale,
                   chanVars, callerDone, closer, recvVars, health, recVars>>

ConnectSpawns ==
    /\ caller = "spawn"
    /\ StartLoops(conn)
    /\ caller' = "mark"
    /\ UNCHANGED <<serverVars, maxReconnects, connected, closed, linkVars, ctxVars,
                   stale, chanVars, callerDone, closer, reads, recVars>>

ConnectMarks ==
    /\ caller = "mark"
    /\ connected' = TRUE /\ stale' = FALSE
    /\ caller' = "up"
    /\ UNCHANGED <<serverVars, maxReconnects, closed, linkVars, ctxVars, chanVars,
                   callerDone, closer, recvVars, health, recVars>>

(* The caller cancels the context it gave to Connect: c.ctx ends with it,  *)
(* unless reconnect has replaced it.                                       *)
CallerCancels ==
    /\ caller = "up" /\ ~callerDone
    /\ callerDone' = TRUE
    /\ ctxDone' = (ctxDone \/ ~ctxOwn)
    /\ UNCHANGED <<serverVars, maxReconnects, connected, closed, linkVars, ctxOwn,
                   stale, chanVars, caller, closer, recvVars, health, recVars>>

-----------------------------------------------------------------------------
(* handleDisconnect, as called by a receive or a health loop               *)

(* Only the call that turns connected off goes on; the others return.      *)
TakeDown(i, pc, cleaning, done) ==
    IF connected THEN connected' = FALSE /\ pc' = [pc EXCEPT ![i] = cleaning]
    ELSE UNCHANGED connected /\ pc' = [pc EXCEPT ![i] = done]

CleanUp_KeepOpen ==
    /\ UNCHANGED open
    /\ IF closed THEN UNCHANGED recVars
       ELSE /\ rec' = [rec EXCEPT ![conns] = "check"]
            /\ attempt' = [attempt EXCEPT ![conns] = 0]

(* It closes the current connection and, unless Close was called, starts   *)
(* a reconnect.                                                            *)
CleanUp ==
    /\ open' = open \ {conn}
    /\ IF closed THEN UNCHANGED recVars
       ELSE /\ rec' = [rec EXCEPT ![conns] = "check"]
            /\ attempt' = [attempt EXCEPT ![conns] = 0]

-----------------------------------------------------------------------------
(* receiveLoop and processUpdate                                           *)

(* The variables no receive step changes.                                  *)
recvFrame == <<serverUp, broken, outages, maxReconnects, closed, conns, conn, ctxVars,
               callVars, health>>

(* The top of the loop: the context first, then Recv on the current stream.*)
RecvTop(i) ==
    /\ recv[i] = "top"
    /\ recv' = [recv EXCEPT ![i] = IF ctxDone THEN "exit" ELSE "recv"]
    /\ reads' = [reads EXCEPT ![i] = IF ctxDone THEN 0 ELSE conn]
    /\ UNCHANGED <<recvFrame, connected, open, stale, chanVars, recVars>>

Ended(k) == k \notin open \/ k \in broken

RecvUpdate(i) ==
    /\ recv[i] = "recv" /\ ~Ended(reads[i]) /\ ~ctxDone
    /\ stale' = FALSE
    /\ reads' = [reads EXCEPT ![i] = 0]
    /\ recv' = [recv EXCEPT ![i] = "got"]
    /\ UNCHANGED <<recvFrame, connected, open, chanVars, recVars>>

(* A cancelled context is a normal shutdown, unless the server ended the   *)
(* stream (io.EOF).                                                        *)
RecvFails(i) ==
    /\ recv[i] = "recv"
    /\ Ended(reads[i]) \/ ctxDone
    /\ \/ (reads[i] \in broken \/ ~ctxDone) /\ recv' = [recv EXCEPT ![i] = "lost"]
       \/ ctxDone /\ recv' = [recv EXCEPT ![i] = "exit"]
    /\ reads' = [reads EXCEPT ![i] = 0]
    /\ UNCHANGED <<recvFrame, connected, open, stale, chanVars, recVars>>

Deliver_Unbounded(i, next) ==
    /\ blocks' = blocks + 1
    /\ recv' = [recv EXCEPT ![i] = next]
    /\ UNCHANGED <<chanOpen, panicked>>

(* Sending on the channel panics once it is closed.                        *)
Deliver(i, next) ==
    IF chanOpen THEN /\ blocks < BlockCap
                     /\ blocks' = blocks + 1
                     /\ recv' = [recv EXCEPT ![i] = next]
                     /\ UNCHANGED <<chanOpen, panicked>>
    ELSE panicked' = TRUE /\ recv' = [recv EXCEPT ![i] = "off"]
         /\ UNCHANGED <<chanOpen, blocks>>

Send(i) ==
    /\ recv[i] = "got"
    /\ \/ Deliver(i, "top")
       \/ /\ chanOpen /\ blocks = BlockCap
          /\ recv' = [recv EXCEPT ![i] = "evict"]
          /\ UNCHANGED chanVars
    /\ UNCHANGED <<recvFrame, connected, open, stale, reads, recVars>>

Evict_Nothing(i) ==
    /\ recv[i] = "evict"
    /\ recv' = [recv EXCEPT ![i] = "push"]
    /\ UNCHANGED <<recvFrame, chanVars, connected, open, stale, reads, recVars>>

(* The oldest block is dropped, if there still is one ...                  *)
Evict(i) ==
    /\ recv[i] = "evict"
    /\ blocks' = IF blocks = 0 THEN 0 ELSE blocks - 1
    /\ recv' = [recv EXCEPT ![i] = "push"]
    /\ UNCHANGED <<recvFrame, chanOpen, panicked, connected, open, stale, reads, recVars>>

(* ... and the new one is sent, waiting for room.                          *)
Push(i) ==
    /\ recv[i] = "push"
    /\ Deliver(i, "top")
    /\ UNCHANGED <<recvFrame, connected, open, stale, reads, recVars>>

(* handleDisconnect on an error, and once more, deferred, on the way out.  *)
RecvDisconnects(i) ==
    /\ \/ recv[i] = "lost" /\ TakeDown(i, recv, "clean", "exit")
       \/ recv[i] = "exit" /\ TakeDown(i, recv, "last", "off")
    /\ UNCHANGED <<recvFrame, open, stale, chanVars, reads, recVars>>

RecvCleans(i) ==
    /\ recv[i] \in {"clean", "last"}
    /\ CleanUp
    /\ recv' = [recv EXCEPT ![i] = IF @ = "clean" THEN "exit" ELSE "off"]
    /\ UNCHANGED <<recvFrame, connected, stale, chanVars, reads>>

-----------------------------------------------------------------------------
(* healthCheckLoop                                                         *)

healthFrame == <<serverVars, maxReconnects, closed, conns, conn, ctxVars, stale,
                 chanVars, callVars, recvVars>>

(* A loop of the first connection may still select on the caller's context.*)
HealthEnds(i) ==
    /\ health[i] = "sel"
    /\ ctxDone \/ (callerDone /\ i = 1)
    /\ health' = [health EXCEPT ![i] = "off"]
    /\ UNCHANGED <<healthFrame, connected, open, recVars>>

HealthTick(i) ==
    /\ health[i] = "sel" /\ caller # "mark"
    /\ \/ ~connected /\ health' = [health EXCEPT ![i] = "off"]
       \/ connected /\ stale /\ health' = [health EXCEPT ![i] = "lost"]
    /\ UNCHANGED <<healthFrame, connected, open, recVars>>

HealthDisconnects(i) ==
    /\ health[i] = "lost"
    /\ TakeDown(i, health, "clean", "off")
    /\ UNCHANGED <<healthFrame, open, recVars>>

HealthCleans(i) ==
    /\ health[i] = "clean"
    /\ CleanUp
    /\ health' = [health EXCEPT ![i] = "off"]
    /\ UNCHANGED <<healthFrame, connected>>

-----------------------------------------------------------------------------
(* reconnect                                                               *)

recFrame == <<serverVars, maxReconnects, closed, chanVars, callVars, reads>>

(* The loop's head: the attempt is counted and compared with the limit (an *)
(* unlimited client's attempts are not kept).                              *)
RecChecks(i) ==
    LET next == attempt[i] + 1 IN
    /\ rec[i] = "check"
    /\ IF closed \/ (maxReconnects > 0 /\ next > maxReconnects)
       THEN rec' = [rec EXCEPT ![i] = "off"]
       ELSE rec' = [rec EXCEPT ![i] = "wait"]
    /\ attempt' = [attempt EXCEPT ![i] = IF closed \/ maxReconnects = 0 THEN @ ELSE next]
    /\ UNCHANGED <<recFrame, connected, linkVars, ctxVars, stale, recv, health>>

(* The backoff passes, or the context ends first.                          *)
RecWaits(i) ==
    /\ rec[i] = "wait"
    /\ rec' = [rec EXCEPT ![i] = IF ctxDone THEN "off" ELSE "fired"]
    /\ UNCHANGED <<recFrame, connected, linkVars, ctxVars, stale, recv, health, attempt>>

(* A background context takes the place of the client's.                   *)
RecRenews(i) ==
    /\ rec[i] = "fired"
    /\ ctxDone' = FALSE /\ ctxOwn' = TRUE
    /\ rec' = [rec EXCEPT ![i] = "dial"]
    /\ UNCHANGED <<recFrame, connected, linkVars, stale, recv, health, attempt>>

RecDials(i) ==
    /\ rec[i] = "dial"
    /\ \/ DialSucceeds /\ rec' = [rec EXCEPT ![i] = "mark"]
       \/ DialFails /\ rec' = [rec EXCEPT ![i] = "check"]
    /\ UNCHANGED <<recFrame, connected, ctxVars, stale, recv, health, attempt>>

RecMarks_StaysDown(i) ==
    /\ rec[i] = "mark"
    /\ stale' = FALSE
    /\ rec' = [rec EXCEPT ![i] = "spawn"]
    /\ UNCHANGED <<recFrame, connected, linkVars, ctxVars, recv, health, attempt>>

RecMarks(i) ==
    /\ rec[i] = "mark"
    /\ connected' = TRUE /\ stale' = FALSE
    /\ rec' = [rec EXCEPT ![i] = "spawn"]
    /\ UNCHANGED <<recFrame, linkVars, ctxVars, recv, health, attempt>>

RecSpawns(i) ==
    /\ rec[i] = "spawn"
    /\ StartLoops(i + 1)
    /\ rec' = [rec EXCEPT ![i] = "off"]
    /\ UNCHANGED <<recFrame, connected, linkVars, ctxVars, stale, attempt>>

-----------------------------------------------------------------------------
(* Close                                                                   *)

closeFrame == <<serverVars, maxReconnects, connected, conns, conn, ctxOwn, stale,
                blocks, panicked, caller, callerDone, recvVars, health, recVars>>

BeginClose ==
    /\ caller = "up" /\ callerDone /\ closer = "no"
    /\ closed' = TRUE
    /\ closer' = "cancel"
    /\ UNCHANGED <<closeFrame, open, ctxDone, chanOpen>>

CloseCancels ==
    /\ closer = "cancel"
    /\ ctxDone' = TRUE
    /\ closer' = "wait"
    /\ UNCHANGED <<closeFrame, closed, open, chanOpen>>

AllLoopsEnded == \A i \in Conns : recv[i] = "off" /\ health[i] = "off"

CloseFinishes ==
    /\ closer = "wait" /\ AllLoopsEnded
    /\ open' = open \ {conn}
    /\ chanOpen' = FALSE
    /\ closer' = "done"
    /\ UNCHANGED <<closeFrame, closed, ctxDone>>

-----------------------------------------------------------------------------
ReceiveLoop(i) ==
    \/ RecvTop(i) \/ RecvUpdate(i) \/ RecvFails(i) \/ Send(i) \/ Evict(i) \/ Push(i)
    \/ RecvDisconnects(i) \/ RecvCleans(i)

HealthLoop(i) ==
    HealthEnds(i) \/ HealthTick(i) \/ HealthDisconnects(i) \/ HealthCleans(i)

Reconnect(i) ==
    RecChecks(i) \/ RecWaits(i) \/ RecRenews(i) \/ RecDials(i) \/ RecMarks(i) \/ RecSpawns(i)

Connect == ConnectBegin \/ ConnectDials \/ ConnectFails \/ ConnectSpawns \/ ConnectMarks

Close == CloseCancels \/ CloseFinishes

Next ==
    \/ Outage \/ Recover \/ GoStale \/ Consume \/ CallerCancels \/ BeginClose
    \/ Connect \/ Close
    \/ \E i \in Conns : ReceiveLoop(i) \/ HealthLoop(i) \/ Reconnect(i)

Spec == Init /\ [][Next]_vars

(* The scheduler runs every goroutine and timers fire; the server comes    *)
(* back; the node takes blocks until it stops; nothing but an update keeps *)
(* a client from going stale.  That updates are sent is not assumed.       *)
ReceiveSteps(i) ==
    \/ RecvTop(i) \/ RecvFails(i) \/ Send(i) \/ Evict(i) \/ Push(i)
    \/ RecvDisconnects(i) \/ RecvCleans(i)

NobodyReceives == \A i \in Conns : recv[i] = "off"

FairSpec ==
    /\ Spec
    /\ WF_vars(Recover) /\ WF_vars(Consume) /\ WF_vars(GoStale /\ NobodyReceives)
    /\ WF_vars(ConnectSpawns) /\ WF_vars(ConnectMarks) /\ WF_vars(Close)
    /\ \A i \in Conns :
          WF_vars(ReceiveSteps(i)) /\ WF_vars(HealthLoop(i)) /\ WF_vars(Reconnect(i))

-----------------------------------------------------------------------------
(* Every connection that is replaced has been closed, by whichever of the  *)
(* loops of whichever connection noticed first (handleDisconnect's swap).  *)
AtMostOneConnection == open \subseteq {conn}

(* While the client says it is connected, a health loop is there to notice *)
(* silence, or is about to be started: the loops of an old connection may  *)
(* take the new one down, and a receive loop may die before Connect stores *)
(* connected, but never unobserved.                                        *)
ConnectedIsWatched ==
    (connected /\ ~ctxDone) =>
        \/ \E i \in Conns : health[i] \in {"sel", "lost"} \/ rec[i] = "spawn"

GaveUp == maxReconnects > 0 /\ \E i \in Conns : attempt[i] > maxReconnects

\* The last connection the bound allows is itself lost.
Exhausted == conns = MaxConns /\ Ended(conn)

(* handleDisconnect and reconnect, client.go:1000 and 1034: a connection   *)
(* the server side has ended is replaced by a working one that the client  *)
(* counts as connected, unless the client is stopped or gives up at        *)
(* MaxReconnects.  Dialling the last connection is not enough: the escape  *)
(* is there only once that one is lost too.                                *)
Recovers ==
    (caller = "up" /\ conn \in broken) ~>
        \/ connected /\ conn \in open \ broken
        \/ ctxDone \/ closed \/ GaveUp \/ Exhausted

(* Close returns, client.go:1120, if no reconnect is in flight and at most *)
(* one receive loop is left that is not blocked on a queue another loop    *)
(* filled.                                                                 *)
ClientCloseReturns ==
    /\ closer = "cancel" \/ (closer = "wait" /\ ctxDone)
    /\ \A i \in Conns : rec[i] = "off"
    /\ Cardinality({i \in Conns : recv[i] # "off"}) <= 1
    /\ blocks = BlockCap => \A i \in Conns : recv[i] # "push"
    ~> closer = "done"
=============================================================================
