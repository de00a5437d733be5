---------------------------- MODULE GeyserProofs ----------------------------
(***************************************************************************)
(* Proofs about GeyserClient for every channel size, reconnect limit and   *)
(* number of connections and outages.                                      *)
(***************************************************************************)
EXTENDS GeyserClient, TLAPS

CleaningUp == {"clean", "last"}
Cleaning(i) == recv[i] \in CleaningUp \/ health[i] = "clean"
Dialling == {"check", "wait", "fired", "dial"}
Redialling(i) == rec[i] \in Dialling \cup {"mark"}

(* Nothing happens but Connect until Connect returns, and its context      *)
(* lives as long as it runs.                                               *)
ConnectOK ==
    /\ conn = conns
    /\ caller \in {"idle", "dial"} => conns = 0 /\ open = {}
    /\ caller \in {"spawn", "mark", "up"} => conns >= 1
    /\ caller \in {"dial", "spawn", "mark"} => ~ctxDone /\ ~ctxOwn
    /\ caller = "mark" => health[conns] = "sel"
    /\ caller # "up" => /\ ~connected /\ ~callerDone /\ closer = "no"
                        /\ \A i \in Conns : ~Cleaning(i) /\ rec[i] = "off"

(* The flag connected is a token: it is there, or one loop took it and     *)
(* cleans up, or one reconnect holds it until it has dialled, or it is     *)
(* gone for good.                                                          *)
TokenOK ==
    /\ connected => \A i \in Conns : ~Cleaning(i) /\ ~Redialling(i)
    /\ \A i, j \in Conns : Cleaning(i) => ~Redialling(j)
    /\ \A i, j \in Conns : Cleaning(i) /\ Cleaning(j) => i = j
    /\ \A i \in Conns : ~(recv[i] \in CleaningUp /\ health[i] = "clean")
    /\ \A i, j \in Conns : Redialling(i) /\ Redialling(j) => i = j

(* A reconnect works for the last connection, which it found closed, and   *)
(* starts the loops of the next one.                                       *)
RedialOK ==
    \A i \in Conns :
        /\ rec[i] \in Dialling => i = conns /\ open = {}
        /\ rec[i] = "mark" => conns = i + 1
        /\ rec[i] = "spawn" => i < conns

(* The health loop of the last connection is there or about to be started, *)
(* and does not depend on the context of Connect's caller once that has    *)
(* been replaced.                                                          *)
WatchOK ==
    /\ callerDone /\ ~ctxDone => ctxOwn
    /\ connected /\ ctxOwn => conns >= 2
    /\ connected /\ ~ctxDone =>
          \/ health[conns] \in {"sel", "lost"}
          \/ conns >= 2 /\ rec[conns - 1] = "spawn"

IInv ==
    /\ TypeOK
    /\ ConnectOK
    /\ TokenOK
    /\ RedialOK
    /\ AtMostOneConnection
    /\ WatchOK

-----------------------------------------------------------------------------
(* TypeOK, in parts of a size for the provers.                             *)
LoopTypes ==
    /\ recv \in [Conns -> {"off", "top", "recv", "got", "evict", "push", "lost",
                           "clean", "exit", "last"}]
    /\ reads \in [Conns -> 0..MaxConns]
    /\ health \in [Conns -> {"off", "sel", "lost", "clean"}]

RecTypes ==
    /\ rec \in [Conns -> {"off", "check", "wait", "fired", "dial", "mark", "spawn"}]
    /\ attempt \in [Conns -> Nat]

LinkTypes ==
    /\ broken \subseteq Conns /\ outages \in 0..MaxOutages
    /\ conns \in 0..MaxConns /\ conn \in 0..MaxConns /\ open \subseteq Conns

FlagTypes ==
    /\ serverUp \in BOOLEAN /\ connected \in BOOLEAN /\ closed \in BOOLEAN
    /\ ctxDone \in BOOLEAN /\ ctxOwn \in BOOLEAN /\ stale \in BOOLEAN
    /\ chanOpen \in BOOLEAN /\ panicked \in BOOLEAN /\ callerDone \in BOOLEAN

CallTypes ==
    /\ maxReconnects \in MaxReconnects /\ blocks \in 0..BlockCap
    /\ caller \in {"idle", "dial", "spawn", "mark", "up"}
    /\ closer \in {"no", "cancel", "wait", "done"}

(* The parts are the whole, now and after a step.                          *)
LEMMA TypeParts ==
    /\ TypeOK <=> LoopTypes /\ RecTypes /\ LinkTypes /\ FlagTypes /\ CallTypes
    /\ TypeOK' <=> LoopTypes' /\ RecTypes' /\ LinkTypes' /\ FlagTypes' /\ CallTypes'
<1>. USE DEF LoopTypes, RecTypes, LinkTypes, FlagTypes, CallTypes
<1>1. TypeOK => LoopTypes /\ RecTypes /\ LinkTypes /\ FlagTypes /\ CallTypes
  BY Zenon DEF TypeOK
<1>2. LoopTypes /\ RecTypes /\ LinkTypes /\ FlagTypes /\ CallTypes => TypeOK
  BY Zenon DEF TypeOK
<1>. QED  BY <1>1, <1>2, PTL

(* The loops and the connection each receive loop reads.                   *)
LEMMA LoopStep ==
    ASSUME LoopTypes, LinkTypes, [Next]_vars
    PROVE  LoopTypes'
<1>. USE DEF LoopTypes,
         serverVars, linkVars, ctxVars, chanVars, callVars, recvVars, recVars
<1>1. CASE Outage \/ Recover \/ GoStale \/ Consume \/ CallerCancels \/ BeginClose
           \/ Close \/ UNCHANGED vars
  BY <1>1 DEF Outage, Recover, GoStale, Consume, CallerCancels, BeginClose, Close,
              CloseCancels, CloseFinishes, closeFrame, vars
<1>2. CASE Connect
  BY <1>2 DEF Connect, ConnectBegin, ConnectDials, ConnectFails, ConnectSpawns,
              ConnectMarks, StartLoops
<1>3. CASE \E i \in Conns : ReceiveLoop(i)
  <2>. DEFINE Pcs == {"off", "top", "recv", "got", "evict", "push", "lost", "clean",
                      "exit", "last"}
  <2>. PICK i \in Conns : ReceiveLoop(i)
    BY <1>3
  <2>. USE DEF ReceiveLoop, RecvTop, RecvUpdate, RecvFails, Send, Evict, Push,
               RecvDisconnects, RecvCleans
  <2>1. UNCHANGED health
    BY DEF recvFrame
  <2>2. \E p \in Pcs : recv' = [recv EXCEPT ![i] = p]
    BY DEF Deliver, TakeDown
  <2>3. UNCHANGED reads \/ \E k \in 0..MaxConns : reads' = [reads EXCEPT ![i] = k]
    BY ClientAssumption DEF LinkTypes
  <2>. QED  BY <2>1, <2>2, <2>3
<1>4. CASE \E i \in Conns : HealthLoop(i)
  BY <1>4 DEF HealthLoop, HealthEnds, HealthTick, HealthDisconnects, HealthCleans,
              healthFrame, TakeDown
<1>5. CASE \E i \in Conns : Reconnect(i)
  BY <1>5 DEF Reconnect, RecChecks, RecWaits, RecRenews, RecDials, RecMarks, RecSpawns,
              recFrame, StartLoops
<1>. QED  BY <1>1, <1>2, <1>3, <1>4, <1>5 DEF Next

(* The reconnects.                                                         *)
LEMMA RecStep ==
    ASSUME RecTypes, [Next]_vars
    PROVE  RecTypes'
<1>. USE DEF RecTypes,
         serverVars, linkVars, ctxVars, chanVars, callVars, recvVars, recVars
<1>1. CASE Outage \/ Recover \/ GoStale \/ Consume \/ CallerCancels \/ BeginClose
           \/ Close \/ UNCHANGED vars
  BY <1>1 DEF Outage, Recover, GoStale, Consume, CallerCancels, BeginClose, Close,
              CloseCancels, CloseFinishes, closeFrame, vars
<1>2. CASE Connect
  BY <1>2 DEF Connect, ConnectBegin, ConnectDials, ConnectFails, ConnectSpawns,
              ConnectMarks
<1>3. CASE \E i \in Conns : ReceiveLoop(i)
  BY <1>3 DEF ReceiveLoop, RecvTop, RecvUpdate, RecvFails, Send, Evict, Push,
              RecvDisconnects, RecvCleans, recvFrame, CleanUp
<1>4. CASE \E i \in Conns : HealthLoop(i)
  BY <1>4 DEF HealthLoop, HealthEnds, HealthTick, HealthDisconnects, HealthCleans,
              healthFrame, CleanUp
<1>5. CASE \E i \in Conns : Reconnect(i)
  BY <1>5 DEF Reconnect, RecChecks, RecWaits, RecRenews, RecDials, RecMarks, RecSpawns,
              recFrame
<1>. QED  BY <1>1, <1>2, <1>3, <1>4, <1>5 DEF Next

(* The connections: no more are made than the server accepts.              *)
LEMMA LinkStep ==
    ASSUME LinkTypes, [Next]_vars
    PROVE  LinkTypes'
<1>. USE ClientAssumption DEF LinkTypes,
         serverVars, linkVars, ctxVars, chanVars, callVars, recvVars, recVars
<1>1. CASE Outage \/ Recover \/ GoStale \/ Consume \/ CallerCancels \/ BeginClose
           \/ Close \/ UNCHANGED vars
  BY <1>1 DEF Outage, Recover, GoStale, Consume, CallerCancels, BeginClose, Close,
              CloseCancels, CloseFinishes, closeFrame, vars
<1>2. CASE Connect
  <2>1. CASE ConnectDials
    BY <2>1 DEF ConnectDials, DialSucceeds, Accepts, Conns
  <2>. QED  BY <1>2, <2>1 DEF Connect, ConnectBegin, ConnectFails, ConnectSpawns,
                          ConnectMarks, DialFails
<1>3. CASE \E i \in Conns : ReceiveLoop(i)
  BY <1>3 DEF ReceiveLoop, RecvTop, RecvUpdate, RecvFails, Send, Evict, Push,
              RecvDisconnects, RecvCleans, recvFrame, CleanUp
<1>4. CASE \E i \in Conns : HealthLoop(i)
  BY <1>4 DEF HealthLoop, HealthEnds, HealthTick, HealthDisconnects, HealthCleans,
              healthFrame, CleanUp
<1>5. CASE \E i \in Conns : Reconnect(i)
  BY <1>5 DEF Reconnect, RecChecks, RecWaits, RecRenews, RecDials, RecMarks, RecSpawns,
              recFrame, DialSucceeds,
              DialFails, Accepts, Conns
<1>. QED  BY <1>1, <1>2, <1>3, <1>4, <1>5 DEF Next

(* The flags.                                                              *)
LEMMA FlagStep ==
    ASSUME FlagTypes, [Next]_vars
    PROVE  FlagTypes'
<1>. USE DEF FlagTypes,
         serverVars, linkVars, ctxVars, chanVars, callVars, recvVars, recVars
<1>1. CASE Outage \/ Recover \/ GoStale \/ Consume \/ CallerCancels \/ BeginClose
           \/ Close \/ UNCHANGED vars
  BY ZenonT(30), <1>1 DEF Outage, Recover, GoStale, Consume, CallerCancels, BeginClose, Close,
              CloseCancels, CloseFinishes, closeFrame, vars
<1>2. CASE Connect
  BY <1>2 DEF Connect, ConnectBegin, ConnectDials, ConnectFails, ConnectSpawns,
              ConnectMarks
<1>3. CASE \E i \in Conns : ReceiveLoop(i)
  <2>. PICK i \in Conns : ReceiveLoop(i)
    BY <1>3
  <2>1. CASE RecvDisconnects(i)
    BY <2>1 DEF RecvDisconnects, TakeDown, recvFrame
  <2>2. CASE Send(i) \/ Push(i)
    BY <2>2 DEF Send, Push, Deliver, recvFrame
  <2>. QED  BY <2>1, <2>2 DEF ReceiveLoop, RecvTop, RecvUpdate, RecvFails, Evict,
                              RecvCleans, recvFrame
<1>4. CASE \E i \in Conns : HealthLoop(i)
  BY <1>4 DEF HealthLoop, HealthEnds, HealthTick, HealthDisconnects, HealthCleans,
              healthFrame, TakeDown
<1>5. CASE \E i \in Conns : Reconnect(i)
  BY <1>5 DEF Reconnect, RecChecks, RecWaits, RecRenews, RecDials, RecMarks, RecSpawns,
              recFrame
<1>. QED  BY <1>1, <1>2, <1>3, <1>4, <1>5 DEF Next

(* The callers and the channel, which never holds more than it can.         *)
LEMMA CallStep ==
    ASSUME CallTypes, [Next]_vars
    PROVE  CallTypes'
<1>. USE ClientAssumption DEF CallTypes,
         serverVars, linkVars, ctxVars, chanVars, callVars, recvVars, recVars
<1>1. CASE Outage \/ Recover \/ GoStale \/ Consume \/ CallerCancels \/ BeginClose
           \/ Close \/ UNCHANGED vars
  BY <1>1 DEF Outage, Recover, GoStale, Consume, CallerCancels, BeginClose, Close,
              CloseCancels, CloseFinishes, closeFrame, vars
<1>2. CASE Connect
  BY <1>2 DEF Connect, ConnectBegin, ConnectDials, ConnectFails, ConnectSpawns,
              ConnectMarks
<1>3. CASE \E i \in Conns : ReceiveLoop(i)
  BY <1>3 DEF ReceiveLoop, RecvTop, RecvUpdate, RecvFails, Send, Evict, Push,
              RecvDisconnects, RecvCleans, recvFrame, Deliver
<1>4. CASE \E i \in Conns : HealthLoop(i)
  BY <1>4 DEF HealthLoop, HealthEnds, HealthTick, HealthDisconnects, HealthCleans,
              healthFrame
<1>5. CASE \E i \in Conns : Reconnect(i)
  BY <1>5 DEF Reconnect, RecChecks, RecWaits, RecRenews, RecDials, RecMarks, RecSpawns,
              recFrame
<1>. QED  BY <1>1, <1>2, <1>3, <1>4, <1>5 DEF Next

(* Every step keeps the types.                                             *)
LEMMA TypeStep == TypeOK /\ [Next]_vars => TypeOK'
BY TypeParts, LoopStep, RecStep, LinkStep, FlagStep, CallStep

-----------------------------------------------------------------------------
(* Connect runs alone: the others start with what it made.                 *)
LEMMA ConnectStep ==
    ASSUME TypeOK, ConnectOK, [Next]_vars
    PROVE  ConnectOK'
<1>0. LoopTypes /\ RecTypes /\ LinkTypes
  BY TypeParts
<1>. USE <1>0, ClientAssumption
     DEF LoopTypes, RecTypes, LinkTypes, Conns, ConnectOK, Cleaning, CleaningUp,
         serverVars, linkVars, ctxVars, chanVars, callVars, recvVars, recVars
<1>1. CASE Outage \/ Recover \/ GoStale \/ Consume \/ CallerCancels \/ BeginClose
           \/ Close \/ UNCHANGED vars
  <2>. USE <1>1 DEF Outage, Recover, GoStale, Consume, CallerCancels, BeginClose, Close,
                    CloseCancels, CloseFinishes, closeFrame, vars
  <2>1. UNCHANGED <<connected, conns, conn, caller, recv, health, rec>>
    OBVIOUS
  <2>2. open' \subseteq open
    OBVIOUS
  <2>3. caller # "up" => UNCHANGED <<callerDone, closer, ctxVars>>
    OBVIOUS
  <2>. HIDE <1>1, <1>0, ClientAssumption
  <2>. QED  BY <2>1, <2>2, <2>3
<1>2. CASE Connect
  <2>1. CASE ConnectBegin
    BY <2>1 DEF ConnectBegin
  <2>2. CASE ConnectDials
    BY <2>2 DEF ConnectDials, DialSucceeds
  <2>3. CASE ConnectFails
    BY <2>3 DEF ConnectFails, DialFails
  <2>4. CASE ConnectSpawns
    BY <2>4 DEF ConnectSpawns, StartLoops
  <2>5. CASE ConnectMarks
    BY <2>5 DEF ConnectMarks
  <2>. QED  BY <1>2, <2>1, <2>2, <2>3, <2>4, <2>5 DEF Connect
<1>3. CASE \E i \in Conns : ReceiveLoop(i)
  <2>. USE <1>3 DEF ReceiveLoop, RecvTop, RecvUpdate, RecvFails, Send, Evict, Push,
                    RecvDisconnects, RecvCleans
  <2>1. UNCHANGED <<conns, conn, ctxVars, callVars, health>>
    BY DEF recvFrame
  <2>2. caller # "up" => UNCHANGED <<connected, open, rec>>
    BY DEF TakeDown
  <2>3. caller # "up" => \A j \in Conns : recv'[j] \notin CleaningUp
    BY SMTT(30) DEF Deliver, TakeDown
  <2>. HIDE <1>3, <1>0, ClientAssumption
  <2>. QED  BY <2>1, <2>2, <2>3
<1>4. CASE \E i \in Conns : HealthLoop(i)
  <2>. USE <1>4 DEF HealthLoop, HealthEnds, HealthTick, HealthDisconnects, HealthCleans
  <2>1. UNCHANGED <<conns, conn, ctxVars, callVars, recv>>
    BY DEF healthFrame
  <2>2. caller # "up" => UNCHANGED <<connected, open, rec>>
    BY DEF TakeDown
  <2>3. caller # "up" => \A j \in Conns : health'[j] # "clean"
    BY DEF TakeDown
  <2>4. caller = "mark" => health'[conns] = "sel"
    BY DEF TakeDown
  <2>. HIDE <1>4, <1>0, ClientAssumption
  <2>. QED  BY <2>1, <2>2, <2>3, <2>4
<1>5. CASE \E i \in Conns : Reconnect(i)
  <2>. USE <1>5 DEF Reconnect, RecChecks, RecWaits, RecRenews, RecDials, RecMarks, RecSpawns
  <2>1. caller = "up" /\ UNCHANGED caller
    BY DEF recFrame
  <2>2. conn' = conns' /\ conns' >= 1
    BY DEF DialSucceeds, DialFails
  <2>. HIDE <1>5, <1>0, ClientAssumption
  <2>. QED  BY <2>1, <2>2
<1>. QED  BY <1>1, <1>2, <1>3, <1>4, <1>5 DEF Next

(* The token is taken, handed on or given back, never copied.              *)
LEMMA TokenStep ==
    ASSUME TypeOK, ConnectOK, TokenOK, [Next]_vars
    PROVE  TokenOK'
<1>. USE DEF TypeOK, Cleaning, CleaningUp, Redialling, Dialling,
             serverVars, linkVars, ctxVars, chanVars, callVars, recvVars, recVars
<1>1. ASSUME UNCHANGED connected,
             \A j \in Conns : /\ recv'[j] \in CleaningUp => recv[j] \in CleaningUp
                              /\ health'[j] = "clean" => health[j] = "clean"
                              /\ Redialling(j)' => Redialling(j)
      PROVE  TokenOK'
  BY <1>1 DEF TokenOK
<1>2. CASE Outage \/ Recover \/ GoStale \/ Consume \/ CallerCancels \/ BeginClose
           \/ Close \/ UNCHANGED vars
  BY <1>1, <1>2 DEF Outage, Recover, GoStale, Consume, CallerCancels, BeginClose, Close,
                    CloseCancels, CloseFinishes, closeFrame, vars
<1>3. CASE ConnectBegin \/ ConnectDials \/ ConnectFails \/ ConnectSpawns
  BY <1>1, <1>3 DEF ConnectBegin, ConnectDials, ConnectFails, ConnectSpawns, StartLoops
<1>4. CASE ConnectMarks
  BY <1>4 DEF ConnectMarks, ConnectOK, TokenOK
<1>5. CASE \E i \in Conns : RecvTop(i) \/ RecvUpdate(i) \/ RecvFails(i) \/ Send(i)
                           \/ Evict(i) \/ Push(i)
  <2>1. UNCHANGED <<connected, health, rec>>
    BY <1>5 DEF RecvTop, RecvUpdate, RecvFails, Send, Evict, Push, recvFrame
  <2>2. \A j \in Conns : recv'[j] \in CleaningUp => recv[j] \in CleaningUp
    BY <1>5 DEF RecvTop, RecvUpdate, RecvFails, Send, Evict, Push, Deliver
  <2>. QED  BY <1>1, <2>1, <2>2
<1>6. CASE \E i \in Conns : RecvDisconnects(i)
  BY <1>6 DEF RecvDisconnects, TakeDown, recvFrame, TokenOK
<1>7. CASE \E i \in Conns : RecvCleans(i)
  BY <1>7 DEF RecvCleans, CleanUp, recvFrame, TokenOK
<1>8. CASE \E i \in Conns : HealthEnds(i) \/ HealthTick(i)
  BY <1>1, <1>8 DEF HealthEnds, HealthTick, healthFrame
<1>9. CASE \E i \in Conns : HealthDisconnects(i)
  BY <1>9 DEF HealthDisconnects, TakeDown, healthFrame, TokenOK
<1>10. CASE \E i \in Conns : HealthCleans(i)
  BY <1>10 DEF HealthCleans, CleanUp, healthFrame, TokenOK
<1>11. CASE \E i \in Conns : RecChecks(i) \/ RecWaits(i) \/ RecRenews(i) \/ RecDials(i)
  BY <1>1, <1>11 DEF RecChecks, RecWaits, RecRenews, RecDials, recFrame
<1>12. CASE \E i \in Conns : RecMarks(i)
  BY <1>12 DEF RecMarks, recFrame, TokenOK
<1>13. CASE \E i \in Conns : RecSpawns(i)
  BY <1>1, <1>13 DEF RecSpawns, StartLoops, recFrame
<1>. QED
  BY <1>2, <1>3, <1>4, <1>5, <1>6, <1>7, <1>8, <1>9, <1>10, <1>11, <1>12, <1>13
     DEF Next, Connect, ReceiveLoop, HealthLoop, Reconnect

(* Whoever replaces a connection found none open.                          *)
LEMMA RedialStep ==
    ASSUME TypeOK, ConnectOK, TokenOK, RedialOK, AtMostOneConnection, [Next]_vars
    PROVE  RedialOK' /\ AtMostOneConnection'
<1>0. LoopTypes /\ RecTypes /\ LinkTypes
  BY TypeParts
<1>. USE <1>0, ClientAssumption
     DEF LoopTypes, RecTypes, LinkTypes, Conns, RedialOK, AtMostOneConnection, Cleaning, CleaningUp, Redialling,
         Dialling, serverVars, linkVars, ctxVars, chanVars, callVars, recvVars, recVars
<1>1. conn = conns
  BY DEF ConnectOK
<1>2. ASSUME UNCHANGED <<conns, conn, rec>>, open' \subseteq open
      PROVE  RedialOK' /\ AtMostOneConnection'
  BY <1>2
<1>3. CASE Outage \/ Recover \/ GoStale \/ Consume \/ CallerCancels \/ BeginClose
           \/ Close \/ UNCHANGED vars
  BY <1>2, <1>3 DEF Outage, Recover, GoStale, Consume, CallerCancels, BeginClose, Close,
                    CloseCancels, CloseFinishes, closeFrame, vars
<1>4. CASE ConnectDials
  BY <1>4 DEF ConnectDials, DialSucceeds, ConnectOK
<1>5. CASE ConnectBegin \/ ConnectFails \/ ConnectSpawns \/ ConnectMarks
  BY <1>2, <1>5 DEF ConnectBegin, ConnectFails, ConnectSpawns, ConnectMarks, DialFails
<1>6. CASE \E i \in Conns : RecvTop(i) \/ RecvUpdate(i) \/ RecvFails(i) \/ Send(i)
                           \/ Evict(i) \/ Push(i) \/ RecvDisconnects(i)
  BY <1>2, <1>6 DEF RecvTop, RecvUpdate, RecvFails, Send, Evict, Push, RecvDisconnects,
                    recvFrame
<1>7. CASE CleanUp /\ UNCHANGED <<conns, conn>> /\ \E i \in Conns : Cleaning(i)
  BY <1>1, <1>7 DEF CleanUp, TokenOK
<1>8. CASE \E i \in Conns : RecvCleans(i) \/ HealthCleans(i)
  BY <1>7, <1>8 DEF RecvCleans, HealthCleans, recvFrame, healthFrame
<1>9. CASE \E i \in Conns : HealthEnds(i) \/ HealthTick(i) \/ HealthDisconnects(i)
  BY <1>2, <1>9 DEF HealthEnds, HealthTick, HealthDisconnects, healthFrame
<1>10. CASE \E i \in Conns : RecChecks(i) \/ RecWaits(i) \/ RecRenews(i) \/ RecMarks(i)
                            \/ RecSpawns(i)
  <2>1. UNCHANGED <<conns, conn, open>>
    BY <1>10 DEF RecChecks, RecWaits, RecRenews, RecMarks, RecSpawns, recFrame
  <2>2. \A j \in Conns :
           /\ rec'[j] \in Dialling => rec[j] \in Dialling
           /\ rec'[j] = "mark" => rec[j] = "mark"
           /\ rec'[j] = "spawn" => rec[j] \in {"mark", "spawn"}
    BY SMTT(30), <1>10 DEF RecChecks, RecWaits, RecRenews, RecMarks, RecSpawns
  <2>. HIDE DEF LoopTypes, RecTypes
  <2>. QED  BY <2>1, <2>2
<1>11. CASE \E i \in Conns : RecDials(i)
  <2>. PICK i \in Conns : RecDials(i)
    BY <1>11
  <2>1. CASE DialSucceeds /\ rec' = [rec EXCEPT ![i] = "mark"]
    BY <2>1 DEF RecDials, DialSucceeds, TokenOK
  <2>2. CASE DialFails /\ rec' = [rec EXCEPT ![i] = "check"]
    BY <2>2 DEF RecDials, DialFails
  <2>. QED  BY <2>1, <2>2 DEF RecDials
<1>. QED
  BY <1>3, <1>4, <1>5, <1>6, <1>8, <1>9, <1>10, <1>11
     DEF Next, Connect, ReceiveLoop, HealthLoop, Reconnect

(* The connection a client counts on is watched from before it is marked   *)
(* connected until the health loop itself takes the mark away.             *)
LEMMA WatchStep ==
    ASSUME TypeOK, ConnectOK, TokenOK, RedialOK, WatchOK, [Next]_vars
    PROVE  WatchOK'
<1>0. LoopTypes /\ RecTypes /\ LinkTypes
  BY TypeParts
<1>. USE <1>0, ClientAssumption
     DEF LoopTypes, RecTypes, LinkTypes, Conns, WatchOK, Cleaning, Redialling, Dialling,
         serverVars, linkVars, ctxVars, chanVars, callVars, recvVars, recVars
<1>1. CASE Outage \/ Recover \/ GoStale \/ Consume \/ CallerCancels \/ BeginClose
           \/ Close \/ UNCHANGED vars
  <2>. USE <1>1 DEF Outage, Recover, GoStale, Consume, CallerCancels, BeginClose, Close,
                    CloseCancels, CloseFinishes, closeFrame, vars
  <2>1. UNCHANGED <<connected, conns, health, rec, ctxOwn>>
    OBVIOUS
  <2>2. \/ ctxDone'
        \/ UNCHANGED <<ctxDone, callerDone>>
        \/ ctxOwn /\ (ctxDone' => ctxDone) /\ (~ctxDone' => ~ctxDone)
    <3>1. CASE CallerCancels
      BY <3>1
    <3>. QED  BY <3>1
  <2>. HIDE <1>1, <1>0, ClientAssumption
  <2>. QED  BY <2>1, <2>2
<1>2. CASE Connect
  <2>1. CASE ConnectMarks
    BY <2>1 DEF ConnectMarks, ConnectOK
  <2>2. CASE ConnectBegin \/ ConnectDials \/ ConnectFails \/ ConnectSpawns
    BY <2>2 DEF ConnectBegin, ConnectDials, ConnectFails, ConnectSpawns, ConnectOK
  <2>. QED  BY <1>2, <2>1, <2>2 DEF Connect
<1>3. CASE \E i \in Conns : ReceiveLoop(i)
  <2>. PICK i \in Conns : ReceiveLoop(i)
    BY <1>3
  <2>1. UNCHANGED <<conns, ctxVars, callVars, health>>
    BY DEF ReceiveLoop, RecvTop, RecvUpdate, RecvFails, Send, Evict, Push,
           RecvDisconnects, RecvCleans, recvFrame
  <2>2. connected' => connected /\ UNCHANGED rec
    BY DEF ReceiveLoop, RecvTop, RecvUpdate, RecvFails, Send, Evict, Push,
           RecvDisconnects, RecvCleans, TakeDown, CleaningUp, TokenOK
  <2>. QED  BY <2>1, <2>2
<1>4. CASE \E i \in Conns : HealthLoop(i)
  <2>. PICK i \in Conns : HealthLoop(i)
    BY <1>4
  <2>. USE DEF HealthLoop, HealthEnds, HealthTick, HealthDisconnects, HealthCleans
  <2>1. UNCHANGED <<conns, ctxVars, callVars>>
    BY DEF healthFrame
  <2>2. connected' => connected /\ UNCHANGED rec
    BY DEF TakeDown, TokenOK
  <2>3. connected => conns \in Conns
    BY DEF ConnectOK
  <2>4. connected' /\ ~ctxDone /\ health[conns] \in {"sel", "lost"}
          => health'[conns] \in {"sel", "lost"} \/ (callerDone /\ conns = 1)
    BY <2>2, <2>3 DEF TakeDown
  <2>. HIDE <1>0, ClientAssumption
  <2>. QED  BY <2>1, <2>2, <2>4
<1>5. CASE \E i \in Conns : RecChecks(i) \/ RecWaits(i) \/ RecRenews(i) \/ RecDials(i)
  BY <1>5 DEF RecChecks, RecWaits, RecRenews, RecDials, recFrame, TokenOK
<1>6. CASE \E i \in Conns : RecMarks(i)
  BY <1>6 DEF RecMarks, recFrame, RedialOK
<1>7. CASE \E i \in Conns : RecSpawns(i)
  BY <1>7 DEF RecSpawns, StartLoops, recFrame, RedialOK
<1>. QED  BY <1>1, <1>2, <1>3, <1>4, <1>5, <1>6, <1>7 DEF Next, Reconnect

-----------------------------------------------------------------------------
(* The initial state, in which no goroutine runs.                          *)
LEMMA InvInit == Init => IInv
<1>. SUFFICES ASSUME Init PROVE IInv
  OBVIOUS
<1>. USE ClientAssumption DEF Init
<1>1. TypeOK
  <2>1. LoopTypes
    BY DEF LoopTypes
  <2>2. RecTypes /\ LinkTypes
    BY DEF RecTypes, LinkTypes
  <2>3. FlagTypes
    BY DEF FlagTypes
  <2>4. CallTypes
    BY DEF CallTypes
  <2>. QED  BY <2>1, <2>2, <2>3, <2>4, TypeParts
<1>2. ConnectOK /\ RedialOK
  BY DEF ConnectOK, RedialOK, Cleaning, CleaningUp, Dialling
<1>3. TokenOK
  BY DEF TokenOK, Cleaning, CleaningUp, Redialling, Dialling
<1>4. AtMostOneConnection /\ WatchOK
  BY DEF AtMostOneConnection, WatchOK
<1>. QED  BY <1>1, <1>2, <1>3, <1>4 DEF IInv

(* Every step of the client, its callers and the network keeps it.         *)
LEMMA InvStep == IInv /\ [Next]_vars => IInv'
BY TypeStep, ConnectStep, TokenStep, RedialStep, WatchStep DEF IInv

(* The strengthening holds in every reachable state.                       *)
LEMMA InvHolds == Spec => []IInv
BY InvInit, InvStep, PTL DEF Spec

(* The fields and program counters keep their types; the channel never     *)
(* holds more than its capacity.                                           *)
THEOREM TypeCorrect == Spec => []TypeOK
<1>1. IInv => TypeOK
  BY DEF IInv
<1>. QED  BY <1>1, InvHolds, PTL

(* However many loops notice a loss at once, one of them cleans up and one *)
(* reconnect follows: no connection is replaced without being closed.      *)
THEOREM OneConnection == Spec => []AtMostOneConnection
<1>1. IInv => AtMostOneConnection
  BY DEF IInv
<1>. QED  BY <1>1, InvHolds, PTL

(* A client that says it is connected has a health loop, or is about to    *)
(* start one, whichever loops of old connections are still about.          *)
THEOREM Watched == Spec => []ConnectedIsWatched
<1>1. LinkTypes /\ ConnectOK /\ WatchOK => ConnectedIsWatched
  BY ClientAssumption DEF LinkTypes, Conns, ConnectOK, WatchOK, ConnectedIsWatched
<1>2. IInv => ConnectedIsWatched
  BY <1>1, TypeParts DEF IInv
<1>. QED  BY <1>2, InvHolds, PTL
=============================================================================
